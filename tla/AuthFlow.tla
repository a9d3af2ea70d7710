------------------------------ MODULE AuthFlow ------------------------------
(***************************************************************************)
(* cmd/authclient/authclient.go and cmd/callback/callback.go around the     *)
(* authorization server: a browser that was redirected shows the code on    *)
(* the callback page, somebody types a code at the client's prompt, and the *)
(* client posts it to /token and asks for /resource with the token.  A      *)
(* client is the exchange it posts; the other exchanges are other programs. *)
(***************************************************************************)
EXTENDS AuthServer

CONSTANTS Clients,
          IdTokens  \* the tokens that Dex's verifier accepts

ASSUME ClientsAssumption == Clients \subseteq Exchanges /\ NoToken \notin IdTokens

VARIABLES client,  \* client[c]: where main of client c is; "typed": it posted a shown code,
                   \* "guessed": one that no page showed
          shown    \* the codes on callback pages

flowVars == <<vars, client, shown>>

FlowInit == Init /\ client = [c \in Clients |-> "prompt"] /\ shown = {}

Become(c, from, to) == client[c] \in from /\ client' = [client EXCEPT ![c] = to]

-----------------------------------------------------------------------------

\* The browser follows the redirect; its code is never empty.
CallbackPage(g) ==
  /\ reply[g] = 302 /\ shown' = shown \cup {code[g]}
  /\ UNCHANGED <<vars, client>>

\* Scanln and PostForm: the post reaches the server, with the right form but
\* for the code, or fails.
PostCode(c, k) ==
  /\ Become(c, {"prompt"}, IF k \in shown THEN "typed" ELSE "guessed")
  /\ PresentCode(c, k) /\ UNCHANGED shown

ConnectionFails(c) ==
  /\ Become(c, {"prompt", "typed", "guessed", "token"}, "disconnected")
  /\ UNCHANGED <<vars, shown>>

getAccessToken(c) ==
  /\ reply[c] # 0
  /\ Become(c, {"typed", "guessed"}, IF reply[c] = 200 THEN "token" ELSE "fatal")
  /\ UNCHANGED <<vars, shown>>

\* The statuses of cmd/resource for a GET of path with "Bearer " and query as the
\* parameter token (NoToken: without it).  Verify takes ID tokens of
\* Dex only, and their claims may fail to decode.
ResourceStatuses(path, query) ==
  CASE path # "/protected" -> {404}
    [] path = "/protected" /\ query \notin IdTokens -> {401}
    [] OTHER -> {200, 500}

\* The client's token goes into a header, so the query has none.
getProtectedResource(c) ==
  /\ \E status \in ResourceStatuses("/resource", NoToken) :
       Become(c, {"token"}, IF status = 200 THEN "done" ELSE "fatal")
  /\ UNCHANGED <<vars, shown>>

FlowNext ==
  \/ (\E g \in Grants : AuthorizeHandler(g)) /\ UNCHANGED <<client, shown>>
  \/ (\E x \in Exchanges : (x \in Clients => pc[x] # "new") /\ TokenHandler(x))
       /\ UNCHANGED <<client, shown>>
  \/ \E g \in Grants : CallbackPage(g)
  \/ \E c \in Clients :
       \/ \E k \in Codes : PostCode(c, k)
       \/ ConnectionFails(c) \/ getAccessToken(c) \/ getProtectedResource(c)

FlowSpec ==
  /\ FlowInit /\ [][FlowNext]_flowVars /\ Fairness
  /\ \A c \in Clients : WF_flowVars(getAccessToken(c)) /\ WF_flowVars(getProtectedResource(c))

-----------------------------------------------------------------------------
(* Properties *)

\* Whoever types a code that a callback page showed is refused only because
\* somebody has used it: no page shows a code too early, and a wrong code
\* destroys no other (auth.go:54-68, 92-101, callback.go:11-17).
RefusedOnlyIfSpent ==
  \A c \in Clients :
    (client[c] = "typed" /\ reply[c] = 400) => Redeemers(code[c]) # {}

\* "Step 3: access the protected resource with the access token"
\* (authclient.go:38): a client that has a token gets there, unless a
\* connection fails.
ResourceReached ==
  \A c \in Clients : (client[c] = "token") ~> (client[c] \in {"done", "disconnected"})
=============================================================================
