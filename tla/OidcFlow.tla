------------------------------ MODULE OidcFlow ------------------------------
(***************************************************************************)
(* cmd/oauth/server/server.go (:8081), cmd/oauth/client/client.go (:8090)   *)
(* and cmd/resource/resource.go (:8082), which leave the login to Dex.  Dex *)
(* gives a code for each login, buys it back once, and hands out an access  *)
(* token with an ID token.  The server's callback checks the ID token and   *)
(* sends the browser to /protected with the access token, which is verified *)
(* there as if it were an ID token; the client's puts it into a cookie.     *)
(***************************************************************************)
EXTENDS Naturals, FiniteSets

CONSTANTS Visits,     \* the requests that reach the two servers
          DexCodes,   \* the codes Dex may issue; a token is named by its code
          NoDexCode   \* no code, or a token Dex never issued

ASSUME OidcAssumption == NoDexCode \notin DexCodes

VARIABLES up,        \* the servers that run
          issued,    \* codes Dex issued and has not bought back
          spent,     \* codes Dex has bought back
          readable,  \* access tokens that the ID token verifier accepts
          at,        \* at[r]: where request r is
          held,      \* held[r]: its code, or the token it presents
          status,    \* status[r]: the HTTP status sent, 0 before that
          cookies,   \* requests whose answer set the cookie access_token
          served     \* requests that the handler of /protected has answered

oidcVars == <<up, issued, spent, readable, at, held, status, cookies, served>>
dexVars == <<issued, spent, readable>>
answers == <<cookies, served>>

OidcTypeOK ==
  /\ up \subseteq {"server", "client", "resource"}
  /\ issued \subseteq DexCodes /\ readable \subseteq spent /\ spent \subseteq DexCodes
  /\ at \in [Visits -> {"new", "auth", "callback", "token", "exchange", "idToken",
                      "protected", "claims", "user", "done"}]
  /\ held \in [Visits -> DexCodes \cup {NoDexCode}]
  /\ status \in [Visits -> {0, 200, 204, 302, 400, 401, 500}]
  /\ cookies \subseteq Visits /\ served \subseteq Visits

OidcInit ==
  /\ up = {} /\ issued = {} /\ spent = {} /\ readable = {}
  /\ cookies = {} /\ served = {}
  /\ at = [r \in Visits |-> "new"]
  /\ held = [r \in Visits |-> NoDexCode]
  /\ status = [r \in Visits |-> 0]

Pass(r, from, to) == at[r] = from /\ at' = [at EXCEPT ![r] = to] /\ UNCHANGED status

Reply(r, from, s) ==
  /\ at[r] = from
  /\ at' = [at EXCEPT ![r] = "done"]
  /\ status' = [status EXCEPT ![r] = s]

-----------------------------------------------------------------------------
\* main: server and resource end when they cannot reach Dex (log.Fatalf).
StartServer(s) ==
  /\ s \notin up
  /\ up' = up \cup {s}
  /\ UNCHANGED <<dexVars, at, held, status, answers>>

\* Cors: a preflight is answered before any handler.
Preflight(r) ==
  /\ up \cap {"server", "resource"} # {}
  /\ Reply(r, "new", 204)
  /\ UNCHANGED <<up, dexVars, held, answers>>

\* The browser is sent to Dex, which may let the user log in.
ToDex(r) ==
  /\ at[r] = "new" /\ at' = [at EXCEPT ![r] = "auth"]
  /\ status' = [status EXCEPT ![r] = 302]
  /\ UNCHANGED <<up, dexVars, held, answers>>

HandleAuth(r) == "server" \in up /\ ToDex(r)

\* loginHandler of the client.
LoginHandler(r) == "client" \in up /\ ToDex(r)

\* Login: the browser is sent to the root of Dex, where no login begins.
Login(r) ==
  /\ "server" \in up
  /\ Reply(r, "new", 302)
  /\ UNCHANGED <<up, dexVars, held, answers>>

\* Dex: the user has logged in, and the code is in the browser.
DexLogin(r, k) ==
  /\ Reply(r, "auth", 302)
  /\ k \notin issued \cup spent
  /\ issued' = issued \cup {k}
  /\ UNCHANGED <<up, spent, readable, held, answers>>

\* A request with a code that some browser has; a page may be loaded again.
Present(r, handler, k) ==
  /\ (IF handler = "exchange" THEN "client" ELSE "server") \in up
  /\ Pass(r, "new", handler)
  /\ held' = [held EXCEPT ![r] = k]
  /\ UNCHANGED <<up, dexVars, answers>>

\* No code, a body that cannot be bound, or another grant type.
BadRequest(r) ==
  /\ up \cap {"server", "client"} # {}
  /\ Reply(r, "new", 400)
  /\ UNCHANGED <<up, dexVars, held, answers>>

\* Dex buys a code back.  Whether the verifier will take the access token for an
\* ID token is up to Dex.
Buy(k, isIdToken) ==
  /\ k \in issued
  /\ issued' = issued \ {k} /\ spent' = spent \cup {k}
  /\ readable' = IF isIdToken THEN readable \cup {k} ELSE readable

\* handleCallback and handleToken: Exchange succeeds.
Exchange(r, isIdToken) ==
  /\ Buy(held[r], isIdToken)
  /\ Reply(r, "token", 200) \/ Pass(r, "callback", "idToken")
  /\ UNCHANGED <<up, held, answers>>

\* callbackHandler of the client: the same, with the token set as a cookie.
ExchangeForCookie(r, isIdToken) ==
  /\ Buy(held[r], isIdToken)
  /\ Reply(r, "exchange", 302) /\ cookies' = cookies \cup {r}
  /\ UNCHANGED <<up, held, served>>

\* Dex refuses the code or cannot be reached, or its answer is lost after it
\* has bought the code.
ExchangeFails(r) ==
  /\ Reply(r, "token", 500) \/ Reply(r, "callback", 500) \/ Reply(r, "exchange", 400)
  /\ \/ UNCHANGED <<issued, spent>>
     \/ /\ held[r] \in issued
        /\ issued' = issued \ {held[r]}
        /\ spent' = spent \cup {held[r]}
  /\ UNCHANGED <<up, readable, held, answers>>

\* handleCallback: the ID token is missing, or does not verify.
RefuseIdToken(r) ==
  /\ Reply(r, "idToken", 500)
  /\ UNCHANGED <<up, dexVars, held, answers>>

\* The redirect to /protected, with the access token in the query.
ToResource(r) ==
  /\ Reply(r, "idToken", 302)
  /\ UNCHANGED <<up, dexVars, held, answers>>

\* A browser asks for /protected with a token it was given, or another one.
AskProtected(r, k) ==
  /\ "resource" \in up
  /\ k # NoDexCode => \E q \in Visits : held[q] = k /\ at[q] = "done" /\ status[q] \in {200, 302}
  /\ Pass(r, "new", "protected")
  /\ held' = [held EXCEPT ![r] = k]
  /\ UNCHANGED <<up, dexVars, answers>>

\* verifyTokenMiddleware: no Bearer prefix, or Verify fails.
RefuseToken(r) ==
  /\ Reply(r, "protected", 401)
  /\ UNCHANGED <<up, dexVars, held, answers>>

Verify(r) ==
  /\ held[r] \in readable
  /\ Pass(r, "protected", "claims")
  /\ UNCHANGED <<up, dexVars, held, answers>>

\* The claims are decoded, or they are not.
Serve(r) ==
  /\ \/ Reply(r, "claims", 200) /\ served' = served \cup {r}
     \/ Reply(r, "claims", 500) /\ UNCHANGED served
  /\ UNCHANGED <<up, dexVars, held, cookies>>

\* userHandler of the client: without a cookie, the way to /login.
UserHandler(r) ==
  /\ "client" \in up
  /\ Reply(r, "new", 302) \/ (cookies # {} /\ Pass(r, "new", "user"))
  /\ UNCHANGED <<up, dexVars, held, answers>>

\* The answer of :8081 is passed on with status 200 whatever its own: there is
\* no /user, so it is "not found".  http.Get or ReadAll may fail.
RelayUser(r) ==
  /\ Reply(r, "user", 400) \/ ("server" \in up /\ Reply(r, "user", 200))
  /\ UNCHANGED <<up, dexVars, held, answers>>

OidcNext ==
  \/ \E s \in {"server", "client", "resource"} : StartServer(s)
  \/ \E r \in Visits :
       \/ Preflight(r) \/ HandleAuth(r) \/ LoginHandler(r) \/ Login(r) \/ BadRequest(r)
       \/ ExchangeFails(r) \/ RefuseIdToken(r) \/ ToResource(r)
       \/ RefuseToken(r) \/ Verify(r) \/ Serve(r)
       \/ UserHandler(r) \/ RelayUser(r)
       \/ \E b \in BOOLEAN : Exchange(r, b) \/ ExchangeForCookie(r, b)
       \/ \E k \in DexCodes : DexLogin(r, k)
       \/ \E k \in issued \cup spent \cup {NoDexCode} :
            AskProtected(r, k) \/ \E h \in {"callback", "token", "exchange"} : Present(r, h, k)

-----------------------------------------------------------------------------
(* Properties *)

\* The requests that turned code k into tokens for their browser.
Buyers(k) == {r \in Visits : held[r] = k /\ r \notin served /\ at[r] = "done" /\ status[r] \in {200, 302}}

\* One login lets in one request: of a callback page loaded twice, and of the
\* callbacks of server and client and a /token request with the same code, at
\* most one is answered with tokens, the others with an error (server.go:79, 129,
\* client.go:26).
OneAnswerPerLogin == \A k \in DexCodes : Cardinality(Buyers(k)) <= 1

\* The protected handler has run only for requests whose token came from a login
\* at Dex that some callback or /token request was answered for, and that the
\* verifier accepts (resource.go:79-84, server.go:101).
ServedVerified ==
  \A r \in served : held[r] \in readable /\ Buyers(held[r]) # {}
=============================================================================
