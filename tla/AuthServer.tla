----------------------------- MODULE AuthServer -----------------------------
(***************************************************************************)
(* cmd/auth/auth.go: the /authorize and /token handlers of the in-memory    *)
(* authorization server.  gin runs a goroutine per request, and they share  *)
(* the maps authCodes and tokens under one mutex.  There is one registered  *)
(* client, so both maps are modelled by their key sets (every value is      *)
(* clientID, and the check storedClientID != clientID never holds).         *)
(* Codes and tokens are drawn at random, so two draws may be equal.         *)
(***************************************************************************)
EXTENDS Naturals, FiniteSets

CONSTANTS Grants,     \* the requests to /authorize
          Exchanges,  \* the requests to /token
          Codes,      \* what generateAuthCode may return
          Tokens,     \* what generateToken may return
          NoCode, NoToken   \* before either is drawn

Requests == Grants \cup Exchanges

ASSUME RequestsAssumption ==
  /\ IsFiniteSet(Grants)
  /\ IsFiniteSet(Exchanges)
  /\ Grants \cap Exchanges = {}
  /\ NoCode \notin Codes
  /\ NoToken \notin Tokens

VARIABLES authCodes,  \* keys of the map authCodes
          tokens,     \* keys of the map tokens
          locked,     \* the mutex
          pc,         \* pc[r]: where the handler of request r is
          code,       \* code[r]: authCode of a grant, form value of an exchange
          token,      \* token[r]: accessToken
          reply       \* reply[r]: the HTTP status sent, 0 before that

vars == <<authCodes, tokens, locked, pc, code, token, reply>>

\* Where an exchange is once it has found its code.
Holding == {"tokenLock", "tokenStore", "respond"}

TypeOK ==
  /\ authCodes \subseteq Codes
  /\ tokens \subseteq Tokens
  /\ locked \in BOOLEAN
  /\ pc \in [Requests -> {"new", "lock", "store", "redirect", "lookupLock", "lookup", "done"} \cup Holding]
  /\ code \in [Requests -> Codes \cup {NoCode}]
  /\ token \in [Requests -> Tokens \cup {NoToken}]
  /\ reply \in [Requests -> {0, 200, 302, 400, 401}]

Init ==
  /\ authCodes = {}
  /\ tokens = {}
  /\ locked = FALSE
  /\ pc = [r \in Requests |-> "new"]
  /\ code = [r \in Requests |-> NoCode]
  /\ token = [r \in Requests |-> NoToken]
  /\ reply = [r \in Requests |-> 0]

Goto(r, from, to) ==
  /\ pc[r] = from
  /\ pc' = [pc EXCEPT ![r] = to]

Answer(r, from, status) ==
  /\ Goto(r, from, "done")
  /\ reply' = [reply EXCEPT ![r] = status]

-----------------------------------------------------------------------------
(* Mutants: handlers as a plausible bug would have them. *)

\* The redirect goes out before the code is stored.
LockForCodeEarlyReply(r) ==
  /\ ~locked
  /\ Goto(r, "lock", "store")
  /\ reply' = [reply EXCEPT ![r] = 302]
  /\ locked' = TRUE
  /\ UNCHANGED <<authCodes, tokens, code, token>>

\* The delete is forgotten.
LookupCodeKeep(r) ==
  /\ IF code[r] \in authCodes
       THEN Goto(r, "lookup", "tokenLock") /\ UNCHANGED reply
       ELSE Answer(r, "lookup", 400)
  /\ locked' = FALSE
  /\ UNCHANGED <<authCodes, tokens, code, token>>

\* A code that is not there is answered before Unlock.
LookupCodeEarlyReturn(r) ==
  /\ IF code[r] \in authCodes
       THEN Goto(r, "lookup", "tokenLock") /\ locked' = FALSE /\ UNCHANGED reply
       ELSE Answer(r, "lookup", 400) /\ UNCHANGED locked
  /\ authCodes' = authCodes \ {code[r]}
  /\ UNCHANGED <<tokens, code, token>>

\* The code is deleted first and looked up after.
LookupCodeDeleteFirst(r) ==
  /\ Answer(r, "lookup", 400)
  /\ authCodes' = authCodes \ {code[r]}
  /\ locked' = FALSE
  /\ UNCHANGED <<tokens, code, token>>

\* The map is keyed by the code.
StoreTokenByCode(r) ==
  /\ Goto(r, "tokenStore", "respond")
  /\ tokens' = tokens \cup {code[r]}
  /\ locked' = FALSE
  /\ UNCHANGED <<authCodes, code, token, reply>>

-----------------------------------------------------------------------------
(* authorizeHandler *)

\* A wrong client_id, redirect_uri or response_type.
RefuseGrant(r) ==
  /\ Answer(r, "new", 400)
  /\ UNCHANGED <<authCodes, tokens, locked, code, token>>

\* The draw of generateAuthCode is any code, also one in use.
GenerateCode(r, k) ==
  /\ Goto(r, "new", "lock")
  /\ code' = [code EXCEPT ![r] = k]
  /\ UNCHANGED <<authCodes, tokens, locked, token, reply>>

LockForCode(r) ==
  /\ ~locked
  /\ Goto(r, "lock", "store")
  /\ locked' = TRUE
  /\ UNCHANGED <<authCodes, tokens, code, token, reply>>

StoreCode(r) ==
  /\ Goto(r, "store", "redirect")
  /\ authCodes' = authCodes \cup {code[r]}
  /\ locked' = FALSE
  /\ UNCHANGED <<tokens, code, token, reply>>

\* url.Parse of the constant redirectURI does not fail.
Redirect(r) ==
  /\ Answer(r, "redirect", 302)
  /\ UNCHANGED <<authCodes, tokens, locked, code, token>>

-----------------------------------------------------------------------------
(* tokenHandler *)

\* A wrong grant_type (400) or wrong client credentials (401).
RefuseExchange(r) ==
  /\ \E status \in {400, 401} : Answer(r, "new", status)
  /\ UNCHANGED <<authCodes, tokens, locked, code, token>>

\* The code is whatever the form holds.
PresentCode(r, k) ==
  /\ Goto(r, "new", "lookupLock")
  /\ code' = [code EXCEPT ![r] = k]
  /\ UNCHANGED <<authCodes, tokens, locked, token, reply>>

LockForLookup(r) ==
  /\ ~locked
  /\ Goto(r, "lookupLock", "lookup")
  /\ locked' = TRUE
  /\ UNCHANGED <<authCodes, tokens, code, token, reply>>

\* The map lookup, the delete of a code that is there, and Unlock; a code that
\* is not there is answered 400.
LookupCode(r) ==
  /\ IF code[r] \in authCodes
       THEN Goto(r, "lookup", "tokenLock") /\ UNCHANGED reply
       ELSE Answer(r, "lookup", 400)
  /\ authCodes' = authCodes \ {code[r]}
  /\ locked' = FALSE
  /\ UNCHANGED <<tokens, code, token>>

LockForToken(r, s) ==
  /\ ~locked
  /\ Goto(r, "tokenLock", "tokenStore")
  /\ token' = [token EXCEPT ![r] = s]
  /\ locked' = TRUE
  /\ UNCHANGED <<authCodes, tokens, code, reply>>

StoreToken(r) ==
  /\ Goto(r, "tokenStore", "respond")
  /\ tokens' = tokens \cup {token[r]}
  /\ locked' = FALSE
  /\ UNCHANGED <<authCodes, code, token, reply>>

Respond(r) ==
  /\ Answer(r, "respond", 200)
  /\ UNCHANGED <<authCodes, tokens, locked, code, token>>

-----------------------------------------------------------------------------
AuthorizeHandler(r) ==
  \/ RefuseGrant(r) \/ \E k \in Codes : GenerateCode(r, k)
  \/ LockForCode(r) \/ StoreCode(r) \/ Redirect(r)

TokenHandler(r) ==
  \/ RefuseExchange(r) \/ \E k \in Codes : PresentCode(r, k)
  \/ LockForLookup(r) \/ LookupCode(r)
  \/ (\E s \in Tokens : LockForToken(r, s)) \/ StoreToken(r) \/ Respond(r)

Next ==
  \/ \E r \in Grants : AuthorizeHandler(r)
  \/ \E r \in Exchanges : TokenHandler(r)

Spec == Init /\ [][Next]_vars

(***************************************************************************)
(* A handler that has begun goes on (WF); one that waits for the mutex gets *)
(* it although others take it in between, as sync.Mutex hands over to its   *)
(* longest waiter (SF).  Nothing makes a request arrive.                    *)
(***************************************************************************)
Fairness ==
  /\ \A r \in Grants :
       /\ SF_vars(LockForCode(r)) /\ WF_vars(StoreCode(r)) /\ WF_vars(Redirect(r))
  /\ \A r \in Exchanges :
       /\ SF_vars(LockForLookup(r)) /\ WF_vars(LookupCode(r))
       /\ SF_vars(\E s \in Tokens : LockForToken(r, s))
       /\ WF_vars(StoreToken(r)) /\ WF_vars(Respond(r))

FairSpec == Spec /\ Fairness

-----------------------------------------------------------------------------
(* Properties *)

\* The grants that put code k in the map.
Issuers(k) == {r \in Grants : code[r] = k /\ pc[r] \in {"redirect", "done"}}

\* The exchanges that took it out.
Redeemers(k) ==
  {r \in Exchanges : code[r] = k /\ (pc[r] \in Holding \/ reply[r] = 200)}

\* The requests inside a critical section.
Critical == {r \in Requests : pc[r] \in {"store", "lookup", "tokenStore"}}

\* Never two handlers at the maps at once (auth.go:54, 92, 106): Go aborts the
\* process on a concurrent map write.
MutualExclusion == \A q, r \in Critical : q = r

\* A code buys no more tokens than it was granted (auth.go:94, "deleted after
\* use"): exchanges that present the same code at once, and grants that drew
\* the same code, never get a token more than there were grants of it.
SingleUse ==
  \A k \in Codes :
    Cardinality(Redeemers(k)) + (IF k \in authCodes THEN 1 ELSE 0)
      <= Cardinality(Issuers(k))

\* A code the browser has been redirected with (auth.go:68) is in the map
\* unless an exchange has taken it: it can be used as soon as it is seen.
GrantUsable ==
  \A r \in Grants :
    reply[r] = 302 => code[r] \in authCodes \/ Redeemers(code[r]) # {}

\* A token that was answered is stored (auth.go:106 before 110).
TokenStored ==
  \A r \in Exchanges : reply[r] = 200 => token[r] \in tokens

\* A code that a browser was redirected with and an exchange presents buys
\* somebody a token: concurrent exchanges do not all lose.
CodeRedeemed ==
  \A g \in Grants, x \in Exchanges :
    (reply[g] = 302 /\ pc[x] = "lookupLock" /\ code[x] = code[g])
      ~> \E y \in Exchanges : code[y] = code[g] /\ reply[y] = 200

\* Every request that reaches the server is answered.
EveryRequestAnswered ==
  \A r \in Requests : (pc[r] # "new") ~> (reply[r] # 0)
=============================================================================
