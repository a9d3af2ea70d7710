-------------------------- MODULE AuthServerProofs --------------------------
(***************************************************************************)
(* What the run auth checks on a small instance, proved for any finite sets *)
(* of concurrent requests and clients and any sets of codes and tokens: of  *)
(* the server alone, and of the server with browsers and clients around it. *)
(***************************************************************************)
EXTENDS AuthFlow, FiniteSetTheorems, TLAPS

\* Each request runs its own handler; what it has drawn, presented or answered
\* goes with how far it has come.
PhaseInv ==
  /\ \A r \in Grants :
       /\ pc[r] \in {"new", "lock", "store", "redirect", "done"}
       /\ pc[r] \in {"lock", "store", "redirect"} => code[r] \in Codes
       /\ reply[r] = 302 => code[r] \in Codes /\ pc[r] = "done"
       /\ reply[r] = 400 => code[r] = NoCode
       /\ reply[r] \in {0, 302, 400}
  /\ \A r \in Exchanges :
       /\ pc[r] \in {"new", "lookupLock", "lookup", "done"} \cup Holding
       /\ pc[r] \in {"lookupLock", "lookup"} \cup Holding => code[r] \in Codes
       /\ pc[r] \in {"tokenStore", "respond"} => token[r] \in Tokens
       /\ reply[r] # 302
  /\ \A r \in Requests :
       /\ pc[r] = "new" => code[r] = NoCode
       /\ reply[r] = 0 <=> pc[r] # "done"

\* The mutex is locked exactly while a handler is at the maps.
LockInv ==
  /\ locked <=> Critical # {}
  /\ MutualExclusion

\* GrantUsable, from the moment the code is stored.
UsableInv ==
  \A r \in Grants :
    pc[r] = "redirect" \/ reply[r] = 302 =>
      code[r] \in authCodes \/ Redeemers(code[r]) # {}

\* TokenStored, from the moment the token is stored.
TokenInv ==
  \A r \in Exchanges :
    pc[r] = "respond" \/ reply[r] = 200 => token[r] \in tokens

\* The inductive invariant.
IndInv ==
  /\ TypeOK
  /\ PhaseInv
  /\ LockInv
  /\ UsableInv
  /\ TokenInv
  /\ SingleUse

-----------------------------------------------------------------------------
\* The size of a finite set with one element more.
LEMMA AddOne ==
  \A S, e : IsFiniteSet(S) /\ e \notin S => Cardinality(S \cup {e}) = Cardinality(S) + 1
BY FS_AddElement

\* The sets SingleUse counts are finite.
LEMMA SetsFinite ==
  \A k \in Codes : IsFiniteSet(Issuers(k)) /\ IsFiniteSet(Redeemers(k))
BY RequestsAssumption, FS_Subset DEF Issuers, Redeemers

\* So their sizes are natural numbers.
LEMMA SizesNat ==
  \A k \in Codes : Cardinality(Issuers(k)) \in Nat /\ Cardinality(Redeemers(k)) \in Nat
BY SetsFinite, FS_CardinalityType

\* Every step keeps the types of the variables.
LEMMA TypeStep == IndInv /\ [Next]_vars => TypeOK'
<1> SUFFICES ASSUME IndInv, [Next]_vars PROVE TypeOK'
  OBVIOUS
<1> USE RequestsAssumption DEF IndInv, TypeOK, Requests, Holding
<1>1. ASSUME NEW r \in Grants, AuthorizeHandler(r)
      PROVE  TypeOK'
  <2>1. CASE RefuseGrant(r)
    BY <2>1 DEF RefuseGrant, Answer, Goto
  <2>2. ASSUME NEW k \in Codes, GenerateCode(r, k)
       PROVE  TypeOK'
    BY <2>2 DEF GenerateCode, Answer, Goto
  <2>3. CASE LockForCode(r)
    BY <2>3 DEF LockForCode, Answer, Goto
  <2>4. CASE StoreCode(r)
    <3>1. code[r] \in Codes
      BY <2>4 DEF StoreCode, Goto, PhaseInv
    <3>2. authCodes' \subseteq Codes
      BY <2>4, <3>1 DEF StoreCode
    <3>3. pc' = [pc EXCEPT ![r] = "redirect"] /\ locked' = FALSE
      BY <2>4 DEF StoreCode, Goto
    <3>4. UNCHANGED <<tokens, code, token, reply>>
      BY <2>4 DEF StoreCode
    <3> QED
      BY <3>2, <3>3, <3>4
  <2>5. CASE Redirect(r)
    BY <2>5 DEF Redirect, Answer, Goto
  <2> QED
    BY <1>1, <2>1, <2>2, <2>3, <2>4, <2>5 DEF AuthorizeHandler
<1>2. ASSUME NEW r \in Exchanges, TokenHandler(r)
      PROVE  TypeOK'
  <2>1. CASE RefuseExchange(r)
    BY <2>1 DEF RefuseExchange, Answer, Goto
  <2>2. ASSUME NEW k \in Codes, PresentCode(r, k)
       PROVE  TypeOK'
    BY <2>2 DEF PresentCode, Answer, Goto
  <2>3. CASE LockForLookup(r)
    BY <2>3 DEF LockForLookup, Answer, Goto
  <2>4. CASE LookupCode(r)
    <3>1. pc' = [pc EXCEPT ![r] = "tokenLock"] \/ pc' = [pc EXCEPT ![r] = "done"]
      BY <2>4 DEF LookupCode, Answer, Goto
    <3>2. reply' = reply \/ reply' = [reply EXCEPT ![r] = 400]
      BY <2>4 DEF LookupCode, Answer
    <3>3. authCodes' \subseteq Codes
      BY <2>4 DEF LookupCode
    <3>4. locked' = FALSE /\ UNCHANGED <<tokens, code, token>>
      BY <2>4 DEF LookupCode
    <3>5. pc' \in [Requests -> {"new", "lock", "store", "redirect", "lookupLock", "lookup", "done"} \cup Holding]
      BY <3>1
    <3>6. reply' \in [Requests -> {0, 200, 302, 400, 401}]
      BY <3>2
    <3> QED
      BY <3>3, <3>4, <3>5, <3>6
  <2>5. ASSUME NEW s \in Tokens, LockForToken(r, s)
       PROVE  TypeOK'
    BY <2>5 DEF LockForToken, Answer, Goto
  <2>6. CASE StoreToken(r)
    <3>1. token[r] \in Tokens
      BY <2>6 DEF StoreToken, Goto, PhaseInv
    <3>2. tokens' \subseteq Tokens
      BY <2>6, <3>1 DEF StoreToken
    <3>3. pc' = [pc EXCEPT ![r] = "respond"] /\ locked' = FALSE
      BY <2>6 DEF StoreToken, Goto
    <3>4. UNCHANGED <<authCodes, code, token, reply>>
      BY <2>6 DEF StoreToken
    <3> QED
      BY <3>2, <3>3, <3>4
  <2>7. CASE Respond(r)
    BY <2>7 DEF Respond, Answer, Goto
  <2> QED
    BY <1>2, <2>1, <2>2, <2>3, <2>4, <2>5, <2>6, <2>7 DEF TokenHandler
<1>3. CASE UNCHANGED vars
  BY <1>3 DEF vars
<1> QED
  BY <1>1, <1>2, <1>3 DEF Next

\* Every step keeps each request in the phases of its own handler, with the
\* code and token of that phase.
LEMMA PhaseStep == IndInv /\ [Next]_vars => PhaseInv'
<1> SUFFICES ASSUME IndInv, [Next]_vars PROVE PhaseInv'
  OBVIOUS
<1> USE RequestsAssumption DEF IndInv, TypeOK, Requests, Holding, PhaseInv
<1>1. ASSUME NEW r \in Grants, AuthorizeHandler(r)
      PROVE  PhaseInv'
  <2>1. CASE RefuseGrant(r)
    BY <2>1 DEF RefuseGrant, Answer, Goto
  <2>2. ASSUME NEW k \in Codes, GenerateCode(r, k)
       PROVE  PhaseInv'
    BY <2>2 DEF GenerateCode, Answer, Goto
  <2>3. CASE LockForCode(r)
    BY <2>3 DEF LockForCode, Answer, Goto
  <2>4. CASE StoreCode(r)
    BY <2>4 DEF StoreCode, Answer, Goto
  <2>5. CASE Redirect(r)
    BY <2>5 DEF Redirect, Answer, Goto
  <2> QED
    BY <1>1, <2>1, <2>2, <2>3, <2>4, <2>5 DEF AuthorizeHandler
<1>2. ASSUME NEW r \in Exchanges, TokenHandler(r)
      PROVE  PhaseInv'
  <2>1. CASE RefuseExchange(r)
    BY <2>1 DEF RefuseExchange, Answer, Goto
  <2>2. ASSUME NEW k \in Codes, PresentCode(r, k)
       PROVE  PhaseInv'
    BY <2>2 DEF PresentCode, Answer, Goto
  <2>3. CASE LockForLookup(r)
    BY <2>3 DEF LockForLookup, Answer, Goto
  <2>4. CASE LookupCode(r)
    BY <2>4 DEF LookupCode, Answer, Goto
  <2>5. ASSUME NEW s \in Tokens, LockForToken(r, s)
       PROVE  PhaseInv'
    BY <2>5 DEF LockForToken, Answer, Goto
  <2>6. CASE StoreToken(r)
    BY <2>6 DEF StoreToken, Answer, Goto
  <2>7. CASE Respond(r)
    BY <2>7 DEF Respond, Answer, Goto
  <2> QED
    BY <1>2, <2>1, <2>2, <2>3, <2>4, <2>5, <2>6, <2>7 DEF TokenHandler
<1>3. CASE UNCHANGED vars
  BY <1>3 DEF vars
<1> QED
  BY <1>1, <1>2, <1>3 DEF Next

\* Every step keeps the mutex held by exactly one handler or free.
LEMMA LockStep == IndInv /\ [Next]_vars => LockInv'
<1> SUFFICES ASSUME IndInv, [Next]_vars PROVE LockInv'
  OBVIOUS
<1> USE RequestsAssumption DEF IndInv, TypeOK, Requests, Holding, PhaseInv, LockInv, MutualExclusion, Critical
<1>1. ASSUME NEW r \in Grants, AuthorizeHandler(r)
      PROVE  LockInv'
  <2>1. CASE RefuseGrant(r)
    BY <2>1 DEF RefuseGrant, Answer, Goto
  <2>2. ASSUME NEW k \in Codes, GenerateCode(r, k)
       PROVE  LockInv'
    BY <2>2 DEF GenerateCode, Answer, Goto
  <2>3. CASE LockForCode(r)
    BY <2>3 DEF LockForCode, Answer, Goto
  <2>4. CASE StoreCode(r)
    BY <2>4 DEF StoreCode, Answer, Goto
  <2>5. CASE Redirect(r)
    BY <2>5 DEF Redirect, Answer, Goto
  <2> QED
    BY <1>1, <2>1, <2>2, <2>3, <2>4, <2>5 DEF AuthorizeHandler
<1>2. ASSUME NEW r \in Exchanges, TokenHandler(r)
      PROVE  LockInv'
  <2>1. CASE RefuseExchange(r)
    BY <2>1 DEF RefuseExchange, Answer, Goto
  <2>2. ASSUME NEW k \in Codes, PresentCode(r, k)
       PROVE  LockInv'
    BY <2>2 DEF PresentCode, Answer, Goto
  <2>3. CASE LockForLookup(r)
    BY <2>3 DEF LockForLookup, Answer, Goto
  <2>4. CASE LookupCode(r)
    BY <2>4 DEF LookupCode, Answer, Goto
  <2>5. ASSUME NEW s \in Tokens, LockForToken(r, s)
       PROVE  LockInv'
    BY <2>5 DEF LockForToken, Answer, Goto
  <2>6. CASE StoreToken(r)
    BY <2>6 DEF StoreToken, Answer, Goto
  <2>7. CASE Respond(r)
    BY <2>7 DEF Respond, Answer, Goto
  <2> QED
    BY <1>2, <2>1, <2>2, <2>3, <2>4, <2>5, <2>6, <2>7 DEF TokenHandler
<1>3. CASE UNCHANGED vars
  BY <1>3 DEF vars
<1> QED
  BY <1>1, <1>2, <1>3 DEF Next

\* Every step keeps a code that was stored in the map, or redeemed.
LEMMA UsableStep == IndInv /\ [Next]_vars => UsableInv'
<1> SUFFICES ASSUME IndInv, [Next]_vars PROVE UsableInv'
  OBVIOUS
<1> USE RequestsAssumption DEF IndInv, TypeOK, Requests, Holding, PhaseInv, UsableInv, Redeemers
<1>1. ASSUME NEW r \in Grants, AuthorizeHandler(r)
      PROVE  UsableInv'
  <2>1. CASE RefuseGrant(r)
    BY <2>1 DEF RefuseGrant, Answer, Goto
  <2>2. ASSUME NEW k \in Codes, GenerateCode(r, k)
       PROVE  UsableInv'
    BY <2>2 DEF GenerateCode, Answer, Goto
  <2>3. CASE LockForCode(r)
    BY <2>3 DEF LockForCode, Answer, Goto
  <2>4. CASE StoreCode(r)
    BY <2>4 DEF StoreCode, Answer, Goto
  <2>5. CASE Redirect(r)
    BY <2>5 DEF Redirect, Answer, Goto
  <2> QED
    BY <1>1, <2>1, <2>2, <2>3, <2>4, <2>5 DEF AuthorizeHandler
<1>2. ASSUME NEW r \in Exchanges, TokenHandler(r)
      PROVE  UsableInv'
  <2>1. CASE RefuseExchange(r)
    BY <2>1 DEF RefuseExchange, Answer, Goto
  <2>2. ASSUME NEW k \in Codes, PresentCode(r, k)
       PROVE  UsableInv'
    BY <2>2 DEF PresentCode, Answer, Goto
  <2>3. CASE LockForLookup(r)
    BY <2>3 DEF LockForLookup, Answer, Goto
  <2>4. CASE LookupCode(r)
    BY <2>4 DEF LookupCode, Answer, Goto
  <2>5. ASSUME NEW s \in Tokens, LockForToken(r, s)
       PROVE  UsableInv'
    BY <2>5 DEF LockForToken, Answer, Goto
  <2>6. CASE StoreToken(r)
    BY <2>6 DEF StoreToken, Answer, Goto
  <2>7. CASE Respond(r)
    BY <2>7 DEF Respond, Answer, Goto
  <2> QED
    BY <1>2, <2>1, <2>2, <2>3, <2>4, <2>5, <2>6, <2>7 DEF TokenHandler
<1>3. CASE UNCHANGED vars
  BY <1>3 DEF vars
<1> QED
  BY <1>1, <1>2, <1>3 DEF Next

\* Every step keeps an answered token in the map of tokens.
LEMMA TokenStep == IndInv /\ [Next]_vars => TokenInv'
<1> SUFFICES ASSUME IndInv, [Next]_vars PROVE TokenInv'
  OBVIOUS
<1> USE RequestsAssumption DEF IndInv, TypeOK, Requests, Holding, PhaseInv, TokenInv
<1>1. ASSUME NEW r \in Grants, AuthorizeHandler(r)
      PROVE  TokenInv'
  <2>1. CASE RefuseGrant(r)
    BY <2>1 DEF RefuseGrant, Answer, Goto
  <2>2. ASSUME NEW k \in Codes, GenerateCode(r, k)
       PROVE  TokenInv'
    BY <2>2 DEF GenerateCode, Answer, Goto
  <2>3. CASE LockForCode(r)
    BY <2>3 DEF LockForCode, Answer, Goto
  <2>4. CASE StoreCode(r)
    BY <2>4 DEF StoreCode, Answer, Goto
  <2>5. CASE Redirect(r)
    BY <2>5 DEF Redirect, Answer, Goto
  <2> QED
    BY <1>1, <2>1, <2>2, <2>3, <2>4, <2>5 DEF AuthorizeHandler
<1>2. ASSUME NEW r \in Exchanges, TokenHandler(r)
      PROVE  TokenInv'
  <2>1. CASE RefuseExchange(r)
    BY <2>1 DEF RefuseExchange, Answer, Goto
  <2>2. ASSUME NEW k \in Codes, PresentCode(r, k)
       PROVE  TokenInv'
    BY <2>2 DEF PresentCode, Answer, Goto
  <2>3. CASE LockForLookup(r)
    BY <2>3 DEF LockForLookup, Answer, Goto
  <2>4. CASE LookupCode(r)
    BY <2>4 DEF LookupCode, Answer, Goto
  <2>5. ASSUME NEW s \in Tokens, LockForToken(r, s)
       PROVE  TokenInv'
    BY <2>5 DEF LockForToken, Answer, Goto
  <2>6. CASE StoreToken(r)
    BY <2>6 DEF StoreToken, Answer, Goto
  <2>7. CASE Respond(r)
    BY <2>7 DEF Respond, Answer, Goto
  <2> QED
    BY <1>2, <2>1, <2>2, <2>3, <2>4, <2>5, <2>6, <2>7 DEF TokenHandler
<1>3. CASE UNCHANGED vars
  BY <1>3 DEF vars
<1> QED
  BY <1>1, <1>2, <1>3 DEF Next

\* Every step keeps the redemptions of a code within its grants: StoreCode adds
\* a grant, a LookupCode that succeeds trades the entry of the map for a
\* redemption, and no other step counts.
LEMMA SingleUseStep == IndInv /\ [Next]_vars => SingleUse'
<1> SUFFICES ASSUME IndInv, [Next]_vars PROVE SingleUse'
  OBVIOUS
<1> USE RequestsAssumption DEF IndInv, TypeOK, Requests, Holding, PhaseInv, SingleUse
<1>1. ASSUME NEW r \in Grants, AuthorizeHandler(r)
      PROVE  SingleUse'
  <2>1. CASE RefuseGrant(r)
    <3>1. ASSUME NEW m \in Codes
         PROVE  Issuers(m)' = Issuers(m) /\ Redeemers(m)' = Redeemers(m)
      BY <2>1 DEF RefuseGrant, Answer, Goto, Issuers, Redeemers
    <3>2. authCodes' = authCodes
      BY <2>1 DEF RefuseGrant
    <3> QED
      BY <3>1, <3>2
  <2>2. ASSUME NEW k \in Codes, GenerateCode(r, k)
       PROVE  SingleUse'
    <3>1. ASSUME NEW m \in Codes
         PROVE  Issuers(m)' = Issuers(m) /\ Redeemers(m)' = Redeemers(m)
      BY <2>2 DEF GenerateCode, Answer, Goto, Issuers, Redeemers
    <3>2. authCodes' = authCodes
      BY <2>2 DEF GenerateCode
    <3> QED
      BY <3>1, <3>2
  <2>3. CASE LockForCode(r)
    <3>1. ASSUME NEW m \in Codes
         PROVE  Issuers(m)' = Issuers(m) /\ Redeemers(m)' = Redeemers(m)
      BY <2>3 DEF LockForCode, Answer, Goto, Issuers, Redeemers
    <3>2. authCodes' = authCodes
      BY <2>3 DEF LockForCode
    <3> QED
      BY <3>1, <3>2
  <2>4. CASE StoreCode(r)
    <3>1. code[r] \in Codes
      BY <2>4 DEF StoreCode, Goto
    <3>2. ASSUME NEW m \in Codes
          PROVE  Cardinality(Redeemers(m)') + (IF m \in authCodes' THEN 1 ELSE 0)
                   <= Cardinality(Issuers(m)')
      <4>1. Redeemers(m)' = Redeemers(m)
        BY <2>4 DEF StoreCode, Goto, Redeemers
      <4>2. CASE m = code[r]
        <5>1. r \notin Issuers(m)
          BY <2>4 DEF StoreCode, Goto, Issuers
        <5>2. Issuers(m)' = Issuers(m) \cup {r}
          BY <2>4, <4>2 DEF StoreCode, Goto, Issuers
        <5>3. Cardinality(Issuers(m)') = Cardinality(Issuers(m)) + 1
          BY <5>1, <5>2, SetsFinite, AddOne
        <5>4. Cardinality(Redeemers(m)) <= Cardinality(Issuers(m))
          BY SizesNat
        <5> QED
          BY <4>1, <5>3, <5>4, SizesNat
      <4>3. CASE m # code[r]
        <5>1. Issuers(m)' = Issuers(m)
          BY <2>4, <4>3 DEF StoreCode, Goto, Issuers
        <5>2. m \in authCodes' <=> m \in authCodes
          BY <2>4, <4>3 DEF StoreCode
        <5> QED
          BY <4>1, <5>1, <5>2
      <4> QED
        BY <4>2, <4>3
    <3> QED
      BY <3>2
  <2>5. CASE Redirect(r)
    <3>1. ASSUME NEW m \in Codes
         PROVE  Issuers(m)' = Issuers(m) /\ Redeemers(m)' = Redeemers(m)
      BY <2>5 DEF Redirect, Answer, Goto, Issuers, Redeemers
    <3>2. authCodes' = authCodes
      BY <2>5 DEF Redirect
    <3> QED
      BY <3>1, <3>2
  <2> QED
    BY <1>1, <2>1, <2>2, <2>3, <2>4, <2>5 DEF AuthorizeHandler
<1>2. ASSUME NEW r \in Exchanges, TokenHandler(r)
      PROVE  SingleUse'
  <2>1. CASE RefuseExchange(r)
    <3>1. ASSUME NEW m \in Codes
         PROVE  Issuers(m)' = Issuers(m) /\ Redeemers(m)' = Redeemers(m)
      BY <2>1 DEF RefuseExchange, Answer, Goto, Issuers, Redeemers
    <3>2. authCodes' = authCodes
      BY <2>1 DEF RefuseExchange
    <3> QED
      BY <3>1, <3>2
  <2>2. ASSUME NEW k \in Codes, PresentCode(r, k)
       PROVE  SingleUse'
    <3>1. ASSUME NEW m \in Codes
         PROVE  Issuers(m)' = Issuers(m) /\ Redeemers(m)' = Redeemers(m)
      BY <2>2 DEF PresentCode, Answer, Goto, Issuers, Redeemers
    <3>2. authCodes' = authCodes
      BY <2>2 DEF PresentCode
    <3> QED
      BY <3>1, <3>2
  <2>3. CASE LockForLookup(r)
    <3>1. ASSUME NEW m \in Codes
         PROVE  Issuers(m)' = Issuers(m) /\ Redeemers(m)' = Redeemers(m)
      BY <2>3 DEF LockForLookup, Answer, Goto, Issuers, Redeemers
    <3>2. authCodes' = authCodes
      BY <2>3 DEF LockForLookup
    <3> QED
      BY <3>1, <3>2
  <2>4. CASE LookupCode(r)
    <3>1. code[r] \in Codes
      BY <2>4 DEF LookupCode, Goto, Answer
    <3>2. ASSUME NEW m \in Codes
          PROVE  Cardinality(Redeemers(m)') + (IF m \in authCodes' THEN 1 ELSE 0)
                   <= Cardinality(Issuers(m)')
      <4>1. Issuers(m)' = Issuers(m)
        BY <2>4 DEF LookupCode, Goto, Answer, Issuers
      <4>2. CASE m = code[r] /\ m \in authCodes
        <5>1. r \notin Redeemers(m)
          BY <2>4, <4>2 DEF LookupCode, Goto, Redeemers
        <5>2. Redeemers(m)' = Redeemers(m) \cup {r}
          BY <2>4, <4>2 DEF LookupCode, Goto, Redeemers
        <5>3. Cardinality(Redeemers(m)') = Cardinality(Redeemers(m)) + 1
          BY <5>1, <5>2, SetsFinite, AddOne
        <5>4. Cardinality(Redeemers(m)) + 1 <= Cardinality(Issuers(m))
          BY <4>2
        <5>5. m \notin authCodes'
          BY <2>4, <4>2 DEF LookupCode
        <5> QED
          BY <4>1, <5>3, <5>4, <5>5, SizesNat
      <4>3. CASE m # code[r] \/ m \notin authCodes
        <5>1. Redeemers(m)' = Redeemers(m)
          BY <2>4, <4>3 DEF LookupCode, Answer, Goto, Redeemers
        <5>2. m \in authCodes' <=> m \in authCodes
          BY <2>4, <4>3 DEF LookupCode
        <5> QED
          BY <4>1, <5>1, <5>2
      <4> QED
        BY <4>2, <4>3
    <3> QED
      BY <3>2
  <2>5. ASSUME NEW s \in Tokens, LockForToken(r, s)
       PROVE  SingleUse'
    <3>1. ASSUME NEW m \in Codes
         PROVE  Issuers(m)' = Issuers(m) /\ Redeemers(m)' = Redeemers(m)
      BY <2>5 DEF LockForToken, Answer, Goto, Issuers, Redeemers
    <3>2. authCodes' = authCodes
      BY <2>5 DEF LockForToken
    <3> QED
      BY <3>1, <3>2
  <2>6. CASE StoreToken(r)
    <3>1. ASSUME NEW m \in Codes
         PROVE  Issuers(m)' = Issuers(m) /\ Redeemers(m)' = Redeemers(m)
      BY <2>6 DEF StoreToken, Answer, Goto, Issuers, Redeemers
    <3>2. authCodes' = authCodes
      BY <2>6 DEF StoreToken
    <3> QED
      BY <3>1, <3>2
  <2>7. CASE Respond(r)
    <3>1. ASSUME NEW m \in Codes
         PROVE  Issuers(m)' = Issuers(m) /\ Redeemers(m)' = Redeemers(m)
      BY <2>7 DEF Respond, Answer, Goto, Issuers, Redeemers
    <3>2. authCodes' = authCodes
      BY <2>7 DEF Respond
    <3> QED
      BY <3>1, <3>2
  <2> QED
    BY <1>2, <2>1, <2>2, <2>3, <2>4, <2>5, <2>6, <2>7 DEF TokenHandler
<1>3. CASE UNCHANGED vars
  <2>1. ASSUME NEW m \in Codes
       PROVE  Issuers(m)' = Issuers(m) /\ Redeemers(m)' = Redeemers(m)
    BY <1>3 DEF vars, Issuers, Redeemers
  <2>2. authCodes' = authCodes
    BY <1>3 DEF vars
  <2> QED
    BY <2>1, <2>2
<1> QED
  BY <1>1, <1>2, <1>3 DEF Next

-----------------------------------------------------------------------------
\* Before any request the inductive invariant holds.
LEMMA InitInd == Init => IndInv
<1> SUFFICES ASSUME Init PROVE IndInv
  OBVIOUS
<1> USE RequestsAssumption DEF Init
<1>1. TypeOK
  BY DEF TypeOK, Requests, Holding
<1>2. PhaseInv
  BY DEF PhaseInv, Requests, Holding
<1>3. LockInv
  BY DEF LockInv, MutualExclusion, Critical, Requests
<1>4. UsableInv /\ TokenInv
  BY DEF UsableInv, TokenInv, Requests
<1>5. SingleUse
  <2>1. ASSUME NEW k \in Codes
        PROVE  Issuers(k) = {} /\ Redeemers(k) = {}
    BY DEF Issuers, Redeemers, Requests, Holding
  <2> QED
    BY <2>1, FS_EmptySet DEF SingleUse
<1> QED
  BY <1>1, <1>2, <1>3, <1>4, <1>5 DEF IndInv

\* The inductive invariant holds in every reachable state.
THEOREM Invariance == Spec => []IndInv
<1>1. IndInv /\ [Next]_vars => IndInv'
  BY TypeStep, PhaseStep, LockStep, UsableStep, TokenStep, SingleUseStep DEF IndInv
<1> QED
  BY InitInd, <1>1, PTL DEF Spec

\* Every variable keeps its type.
THEOREM TypeCorrect == Spec => []TypeOK
<1>1. IndInv => TypeOK
  BY DEF IndInv
<1> QED
  BY Invariance, <1>1, PTL

\* However many requests run at once, two handlers are never at the maps
\* together (auth.go:54, 92, 106).
THEOREM MutexSafe == Spec => []MutualExclusion
<1>1. IndInv => MutualExclusion
  BY DEF IndInv, LockInv
<1> QED
  BY Invariance, <1>1, PTL

\* However many exchanges present a code and however many grants drew it, it
\* buys no more tokens than it was granted (auth.go:92-95).
THEOREM CodesSingleUse == Spec => []SingleUse
<1>1. IndInv => SingleUse
  BY DEF IndInv
<1> QED
  BY Invariance, <1>1, PTL

\* A code in a redirect is in the map, or somebody had a token for it.
THEOREM CodesUsable == Spec => []GrantUsable
<1>1. IndInv => GrantUsable
  BY DEF IndInv, UsableInv, GrantUsable
<1> QED
  BY Invariance, <1>1, PTL

\* An answered token is stored.
THEOREM TokensStored == Spec => []TokenStored
<1>1. IndInv => TokenStored
  BY DEF IndInv, TokenInv, TokenStored
<1> QED
  BY Invariance, <1>1, PTL
-----------------------------------------------------------------------------
(* The flow: callback pages and clients around the server. *)

\* A code that a callback page shows is in the map, or an exchange has had it.
ShownInv ==
  \A k \in shown : k \in Codes /\ (k \in authCodes \/ Redeemers(k) # {})

\* A client that posted a shown code is past its check of the form, and was
\* refused only when that code was gone.
InTurn(c) ==
  /\ code[c] \in shown /\ pc[c] # "new"
  /\ reply[c] = 400 => Redeemers(code[c]) # {}

TypedInv ==
  /\ DOMAIN client = Clients
  /\ \A c \in Clients : client[c] = "typed" => InTurn(c)

FlowInv == IndInv /\ ShownInv /\ TypedInv

\* What a step does to the handlers as the clients see them: a code is drawn or
\* presented by a new request alone, a refusal comes at the form or at the
\* lookup, and a code leaves the map for the exchange that takes it.
LEMMA ServerStep ==
  ASSUME IndInv, [Next]_vars
  PROVE  /\ \A r \in Requests : pc[r] # "new" => pc'[r] # "new" /\ code'[r] = code[r]
         /\ \A k \in Codes : Redeemers(k) \subseteq Redeemers(k)'
         /\ \A k \in authCodes : k \in authCodes' \/ Redeemers(k)' # {}
         /\ \A r \in Exchanges :
              reply'[r] = 400 /\ reply[r] # 400 /\ pc[r] # "new" => code[r] \notin authCodes
<1> DEFINE Grown ==
      /\ \A r \in Requests : pc[r] # "new" => pc'[r] # "new" /\ code'[r] = code[r]
      /\ \A k \in Codes : Redeemers(k) \subseteq Redeemers(k)'
      /\ \A k \in authCodes : k \in authCodes' \/ Redeemers(k)' # {}
      /\ \A r \in Exchanges :
           reply'[r] = 400 /\ reply[r] # 400 /\ pc[r] # "new" => code[r] \notin authCodes
<1> SUFFICES Grown
  OBVIOUS
<1> USE RequestsAssumption DEF IndInv, TypeOK, Requests, Holding, PhaseInv, Redeemers
<1>1. ASSUME NEW r \in Grants, AuthorizeHandler(r)
      PROVE  Grown
  <2>1. CASE RefuseGrant(r)
    BY <2>1 DEF RefuseGrant, Answer, Goto
  <2>2. ASSUME NEW k \in Codes, GenerateCode(r, k)
        PROVE  Grown
    BY <2>2 DEF GenerateCode, Goto
  <2>3. CASE LockForCode(r)
    BY <2>3 DEF LockForCode, Goto
  <2>4. CASE StoreCode(r)
    BY <2>4 DEF StoreCode, Goto
  <2>5. CASE Redirect(r)
    BY <2>5 DEF Redirect, Answer, Goto
  <2> QED
    BY <1>1, <2>1, <2>2, <2>3, <2>4, <2>5 DEF AuthorizeHandler
<1>2. ASSUME NEW r \in Exchanges, TokenHandler(r)
      PROVE  Grown
  <2>1. CASE RefuseExchange(r)
    BY <2>1 DEF RefuseExchange, Answer, Goto
  <2>2. ASSUME NEW k \in Codes, PresentCode(r, k)
        PROVE  Grown
    BY <2>2 DEF PresentCode, Goto
  <2>3. CASE LockForLookup(r)
    BY <2>3 DEF LockForLookup, Goto
  <2>4. CASE LookupCode(r)
    <3>1. CASE code[r] \in authCodes
      BY <2>4, <3>1 DEF LookupCode, Goto
    <3>2. CASE code[r] \notin authCodes
      BY <2>4, <3>2 DEF LookupCode, Answer, Goto
    <3> QED
      BY <3>1, <3>2
  <2>5. ASSUME NEW s \in Tokens, LockForToken(r, s)
        PROVE  Grown
    BY <2>5 DEF LockForToken, Goto
  <2>6. CASE StoreToken(r)
    BY <2>6 DEF StoreToken, Goto
  <2>7. CASE Respond(r)
    BY <2>7 DEF Respond, Answer, Goto
  <2> QED
    BY <1>2, <2>1, <2>2, <2>3, <2>4, <2>5, <2>6, <2>7 DEF TokenHandler
<1>3. CASE UNCHANGED vars
  BY <1>3 DEF vars
<1> QED
  BY <1>1, <1>2, <1>3 DEF Next

\* The flow makes only steps the server makes, or leaves it alone.
LEMMA FlowServes == [FlowNext]_flowVars => [Next]_vars
<1> SUFFICES ASSUME [FlowNext]_flowVars PROVE [Next]_vars
  OBVIOUS
<1>1. ASSUME NEW c \in Clients, NEW k \in Codes, PostCode(c, k)
      PROVE  Next
  BY <1>1, ClientsAssumption DEF PostCode, Next, TokenHandler
<1> QED
  BY <1>1 DEF FlowNext, flowVars, Next, CallbackPage, ConnectionFails, getAccessToken,
              getProtectedResource

\* A shown code stays in the map until an exchange takes it.
LEMMA ShownStep == FlowInv /\ [FlowNext]_flowVars => ShownInv'
<1> SUFFICES ASSUME FlowInv, [FlowNext]_flowVars PROVE ShownInv'
  OBVIOUS
<1>1. /\ \A k \in Codes : Redeemers(k) \subseteq Redeemers(k)'
      /\ \A k \in authCodes : k \in authCodes' \/ Redeemers(k)' # {}
  BY FlowServes, ServerStep DEF FlowInv
<1>2. \A k \in shown : k \in Codes /\ (k \in authCodes' \/ Redeemers(k)' # {})
  BY <1>1 DEF FlowInv, ShownInv
<1>3. ASSUME NEW g \in Grants, CallbackPage(g)
      PROVE  ShownInv'
  <2>1. PICK k \in Codes : k = code[g] /\ (k \in authCodes \/ Redeemers(k) # {})
    BY <1>3 DEF CallbackPage, FlowInv, IndInv, PhaseInv, UsableInv
  <2>2. k \in authCodes' \/ Redeemers(k)' # {}
    BY <1>1, <2>1
  <2> QED
    BY <1>2, <1>3, <2>1, <2>2 DEF CallbackPage, ShownInv
<1>4. CASE shown' = shown
  BY <1>2, <1>4 DEF ShownInv
<1> QED
  BY <1>3, <1>4 DEF FlowNext, flowVars, PostCode, ConnectionFails, getAccessToken,
                    getProtectedResource

\* A client that typed a shown code is refused only after the code was taken.
LEMMA TypedStep == FlowInv /\ [FlowNext]_flowVars => TypedInv'
<1> SUFFICES ASSUME FlowInv, [FlowNext]_flowVars PROVE TypedInv'
  OBVIOUS
<1>1. /\ \A r \in Requests : pc[r] # "new" => pc'[r] # "new" /\ code'[r] = code[r]
      /\ \A k \in Codes : Redeemers(k) \subseteq Redeemers(k)'
      /\ \A r \in Exchanges :
           reply'[r] = 400 /\ reply[r] # 400 /\ pc[r] # "new" => code[r] \notin authCodes
  BY FlowServes, ServerStep DEF FlowInv
<1>2. shown \subseteq shown'
  BY DEF FlowNext, flowVars, CallbackPage, PostCode, ConnectionFails, getAccessToken,
         getProtectedResource
<1>3. ASSUME NEW c \in Clients, client[c] = "typed"
      PROVE  InTurn(c)'
  <2>1. /\ c \in Exchanges /\ c \in Requests
        /\ code[c] \in shown /\ pc[c] # "new" /\ code'[c] = code[c] /\ pc'[c] # "new"
        /\ reply[c] = 400 => Redeemers(code[c]) # {}
    BY <1>1, <1>3, ClientsAssumption DEF FlowInv, TypedInv, InTurn, Requests
  <2>2. PICK k \in Codes : k = code[c] /\ (k \in authCodes \/ Redeemers(k) # {})
    BY <2>1 DEF FlowInv, ShownInv
  <2>3. ASSUME reply'[c] = 400
        PROVE  Redeemers(k) # {}
    BY <1>1, <2>1, <2>2, <2>3
  <2>4. reply'[c] = 400 => Redeemers(k)' # {}
    BY <1>1, <2>2, <2>3
  <2>5. reply'[c] = 400 => Redeemers(code[c])' # {}
    BY <2>1, <2>2, <2>4
  <2> QED
    BY <1>2, <2>1, <2>5 DEF InTurn
<1>4. ASSUME NEW c \in Clients, NEW k \in Codes, PostCode(c, k)
      PROVE  TypedInv'
  <2>1. /\ client' = [client EXCEPT ![c] = IF k \in shown THEN "typed" ELSE "guessed"]
        /\ shown' = shown /\ c \in Requests
        /\ pc' = [pc EXCEPT ![c] = "lookupLock"] /\ code' = [code EXCEPT ![c] = k]
        /\ pc[c] = "new" /\ reply' = reply
    BY <1>4, ClientsAssumption DEF PostCode, Become, PresentCode, Goto, Requests
  <2>2. pc'[c] # "new" /\ code'[c] = k /\ reply'[c] = 0
    BY <2>1 DEF FlowInv, IndInv, TypeOK, PhaseInv
  <2>3. \A d \in Clients : d # c => client'[d] = client[d]
    BY <2>1 DEF FlowInv, TypedInv
  <2>4. client'[c] = "typed" => code'[c] \in shown'
    BY <2>1, <2>2 DEF FlowInv, TypedInv
  <2>5. client'[c] = "typed" => InTurn(c)'
    BY <2>2, <2>4 DEF InTurn
  <2>6. DOMAIN client' = Clients
    BY <2>1 DEF FlowInv, TypedInv
  <2> QED
    BY <1>3, <2>3, <2>5, <2>6 DEF TypedInv
<1>5. CASE DOMAIN client' = Clients /\ \A c \in Clients : client'[c] = "typed" => client[c] = "typed"
  BY <1>3, <1>5 DEF TypedInv
<1>6. ASSUME NEW c \in Clients, ConnectionFails(c) \/ getAccessToken(c) \/ getProtectedResource(c)
      PROVE  DOMAIN client' = Clients /\ \A d \in Clients : client'[d] = "typed" => client[d] = "typed"
  BY <1>6 DEF ConnectionFails, getAccessToken, getProtectedResource, Become, FlowInv, TypedInv
<1>7. CASE UNCHANGED client
  BY <1>5, <1>7 DEF FlowInv, TypedInv
<1> QED
  BY <1>4, <1>5, <1>6, <1>7 DEF FlowNext, flowVars, CallbackPage

\* The invariant of server and clients together.
THEOREM FlowInvariance == FlowSpec => []FlowInv
<1>1. FlowInit => FlowInv
  BY InitInd DEF FlowInit, FlowInv, ShownInv, TypedInv
<1>2. FlowInv /\ [FlowNext]_flowVars => FlowInv'
  <2>1. IndInv /\ [Next]_vars => IndInv'
    BY TypeStep, PhaseStep, LockStep, UsableStep, TokenStep, SingleUseStep DEF IndInv
  <2> QED
    BY <2>1, FlowServes, ShownStep, TypedStep DEF FlowInv
<1> QED
  BY <1>1, <1>2, PTL DEF FlowSpec

\* Whoever types a code that a callback page showed is refused only because an
\* exchange has had it (auth.go:54-68, 92-101, callback.go:11-17), whatever else
\* is posted at the same time.
THEOREM ShownCodesWork == FlowSpec => []RefusedOnlyIfSpent
<1>1. FlowInv => RefusedOnlyIfSpent
  BY DEF FlowInv, TypedInv, InTurn, RefusedOnlyIfSpent
<1> QED
  BY FlowInvariance, <1>1, PTL

\* With clients around it the server keeps what it keeps alone.
THEOREM FlowKeepsServer == FlowSpec => [](TypeOK /\ SingleUse /\ GrantUsable)
<1>1. FlowInv => TypeOK /\ SingleUse /\ GrantUsable
  BY DEF FlowInv, IndInv, UsableInv, GrantUsable
<1> QED
  BY FlowInvariance, <1>1, PTL
=============================================================================
