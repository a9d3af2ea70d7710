--------------------------- MODULE ProgramsProofs ---------------------------
(***************************************************************************)
(* What the run programs checks on small instances, proved for every value  *)
(* of the constants: first each program for itself, an inductive invariant  *)
(* with what follows from it, and at the end all of them in MCPrograms.     *)
(***************************************************************************)
EXTENDS MCPrograms, MinHeapProofs, FiniteSetTheorems, WellFoundedInduction, SequenceTheorems, TLAPS

-----------------------------------------------------------------------------
(* OidcFlow and DexPasswords: who is let in.  A login at Dex is answered with
   tokens once and /protected serves such tokens only; the account of the
   password client is a lock. *)

\* A set whose members are all equal has at most one.
LEMMA AtMostOne ==
  ASSUME NEW S, \A x, y \in S : x = y
  PROVE  Cardinality(S) \in Nat /\ Cardinality(S) <= 1
<1>1. CASE S = {}
  BY <1>1, FS_EmptySet
<1>2. ASSUME NEW x \in S
      PROVE  Cardinality(S) \in Nat /\ Cardinality(S) <= 1
  <2>1. S = {x}
    OBVIOUS
  <2> QED
    BY <2>1, FS_Singleton
<1> QED
  BY <1>1, <1>2

-----------------------------------------------------------------------------
(* DexPasswords *)

Inside(c) == call[c] \in Checks

\* The account is there while a run is between create and delete, which only one
\* is; once a run has left it behind it stays, and no run is there any more.
AccountInv ==
  /\ \A c, d \in Clients : Inside(c) /\ Inside(d) => c = d
  /\ \A c \in Clients : Inside(c) => account
  /\ account => leftBy # {} \/ \E c \in Clients : Inside(c)
  /\ leftBy # {} => account /\ \A c \in Clients : ~Inside(c)

PasswordInv == PasswordTypeOK /\ AccountInv

\* No run has begun.
LEMMA PasswordInitInv == PasswordInit => PasswordInv
BY DEF PasswordInit, PasswordInv, PasswordTypeOK, AccountInv, Inside, Checks

\* Every call of every run keeps the account a lock.
LEMMA PasswordStep == PasswordInv /\ [PasswordNext]_passwordVars => PasswordInv'
<1> SUFFICES ASSUME PasswordInv, [PasswordNext]_passwordVars PROVE PasswordInv'
  OBVIOUS
<1> USE DEF PasswordInv, PasswordTypeOK, AccountInv, Inside, Checks
<1>1. ASSUME NEW c \in Clients, Dial(c)
      PROVE  PasswordInv'
  BY <1>1 DEF Dial, Go
<1>2. ASSUME NEW c \in Clients, Create(c)
      PROVE  PasswordInv'
  BY <1>2 DEF Create, Go
<1>3. ASSUME NEW c \in Clients, CreateFails(c)
      PROVE  PasswordInv'
  <2>1. CASE UNCHANGED <<account, leftBy>>
    BY <1>3, <2>1 DEF CreateFails, Go
  <2>2. CASE ~account /\ account' = TRUE /\ leftBy' = leftBy \cup {c}
    <3>1. call' = [call EXCEPT ![c] = "failed"]
      BY <1>3 DEF CreateFails, Go
    <3>2. \A d \in Clients : call'[d] \notin Checks
      BY <2>2, <3>1
    <3> QED
      BY <2>2, <3>1, <3>2
  <2> QED
    BY <1>3, <2>1, <2>2 DEF CreateFails
<1>4. ASSUME NEW c \in Clients, Check(c)
      PROVE  PasswordInv'
  <2>1. After(call[c]) \in Checks
    BY <1>4 DEF Check, After
  <2> QED
    BY <1>4, <2>1 DEF Check, Go
<1>5. ASSUME NEW c \in Clients, Abort(c)
      PROVE  PasswordInv'
  BY <1>5 DEF Abort, Go
<1>6. ASSUME NEW c \in Clients, Delete(c)
      PROVE  PasswordInv'
  BY <1>6 DEF Delete, Go
<1>7. ASSUME NEW c \in Clients, DeleteUnanswered(c)
      PROVE  PasswordInv'
  BY <1>7 DEF DeleteUnanswered, Go
<1>8. CASE UNCHANGED passwordVars
  BY <1>8 DEF passwordVars
<1> QED
  BY <1>1, <1>2, <1>3, <1>4, <1>5, <1>6, <1>7, <1>8 DEF PasswordNext

\* The invariant says what the run checks.
LEMMA PasswordRight == PasswordInv => AccountIsLock /\ ResidueExplained
<1> SUFFICES ASSUME PasswordInv PROVE AccountIsLock /\ ResidueExplained
  OBVIOUS
<1> DEFINE inside == {c \in Clients : call[c] \in Checks}
<1>1. Cardinality(inside) <= 1
  <2>1. \A c, d \in inside : c = d
    BY DEF PasswordInv, AccountInv, Inside
  <2> QED
    BY <2>1, AtMostOne
<1>2. inside # {} => account
  BY DEF PasswordInv, AccountInv, Inside
<1>3. ResidueExplained
  BY DEF PasswordInv, AccountInv, Inside, ResidueExplained
<1> QED
  BY <1>1, <1>2, <1>3 DEF AccountIsLock

-----------------------------------------------------------------------------
(* OidcFlow *)

\* The requests that code k has bought tokens for, the answer still to come for
\* those whose ID token is being checked.
Claimants(k) == Buyers(k) \cup {r \in Visits : held[r] = k /\ at[r] = "idToken"}

\* A code is bought once and for one request.
ClaimInv ==
  /\ issued \cap spent = {}
  /\ \A k \in DexCodes :
       /\ \A q, r \in Claimants(k) : q = r
       /\ Claimants(k) # {} => k \in spent

\* A request that has presented nothing yet has no code.
HeldInv == \A r \in Visits : at[r] \in {"new", "auth", "user"} => held[r] = NoDexCode

\* Whoever asks for /protected with a token of Dex has it from an answered
\* request, and gets through only with one the verifier accepts.
ServedInv ==
  \A r \in Visits :
    /\ r \in served => at[r] = "done"
    /\ r \in served \/ at[r] = "claims" => held[r] \in readable
    /\ \A k \in DexCodes :
         held[r] = k /\ (r \in served \/ at[r] \in {"protected", "claims"}) => Buyers(k) # {}

OidcInv == OidcTypeOK /\ ClaimInv /\ HeldInv /\ ServedInv

\* Nothing has been asked for.
LEMMA OidcInitInv == OidcInit => OidcInv
BY DEF OidcInit, OidcInv, OidcTypeOK, ClaimInv, Claimants, Buyers, HeldInv, ServedInv

\* A request without a code of its own moves on: nobody's tokens are concerned.
Aside(r) ==
  /\ at[r] \in {"new", "auth", "user"}
  /\ \E to \in {"auth", "user", "done"} : at' = [at EXCEPT ![r] = to]
  /\ status' \in [Visits -> {0, 200, 204, 302, 400, 401, 500}]
  /\ \A q \in Visits : q # r => status'[q] = status[q]
  /\ issued \subseteq issued' /\ issued' \subseteq issued \cup (DexCodes \ spent)
  /\ UNCHANGED <<up, spent, readable, held, answers>>

\* The steps before any code is presented are of that kind.
LEMMA AsideSteps ==
  ASSUME OidcInv, NEW r \in Visits,
         \/ Preflight(r) \/ HandleAuth(r) \/ LoginHandler(r) \/ Login(r) \/ BadRequest(r)
         \/ UserHandler(r) \/ RelayUser(r) \/ \E k \in DexCodes : DexLogin(r, k)
  PROVE  Aside(r)
<1> USE DEF OidcInv, OidcTypeOK, Aside, dexVars, answers
<1>1. CASE Preflight(r) \/ Login(r) \/ BadRequest(r)
  BY <1>1 DEF Preflight, Login, BadRequest, Reply
<1>2. CASE HandleAuth(r) \/ LoginHandler(r)
  BY <1>2 DEF HandleAuth, LoginHandler, ToDex
<1>3. CASE UserHandler(r)
  BY <1>3 DEF UserHandler, Reply, Pass
<1>4. CASE RelayUser(r)
  BY <1>4 DEF RelayUser, Reply
<1>5. ASSUME NEW k \in DexCodes, DexLogin(r, k)
      PROVE  Aside(r)
  BY <1>5 DEF DexLogin, Reply
<1> QED
  BY <1>1, <1>2, <1>3, <1>4, <1>5
\* Such a step keeps every part of the invariant.
LEMMA AsideKeeps ==
  ASSUME OidcInv, NEW r \in Visits, Aside(r)
  PROVE  OidcInv'
<1> USE DEF Aside, answers, OidcInv, OidcTypeOK
<1>1. OidcTypeOK'
  <2>1. at' \in [Visits -> {"new", "auth", "callback", "token", "exchange", "idToken",
                           "protected", "claims", "user", "done"}]
    OBVIOUS
  <2>2. issued' \subseteq DexCodes
    OBVIOUS
  <2> QED
    BY <2>1, <2>2
<1>2. \A k \in DexCodes : Buyers(k)' = Buyers(k) /\ Claimants(k)' = Claimants(k)
  BY OidcAssumption DEF HeldInv, Buyers, Claimants
<1>3. ClaimInv'
  BY <1>2 DEF ClaimInv
<1>4. HeldInv'
  BY DEF HeldInv
<1>5. ServedInv'
  BY <1>2, OidcAssumption DEF ServedInv, HeldInv
<1> QED
  BY <1>1, <1>3, <1>4, <1>5

\* A code is bought for a request that has none yet of its tokens: by then
\* nobody else has.
LEMMA BuyKeeps ==
  ASSUME OidcInv, NEW r \in Visits, NEW b \in BOOLEAN,
         Exchange(r, b) \/ ExchangeForCookie(r, b)
  PROVE  OidcInv'
<1> USE DEF OidcInv, OidcTypeOK
<1>1. /\ at[r] \in {"token", "callback", "exchange"} /\ held[r] \in issued
      /\ issued' = issued \ {held[r]} /\ spent' = spent \cup {held[r]}
      /\ readable \subseteq readable' /\ readable' \subseteq readable \cup {held[r]}
      /\ held' = held /\ served' = served /\ cookies' \subseteq Visits /\ up' = up
      /\ status' \in [Visits -> {0, 200, 204, 302, 400, 401, 500}]
      /\ \A q \in Visits : q # r => status'[q] = status[q]
      /\ \E to \in {"done", "idToken"} : at' = [at EXCEPT ![r] = to]
  BY DEF Exchange, ExchangeForCookie, Buy, Reply, Pass, answers
<1>2. OidcTypeOK'
  BY <1>1
<1>3. held[r] \in DexCodes /\ Claimants(held[r]) = {}
  BY <1>1 DEF ClaimInv
<1>4. ASSUME NEW k \in DexCodes
      PROVE  /\ Buyers(k) \subseteq Buyers(k)' /\ Claimants(k) \subseteq Claimants(k)'
             /\ k # held[r] => Claimants(k)' = Claimants(k)
             /\ k = held[r] => Claimants(k)' \subseteq {r}
  <2>1. r \notin Buyers(k) /\ r \notin Claimants(k)
    BY <1>1 DEF Buyers, Claimants
  <2>2. \A q \in Visits : q # r => at'[q] = at[q]
    BY <1>1
  <2>3. /\ \A q \in Visits : q # r => (q \in Buyers(k)' <=> q \in Buyers(k))
        /\ \A q \in Visits : q # r => (q \in Claimants(k)' <=> q \in Claimants(k))
    BY <1>1, <2>2 DEF Buyers, Claimants
  <2>4. Buyers(k)' \subseteq Visits /\ Claimants(k)' \subseteq Visits
        /\ Buyers(k) \subseteq Visits /\ Claimants(k) \subseteq Visits
    BY DEF Buyers, Claimants
  <2>5. r \in Claimants(k)' => k = held[r]
    BY <1>1 DEF Buyers, Claimants
  <2>6. k = held[r] => Claimants(k) = {}
    BY <1>3
  <2> QED
    BY <2>1, <2>3, <2>4, <2>5, <2>6
<1>5. ClaimInv'
  BY <1>1, <1>4 DEF ClaimInv
<1>6. HeldInv'
  BY <1>1 DEF HeldInv
<1>7. ServedInv'
  BY <1>1, <1>4 DEF ServedInv
<1> QED
  BY <1>2, <1>5, <1>6, <1>7

\* A page or a prompt presents a code.
LEMMA PresentKeeps ==
  ASSUME OidcInv, NEW r \in Visits, NEW h \in {"callback", "token", "exchange"},
         NEW k \in issued \cup spent \cup {NoDexCode}, Present(r, h, k)
  PROVE  OidcInv'
<1> USE DEF OidcInv, OidcTypeOK, Present, Pass, dexVars, answers
<1>1. OidcTypeOK'
  OBVIOUS
<1>2. \A j \in DexCodes : Buyers(j)' = Buyers(j) /\ Claimants(j)' = Claimants(j)
  BY DEF Buyers, Claimants
<1>3. ClaimInv'
  BY <1>2 DEF ClaimInv
<1>4. HeldInv'
  BY DEF HeldInv
<1>5. ServedInv'
  BY <1>2 DEF ServedInv
<1> QED
  BY <1>1, <1>3, <1>4, <1>5

\* A browser asks for /protected with the token of an answered request.
LEMMA AskKeeps ==
  ASSUME OidcInv, NEW r \in Visits,
         NEW k \in issued \cup spent \cup {NoDexCode}, AskProtected(r, k)
  PROVE  OidcInv'
<1> USE DEF OidcInv, OidcTypeOK, AskProtected, Pass, dexVars, answers
<1>1. OidcTypeOK'
  OBVIOUS
<1>2. \A j \in DexCodes : Buyers(j)' = Buyers(j) /\ Claimants(j)' = Claimants(j)
  BY DEF Buyers, Claimants
<1>3. ClaimInv'
  BY <1>2 DEF ClaimInv
<1>4. HeldInv'
  BY DEF HeldInv
<1>5. k \in DexCodes => Buyers(k) # {}
  <2>1. ASSUME k \in DexCodes
        PROVE  Buyers(k) # {}
    <3>1. PICK q \in Visits : held[q] = k /\ at[q] = "done" /\ status[q] \in {200, 302}
      BY <2>1, OidcAssumption
    <3>2. q \in served => Buyers(k) # {}
      BY <2>1, <3>1 DEF ServedInv
    <3>3. q \notin served => q \in Buyers(k)
      BY <3>1 DEF Buyers
    <3> QED
      BY <3>2, <3>3
  <2> QED
    BY <2>1
<1>6. ServedInv'
  BY <1>2, <1>5 DEF ServedInv
<1> QED
  BY <1>1, <1>3, <1>4, <1>6

\* A request with a code or a token is answered, refused or verified.
LEMMA AnswerKeeps ==
  ASSUME OidcInv, NEW r \in Visits,
         ExchangeFails(r) \/ RefuseIdToken(r) \/ ToResource(r) \/ RefuseToken(r) \/ Verify(r) \/ Serve(r)
  PROVE  OidcInv'
<1> USE DEF OidcInv, OidcTypeOK, Reply, Pass, dexVars, answers
<1>1. CASE ExchangeFails(r)
  <2>1. OidcTypeOK'
    BY <1>1 DEF ExchangeFails
  <2>2. /\ \A j \in DexCodes : Buyers(j)' = Buyers(j) /\ Claimants(j)' = Claimants(j)
        /\ issued' \cap spent' = {} /\ spent \subseteq spent'
    BY <1>1 DEF ExchangeFails, Buyers, Claimants, ClaimInv
  <2>3. ClaimInv'
    BY <2>2 DEF ClaimInv
  <2>4. HeldInv' /\ ServedInv'
    BY <1>1, <2>2 DEF ExchangeFails, HeldInv, ServedInv
  <2> QED
    BY <2>1, <2>3, <2>4
<1>2. CASE RefuseIdToken(r) \/ ToResource(r)
  <2>1. OidcTypeOK'
    <3>1. CASE RefuseIdToken(r)
      BY <3>1 DEF RefuseIdToken
    <3>2. CASE ToResource(r)
      BY <3>2 DEF ToResource
    <3> QED
      BY <1>2, <3>1, <3>2
  <2>2. \A j \in DexCodes : Buyers(j) \subseteq Buyers(j)' /\ Claimants(j)' \subseteq Claimants(j)
    BY <1>2 DEF RefuseIdToken, ToResource, Buyers, Claimants
  <2>3. ClaimInv'
    BY <1>2, <2>2 DEF RefuseIdToken, ToResource, ClaimInv
  <2>4. HeldInv' /\ ServedInv'
    BY <1>2, <2>2 DEF RefuseIdToken, ToResource, HeldInv, ServedInv
  <2> QED
    BY <2>1, <2>3, <2>4
<1>3. CASE RefuseToken(r) \/ Verify(r)
  <2>1. OidcTypeOK'
    <3>1. CASE RefuseToken(r)
      BY <3>1 DEF RefuseToken
    <3>2. CASE Verify(r)
      BY <3>2 DEF Verify
    <3> QED
      BY <1>3, <3>1, <3>2
  <2>2. \A j \in DexCodes : Buyers(j)' = Buyers(j) /\ Claimants(j)' = Claimants(j)
    BY <1>3 DEF RefuseToken, Verify, Buyers, Claimants
  <2>3. ClaimInv'
    BY <1>3, <2>2 DEF RefuseToken, Verify, ClaimInv
  <2>4. HeldInv' /\ ServedInv'
    BY <1>3, <2>2 DEF RefuseToken, Verify, HeldInv, ServedInv
  <2> QED
    BY <2>1, <2>3, <2>4
<1>4. CASE Serve(r)
  <2>1. OidcTypeOK'
    BY <1>4 DEF Serve
  <2>2. \A j \in DexCodes : Buyers(j)' = Buyers(j) /\ Claimants(j)' = Claimants(j)
    BY <1>4 DEF Serve, Buyers, Claimants
  <2>3. ClaimInv'
    BY <1>4, <2>2 DEF Serve, ClaimInv
  <2>4. HeldInv' /\ ServedInv'
    BY <1>4, <2>2 DEF Serve, HeldInv, ServedInv
  <2> QED
    BY <2>1, <2>3, <2>4
<1> QED
  BY <1>1, <1>2, <1>3, <1>4

\* Every step of the three programs and of Dex keeps the invariant.
LEMMA OidcStep == OidcInv /\ [OidcNext]_oidcVars => OidcInv'
<1> SUFFICES ASSUME OidcInv, [OidcNext]_oidcVars PROVE OidcInv'
  OBVIOUS
<1>1. ASSUME NEW s \in {"server", "client", "resource"}, StartServer(s)
      PROVE  OidcInv'
  BY <1>1 DEF StartServer, OidcInv, OidcTypeOK, ClaimInv, HeldInv, ServedInv, Claimants, Buyers,
              dexVars, answers
<1>2. CASE UNCHANGED oidcVars
  BY <1>2 DEF oidcVars, OidcInv, OidcTypeOK, ClaimInv, HeldInv, ServedInv, Claimants, Buyers
<1> QED
  BY <1>1, <1>2, AsideSteps, AsideKeeps, BuyKeeps, PresentKeeps, AskKeeps, AnswerKeeps DEF OidcNext

\* The invariant says what the run checks.
LEMMA OidcRight == OidcInv => OneAnswerPerLogin /\ ServedVerified
<1> SUFFICES ASSUME OidcInv PROVE OneAnswerPerLogin /\ ServedVerified
  OBVIOUS
<1>1. ASSUME NEW k \in DexCodes
      PROVE  Cardinality(Buyers(k)) <= 1
  <2>1. \A q, r \in Buyers(k) : q = r
    BY DEF OidcInv, ClaimInv, Claimants
  <2> QED
    BY <2>1, AtMostOne
<1>2. ASSUME NEW r \in served
      PROVE  held[r] \in readable /\ Buyers(held[r]) # {}
  BY DEF OidcInv, OidcTypeOK, ServedInv
<1> QED
  BY <1>1, <1>2 DEF OneAnswerPerLogin, ServedVerified

-----------------------------------------------------------------------------
(* PaymentContext *)

\* A record that RecordPayment makes has its type, and adds its discount to its
\* own method's.
LEMMA DiscountAdds ==
  ASSUME NEW r, DOMAIN r \subseteq Methods, \A n \in DOMAIN r : r[n] \in Record,
         NEW m \in Methods, NEW a \in Nat, NEW d \in Nat
  PROVE  /\ DOMAIN RecordPayment(r, m, a, d) \subseteq Methods
         /\ \A n \in DOMAIN RecordPayment(r, m, a, d) : RecordPayment(r, m, a, d)[n] \in Record
         /\ \A n \in Methods :
              /\ Discounted(r, n) \in Nat
              /\ Discounted(RecordPayment(r, m, a, d), n) = Discounted(r, n) + (IF n = m THEN d ELSE 0)
<1> DEFINE new == RecordPayment(r, m, a, d)
<1>1. \A n : Recorded(r, n) \in Record
  BY DEF Recorded, Record
<1>2. \A n : Paid(r, n) \in Nat /\ Discounted(r, n) \in Nat
  BY <1>1 DEF Paid, Discounted, Record
<1>3. DOMAIN new = DOMAIN r \cup {m}
  BY DEF RecordPayment
<1>4. new[m] = [paid |-> Paid(r, m) + a, discount |-> Discounted(r, m) + d]
  BY DEF RecordPayment
<1>5. \A n \in DOMAIN r : n # m => new[n] = r[n]
  BY DEF RecordPayment
<1>6. \A n \in DOMAIN new : new[n] \in Record
  BY <1>2, <1>3, <1>4, <1>5 DEF Record
<1>7. Discounted(new, m) = Discounted(r, m) + d
  BY <1>3, <1>4 DEF Discounted, Recorded
<1>8. \A n : n # m => Discounted(new, n) = Discounted(r, n)
  BY <1>3, <1>5 DEF Discounted, Recorded
<1> QED
  BY <1>2, <1>3, <1>6, <1>7, <1>8

\* No strategy leaves more than it was given, and what is due includes it.
ContextInv ==
  /\ TypeOK
  /\ remaining <= amount /\ remaining <= due
  /\ PointsAccounted
  /\ ReductionsRecorded

\* No payment has been made.
LEMMA ContextInitInv == Init => ContextInv
BY ContextAssumption
   DEF Init, ContextInv, TypeOK, PointsAccounted, ReductionsRecorded, NoRecords, Discounted, Recorded

\* A strategy takes something off, and reports at least that as its discount.
LEMMA StrategyTakes ==
  ASSUME ContextAssumption, points \in Nat, NEW m \in Methods, NEW owed \in Nat
  PROVE  /\ Left(m, owed) \in 0 .. owed
         /\ Discount(m, owed) \in Nat /\ owed - Left(m, owed) <= Discount(m, owed)
         /\ m = "Points" => Discount(m, owed) <= points
         /\ m = "CreditCard" => Left(m, owed) = owed
<1>1. CASE m = "Coupon"
  BY <1>1 DEF Left, Discount, ContextAssumption
<1>2. CASE m = "Points"
  <2>1. owed \div 10 \in 0 .. owed
    OBVIOUS
  <2> QED
    BY <1>2, <2>1 DEF Left, Discount
<1>3. CASE m = "CreditCard"
  BY <1>3 DEF Left, Discount
<1> QED
  BY <1>1, <1>2, <1>3 DEF Methods

\* Every payment begun and every strategy applied keeps the invariant.
LEMMA ContextStep == ContextInv /\ [Next]_vars => ContextInv'
<1> SUFFICES ASSUME ContextInv, [Next]_vars PROVE ContextInv'
  OBVIOUS
<1> USE ContextAssumption
<1>1. ASSUME NEW a \in Amounts, Begin(a)
      PROVE  ContextInv'
  <2>1. a \in Nat
    BY DEF ContextAssumption
  <2>2. strategies' = strategies /\ records' = records /\ points' = points /\ i' = 1
        /\ amount' = a /\ remaining' = a /\ count' = count + 1 /\ count < MaxPayments
        /\ total' = total + a /\ due' = due + a /\ strategies # << >>
    BY <1>1 DEF Begin
  <2>3. 1 \in 0 .. Len(strategies)
    BY <2>2 DEF ContextInv, TypeOK, ContextAssumption
  <2>4. TypeOK'
    BY <2>1, <2>2, <2>3 DEF ContextInv, TypeOK, ContextAssumption
  <2>5. PointsAccounted' /\ ReductionsRecorded'
    <3>1. Discounted(records, "Points") \in Nat /\ Discounted(records, "Coupon") \in Nat
      BY DEF ContextInv, TypeOK, Discounted, Recorded, Record
    <3> QED
      BY <2>1, <2>2, <3>1 DEF ContextInv, TypeOK, PointsAccounted, ReductionsRecorded
  <2> QED
    BY <2>1, <2>2, <2>4, <2>5 DEF ContextInv, TypeOK
<1>2. CASE Apply
  <2> DEFINE m == strategies[i]
             left == Left(m, remaining)
             d == Discount(m, remaining)
  <2>1. /\ i \in 1 .. Len(strategies) /\ m \in Methods
        /\ points \in Nat /\ remaining \in Nat /\ amount \in Nat /\ due \in Nat /\ total \in Nat
    BY <1>2 DEF Apply, ContextInv, TypeOK, ContextAssumption
  <2>2. /\ left \in 0 .. remaining /\ d \in Nat /\ remaining - left <= d
        /\ m = "Points" => d <= points
        /\ m = "CreditCard" => left = remaining
    BY <2>1, StrategyTakes
  <2>3. /\ remaining' = left /\ due' = due - remaining + left
        /\ records' = RecordPayment(records, m, amount - left, d)
        /\ points' = (IF m = "Points" THEN points - d ELSE points)
        /\ i' = (IF left = 0 \/ i = Len(strategies) THEN 0 ELSE i + 1)
        /\ UNCHANGED <<strategies, amount, count, total>>
    BY <1>2 DEF Apply
  <2> HIDE DEF m, left, d
  <2>4. amount - left \in Nat /\ remaining <= amount /\ remaining <= due
    BY <2>1, <2>2 DEF ContextInv
  <2>5. /\ DOMAIN records' \subseteq Methods /\ \A n \in DOMAIN records' : records'[n] \in Record
        /\ \A n \in Methods : /\ Discounted(records, n) \in Nat
                              /\ Discounted(records', n) = Discounted(records, n) + (IF n = m THEN d ELSE 0)
    <3>1. DOMAIN records \subseteq Methods /\ \A n \in DOMAIN records : records[n] \in Record
      BY DEF ContextInv, TypeOK
    <3>2. PICK a \in Nat : a = amount - left
      BY <2>4
    <3>3. m \in Methods /\ d \in Nat
      BY <2>1, <2>2
    <3>4. records' = RecordPayment(records, m, a, d)
      BY <2>3, <3>2
    <3>5. /\ DOMAIN RecordPayment(records, m, a, d) \subseteq Methods
          /\ \A n \in DOMAIN RecordPayment(records, m, a, d) : RecordPayment(records, m, a, d)[n] \in Record
          /\ \A n \in Methods :
               /\ Discounted(records, n) \in Nat
               /\ Discounted(RecordPayment(records, m, a, d), n) = Discounted(records, n) + (IF n = m THEN d ELSE 0)
      BY <3>1, <3>3, DiscountAdds
    <3> QED
      BY <3>4, <3>5
  <2>6. i' \in 0 .. Len(strategies')
    BY <2>1, <2>3
  <2>7. TypeOK'
    BY <2>1, <2>2, <2>3, <2>4, <2>5, <2>6 DEF ContextInv, TypeOK
  <2>8. /\ Discounted(records', "Points") = Discounted(records, "Points") + (IF m = "Points" THEN d ELSE 0)
        /\ Discounted(records', "Coupon") = Discounted(records, "Coupon") + (IF m = "Coupon" THEN d ELSE 0)
        /\ Discounted(records, "Points") \in Nat /\ Discounted(records, "Coupon") \in Nat
    BY <2>5 DEF Methods
  <2>9. PointsAccounted'
    BY <2>1, <2>2, <2>3, <2>8 DEF ContextInv, PointsAccounted
  <2>10. ReductionsRecorded'
    BY <2>1, <2>2, <2>3, <2>4, <2>8 DEF ContextInv, ReductionsRecorded, Methods
  <2> QED
    BY <2>1, <2>2, <2>3, <2>4, <2>7, <2>9, <2>10 DEF ContextInv
<1>3. CASE UNCHANGED vars
  <2>1. TypeOK'
    BY <1>3 DEF vars, ContextInv, TypeOK
  <2> QED
    BY <1>3, <2>1 DEF vars, ContextInv, PointsAccounted, ReductionsRecorded
<1> QED
  BY <1>1, <1>2, <1>3 DEF Next
-----------------------------------------------------------------------------
(* SimplePayments *)

\* What the proof needs of the constants.
LEMMA SimpleConstants ==
  /\ \A a \in PricesAsked : a \in Nat /\ a > 0
  /\ CouponCut \in Nat /\ CouponCut > 0
  /\ PointsAtFirst \in Nat /\ MaxPaid \in Nat
<1>1. \A a \in PricesAsked \cup {CouponCut} : a \in Nat /\ a > 0
  BY SimpleAssumption
<1> QED
  BY <1>1, SimpleAssumption

\* The chains, and what is left of them between two layers.
PCC == <<"points", "coupon", "card">>
PC == <<"points", "card">>
CC == <<"coupon", "card">>
C == <<"card">>
CPC == <<"coupon", "points", "card">>

\* Their first layers and their rests.
LEMMA ChainParts ==
  /\ Head(PCC) = "points" /\ Tail(PCC) = CC /\ PCC # << >>
  /\ Head(PC) = "points" /\ Tail(PC) = C /\ PC # << >>
  /\ Head(CC) = "coupon" /\ Tail(CC) = C /\ CC # << >>
  /\ Head(C) = "card" /\ Tail(C) = << >> /\ C # << >>
  /\ Head(CPC) = "coupon" /\ Tail(CPC) = PC /\ CPC # << >>
BY DEF PCC, PC, CC, C, CPC

\* They are sequences of layers.
LEMMA ChainTypes == {PCC, PC, CC, C, CPC, << >>} \subseteq Seq({"points", "coupon", "card"})
BY DEF PCC, PC, CC, C, CPC

\* The parts of a call add up at every layer.  While layers are left the card
\* has not been charged and a coupon to come has taken nothing; a strategy is
\* only asked when something is to pay.
SimpleInv ==
  /\ pattern \in {"none", "decorator", "strategy"} /\ payments \in 0 .. MaxPaid
  /\ price \in Nat /\ rest \in Nat /\ pointsLeft \in Nat /\ pointsSpent \in Nat
  /\ cut \in Nat /\ charged \in Nat
  /\ rest + pointsSpent + cut = price
  /\ \/ layers = << >> /\ charged \in {0, rest}
        /\ (charged = 0 => rest = 0 \/ (pattern = "decorator" /\ cut > 0))
     \/ layers \in {PCC, CC} /\ charged = 0 /\ pattern = "decorator" /\ cut = 0
     \/ layers \in {PC, C} /\ charged = 0
        /\ (pattern = "decorator" \/ (pattern = "strategy" /\ rest > 0))
     \/ layers = CPC /\ charged = 0 /\ pattern = "strategy" /\ rest > 0 /\ cut = 0

\* No payment has been made.
LEMMA SimpleInitInv == SimpleInit => SimpleInv
BY SimpleConstants DEF SimpleInit, SimpleInv

\* Every call begun and every layer paid keeps the sum.
LEMMA SimpleStep == SimpleInv /\ [SimpleNext]_simpleVars => SimpleInv'
<1> SUFFICES ASSUME SimpleInv, [SimpleNext]_simpleVars PROVE SimpleInv'
  OBVIOUS
<1>1. ASSUME NEW p \in DOMAIN Chains, NEW chain \in Chains[p], NEW a \in PricesAsked,
             StartPayment(p, chain, a)
      PROVE  SimpleInv'
  <2>1. \/ p = "decorator" /\ chain \in {PCC, PC}
        \/ p = "strategy" /\ chain = CPC
    BY DEF Chains, PCC, PC, CPC
  <2>2. a \in Nat /\ a > 0 /\ payments' \in 0 .. MaxPaid
    BY <1>1, SimpleConstants DEF StartPayment, SimpleInv
  <2> QED
    BY <1>1, <2>1, <2>2 DEF StartPayment, SimpleInv
<1>2. CASE PayLayer
  <2>1. /\ layers \in {PCC, CC, PC, C, CPC} /\ charged = 0
        /\ pattern = "decorator" \/ (pattern = "strategy" /\ rest > 0)
        /\ layers \in {PCC, CC} => pattern = "decorator" /\ cut = 0
        /\ layers = CPC => pattern = "strategy" /\ cut = 0
    BY <1>2, ChainParts DEF PayLayer, SimpleInv
  <2>2. /\ rest \in Nat /\ pointsLeft \in Nat /\ pointsSpent \in Nat /\ cut \in Nat
        /\ price \in Nat /\ rest + pointsSpent + cut = price
        /\ pattern' = pattern /\ price' = price /\ payments' = payments
        /\ layers' = IF HandsOn(Head(layers), rest') THEN Tail(layers) ELSE << >>
    BY <1>2 DEF PayLayer, SimpleInv
  <2>3. CASE layers \in {PCC, PC}
    <3>1. Head(layers) = "points" /\ Tail(layers) \in {CC, C} /\ (layers = PCC <=> Tail(layers) = CC)
      BY <2>3, ChainParts
    <3>2. /\ PayPoints \/ PointsShort
          /\ UNCHANGED <<cut, charged>>
      BY <1>2, <3>1 DEF PayLayer
    <3>3. rest \div 10 \in Nat /\ rest \div 10 <= rest /\ (rest > 0 => rest \div 10 < rest)
      BY <2>2
    <3>4. /\ rest' + pointsSpent' + cut' = price
          /\ rest' \in Nat /\ pointsSpent' \in Nat /\ pointsLeft' \in Nat
          /\ rest > 0 => rest' > 0
      BY <2>2, <3>2, <3>3 DEF PayPoints, PointsShort, Tenth
    <3>5. layers' = Tail(layers)
      BY <2>1, <2>2, <3>1, <3>4 DEF HandsOn
    <3> QED
      BY <2>1, <2>2, <2>3, <3>1, <3>2, <3>4, <3>5, ChainParts DEF SimpleInv
  <2>4. CASE layers \in {CC, CPC}
    <3>1. Head(layers) = "coupon" /\ (layers = CPC => Tail(layers) = PC)
      BY <2>4, ChainParts
    <3>2. PayCoupon /\ pointsLeft' = pointsLeft /\ pointsSpent' = pointsSpent /\ charged' = charged
      BY <1>2, <3>1 DEF PayLayer
    <3>3. PICK c \in Nat, r \in Nat :
            /\ cut' = c /\ rest' = r
            /\ r + c = rest /\ (r = 0 \/ c > 0)
      BY <2>2, <3>2, SimpleConstants DEF PayCoupon, Smaller
    <3>4. layers' = IF pattern = "strategy" /\ r > 0 THEN Tail(layers) ELSE << >>
      BY <2>1, <2>2, <3>1, <3>3 DEF HandsOn
    <3>5. cut = 0 /\ (layers = CPC \/ pattern = "decorator")
      BY <2>1, <2>4
    <3>6. /\ r + pointsSpent' + c = price' /\ charged' = 0
          /\ price' \in Nat /\ pointsLeft' \in Nat /\ pointsSpent' \in Nat
      <4>1. pointsSpent' = pointsSpent /\ pointsLeft' = pointsLeft /\ price' = price /\ charged' = 0
        BY <2>1, <2>2, <3>2
      <4>2. r + pointsSpent + c = price
        BY <2>2, <3>3, <3>5
      <4> QED
        BY <2>2, <4>1, <4>2
    <3>7. pattern' \in {"decorator", "strategy"} /\ payments' \in 0 .. MaxPaid
      BY <2>1, <2>2 DEF SimpleInv
    <3>8. \/ layers' = PC /\ pattern' = "strategy" /\ r > 0
          \/ layers' = << >> /\ (r = 0 \/ (pattern' = "decorator" /\ c > 0))
      <4>1. CASE pattern = "strategy" /\ r > 0
        BY <2>2, <3>1, <3>4, <3>5, <4>1
      <4>2. CASE pattern = "strategy" /\ r = 0
        BY <3>3, <3>4, <4>2
      <4>3. CASE pattern = "decorator"
        <5>1. layers' = << >> /\ pattern' = "decorator"
          BY <2>2, <3>4, <4>3
        <5> QED
          BY <3>3, <5>1
      <4> QED
        BY <2>1, <3>3, <4>1, <4>2, <4>3
    <3> QED
      BY <3>3, <3>6, <3>7, <3>8 DEF SimpleInv
  <2>5. CASE layers = C
    <3>1. Head(layers) = "card" /\ Tail(layers) = << >>
      BY <2>5, ChainParts
    <3>2. charged' = rest /\ layers' = << >> /\ UNCHANGED <<pointsLeft, pointsSpent, cut, rest>>
      BY <1>2, <2>2, <3>1 DEF PayLayer
    <3> QED
      BY <2>2, <3>2 DEF SimpleInv
  <2> QED
    BY <2>1, <2>3, <2>4, <2>5
<1>3. CASE UNCHANGED simpleVars
  BY <1>3 DEF simpleVars, SimpleInv
<1> QED
  BY <1>1, <1>2, <1>3 DEF SimpleNext

\* The invariant says what the run checks.
LEMMA SimpleRight == SimpleInv => SimpleTypeOK /\ CallAddsUp /\ NothingPaidTwice
<1> SUFFICES ASSUME SimpleInv PROVE SimpleTypeOK /\ CallAddsUp /\ NothingPaidTwice
  OBVIOUS
<1>1. layers \in {PCC, PC, CC, C, CPC, << >>}
  BY DEF SimpleInv
<1>2. SimpleTypeOK
  BY <1>1, ChainTypes DEF SimpleInv, SimpleTypeOK
<1>3. CallAddsUp
  BY ChainParts DEF SimpleInv, CallAddsUp
<1>4. NothingPaidTwice
  BY ChainParts DEF SimpleInv, NothingPaidTwice
<1> QED
  BY <1>2, <1>3, <1>4
-----------------------------------------------------------------------------
(* ObjectPool *)

\* The casts of main in their order.
StringCast == <<"string", "string">>
IntCast == <<"int", "int">>

\* main makes its calls in one order only, so the pool passes through seven states.
PoolInv ==
  \/ callsMade = 0 /\ freeList = << >> /\ taken = {} /\ casts = << >>
  \/ callsMade = 1 /\ freeList = <<"int">> /\ taken = {} /\ casts = << >>
  \/ callsMade = 2 /\ freeList = <<"int", "string">> /\ taken = {} /\ casts = << >>
  \/ callsMade = 3 /\ freeList = <<"int">> /\ taken = {"string"} /\ casts = <<StringCast>>
  \/ callsMade = 4 /\ freeList = << >> /\ taken = Objects /\ casts = <<StringCast, IntCast>>
  \/ callsMade = 5 /\ freeList = <<"int">> /\ taken = {"string"} /\ casts = <<StringCast, IntCast>>
  \/ callsMade = 6 /\ freeList = <<"int", "string">> /\ taken = {} /\ casts = <<StringCast, IntCast>>

\* Nothing has been put.
LEMMA PoolInitInv == PoolInit => PoolInv
BY DEF PoolInit, PoolInv

\* Each call leads from one of them to the next.
LEMMA PoolStep == PoolInv /\ [PoolNext]_poolVars => PoolInv'
<1> SUFFICES ASSUME PoolInv, [PoolNext]_poolVars PROVE PoolInv'
  OBVIOUS
<1>1. CASE PoolNext
  <2>1. callsMade < 6 /\ callsMade' = callsMade + 1
    BY <1>1 DEF PoolNext, PoolCalls
  <2>2. /\ callsMade = 0 => PoolPut("int")
        /\ callsMade = 1 => PoolPut("string")
        /\ callsMade = 2 => PoolGet("string")
        /\ callsMade = 3 => PoolGet("int")
        /\ callsMade = 4 => PoolPut("int")
        /\ callsMade = 5 => PoolPut("string")
    BY <1>1, <2>1 DEF PoolNext, PoolCalls, Put, Get
  <2>3. CASE callsMade = 0
    BY <2>1, <2>2, <2>3 DEF PoolInv, PoolPut
  <2>4. CASE callsMade = 1
    <3>1. freeList = <<"int">> /\ taken = {} /\ casts = << >>
      BY <2>4 DEF PoolInv
    <3>2. freeList' = <<"int", "string">> /\ taken' = {} /\ casts' = << >>
      BY <2>2, <2>4, <3>1 DEF PoolPut
    <3> QED
      BY <2>1, <2>4, <3>2 DEF PoolInv
  <2>5. CASE callsMade = 2
    <3>1. freeList = <<"int", "string">> /\ taken = {} /\ casts = << >>
      BY <2>5 DEF PoolInv
    <3>2. freeList' = <<"int">> /\ taken' = {"string"} /\ casts' = <<StringCast>>
      BY <2>2, <2>5, <3>1 DEF PoolGet, AllButLast, StringCast
    <3> QED
      BY <2>1, <2>5, <3>2 DEF PoolInv
  <2>6. CASE callsMade = 3
    <3>1. freeList = <<"int">> /\ taken = {"string"} /\ casts = <<StringCast>>
      BY <2>6 DEF PoolInv
    <3>2. freeList' = << >> /\ taken' = Objects /\ casts' = <<StringCast, IntCast>>
      BY <2>2, <2>6, <3>1 DEF PoolGet, AllButLast, IntCast, Objects
    <3> QED
      BY <2>1, <2>6, <3>2 DEF PoolInv
  <2>7. CASE callsMade = 4
    BY <2>1, <2>2, <2>7 DEF PoolInv, PoolPut, Objects
  <2>8. CASE callsMade = 5
    BY <2>1, <2>2, <2>8 DEF PoolInv, PoolPut
  <2> QED
    BY <2>1, <2>3, <2>4, <2>5, <2>6, <2>7, <2>8 DEF PoolInv
<1>2. CASE UNCHANGED poolVars
  BY <1>2 DEF poolVars, PoolInv
<1> QED
  BY <1>1, <1>2

\* In each of them the casts match and the pool is exclusive.
LEMMA PoolRight == PoolInv => PoolTypeOK /\ CastsMatch /\ PoolExclusive
<1> SUFFICES ASSUME PoolInv PROVE PoolTypeOK /\ CastsMatch /\ PoolExclusive
  OBVIOUS
<1>1. CastsMatch
  BY DEF PoolInv, CastsMatch, StringCast, IntCast
<1>2. PoolExclusive
  BY DEF PoolInv, PoolExclusive, Objects
<1>3. freeList \in Seq(Objects) /\ taken \subseteq Objects /\ callsMade \in 0 .. 6
  <2>1. << >> \in Seq(Objects) /\ <<"int">> \in Seq(Objects) /\ <<"int", "string">> \in Seq(Objects)
    BY DEF Objects
  <2>2. freeList \in {<< >>, <<"int">>, <<"int", "string">>}
    BY DEF PoolInv
  <2>3. taken \subseteq Objects /\ callsMade \in 0 .. 6
    BY DEF PoolInv, Objects
  <2> QED
    BY <2>1, <2>2, <2>3
<1>4. casts \in Seq(Objects \X Objects)
  <2>1. StringCast \in Objects \X Objects /\ IntCast \in Objects \X Objects
    BY DEF StringCast, IntCast, Objects
  <2>2. << >> \in Seq(Objects \X Objects) /\ <<StringCast>> \in Seq(Objects \X Objects)
        /\ <<StringCast, IntCast>> \in Seq(Objects \X Objects)
    BY <2>1
  <2> QED
    BY <2>2 DEF PoolInv
<1>5. Len(PoolCalls) = 6
  BY DEF PoolCalls
<1> QED
  BY <1>1, <1>2, <1>3, <1>4, <1>5 DEF PoolTypeOK
-----------------------------------------------------------------------------
(* Flyweight *)

\* The circles are numbered, each is kept under the key it was made for, and
\* what was handed out is kept still.
FlyweightInv ==
  /\ \E n \in 0 .. MaxCircles : Allocated = 1 .. n
  /\ DOMAIN circles \subseteq Keys
  /\ \A k \in DOMAIN circles : circles[k] \in Allocated /\ painted[circles[k]] = k
  /\ \A c \in Allocated : painted[c] \in Keys
  /\ \A g \in given : g \in Keys \X Allocated /\ g[1] \in DOMAIN circles /\ circles[g[1]] = g[2]

\* The factory is empty.
LEMMA FlyweightInitInv == FlyweightInit => FlyweightInv
<1> SUFFICES ASSUME FlyweightInit PROVE FlyweightInv
  OBVIOUS
<1>1. Allocated = 1 .. 0 /\ 0 \in 0 .. MaxCircles
  BY CirclesAssumption DEF FlyweightInit, Allocated
<1> QED
  BY <1>1 DEF FlyweightInit, FlyweightInv, Allocated

\* A request is answered with the circle of its key, made for it if need be.
LEMMA FlyweightStep == FlyweightInv /\ [FlyweightNext]_flyweightVars => FlyweightInv'
<1> SUFFICES ASSUME FlyweightInv, [FlyweightNext]_flyweightVars PROVE FlyweightInv'
  OBVIOUS
<1>1. ASSUME NEW color \in Colors, NEW r \in Radii, GetCircle(color, r)
      PROVE  FlyweightInv'
  <2> DEFINE key == <<color, r>>
  <2>1. key \in Keys
    BY DEF Keys
  <2>2. PICK n \in 0 .. MaxCircles : Allocated = 1 .. n
    BY DEF FlyweightInv
  <2>3. Cardinality(Allocated) = n
    BY <2>2, FS_Interval
  <2>4. CASE key \in DOMAIN circles
    <3>1. given' = given \cup {<<key, circles[key]>>} /\ circles' = circles /\ painted' = painted
      BY <1>1, <2>4 DEF GetCircle, KeyOf
    <3>2. circles[key] \in Allocated
      BY <2>4 DEF FlyweightInv
    <3>3. \A g \in given' : g \in Keys \X Allocated /\ g[1] \in DOMAIN circles /\ circles[g[1]] = g[2]
      BY <2>1, <2>4, <3>1, <3>2 DEF FlyweightInv
    <3> QED
      BY <3>1, <3>3 DEF FlyweightInv, Allocated
  <2>5. CASE key \notin DOMAIN circles
    <3>1. /\ n + 1 <= MaxCircles
          /\ painted' = [c \in Allocated \cup {n + 1} |-> IF c = n + 1 THEN key ELSE painted[c]]
          /\ circles' = [k \in DOMAIN circles \cup {key} |-> IF k = key THEN n + 1 ELSE circles[k]]
          /\ given' = given \cup {<<key, n + 1>>}
      BY <1>1, <2>3, <2>5 DEF GetCircle, KeyOf, Store
    <3>2. n + 1 \in 0 .. MaxCircles /\ Allocated' = 1 .. n + 1 /\ Allocated' = Allocated \cup {n + 1}
          /\ n + 1 \notin Allocated
      BY <2>2, <3>1, CirclesAssumption DEF Allocated
    <3> HIDE DEF key
    <3>3. painted'[n + 1] = key /\ \A c \in Allocated : painted'[c] = painted[c]
      BY <3>1, <3>2
    <3>4. circles'[key] = n + 1 /\ DOMAIN circles' = DOMAIN circles \cup {key}
          /\ \A k \in DOMAIN circles : circles'[k] = circles[k]
      BY <2>5, <3>1
    <3>5. \A k \in DOMAIN circles' : circles'[k] \in Allocated' /\ painted'[circles'[k]] = k
      BY <3>2, <3>3, <3>4 DEF FlyweightInv
    <3>6. \A c \in Allocated' : painted'[c] \in Keys
      BY <2>1, <3>2, <3>3 DEF FlyweightInv
    <3>7. \A g \in given' : g \in Keys \X Allocated' /\ g[1] \in DOMAIN circles' /\ circles'[g[1]] = g[2]
      <4>1. ASSUME NEW g \in given
            PROVE  g \in Keys \X Allocated' /\ g[1] \in DOMAIN circles' /\ circles'[g[1]] = g[2]
        BY <4>1, <3>2, <3>4 DEF FlyweightInv
      <4>2. <<key, n + 1>> \in Keys \X Allocated' /\ <<key, n + 1>>[1] \in DOMAIN circles'
            /\ circles'[<<key, n + 1>>[1]] = <<key, n + 1>>[2]
        BY <2>1, <3>2, <3>4
      <4> QED
        BY <3>1, <4>1, <4>2
    <3> QED
      BY <2>1, <3>2, <3>4, <3>5, <3>6, <3>7 DEF FlyweightInv
  <2> QED
    BY <2>4, <2>5
<1>2. CASE UNCHANGED flyweightVars
  BY <1>2 DEF flyweightVars, FlyweightInv, Allocated
<1> QED
  BY <1>1, <1>2 DEF FlyweightNext

\* A circle has one key and a key one circle.
LEMMA FlyweightRight == FlyweightInv => FlyweightTypeOK /\ SharedAndRight
<1> SUFFICES ASSUME FlyweightInv PROVE FlyweightTypeOK /\ SharedAndRight
  OBVIOUS
<1>1. PICK n \in 0 .. MaxCircles : Allocated = 1 .. n
  BY DEF FlyweightInv
<1>2. Cardinality(Allocated) = n
  BY <1>1, FS_Interval
<1>3. FlyweightTypeOK
  BY <1>1, <1>2, CirclesAssumption DEF FlyweightInv, FlyweightTypeOK
<1>4. \A g \in given : painted[g[2]] = g[1]
  BY DEF FlyweightInv
<1>5. \A g, h \in given : g[1] = h[1] <=> g[2] = h[2]
  BY <1>4 DEF FlyweightInv
<1> QED
  BY <1>3, <1>4, <1>5 DEF SharedAndRight
-----------------------------------------------------------------------------
(* Sharding *)

\* A nonempty set of databases has one that a key prefers, and only one.
LEMMA OwnerFirst ==
  ASSUME ShardTypeOK, NEW k \in UserKeys, ring # {}
  PROVE  Owner(k) \in ring /\ \A e \in ring : preference[k][Owner(k)] <= preference[k][e]
<1> DEFINE place == preference[k]
           places == {place[d] : d \in ring}
<1>1. place \in [DBNames -> 1 .. Cardinality(DBNames)] /\ ring \subseteq DBNames
  BY DEF ShardTypeOK, Bijection, Injection
<1>2. Cardinality(DBNames) \in Nat
  BY DatabasesAssumption, FS_CardinalityType
<1>3. places \subseteq Nat /\ places # {}
  BY <1>1, <1>2
<1>4. PICK m \in places : \A n \in places : <<n, m>> \notin OpToRel(<, Nat)
  BY <1>3, WFMin, NatLessThanWellFounded
<1>5. \A n \in places : ~(n < m)
  <2> SUFFICES ASSUME NEW n \in places, n < m PROVE FALSE
    OBVIOUS
  <2>1. <<n, m>> \in OpToRel(<, Nat)
    BY <1>3, Zenon DEF OpToRel
  <2> QED
    BY <1>4, <2>1
<1>6. PICK d \in ring : m = place[d]
  OBVIOUS
<1>7. ASSUME NEW e \in ring
      PROVE  place[d] <= place[e]
  <2>1. place[e] \in places /\ place[e] \in Nat /\ m \in Nat
    BY <1>3
  <2> QED
    BY <1>5, <1>6, <2>1
<1> QED
  BY <1>7 DEF Owner

\* Two databases have different places.
LEMMA PlacesDiffer ==
  ASSUME ShardTypeOK, NEW k \in UserKeys, NEW d \in DBNames, NEW e \in DBNames,
         preference[k][d] <= preference[k][e], preference[k][e] <= preference[k][d]
  PROVE  d = e
<1>1. preference[k] \in [DBNames -> 1 .. Cardinality(DBNames)]
      /\ \A x, y \in DBNames : preference[k][x] = preference[k][y] => x = y
  BY DEF ShardTypeOK, Bijection, Injection, IsInjective
<1>2. Cardinality(DBNames) \in Nat
  BY DatabasesAssumption, FS_CardinalityType
<1>3. preference[k][d] \in Nat /\ preference[k][e] \in Nat
  BY <1>1, <1>2
<1> QED
  BY <1>1, <1>3

\* What a lookup answered comes first among the databases that were there.
AnswerFirst(k) ==
  IF answered[k] = NoDB THEN ring \subseteq since[k]
  ELSE answered[k] \in ring
       /\ \A e \in ring \ since[k] : preference[k][answered[k]] <= preference[k][e]

\* Every database of the ring has its connection string, and what a lookup
\* answered is still the answer of all that have not been added since.
ShardInv == ShardTypeOK /\ ring = dbPools /\ \A k \in UserKeys : AnswerFirst(k)

\* No database has been added.
LEMMA ShardInitInv == ShardInit => ShardInv
BY DEF ShardInit, ShardInv, ShardTypeOK, AnswerFirst

\* What a lookup of k answers.
LEMMA LookupAnswers ==
  ASSUME ShardInv, NEW k \in UserKeys, getDBConnectionByKey(k)
  PROVE  /\ ring = {} => answered'[k] = NoDB
         /\ ring # {} => /\ answered'[k] \in ring
                         /\ \A e \in ring : preference[k][answered'[k]] <= preference[k][e]
         /\ \A l \in UserKeys \ {k} : answered'[l] = answered[l] /\ since'[l] = since[l]
         /\ since'[k] = {}
         /\ ring' = ring /\ dbPools' = dbPools /\ preference' = preference
         /\ answered' \in [UserKeys -> DBNames \cup {NoDB}] /\ since' \in [UserKeys -> SUBSET DBNames]
<1>1. ring # {} => Owner(k) \in ring /\ \A e \in ring : preference[k][Owner(k)] <= preference[k][e]
  BY OwnerFirst DEF ShardInv
<1>2. answered \in [UserKeys -> DBNames \cup {NoDB}] /\ since \in [UserKeys -> SUBSET DBNames]
      /\ ring \subseteq DBNames /\ ring = dbPools
  BY DEF ShardInv, ShardTypeOK
<1>3. /\ answered' = [answered EXCEPT ![k] = IF ring # {} /\ Owner(k) \in dbPools THEN Owner(k) ELSE NoDB]
      /\ since' = [since EXCEPT ![k] = {}]
      /\ ring' = ring /\ dbPools' = dbPools /\ preference' = preference
  BY DEF getDBConnectionByKey
<1> DEFINE o == Owner(k)
<1> HIDE DEF o
<1>4. answered' = [answered EXCEPT ![k] = IF ring # {} THEN o ELSE NoDB]
  BY <1>1, <1>2, <1>3 DEF o
<1>5. ring # {} => o \in ring /\ \A e \in ring : preference[k][o] <= preference[k][e]
  BY <1>1 DEF o
<1> QED
  BY <1>2, <1>3, <1>4, <1>5

\* Every database added and every lookup keeps the invariant.
LEMMA ShardStep == ShardInv /\ [ShardNext]_shardVars => ShardInv'
<1> SUFFICES ASSUME ShardInv, [ShardNext]_shardVars PROVE ShardInv'
  OBVIOUS
<1>1. ASSUME NEW d \in DBNames, addDBPool(d)
      PROVE  ShardInv'
  <2>1. /\ ring' = ring \cup {d} /\ dbPools' = dbPools \cup {d}
        /\ since' = [k \in UserKeys |-> since[k] \cup {d}]
        /\ preference' = preference /\ answered' = answered
    BY <1>1 DEF addDBPool
  <2>2. ShardTypeOK'
    BY <2>1 DEF ShardInv, ShardTypeOK
  <2>3. ASSUME NEW k \in UserKeys
        PROVE  AnswerFirst(k)'
    <3>1. AnswerFirst(k) /\ since'[k] = since[k] \cup {d}
      BY <2>1 DEF ShardInv
    <3> QED
      BY <2>1, <3>1 DEF AnswerFirst
  <2> QED
    BY <2>1, <2>2, <2>3 DEF ShardInv
<1>2. ASSUME NEW k \in UserKeys, getDBConnectionByKey(k)
      PROVE  ShardInv'
  <2>1. ShardTypeOK'
    BY <1>2, LookupAnswers DEF ShardInv, ShardTypeOK
  <2>2. ASSUME NEW l \in UserKeys
        PROVE  AnswerFirst(l)'
    <3>1. CASE l = k
      <4>1. NoDB \notin ring
        BY DatabasesAssumption DEF ShardInv, ShardTypeOK
      <4> QED
        BY <1>2, <3>1, <4>1, LookupAnswers DEF AnswerFirst
    <3>2. CASE l # k
      <4>1. AnswerFirst(l)
        BY DEF ShardInv
      <4>2. answered'[l] = answered[l] /\ since'[l] = since[l] /\ ring' = ring /\ preference' = preference
        BY <1>2, <3>2, LookupAnswers
      <4> QED
        BY <4>1, <4>2 DEF AnswerFirst
    <3> QED
      BY <3>1, <3>2
  <2>3. ring' = dbPools'
    BY <1>2, LookupAnswers DEF ShardInv
  <2> QED
    BY <2>1, <2>2, <2>3 DEF ShardInv
<1>3. CASE UNCHANGED shardVars
  BY <1>3 DEF shardVars, ShardInv, ShardTypeOK, AnswerFirst
<1> QED
  BY <1>1, <1>2, <1>3 DEF ShardNext

\* Of the databases that were there, one came first, which is why a key that
\* moves moves to a new one.
LEMMA ShardRight ==
  ASSUME ShardInv
  PROVE  /\ ShardTypeOK /\ FoundOnceAdded
         /\ [ShardNext]_shardVars =>
              \A k \in UserKeys :
                answered'[k] # answered[k] => answered'[k] \in ring' \cap since[k]
<1>1. ShardTypeOK /\ FoundOnceAdded
  BY DEF ShardInv, FoundOnceAdded, AnswerFirst
<1>2. ASSUME [ShardNext]_shardVars, NEW k \in UserKeys, answered'[k] # answered[k]
      PROVE  answered'[k] \in ring' \cap since[k]
  <2>1. getDBConnectionByKey(k)
    <3>1. PICK l \in UserKeys : getDBConnectionByKey(l)
      BY <1>2 DEF ShardNext, shardVars, addDBPool
    <3>2. l = k
      BY <1>2, <3>1, LookupAnswers
    <3> QED
      BY <3>1, <3>2
  <2>2. AnswerFirst(k) /\ ring \subseteq DBNames
    BY DEF ShardInv, ShardTypeOK
  <2>3. ring # {}
    BY <1>2, <2>1, <2>2, LookupAnswers DEF AnswerFirst
  <2> DEFINE now == answered'[k]
  <2>4. now \in ring /\ ring' = ring /\ \A e \in ring : preference[k][now] <= preference[k][e]
    BY <2>1, <2>3, LookupAnswers
  <2>5. ASSUME now \notin since[k]
        PROVE  FALSE
    <3>1. answered[k] \in ring /\ preference[k][answered[k]] <= preference[k][now]
      BY <2>2, <2>4, <2>5 DEF AnswerFirst
    <3>2. preference[k][now] <= preference[k][answered[k]]
      BY <2>4, <3>1
    <3> QED
      BY <1>1, <1>2, <2>2, <2>4, <3>1, <3>2, PlacesDiffer
  <2> QED
    BY <2>4, <2>5
<1> QED
  BY <1>1, <1>2
-----------------------------------------------------------------------------
(* CodeGen *)

\* What this run has passed is complete, or had an error; it prints at the end.
GenInv ==
  /\ GenTypeOK
  /\ \A c \in 1 .. Calls : c < generating => file[c] = "complete" \/ c \in errors
  /\ announced => generating = Calls + 1

\* No run has begun.
LEMMA GenInitInv == GenInit => GenInv
<1> SUFFICES ASSUME GenInit PROVE GenInv
  OBVIOUS
<1>1. Calls \in Nat /\ 0 \in 0 .. Calls + 1 /\ 0 \in 0 .. MaxGenerations
  BY CallsAssumption
<1>2. GenTypeOK
  BY <1>1 DEF GenInit, GenTypeOK
<1> QED
  BY <1>1, <1>2 DEF GenInit, GenInv

\* The next call comes after this one.
LEMMA GenPasses ==
  ASSUME NEW g \in 1 .. Calls
  PROVE  g + 1 \in 0 .. Calls + 1 /\ \A c \in 1 .. Calls : c < g + 1 => c < g \/ c = g
BY CallsAssumption

\* Each call leaves its file complete or adds it to the errors, then passes on.
LEMMA GenStep == GenInv /\ [GenNext]_genVars => GenInv'
<1> SUFFICES ASSUME GenInv, [GenNext]_genVars PROVE GenInv'
  OBVIOUS
<1>1. CASE Generate
  <2>1. PICK D \in SUBSET InDirectory : directory' = directory \cup D
    BY <1>1 DEF Generate
  <2>2. directory' \subseteq 1 .. Calls
    BY <2>1, CallsAssumption DEF GenInv, GenTypeOK
  <2>3. generations' \in 0 .. MaxGenerations
    BY <1>1, CallsAssumption DEF Generate, GenInv, GenTypeOK
  <2>4. 1 \in 0 .. Calls + 1 /\ \A c \in 1 .. Calls : ~(c < 1)
    BY CallsAssumption
  <2>5. generating' = 1 /\ opened' = FALSE /\ errors' = {} /\ announced' = FALSE /\ file' = file
    BY <1>1 DEF Generate
  <2>6. GenTypeOK'
    BY <2>2, <2>3, <2>4, <2>5 DEF GenInv, GenTypeOK
  <2> QED
    BY <2>4, <2>5, <2>6 DEF GenInv
<1>2. CASE CreateFile
  <2>1. PICK g \in 1 .. Calls : generating = g
    BY <1>2 DEF CreateFile, InCall
  <2>2. announced' = announced /\ directory' = directory /\ generations' = generations
    BY <1>2 DEF CreateFile, GenUnchanged
  <2>3. ~announced
    BY <2>1, CallsAssumption DEF GenInv
  <2>4. CASE opened' = TRUE /\ file' = [file EXCEPT ![generating] = "partial"]
             /\ UNCHANGED <<generating, errors>>
    <3>1. generating' = g /\ errors' = errors /\ opened' = TRUE /\ file' = [file EXCEPT ![g] = "partial"]
      BY <2>1, <2>4
    <3>2. GenTypeOK'
      BY <2>1, <2>2, <3>1 DEF GenInv, GenTypeOK
    <3>3. \A c \in 1 .. Calls : c < g => file'[c] = file[c]
      BY <3>1 DEF GenInv, GenTypeOK
    <3> QED
      BY <2>1, <2>2, <2>3, <3>1, <3>2, <3>3 DEF GenInv
  <2>5. CASE Fails /\ Return /\ UNCHANGED file
    <3>1. generating' = g + 1 /\ errors' = errors \cup {g} /\ opened' = FALSE /\ file' = file
      BY <2>1, <2>5 DEF Fails, Return
    <3>2. GenTypeOK'
      BY <2>1, <2>2, <3>1, GenPasses DEF GenInv, GenTypeOK
    <3>3. \A c \in 1 .. Calls : c < g + 1 => c < g \/ c = g
      BY GenPasses
    <3> QED
      BY <2>1, <2>2, <2>3, <3>1, <3>2, <3>3 DEF GenInv
  <2> QED
    BY <1>2, <2>4, <2>5 DEF CreateFile
<1>3. CASE ExecuteTemplate
  <2>1. PICK g \in 1 .. Calls : generating = g
    BY <1>3 DEF ExecuteTemplate, InCall
  <2>2. /\ announced' = announced /\ directory' = directory /\ generations' = generations
        /\ generating' = g + 1 /\ opened' = FALSE
    BY <1>3, <2>1 DEF ExecuteTemplate, GenUnchanged, Return
  <2>3. ~announced
    BY <2>1, CallsAssumption DEF GenInv
  <2>4. /\ file' \in [1 .. Calls -> {"absent", "partial", "complete"}] /\ errors' \subseteq 1 .. Calls
        /\ file'[g] = "complete" \/ g \in errors'
        /\ \A c \in 1 .. Calls : c # g => file'[c] = file[c]
        /\ errors \subseteq errors'
    <3>1. file \in [1 .. Calls -> {"absent", "partial", "complete"}] /\ errors \subseteq 1 .. Calls
      BY DEF GenInv, GenTypeOK
    <3>2. \/ file' = [file EXCEPT ![g] = "complete"] /\ errors' = errors
          \/ file' = file /\ errors' = errors \cup {g}
      BY <1>3, <2>1 DEF ExecuteTemplate, Fails
    <3> QED
      BY <3>1, <3>2
  <2>5. GenTypeOK'
    BY <2>2, <2>4, GenPasses DEF GenInv, GenTypeOK
  <2>6. ASSUME NEW c \in 1 .. Calls, c < g + 1
        PROVE  file'[c] = "complete" \/ c \in errors'
    <3>1. c < g \/ c = g
      BY <2>6, GenPasses
    <3>2. c < g => c # g /\ (file[c] = "complete" \/ c \in errors)
      BY <2>1 DEF GenInv
    <3> QED
      BY <2>4, <3>1, <3>2
  <2> QED
    BY <2>2, <2>3, <2>5, <2>6 DEF GenInv
<1>4. CASE PrintSuccess
  BY <1>4 DEF PrintSuccess, GenInv, GenTypeOK
<1>5. CASE GenKilled
  <2>1. /\ generating \in 1 .. Calls /\ generating' = 0 /\ opened' = FALSE
        /\ directory' = directory /\ file' = file /\ errors' = errors
        /\ announced' = announced /\ generations' = generations
    BY <1>5 DEF GenKilled, InCall
  <2>2. ~announced /\ 0 \in 0 .. Calls + 1 /\ \A c \in 1 .. Calls : ~(c < 0)
    BY <2>1, CallsAssumption DEF GenInv
  <2>3. GenTypeOK'
    BY <2>1, <2>2 DEF GenInv, GenTypeOK
  <2> QED
    BY <2>1, <2>2, <2>3 DEF GenInv
<1>6. CASE UNCHANGED genVars
  BY <1>6 DEF genVars, GenInv, GenTypeOK
<1> QED
  BY <1>1, <1>2, <1>3, <1>4, <1>5, <1>6 DEF GenNext

\* At the end the run has passed every file.
LEMMA GenRight == GenInv => GenTypeOK /\ CompleteUnlessFailed
BY CallsAssumption DEF GenInv, CompleteUnlessFailed
-----------------------------------------------------------------------------
(* LotteryCache *)

\* A ticket has its ID before it is saved; at the cache it is in the database
\* under that ID, or its save failed.
CacheInv ==
  /\ LotteryTypeOK
  /\ \A t \in Tickets : ticketStep[t] # "create" => ticketID[t] \in TicketIDs
  /\ \A t \in Tickets : ticketStep[t] = "cache" => collection[ticketID[t]] = t \/ t \in saveFailed
  /\ CachedUnlessSaveFailed

\* Nothing is stored.
LEMMA CacheInitInv == LotteryInit => CacheInv
BY DEF LotteryInit, CacheInv, LotteryTypeOK, CachedUnlessSaveFailed

\* Every call of a run and every expiry keeps the invariant, and what a document
\* was first is what it stays.
LEMMA CacheStep ==
  CacheInv /\ [LotteryNext]_lotteryVars =>
    CacheInv' /\ \A d \in TicketIDs : collection[d] # NoTicket => collection'[d] = collection[d]
<1> SUFFICES ASSUME CacheInv, [LotteryNext]_lotteryVars
             PROVE  /\ CacheInv'
                    /\ \A d \in TicketIDs : collection[d] # NoTicket => collection'[d] = collection[d]
  OBVIOUS
<1> DEFINE Stays == \A d \in TicketIDs : collection[d] # NoTicket => collection'[d] = collection[d]
<1> USE TicketAssumption
<1>1. ASSUME NEW t \in Tickets, NEW d \in TicketIDs, CreateLotteryTicket(t, d)
      PROVE  CacheInv' /\ Stays
  BY <1>1 DEF CreateLotteryTicket, Advance, CacheInv, LotteryTypeOK, CachedUnlessSaveFailed
<1>2. ASSUME NEW t \in Tickets, SaveTicket(t)
      PROVE  CacheInv' /\ Stays
  <2>1. PICK d \in TicketIDs : ticketID[t] = d
    BY <1>2 DEF SaveTicket, Advance, CacheInv
  <2>2. /\ ticketStep[t] = "save" /\ ticketStep' = [ticketStep EXCEPT ![t] = "cache"]
        /\ collection[d] = NoTicket /\ collection' = [collection EXCEPT ![d] = t]
        /\ ticketID' = ticketID /\ cache' = cache /\ saveFailed' = saveFailed
    BY <1>2, <2>1 DEF SaveTicket, Advance
  <2>3. LotteryTypeOK'
    BY <2>2 DEF CacheInv, LotteryTypeOK
  <2>4. CachedUnlessSaveFailed'
    BY <2>2 DEF CacheInv, LotteryTypeOK, CachedUnlessSaveFailed
  <2>5. \A u \in Tickets : ticketStep'[u] # "create" => ticketID'[u] \in TicketIDs
    BY <2>1, <2>2 DEF CacheInv, LotteryTypeOK
  <2>6. ASSUME NEW u \in Tickets, ticketStep'[u] = "cache"
        PROVE  collection'[ticketID'[u]] = u \/ u \in saveFailed'
    <3>1. CASE u = t
      BY <2>1, <2>2, <3>1 DEF CacheInv, LotteryTypeOK
    <3>2. CASE u # t
      <4>1. ticketStep[u] = "cache"
        BY <2>2, <2>6, <3>2 DEF CacheInv, LotteryTypeOK
      <4>2. collection[ticketID[u]] = u \/ u \in saveFailed
        BY <4>1 DEF CacheInv
      <4>3. ticketID[u] \in TicketIDs
        BY <4>1 DEF CacheInv
      <4> QED
        BY <2>2, <4>2, <4>3 DEF CacheInv, LotteryTypeOK
    <3> QED
      BY <3>1, <3>2
  <2>7. Stays
    BY <2>2 DEF CacheInv, LotteryTypeOK
  <2> QED
    BY <2>3, <2>4, <2>5, <2>6, <2>7 DEF CacheInv
<1>3. ASSUME NEW t \in Tickets, SaveTicketFails(t)
      PROVE  CacheInv' /\ Stays
  <2>1. PICK d \in TicketIDs : ticketID[t] = d
    BY <1>3 DEF SaveTicketFails, Advance, CacheInv
  <2>2. /\ ticketStep[t] = "save" /\ ticketStep' = [ticketStep EXCEPT ![t] = "cache"]
        /\ ticketID' = ticketID /\ cache' = cache /\ saveFailed' = saveFailed \cup {t}
    BY <1>3, <2>1 DEF SaveTicketFails, Advance
  <2>3. collection' = collection
        \/ (collection[d] = NoTicket /\ collection' = [collection EXCEPT ![d] = t])
    BY <1>3, <2>1 DEF SaveTicketFails
  <2>4. collection' \in [TicketIDs -> Tickets \cup {NoTicket}] /\ Stays
    BY <2>3 DEF CacheInv, LotteryTypeOK
  <2>5. LotteryTypeOK'
    BY <2>2, <2>4 DEF CacheInv, LotteryTypeOK
  <2>6. CachedUnlessSaveFailed'
    <3> SUFFICES ASSUME NEW e \in TicketIDs, cache[e] # NoTicket
                 PROVE  cache[e] = collection'[e] \/ cache[e] \in saveFailed \cup {t}
      BY <2>2 DEF CachedUnlessSaveFailed
    <3>1. cache[e] = collection[e] \/ cache[e] \in saveFailed
      BY DEF CacheInv, CachedUnlessSaveFailed
    <3> QED
      BY <2>4, <3>1
  <2>7. \A u \in Tickets : ticketStep'[u] # "create" => ticketID'[u] \in TicketIDs
    BY <2>1, <2>2 DEF CacheInv, LotteryTypeOK
  <2>8. ASSUME NEW u \in Tickets, ticketStep'[u] = "cache"
        PROVE  collection'[ticketID'[u]] = u \/ u \in saveFailed'
    <3>1. CASE u = t
      BY <2>2, <3>1
    <3>2. CASE u # t
      <4>1. ticketStep[u] = "cache"
        BY <2>2, <2>8, <3>2 DEF CacheInv, LotteryTypeOK
      <4>2. (collection[ticketID[u]] = u \/ u \in saveFailed) /\ ticketID[u] \in TicketIDs
        BY <4>1 DEF CacheInv
      <4> QED
        BY <2>2, <2>4, <4>2
    <3> QED
      BY <3>1, <3>2
  <2> QED
    BY <2>4, <2>5, <2>6, <2>7, <2>8 DEF CacheInv
<1>4. ASSUME NEW t \in Tickets, CacheTicket(t)
      PROVE  CacheInv' /\ Stays
  <2>1. PICK d \in TicketIDs : ticketID[t] = d
    BY <1>4 DEF CacheTicket, Advance, CacheInv
  <2>2. /\ ticketStep[t] = "cache" /\ ticketStep' = [ticketStep EXCEPT ![t] = "end"]
        /\ ticketID' = ticketID /\ collection' = collection /\ saveFailed' = saveFailed
        /\ cache' = [cache EXCEPT ![d] = t] \/ cache' = cache
    BY <1>4, <2>1 DEF CacheTicket, Advance
  <2>3. collection[d] = t \/ t \in saveFailed
    BY <2>1, <2>2 DEF CacheInv
  <2>4. LotteryTypeOK'
    BY <2>2 DEF CacheInv, LotteryTypeOK
  <2>5. CachedUnlessSaveFailed'
    BY <2>2, <2>3 DEF CacheInv, LotteryTypeOK, CachedUnlessSaveFailed
  <2> QED
    BY <2>1, <2>2, <2>4, <2>5 DEF CacheInv, LotteryTypeOK
<1>5. ASSUME NEW d \in TicketIDs, Expire(d)
      PROVE  CacheInv' /\ Stays
  BY <1>5 DEF Expire, CacheInv, LotteryTypeOK, CachedUnlessSaveFailed
<1>6. CASE UNCHANGED lotteryVars
  BY <1>6 DEF lotteryVars, CacheInv, LotteryTypeOK, CachedUnlessSaveFailed
<1> QED
  BY <1>1, <1>2, <1>3, <1>4, <1>5, <1>6 DEF LotteryNext
-----------------------------------------------------------------------------
(* LotteryService *)

Document == Ticket \cup Result

\* What is saved, was returned or was reported is a document; a document in the
\* database, or on its way there, is that of a call.
ServiceInv ==
  /\ second \in 0 .. MaxSeconds /\ bets \in 0 .. MaxBets /\ draws \in 0 .. MaxDraws
  /\ saving \subseteq Document /\ reported \subseteq Document
  /\ returned \subseteq documents /\ documents \subseteq Document
  /\ documents \subseteq returned \cup saving \cup reported
  /\ inserts \subseteq returned \cup saving \cup reported

\* Nobody has bet.
LEMMA ServiceInitInv == ServiceInit => ServiceInv
<1>1. 0 \in 0 .. MaxSeconds /\ 0 \in 0 .. MaxDraws /\ 0 \in 0 .. MaxBets
  BY ServiceAssumption
<1> QED
  BY <1>1 DEF ServiceInit, ServiceInv

\* A call that begins to save a document.
LEMMA SaveKeeps ==
  ASSUME ServiceInv, NEW doc \in Document, Save(doc),
         bets' \in 0 .. MaxBets, draws' \in 0 .. MaxDraws
  PROVE  ServiceInv'
BY DEF ServiceInv, Save

\* Every step of the clock, of a call and of the database keeps the invariant.
LEMMA ServiceStep == ServiceInv /\ [ServiceNext]_serviceVars => ServiceInv'
<1> SUFFICES ASSUME ServiceInv, [ServiceNext]_serviceVars PROVE ServiceInv'
  OBVIOUS
<1>1. CASE ClockMoves
  BY <1>1 DEF ClockMoves, ServiceInv
<1>2. ASSUME NEW type \in LotteryTypes, RecordDrawResult(type)
      PROVE  ServiceInv'
  <2>1. draws + 1 \in 0 .. MaxDraws /\ draws + 1 \in 1 .. MaxDraws
    BY <1>2, ServiceAssumption DEF RecordDrawResult, ServiceInv
  <2> DEFINE r == [draw |-> draws + 1, type |-> type, issue |-> second]
  <2>2. r \in Document
    BY <2>1 DEF Document, Result, ServiceInv
  <2>3. Save(r) /\ draws' = draws + 1 /\ bets' = bets
    BY <1>2 DEF RecordDrawResult
  <2>4. bets \in 0 .. MaxBets
    BY DEF ServiceInv
  <2> HIDE DEF r
  <2> QED
    BY <2>1, <2>2, <2>3, <2>4, SaveKeeps
<1>3. ASSUME NEW type \in LotteryTypes, NEW user \in Bettors, PlaceBet(user, type)
      PROVE  ServiceInv'
  <2>1. bets + 1 \in 0 .. MaxBets /\ bets + 1 \in 1 .. MaxBets
    BY <1>3, ServiceAssumption DEF PlaceBet, ServiceInv
  <2> DEFINE t == [bet |-> bets + 1, user |-> user, type |-> type, issue |-> second]
  <2>2. t \in Document
    BY <2>1 DEF Document, Ticket, ServiceInv
  <2>3. Save(t) /\ bets' = bets + 1 /\ draws' = draws
    BY <1>3 DEF PlaceBet
  <2>4. draws \in 0 .. MaxDraws
    BY DEF ServiceInv
  <2> HIDE DEF t
  <2> QED
    BY <2>1, <2>2, <2>3, <2>4, SaveKeeps
<1>4. ASSUME NEW doc \in inserts, InsertOne(doc)
      PROVE  ServiceInv'
  BY <1>4 DEF InsertOne, ServiceInv
<1>5. ASSUME NEW doc \in saving, ReturnDoc(doc)
      PROVE  ServiceInv'
  BY <1>5 DEF ReturnDoc, ServiceInv
<1>6. ASSUME NEW doc \in saving, ReturnError(doc)
      PROVE  ServiceInv'
  BY <1>6 DEF ReturnError, ServiceInv
<1>7. CASE UNCHANGED serviceVars
  BY <1>7 DEF serviceVars, ServiceInv
<1> QED
  BY <1>1, <1>2, <1>3, <1>4, <1>5, <1>6, <1>7 DEF ServiceNext

\* What a call returned is in the database, so the finders find it.
LEMMA ServiceRight == ServiceInv => ServiceTypeOK /\ BetsFound
<1> SUFFICES ASSUME ServiceInv PROVE ServiceTypeOK /\ BetsFound
  OBVIOUS
<1>1. ServiceTypeOK
  <2>1. inserts \subseteq Document /\ returned \subseteq Document
    BY DEF ServiceInv
  <2>2. \A docs \in {saving, inserts, documents, returned, reported} : docs \subseteq Document
    BY <2>1 DEF ServiceInv
  <2> QED
    BY <2>2 DEF ServiceInv, ServiceTypeOK, Document
<1>2. ASSUME NEW doc \in returned
      PROVE  IF doc \in Ticket THEN doc \in GetTicketsByUser(doc.user)
                               ELSE GetDrawResultByIssue(doc.type, doc.issue) # {}
  <2>1. doc \in documents /\ (doc \in Ticket \/ doc \in Result)
    BY DEF ServiceInv, Document
  <2>2. CASE doc \in Ticket
    BY <2>1, <2>2 DEF GetTicketsByUser
  <2>3. CASE doc \notin Ticket
    <3>1. doc \in GetDrawResultByIssue(doc.type, doc.issue)
      BY <2>1, <2>3 DEF GetDrawResultByIssue
    <3> QED
      BY <2>3, <3>1
  <2> QED
    BY <2>2, <2>3
<1>3. documents \subseteq returned \cup saving \cup reported
  BY DEF ServiceInv
<1> QED
  BY <1>1, <1>2, <1>3 DEF BetsFound

-----------------------------------------------------------------------------
(* NatsTimeline *)

\* A sequence of one with another element appended.
LEMMA PairMade == ASSUME NEW x, NEW y PROVE Append(<<x>>, y) = <<x, y>>
<1> DEFINE s == Append(<<x>>, y)
           pair == <<x, y>>
<1>1. <<x>> \in Seq({x, y}) /\ pair \in Seq({x, y})
  OBVIOUS
<1>2. s \in Seq({x, y}) /\ Len(s) = 2 /\ s[1] = x /\ s[2] = y
  BY <1>1
<1>3. Len(pair) = 2 /\ pair[1] = x /\ pair[2] = y
  OBVIOUS
<1> HIDE DEF s, pair
<1>4. \A k \in 1 .. Len(s) : s[k] = pair[k]
  BY <1>2, <1>3
<1>5. s = pair
  BY <1>1, <1>2, <1>3, <1>4, SeqEqual
<1> QED
  BY <1>5 DEF s, pair

\* What is in a sequence of events when one is added, and when the first goes.
LEMMA EventsIn ==
  ASSUME NEW s \in Seq(Users)
  PROVE  /\ \A u, v \in Users : Contains(Append(s, u), v) <=> Contains(s, v) \/ v = u
         /\ s # << >> =>
              /\ Head(s) \in Users /\ Tail(s) \in Seq(Users) /\ Contains(s, Head(s))
              /\ \A v \in Users : Contains(Tail(s), v) => Contains(s, v)
<1>1. ASSUME NEW u \in Users, NEW v \in Users
      PROVE  Contains(Append(s, u), v) <=> Contains(s, v) \/ v = u
  <2>1. /\ Len(s) \in Nat /\ Len(Append(s, u)) = Len(s) + 1 /\ Append(s, u)[Len(s) + 1] = u
        /\ \A k \in 1 .. Len(s) : Append(s, u)[k] = s[k]
    OBVIOUS
  <2>2. \A k \in 1 .. Len(s) + 1 : k \in 1 .. Len(s) \/ k = Len(s) + 1
    BY <2>1
  <2>3. \A k \in 1 .. Len(s) : k \in 1 .. Len(s) + 1
    BY <2>1
  <2>4. Len(s) + 1 \in 1 .. Len(s) + 1
    BY <2>1
  <2> QED
    BY <2>1, <2>2, <2>3, <2>4 DEF Contains
<1>2. ASSUME s # << >>
      PROVE  /\ Head(s) \in Users /\ Tail(s) \in Seq(Users) /\ Contains(s, Head(s))
             /\ \A v \in Users : Contains(Tail(s), v) => Contains(s, v)
  <2>1. Len(s) \in Nat \ {0} /\ Head(s) = s[1] /\ Head(s) \in Users /\ Tail(s) \in Seq(Users)
        /\ Len(Tail(s)) = Len(s) - 1 /\ \A k \in 1 .. Len(s) - 1 : Tail(s)[k] = s[k + 1]
    BY <1>2
  <2>2. \A k \in 1 .. Len(s) - 1 : k + 1 \in 1 .. Len(s)
    BY <2>1
  <2>3. 1 \in 1 .. Len(s)
    BY <2>1
  <2> QED
    BY <2>1, <2>2, <2>3 DEF Contains
<1> QED
  BY <1>1, <1>2

\* A part of a sequence of events has no others.
LEMMA EventsKept ==
  ASSUME NEW s \in Seq(Users), NEW n \in 0 .. Len(s)
  PROVE  /\ SubSeq(s, 1, n) \in Seq(Users)
         /\ \A v \in Users : Contains(SubSeq(s, 1, n), v) => Contains(s, v)
<1>1. n \in Nat /\ Len(s) \in Nat /\ n <= Len(s)
  OBVIOUS
<1>2. /\ SubSeq(s, 1, n) \in Seq(Users) /\ Len(SubSeq(s, 1, n)) = n
      /\ \A k \in 1 .. n : SubSeq(s, 1, n)[k] = s[k]
  BY <1>1, SubSeqProperties
<1>3. \A k \in 1 .. n : k \in 1 .. Len(s)
  BY <1>1
<1> QED
  BY <1>2, <1>3 DEF Contains

\* v's event has reached u, or is on its way to u's callback.
Seen(u, v) == Contains(delivery[u], v) \/ Contains(printed[u], v)

\* What u's connection still holds, by how far u's main is.  The subscription is
\* ahead of the event only where it was sent again, and without that a subscriber's
\* connection holds nothing.
Pipeline(u) ==
  /\ natsStep[u] \in {"connect", "publish", "fatal"} => outgoing[u] = << >>
  /\ natsStep[u] \in {"subscribe", "deaf"} => outgoing[u] \in {<<"PUB">>, << >>}
  /\ natsStep[u] = "listen" =>
       outgoing[u] \in {<<"PUB", "SUB">>, <<"SUB">>, << >>, <<"PUB">>, <<"SUB", "PUB">>}
  /\ outgoing[u] = <<"SUB", "PUB">> => u \in resent
  /\ natsStep[u] = "connect" => u \notin connected
  /\ u \notin connected => outgoing[u] \in {<<"PUB">>, << >>}
  /\ u \in subscribers =>
       natsStep[u] = "listen" /\ u \in connected /\ (u \in resent \/ outgoing[u] = << >>)

\* The event of v has left its connection, or was lost with it.
PublishGone(v) == natsStep[v] \in {"subscribe", "listen", "deaf"} /\ outgoing[v] \in {<<"SUB">>, << >>}

NatsSteps == {"connect", "publish", "subscribe", "listen", "deaf", "fatal"}

\* Events are seen by users that listen, once their own has gone or they subscribed
\* again, and of two users that did not one at most sees that of the other.
NatsInv ==
  /\ natsStep \in [Users -> NatsSteps] /\ breaks \in 0 .. MaxBreaks
  /\ connected \subseteq Users /\ subscribers \subseteq Users /\ resent \subseteq Users
  /\ DOMAIN outgoing = Users
  /\ delivery \in [Users -> Seq(Users)] /\ printed \in [Users -> Seq(Users)]
  /\ \A u \in Users : Pipeline(u)
  /\ \A u, v \in Users : Seen(u, v) =>
       natsStep[u] = "listen" /\ PublishGone(v) /\ (u \in resent \/ PublishGone(u))
  /\ \A u, v \in Users : Seen(u, v) /\ Seen(v, u) => u \in resent \/ v \in resent

\* Nobody has connected.
LEMMA NatsInitInv == NatsInit => NatsInv
<1> SUFFICES ASSUME NatsInit PROVE NatsInv
  OBVIOUS
<1>1. \A u \in Users : ~Contains(<< >>, u)
  BY DEF Contains
<1>2. 0 \in 0 .. MaxBreaks
  BY NatsAssumption
<1> QED
  BY <1>1, <1>2 DEF NatsInit, NatsInv, NatsSteps, Pipeline, Seen

\* The server takes what comes first, and leaves what comes after it.
LEMMA Commands ==
  /\ <<"PUB">> # << >> /\ <<"SUB">> # << >> /\ <<"PUB", "SUB">> # << >> /\ <<"SUB", "PUB">> # << >>
  /\ Head(<<"PUB">>) = "PUB" /\ Tail(<<"PUB">>) = << >>
  /\ Head(<<"SUB">>) = "SUB" /\ Tail(<<"SUB">>) = << >>
  /\ Head(<<"PUB", "SUB">>) = "PUB" /\ Tail(<<"PUB", "SUB">>) = <<"SUB">>
  /\ Head(<<"SUB", "PUB">>) = "SUB" /\ Tail(<<"SUB", "PUB">>) = <<"PUB">>
  /\ Append(<< >>, "PUB") = <<"PUB">> /\ Append(<< >>, "SUB") = <<"SUB">>
  /\ Append(<<"PUB">>, "SUB") = <<"PUB", "SUB">>
  /\ <<"SUB">> \o << >> = <<"SUB">> /\ <<"SUB">> \o <<"PUB">> = <<"SUB", "PUB">>
  /\ <<"PUB", "SUB">> # <<"SUB">> /\ <<"PUB">> # <<"SUB">> /\ <<"SUB", "PUB">> # <<"SUB">>
  /\ <<"PUB", "SUB">> # <<"SUB", "PUB">> /\ <<"PUB">> # <<"SUB", "PUB">>
<1>1. <<"PUB">> # << >> /\ <<"SUB">> # << >> /\ <<"PUB", "SUB">> # << >> /\ <<"SUB", "PUB">> # << >>
  OBVIOUS
<1>2. /\ Head(<<"PUB">>) = "PUB" /\ Head(<<"SUB">>) = "SUB"
      /\ Head(<<"PUB", "SUB">>) = "PUB" /\ Head(<<"SUB", "PUB">>) = "SUB"
  OBVIOUS
<1>3. Tail(<<"PUB">>) = << >> /\ Tail(<<"SUB">>) = << >>
  OBVIOUS
<1>4. Tail(<<"PUB", "SUB">>) = <<"SUB">> /\ Tail(<<"SUB", "PUB">>) = <<"PUB">>
  OBVIOUS
<1>5. Append(<< >>, "PUB") = <<"PUB">> /\ Append(<< >>, "SUB") = <<"SUB">>
  OBVIOUS
<1>6. Append(<<"PUB">>, "SUB") = <<"PUB", "SUB">> /\ Append(<<"SUB">>, "PUB") = <<"SUB", "PUB">>
  BY PairMade
<1>7. <<"PUB", "SUB">> # <<"SUB">> /\ <<"PUB">> # <<"SUB">> /\ <<"SUB", "PUB">> # <<"SUB">>
  OBVIOUS
<1>8. <<"PUB", "SUB">> # <<"SUB", "PUB">> /\ <<"PUB">> # <<"SUB", "PUB">>
  OBVIOUS
<1>9. <<"SUB">> \o << >> = <<"SUB">>
  <2> DEFINE s == <<"SUB">> \o << >>
             one == <<"SUB">>
  <2>1. s \in Seq({"SUB"}) /\ Len(s) = 1 /\ s[1] = "SUB"
    OBVIOUS
  <2>2. one \in Seq({"SUB"}) /\ Len(one) = 1 /\ one[1] = "SUB"
    OBVIOUS
  <2> HIDE DEF s, one
  <2>3. \A k \in 1 .. Len(s) : s[k] = one[k]
    BY <2>1, <2>2
  <2>4. s = one
    BY <2>1, <2>2, <2>3, SeqEqual
  <2> QED
    BY <2>4 DEF s, one
<1>10. <<"SUB">> \o <<"PUB">> = <<"SUB", "PUB">>
  <2> DEFINE s == <<"SUB">> \o <<"PUB">>
             two == <<"SUB", "PUB">>
  <2>1. s \in Seq({"SUB", "PUB"}) /\ Len(s) = 2 /\ s[1] = "SUB" /\ s[2] = "PUB"
    OBVIOUS
  <2>2. two \in Seq({"SUB", "PUB"}) /\ Len(two) = 2 /\ two[1] = "SUB" /\ two[2] = "PUB"
    OBVIOUS
  <2> HIDE DEF s, two
  <2>3. \A k \in 1 .. Len(s) : s[k] = two[k]
    BY <2>1, <2>2
  <2>4. s = two
    BY <2>1, <2>2, <2>3, SeqEqual
  <2> QED
    BY <2>4 DEF s, two
<1> QED
  BY <1>1, <1>2, <1>3, <1>4, <1>5, <1>6, <1>7, <1>8, <1>9, <1>10

\* A step of u that brings nobody an event, loses no subscription of another, and
\* keeps u's part of the invariant.
LEMMA UserMoves ==
  ASSUME NatsInv, NEW u \in Users,
         natsStep' \in [Users -> NatsSteps], DOMAIN outgoing' = Users, breaks' \in 0 .. MaxBreaks,
         \A v \in Users \ {u} : natsStep'[v] = natsStep[v] /\ outgoing'[v] = outgoing[v],
         connected' \subseteq Users, subscribers' \subseteq Users,
         resent \subseteq resent', resent' \subseteq Users,
         \A v \in Users \ {u} : /\ v \in connected' <=> v \in connected
                                /\ v \in subscribers' <=> v \in subscribers,
         delivery' \in [Users -> Seq(Users)], printed' \in [Users -> Seq(Users)],
         \A v, w \in Users : Seen(v, w)' => Seen(v, w),
         Pipeline(u)', PublishGone(u) => PublishGone(u)',
         natsStep[u] = "listen" => natsStep'[u] = "listen"
  PROVE  NatsInv'
<1>1. \A v \in Users \ {u} : Pipeline(v)'
  BY DEF NatsInv, Pipeline
<1>2. \A v \in Users : Pipeline(v)'
  BY <1>1
<1>3. \A v \in Users : PublishGone(v) => PublishGone(v)'
  BY DEF PublishGone
<1>4. \A v \in Users : natsStep[v] = "listen" => natsStep'[v] = "listen"
  OBVIOUS
<1>5. \A v, w \in Users : Seen(v, w)' =>
        natsStep'[v] = "listen" /\ PublishGone(w)' /\ (v \in resent' \/ PublishGone(v)')
  BY <1>3, <1>4 DEF NatsInv
<1>6. \A v, w \in Users : Seen(v, w)' /\ Seen(w, v)' => v \in resent' \/ w \in resent'
  BY DEF NatsInv
<1> HIDE DEF NatsSteps
<1> QED
  BY <1>2, <1>5, <1>6 DEF NatsInv

\* A call of u's own main moves its pipeline and nothing that was seen.
LEMMA NatsCallsKeep ==
  ASSUME NatsInv, NEW u \in Users, NatsConnect(u) \/ Publish(u) \/ Subscribe(u)
  PROVE  NatsInv'
<1>1. /\ subscribers' = subscribers /\ delivery' = delivery /\ printed' = printed
      /\ resent' = resent /\ breaks' = breaks
  BY DEF NatsConnect, Publish, Subscribe, natsServer, natsPast
<1>2. \A v, w \in Users : Seen(v, w)' <=> Seen(v, w)
  BY <1>1 DEF Seen
<1>3. /\ natsStep' \in [Users -> NatsSteps]
      /\ DOMAIN outgoing' = Users
      /\ \A v \in Users \ {u} : natsStep'[v] = natsStep[v] /\ outgoing'[v] = outgoing[v]
  BY DEF NatsConnect, Publish, Subscribe, Send, NatsCall, NatsInv, NatsSteps
<1>4. Pipeline(u) /\ u \notin subscribers /\ natsStep[u] # "listen"
  BY DEF NatsInv, Pipeline, NatsConnect, Publish, Subscribe, NatsCall
<1>5. \/ /\ natsStep[u] = "connect" /\ natsStep'[u] = "publish"
         /\ outgoing'[u] = outgoing[u] /\ connected' = connected \cup {u}
      \/ /\ natsStep[u] \in {"connect", "publish"} /\ natsStep'[u] = "fatal"
         /\ outgoing'[u] = outgoing[u] /\ connected' = connected
      \/ /\ natsStep[u] = "publish" /\ natsStep'[u] = "subscribe"
         /\ outgoing'[u] = Append(outgoing[u], "PUB") /\ connected' = connected
      \/ /\ natsStep[u] = "subscribe" /\ natsStep'[u] = "listen" /\ u \in connected
         /\ outgoing'[u] = Append(outgoing[u], "SUB") /\ connected' = connected
      \/ /\ natsStep[u] = "subscribe" /\ natsStep'[u] = "listen" /\ u \notin connected
         /\ outgoing'[u] = outgoing[u] /\ connected' = connected
      \/ /\ natsStep[u] = "subscribe" /\ natsStep'[u] = "deaf"
         /\ outgoing'[u] = outgoing[u] /\ connected' = connected
  BY DEF NatsInv, NatsConnect, Publish, Subscribe, Send, NatsCall
<1>6. Pipeline(u)'
  BY <1>1, <1>4, <1>5, Commands DEF Pipeline
<1>7. PublishGone(u) => PublishGone(u)'
  BY <1>4, <1>5, Commands DEF Pipeline, PublishGone
<1>8. connected' \subseteq Users /\ \A v \in Users \ {u} : v \in connected' <=> v \in connected
  BY <1>5 DEF NatsInv
<1>9. /\ subscribers' \subseteq Users /\ resent' \subseteq Users /\ resent \subseteq resent'
      /\ delivery' \in [Users -> Seq(Users)] /\ printed' \in [Users -> Seq(Users)]
      /\ breaks' \in 0 .. MaxBreaks
  BY <1>1 DEF NatsInv
<1> HIDE DEF NatsSteps
<1> QED
  BY <1>1, <1>2, <1>3, <1>4, <1>6, <1>7, <1>8, <1>9, UserMoves

\* The server hands an event to its subscribers, of whom the publisher is none
\* unless it subscribed again.
LEMMA ServerKeeps ==
  ASSUME NatsInv, NEW u \in Users, ServerTakes(u)
  PROVE  NatsInv'
<1>1. /\ u \in connected /\ outgoing[u] # << >> /\ outgoing' = [outgoing EXCEPT ![u] = Tail(@)]
      /\ natsStep' = natsStep /\ connected' = connected /\ printed' = printed
      /\ resent' = resent /\ breaks' = breaks /\ DOMAIN outgoing = Users
  BY DEF ServerTakes, natsPast, NatsInv
<1>2. Pipeline(u) /\ natsStep[u] \in NatsSteps
  BY <1>1 DEF NatsInv
<1>3. outgoing'[u] = Tail(outgoing[u]) /\ \A v \in Users \ {u} : outgoing'[v] = outgoing[v]
  BY <1>1
<1>4. \/ outgoing[u] = <<"SUB">> /\ outgoing'[u] = << >> /\ natsStep[u] = "listen"
      \/ /\ outgoing[u] = <<"SUB", "PUB">> /\ outgoing'[u] = <<"PUB">> /\ natsStep[u] = "listen"
         /\ u \in resent
      \/ outgoing[u] = <<"PUB", "SUB">> /\ outgoing'[u] = <<"SUB">> /\ natsStep[u] = "listen"
      \/ /\ outgoing[u] = <<"PUB">> /\ outgoing'[u] = << >>
         /\ natsStep[u] \in {"subscribe", "listen", "deaf"}
  BY <1>1, <1>2, <1>3, Commands DEF Pipeline, NatsSteps
<1>5. PublishGone(u) => PublishGone(u)'
  BY <1>1, <1>3, <1>4, Commands DEF PublishGone
<1>6. \A v \in Users : PublishGone(v) => PublishGone(v)'
  BY <1>1, <1>3, <1>5 DEF PublishGone
<1>7. CASE Head(outgoing[u]) = "SUB"
  <2>1. subscribers' = subscribers \cup {u} /\ delivery' = delivery
    BY <1>7 DEF ServerTakes
  <2>2. \A v, w \in Users : Seen(v, w)' <=> Seen(v, w)
    BY <1>1, <2>1 DEF Seen
  <2>3. Pipeline(u)'
    BY <1>1, <1>2, <1>4, <1>7, <2>1, Commands DEF Pipeline
  <2>4. /\ \A v \in Users \ {u} : natsStep'[v] = natsStep[v] /\ (v \in connected' <=> v \in connected)
                                  /\ (v \in subscribers' <=> v \in subscribers)
        /\ natsStep' \in [Users -> NatsSteps] /\ DOMAIN outgoing' = Users /\ breaks' \in 0 .. MaxBreaks
        /\ connected' \subseteq Users /\ subscribers' \subseteq Users
        /\ resent' \subseteq Users /\ resent \subseteq resent'
        /\ delivery' \in [Users -> Seq(Users)] /\ printed' \in [Users -> Seq(Users)]
        /\ natsStep[u] = "listen" => natsStep'[u] = "listen"
    BY <1>1, <2>1 DEF NatsInv
  <2> HIDE DEF NatsSteps
  <2> QED
    BY <1>3, <1>5, <2>2, <2>3, <2>4, UserMoves
<1>8. CASE Head(outgoing[u]) # "SUB"
  <2>1. /\ subscribers' = subscribers
        /\ delivery' = [v \in Users |-> IF v \in subscribers THEN Append(delivery[v], u) ELSE delivery[v]]
    BY <1>8 DEF ServerTakes
  <2>2. delivery' \in [Users -> Seq(Users)] /\ delivery \in [Users -> Seq(Users)]
    BY <2>1 DEF NatsInv
  <2>3. \A v, w \in Users : Seen(v, w)' <=> Seen(v, w) \/ (v \in subscribers /\ w = u)
    <3> SUFFICES ASSUME NEW v \in Users, NEW w \in Users
                 PROVE  Seen(v, w)' <=> Seen(v, w) \/ (v \in subscribers /\ w = u)
      OBVIOUS
    <3>1. CASE v \in subscribers
      <4>1. delivery'[v] = Append(delivery[v], u)
        BY <2>1, <3>1
      <4>2. Contains(Append(delivery[v], u), w) <=> Contains(delivery[v], w) \/ w = u
        BY <2>2, EventsIn
      <4> QED
        BY <1>1, <3>1, <4>1, <4>2 DEF Seen
    <3>2. CASE v \notin subscribers
      BY <1>1, <2>1, <3>2 DEF Seen
    <3> QED
      BY <3>1, <3>2
  <2>4. outgoing[u] \in {<<"PUB", "SUB">>, <<"PUB">>} /\ ~PublishGone(u) /\ PublishGone(u)'
    BY <1>1, <1>4, <1>8, Commands DEF PublishGone
  <2>5. Pipeline(u)'
    BY <1>1, <1>2, <1>4, <1>8, <2>1, Commands DEF Pipeline
  <2>6. \A v \in Users \ {u} : Pipeline(v)'
    BY <1>1, <1>3, <2>1 DEF NatsInv, Pipeline
  <2>7. \A v \in Users : Pipeline(v)'
    BY <2>5, <2>6
  <2>8. \A v \in subscribers : natsStep[v] = "listen" /\ (v \in resent \/ PublishGone(v))
    BY Commands DEF NatsInv, Pipeline, PublishGone
  <2>9. \A v, w \in Users : Seen(v, w)' =>
          natsStep'[v] = "listen" /\ PublishGone(w)' /\ (v \in resent' \/ PublishGone(v)')
    BY <1>1, <1>6, <2>3, <2>4, <2>8 DEF NatsInv
  <2>10. \A w \in Users : Seen(u, w) \/ u \in subscribers => u \in resent
    BY <2>4, <2>8 DEF NatsInv
  <2>11. \A v, w \in Users : Seen(v, w)' /\ Seen(w, v)' => v \in resent' \/ w \in resent'
    <3>1. \A v, w \in Users : Seen(v, w) /\ Seen(w, v) => v \in resent \/ w \in resent
      BY DEF NatsInv
    <3> SUFFICES ASSUME NEW v \in Users, NEW w \in Users, Seen(v, w)', Seen(w, v)'
                 PROVE  v \in resent \/ w \in resent
      BY <1>1
    <3>2. (Seen(v, w) \/ (v \in subscribers /\ w = u)) /\ (Seen(w, v) \/ (w \in subscribers /\ v = u))
      BY <2>3
    <3> QED
      BY <2>10, <3>1, <3>2
  <2>12. /\ natsStep' \in [Users -> NatsSteps] /\ DOMAIN outgoing' = Users /\ breaks' \in 0 .. MaxBreaks
         /\ connected' \subseteq Users /\ subscribers' \subseteq Users /\ resent' \subseteq Users
         /\ printed' \in [Users -> Seq(Users)]
    BY <1>1, <2>1 DEF NatsInv
  <2> HIDE DEF NatsSteps
  <2> QED
    BY <2>2, <2>7, <2>9, <2>11, <2>12 DEF NatsInv
<1> QED
  BY <1>7, <1>8

\* A callback prints what was on its way.
LEMMA ReceiveKeeps ==
  ASSUME NatsInv, NEW u \in Users, Receive(u)
  PROVE  NatsInv'
<1>1. /\ delivery[u] # << >> /\ delivery' = [delivery EXCEPT ![u] = Tail(@)]
      /\ printed' = [printed EXCEPT ![u] = Append(@, Head(delivery[u]))]
      /\ natsStep' = natsStep /\ outgoing' = outgoing /\ subscribers' = subscribers
      /\ connected' = connected /\ resent' = resent /\ breaks' = breaks
      /\ delivery \in [Users -> Seq(Users)] /\ printed \in [Users -> Seq(Users)]
  BY DEF Receive, natsPast, NatsInv
<1>2. /\ Head(delivery[u]) \in Users /\ Tail(delivery[u]) \in Seq(Users)
      /\ Contains(delivery[u], Head(delivery[u]))
      /\ \A v \in Users : Contains(Tail(delivery[u]), v) => Contains(delivery[u], v)
  BY <1>1, EventsIn
<1>3. \A v \in Users :
        Contains(Append(printed[u], Head(delivery[u])), v) <=> Contains(printed[u], v) \/ v = Head(delivery[u])
  BY <1>1, <1>2, EventsIn
<1>4. delivery' \in [Users -> Seq(Users)] /\ printed' \in [Users -> Seq(Users)]
  BY <1>1, <1>2
<1>5. \A v \in Users : Seen(u, v)' => Seen(u, v)
  BY <1>1, <1>2, <1>3 DEF Seen
<1>6. \A w \in Users \ {u} : \A v \in Users : Seen(w, v)' => Seen(w, v)
  BY <1>1 DEF Seen
<1>7. \A w, v \in Users : Seen(w, v)' => Seen(w, v)
  BY <1>5, <1>6
<1>8. Pipeline(u)' /\ (PublishGone(u) => PublishGone(u)')
  BY <1>1 DEF NatsInv, Pipeline, PublishGone
<1>9. /\ natsStep' \in [Users -> NatsSteps] /\ DOMAIN outgoing' = Users /\ breaks' \in 0 .. MaxBreaks
      /\ connected' \subseteq Users /\ subscribers' \subseteq Users
      /\ resent' \subseteq Users /\ resent \subseteq resent'
  BY <1>1 DEF NatsInv
<1> HIDE DEF NatsSteps
<1> QED
  BY <1>1, <1>4, <1>7, <1>8, <1>9, UserMoves

\* A connection that breaks takes the subscription along, and events or not.
LEMMA BreakKeeps ==
  ASSUME NatsInv, NEW u \in Users, ConnectionBreaks(u)
  PROVE  NatsInv'
<1>1. /\ u \in connected /\ breaks' = breaks + 1 /\ breaks < MaxBreaks
      /\ connected' = connected \ {u} /\ subscribers' = subscribers \ {u}
      /\ natsStep' = natsStep /\ printed' = printed /\ resent' = resent
      /\ DOMAIN outgoing = Users /\ DOMAIN outgoing' = Users
      /\ \A v \in Users \ {u} : outgoing'[v] = outgoing[v]
  BY DEF ConnectionBreaks, NatsInv
<1>2. outgoing'[u] = << >> \/ (Contains(outgoing[u], "PUB") /\ outgoing'[u] = <<"PUB">>)
  BY <1>1 DEF ConnectionBreaks
<1>3. ~Contains(<< >>, "PUB") /\ ~Contains(<<"SUB">>, "PUB")
  BY DEF Contains
<1>4. natsStep[u] # "connect" /\ natsStep[u] \in NatsSteps /\ Pipeline(u)
  BY <1>1 DEF NatsInv, Pipeline
<1>5. /\ outgoing'[u] = << >> \/ (outgoing'[u] = <<"PUB">> /\ ~PublishGone(u))
      /\ outgoing'[u] = <<"PUB">> => natsStep[u] \in {"subscribe", "deaf", "listen"}
  BY <1>2, <1>3, <1>4, Commands DEF Pipeline, PublishGone, NatsSteps
<1>6. Pipeline(u)'
  BY <1>1, <1>4, <1>5, Commands DEF Pipeline
<1>7. PublishGone(u) => PublishGone(u)'
  BY <1>1, <1>5 DEF PublishGone
<1>8. PICK n \in 0 .. Len(delivery[u]) : delivery' = [delivery EXCEPT ![u] = SubSeq(@, 1, n)]
  BY DEF ConnectionBreaks
<1>9. /\ delivery \in [Users -> Seq(Users)]
      /\ SubSeq(delivery[u], 1, n) \in Seq(Users)
      /\ \A v \in Users : Contains(SubSeq(delivery[u], 1, n), v) => Contains(delivery[u], v)
  BY EventsKept DEF NatsInv
<1>10. delivery' \in [Users -> Seq(Users)] /\ printed' \in [Users -> Seq(Users)]
  BY <1>1, <1>8, <1>9 DEF NatsInv
<1>11. \A v, w \in Users : Seen(v, w)' => Seen(v, w)
  BY <1>1, <1>8, <1>9 DEF Seen
<1>12. breaks' \in 0 .. MaxBreaks
  BY <1>1, NatsAssumption DEF NatsInv
<1>13. /\ natsStep' \in [Users -> NatsSteps] /\ connected' \subseteq Users /\ subscribers' \subseteq Users
       /\ resent' \subseteq Users /\ resent \subseteq resent'
       /\ \A v \in Users \ {u} : /\ v \in connected' <=> v \in connected
                                 /\ v \in subscribers' <=> v \in subscribers
  BY <1>1 DEF NatsInv
<1> HIDE DEF NatsSteps
<1> QED
  BY <1>1, <1>6, <1>7, <1>10, <1>11, <1>12, <1>13, UserMoves

\* A user that connects again is recorded when its subscription goes ahead.
LEMMA ReconnectKeeps ==
  ASSUME NatsInv, NEW u \in Users, Reconnect(u)
  PROVE  NatsInv'
<1>1. /\ u \notin connected /\ natsStep[u] \notin {"connect", "fatal"}
      /\ connected' = connected \cup {u} /\ natsStep' = natsStep /\ breaks' = breaks
      /\ subscribers' = subscribers /\ delivery' = delivery /\ printed' = printed
      /\ DOMAIN outgoing = Users /\ Pipeline(u) /\ natsStep[u] \in NatsSteps
  BY DEF Reconnect, natsServer, NatsInv
<1>2. /\ DOMAIN outgoing' = Users /\ \A v \in Users \ {u} : outgoing'[v] = outgoing[v]
      /\ natsStep[u] = "listen" =>
           /\ outgoing'[u] = <<"SUB">> \o outgoing[u]
           /\ resent' = IF outgoing[u] = << >> THEN resent ELSE resent \cup {u}
      /\ natsStep[u] # "listen" => outgoing'[u] = outgoing[u] /\ resent' = resent
  BY <1>1 DEF Reconnect
<1>3. outgoing[u] \in {<<"PUB">>, << >>} /\ u \notin subscribers
  BY <1>1 DEF Pipeline
<1>4. resent' \subseteq Users /\ resent \subseteq resent'
  BY <1>2 DEF NatsInv
<1>5. natsStep[u] = "listen" =>
        \/ outgoing[u] = << >> /\ outgoing'[u] = <<"SUB">>
        \/ outgoing[u] = <<"PUB">> /\ outgoing'[u] = <<"SUB", "PUB">> /\ u \in resent'
  BY <1>2, <1>3, Commands
<1>6. Pipeline(u)'
  BY <1>1, <1>2, <1>3, <1>5, Commands DEF Pipeline, NatsSteps
<1>7. PublishGone(u) => PublishGone(u)'
  BY <1>1, <1>2, <1>3, <1>5, Commands DEF PublishGone
<1>8. \A v, w \in Users : Seen(v, w)' <=> Seen(v, w)
  BY <1>1 DEF Seen
<1>9. /\ natsStep' \in [Users -> NatsSteps] /\ connected' \subseteq Users /\ subscribers' \subseteq Users
      /\ delivery' \in [Users -> Seq(Users)] /\ printed' \in [Users -> Seq(Users)]
      /\ breaks' \in 0 .. MaxBreaks
      /\ \A v \in Users \ {u} : /\ v \in connected' <=> v \in connected
                                /\ v \in subscribers' <=> v \in subscribers
  BY <1>1 DEF NatsInv
<1> HIDE DEF NatsSteps
<1> QED
  BY <1>1, <1>2, <1>4, <1>6, <1>7, <1>8, <1>9, UserMoves

\* Every step keeps the invariant.
LEMMA NatsStep == NatsInv /\ [NatsNext]_natsVars => NatsInv'
<1> SUFFICES ASSUME NatsInv, [NatsNext]_natsVars PROVE NatsInv'
  OBVIOUS
<1>1. ASSUME NEW u \in Users,
             \/ NatsConnect(u) \/ Publish(u) \/ Subscribe(u) \/ ServerTakes(u) \/ Receive(u)
             \/ ConnectionBreaks(u) \/ Reconnect(u)
      PROVE  NatsInv'
  BY <1>1, NatsCallsKeep, ServerKeeps, ReceiveKeeps, BreakKeeps, ReconnectKeeps
<1>2. CASE UNCHANGED natsVars
  BY <1>2 DEF natsVars, NatsInv, Pipeline, Seen, PublishGone
<1> QED
  BY <1>1, <1>2 DEF NatsNext

\* What was printed was seen.
LEMMA NatsRight == NatsInv => NatsTypeOK /\ OnlyLaterEvents
<1> SUFFICES ASSUME NatsInv PROVE NatsTypeOK /\ OnlyLaterEvents
  OBVIOUS
<1>1. \A u \in Users :
        outgoing[u] \in {<< >>, <<"PUB">>, <<"SUB">>, <<"PUB", "SUB">>, <<"SUB", "PUB">>}
  BY DEF NatsInv, NatsSteps, Pipeline
<1>2. subscribers \subseteq connected
  BY DEF NatsInv, Pipeline
<1>3. NatsTypeOK
  BY <1>1, <1>2 DEF NatsInv, NatsSteps, NatsTypeOK
<1>4. OnlyLaterEvents
  BY DEF NatsInv, OnlyLaterEvents, Seen
<1> QED
  BY <1>3, <1>4
-----------------------------------------------------------------------------
(* GormShards *)

\* The statements of main by their number.
LEMMA StatementNames ==
  /\ Len(Statements) = 10
  /\ Statements[1] = "drop" /\ Statements[2] = "create"
  /\ Statements[3] = "insert2" /\ Statements[4] = "insert3" /\ Statements[5] = "insertNone"
  /\ Statements[6] = "select2" /\ Statements[7] = "select3" /\ Statements[8] = "selectNone"
  /\ Statements[9] = "update3" /\ Statements[10] = "deleteNone"
BY DEF Statements

\* What two bags hold together.
LEMMA BagsAdd ==
  ASSUME NEW A, NEW B, IsABag(A), IsABag(B)
  PROVE  /\ IsABag(A (+) B) /\ BagToSet(A (+) B) = BagToSet(A) \cup BagToSet(B)
         /\ \A e \in BagToSet(A) : e \notin BagToSet(B) => (A (+) B)[e] = A[e]
         /\ \A e \in BagToSet(B) : e \notin BagToSet(A) => (A (+) B)[e] = B[e]
<1> DEFINE D == (DOMAIN A) \cup (DOMAIN B)
           f == [e \in D |-> (IF e \in DOMAIN A THEN A[e] ELSE 0) + (IF e \in DOMAIN B THEN B[e] ELSE 0)]
<1>1. A (+) B = f
  BY DEF (+)
<1>2. /\ \A e \in DOMAIN A : A[e] \in Nat /\ A[e] > 0
      /\ \A e \in DOMAIN B : B[e] \in Nat /\ B[e] > 0
  BY DEF IsABag
<1>3. \A e \in D : f[e] \in Nat /\ f[e] > 0
  BY <1>2
<1>4. IsABag(f) /\ DOMAIN f = D
  BY <1>3 DEF IsABag
<1>5. /\ \A e \in DOMAIN A : e \notin DOMAIN B => f[e] = A[e]
      /\ \A e \in DOMAIN B : e \notin DOMAIN A => f[e] = B[e]
  BY <1>2
<1> QED
  BY <1>1, <1>4, <1>5 DEF BagToSet

\* What is left of a bag without another.
LEMMA BagsTake ==
  ASSUME NEW A, NEW B, IsABag(A), IsABag(B)
  PROVE  /\ IsABag(A (-) B) /\ BagToSet(A (-) B) \subseteq BagToSet(A)
         /\ \A e \in BagToSet(A) : e \notin BagToSet(B) =>
              e \in BagToSet(A (-) B) /\ (A (-) B)[e] = A[e]
<1> DEFINE f == [e \in DOMAIN A |-> IF e \in DOMAIN B THEN A[e] - B[e] ELSE A[e]]
           g == [e \in {d \in DOMAIN f : f[d] > 0} |-> f[e]]
<1>1. A (-) B = g
  BY DEF (-)
<1>2. /\ \A e \in DOMAIN A : A[e] \in Nat /\ A[e] > 0
      /\ \A e \in DOMAIN B : B[e] \in Nat /\ B[e] > 0
  BY DEF IsABag
<1>3. \A e \in DOMAIN f : f[e] \in Int
  BY <1>2
<1>4. IsABag(g) /\ DOMAIN g \subseteq DOMAIN A
  BY <1>3 DEF IsABag
<1>5. \A e \in DOMAIN A : e \notin DOMAIN B => e \in DOMAIN g /\ g[e] = A[e]
  BY <1>2
<1> QED
  BY <1>1, <1>4, <1>5 DEF BagToSet

\* The rows of a user in a bag of rows.
RowsIn(user, T) == [r \in {q \in BagToSet(T) : q[1] = user} |-> T[r]]

\* They are a bag, and only rows of that user change them.
LEMMA RowsInBag ==
  ASSUME NEW user, NEW T, IsABag(T)
  PROVE  /\ IsABag(RowsIn(user, T)) /\ BagToSet(RowsIn(user, T)) = {q \in BagToSet(T) : q[1] = user}
         /\ \A B : IsABag(B) /\ (\A q \in BagToSet(B) : q[1] # user) =>
              RowsIn(user, T (+) B) = RowsIn(user, T) /\ RowsIn(user, T (-) B) = RowsIn(user, T)
<1>1. IsABag(RowsIn(user, T)) /\ BagToSet(RowsIn(user, T)) = {q \in BagToSet(T) : q[1] = user}
  BY DEF RowsIn, IsABag, BagToSet
<1>2. ASSUME NEW B, IsABag(B), \A q \in BagToSet(B) : q[1] # user
      PROVE  RowsIn(user, T (+) B) = RowsIn(user, T) /\ RowsIn(user, T (-) B) = RowsIn(user, T)
  <2>1. /\ {q \in BagToSet(T (+) B) : q[1] = user} = {q \in BagToSet(T) : q[1] = user}
        /\ \A q \in BagToSet(T) : q[1] = user => (T (+) B)[q] = T[q]
    BY <1>2, BagsAdd
  <2>2. /\ {q \in BagToSet(T (-) B) : q[1] = user} = {q \in BagToSet(T) : q[1] = user}
        /\ \A q \in BagToSet(T) : q[1] = user => (T (-) B)[q] = T[q]
    BY <1>2, BagsTake
  <2> QED
    BY <2>1, <2>2 DEF RowsIn
<1> QED
  BY <1>1, <1>2

\* A shard's rows are a bag of its users' rows.
GoodShard(s) ==
  /\ IsABag(tables[s]) /\ BagToSet(tables[s]) \subseteq GormRows
  /\ \A r \in BagToSet(tables[s]) : ShardOf(r[1]) = s

TablesInv ==
  /\ DOMAIN tables = 0 .. NumberOfShards - 1
  /\ \A s \in DOMAIN tables : tables[s] = NoTable \/ GoodShard(s)

\* Every user has a shard.
LEMMA ShardThere == \A user \in {2, 3} : ShardOf(user) \in 0 .. NumberOfShards - 1
BY ShardsAssumption DEF ShardOf

\* Neither an order more in its user's shard nor a shard made anew changes that.
LEMMA TableChanged ==
  ASSUME TablesInv, NEW s \in 0 .. NumberOfShards - 1, NEW T,
         tables' = [tables EXCEPT ![s] = T],
         T = NoTable \/ (IsABag(T) /\ BagToSet(T) \subseteq GormRows /\ \A r \in BagToSet(T) : ShardOf(r[1]) = s)
  PROVE  TablesInv'
<1>1. DOMAIN tables' = DOMAIN tables /\ tables'[s] = T
      /\ \A x \in DOMAIN tables : x # s => tables'[x] = tables[x]
  BY DEF TablesInv
<1>2. ASSUME NEW x \in DOMAIN tables, x # s
      PROVE  tables'[x] = NoTable \/ GoodShard(x)'
  BY <1>1, <1>2 DEF TablesInv, GoodShard
<1>3. tables'[s] = NoTable \/ GoodShard(s)'
  BY <1>1 DEF GoodShard
<1> QED
  BY <1>1, <1>2, <1>3 DEF TablesInv

\* An order is inserted into its user's shard: the other users' rows stay, and
\* of a user who had none it is the only one.
LEMMA InsertKeeps ==
  ASSUME TablesInv, NEW user \in {2, 3}, InsertRow(user)
  PROVE  /\ TablesInv'
         /\ user = 3 => RowsIn(2, tables'[ShardOf(2)]) = RowsIn(2, tables[ShardOf(2)])
         /\ user = 2 /\ (\A r \in BagToSet(tables[ShardOf(2)]) : r[1] # 2) =>
              RowsIn(2, tables'[ShardOf(2)]) = SetToBag({<<2, 0>>})
<1> DEFINE s == ShardOf(user)
           T == tables[s]
           row == SetToBag({<<user, 0>>})
           new == T (+) row
<1>1. s \in 0 .. NumberOfShards - 1
  BY ShardThere
<1>2. GoodShard(s)
  BY <1>1 DEF TablesInv, InsertRow, Where
<1>3. tables' = [tables EXCEPT ![s] = new] /\ DOMAIN tables = 0 .. NumberOfShards - 1
  BY DEF InsertRow, Where, TablesInv
<1>4. IsABag(row) /\ BagToSet(row) = {<<user, 0>>} /\ row[<<user, 0>>] = 1
  BY DEF SetToBag, IsABag, BagToSet
<1>5. IsABag(T) /\ BagToSet(T) \subseteq GormRows /\ \A r \in BagToSet(T) : ShardOf(r[1]) = s
  BY <1>2 DEF GoodShard
<1> HIDE DEF T, row, new
<1>6. IsABag(new) /\ BagToSet(new) = BagToSet(T) \cup {<<user, 0>>}
      /\ (<<user, 0>> \notin BagToSet(T) => new[<<user, 0>>] = 1)
  BY <1>4, <1>5, BagsAdd DEF new
<1>7. <<user, 0>> \in GormRows /\ <<user, 0>>[1] = user
  BY DEF GormRows
<1>8. BagToSet(new) \subseteq GormRows /\ \A r \in BagToSet(new) : ShardOf(r[1]) = s
  BY <1>5, <1>6, <1>7
<1>9. TablesInv'
  BY <1>1, <1>3, <1>6, <1>8, TableChanged
<1>10. ASSUME user = 3
       PROVE  RowsIn(2, tables'[ShardOf(2)]) = RowsIn(2, tables[ShardOf(2)])
  <2>1. CASE ShardOf(2) = s
    <3>1. tables'[ShardOf(2)] = new /\ tables[ShardOf(2)] = T
      BY <1>1, <1>3, <2>1 DEF T
    <3>2. \A q \in BagToSet(row) : q[1] # 2
      BY <1>4, <1>7, <1>10
    <3>3. RowsIn(2, new) = RowsIn(2, T)
      BY <1>4, <1>5, <3>2, RowsInBag DEF new
    <3> QED
      BY <3>1, <3>3
  <2>2. CASE ShardOf(2) # s
    <3>1. tables'[ShardOf(2)] = tables[ShardOf(2)]
      BY <1>3, <2>2, ShardThere
    <3> QED
      BY <3>1
  <2> QED
    BY <2>1, <2>2
<1>11. ASSUME user = 2, \A r \in BagToSet(tables[ShardOf(2)]) : r[1] # 2
       PROVE  RowsIn(2, tables'[ShardOf(2)]) = SetToBag({<<2, 0>>})
  <2>1. tables'[ShardOf(2)] = new /\ \A r \in BagToSet(T) : r[1] # 2
    BY <1>1, <1>3, <1>11 DEF T
  <2>2. {q \in BagToSet(new) : q[1] = 2} = {<<2, 0>>} /\ new[<<2, 0>>] = 1
    BY <1>6, <1>7, <1>11, <2>1
  <2>3. RowsIn(2, new) = [r \in {<<2, 0>>} |-> 1]
    BY <2>2 DEF RowsIn
  <2> QED
    BY <2>1, <2>3 DEF SetToBag
<1> QED
  BY <1>9, <1>10, <1>11

\* An update leaves a user's orders in their shard.
LEMMA UpdateTablesKeeps ==
  ASSUME TablesInv, UpdateRows(3)
  PROVE  TablesInv'
<1> DEFINE s == ShardOf(3)
           T == tables[s]
           old == RowsOf(3, s)
           n == Copies(<<3, 0>>, s) + Copies(<<3, 1>>, s) + Copies(<<3, 2>>, s)
           new == [r \in IF n = 0 THEN {} ELSE {<<3, 2>>} |-> n]
<1>1. s \in 0 .. NumberOfShards - 1
  BY ShardThere
<1>2. GoodShard(s) /\ tables' = [tables EXCEPT ![s] = (T (-) old) (+) new]
  BY <1>1 DEF TablesInv, UpdateRows
<1>3. IsABag(T) /\ BagToSet(T) \subseteq GormRows /\ \A r \in BagToSet(T) : ShardOf(r[1]) = s
  BY <1>2 DEF GoodShard
<1>4. \A r : Copies(r, s) \in Nat
  BY <1>3 DEF Copies, IsABag, BagIn, BagToSet
<1>5. IsABag(old) /\ BagToSet(old) \subseteq BagToSet(T)
  <2>1. old = RowsIn(3, T)
    BY DEF RowsOf, RowsIn
  <2> QED
    BY <1>3, <2>1, RowsInBag
<1>6. n \in Nat
  BY <1>4
<1> HIDE DEF n, old, T
<1>7. IsABag(new) /\ BagToSet(new) \subseteq {<<3, 2>>}
  BY <1>6 DEF IsABag, BagToSet
<1> HIDE DEF new
<1>8. IsABag(T (-) old) /\ BagToSet(T (-) old) \subseteq BagToSet(T)
  BY <1>3, <1>5, BagsTake
<1>9. IsABag((T (-) old) (+) new) /\ BagToSet((T (-) old) (+) new) \subseteq BagToSet(T) \cup {<<3, 2>>}
  BY <1>7, <1>8, BagsAdd
<1>10. <<3, 2>> \in GormRows /\ ShardOf(<<3, 2>>[1]) = s
  BY DEF GormRows
<1> QED
  BY <1>1, <1>2, <1>3, <1>9, <1>10, TableChanged

\* DROP and CREATE of the shard of user 2 have both failed in this run.
BothFailed == FailedFor("drop", 2) /\ FailedFor("create", 2)

\* The loop has left the shard of user 2 behind, and nothing has been inserted.
Created == (statement \in {1, 2} /\ shard > ShardOf(2)) \/ statement = 3

\* What this run has done to the order of user 2.
OrderHistory ==
  /\ statement = 2 /\ shard = ShardOf(2) => tables[ShardOf(2)] = NoTable \/ FailedFor("drop", 2)
  /\ Created =>
       \/ BothFailed \/ tables[ShardOf(2)] = NoTable
       \/ \A r \in BagToSet(tables[ShardOf(2)]) : r[1] # 2
  /\ statement \in {4, 5, 6} =>
       \/ BothFailed \/ FailedAt("insert2")
       \/ RowsIn(2, tables[ShardOf(2)]) = SetToBag({<<2, 0>>})
  /\ statement = 7 =>
       \/ BothFailed \/ FailedAt("insert2") \/ FailedAt("select2")
       \/ selected = SetToBag({<<2, 0>>})

GormInv ==
  /\ TablesInv
  /\ statement \in 0 .. 10 /\ shard \in 0 .. NumberOfShards - 1
  /\ IsABag(selected) /\ shardRuns \in 0 .. MaxShardRuns
  /\ OrderHistory

\* There is no table.
LEMMA GormInitInv == GormInit => GormInv
<1> SUFFICES ASSUME GormInit PROVE GormInv
  OBVIOUS
<1>1. 0 \in 0 .. NumberOfShards - 1 /\ 0 \in 0 .. MaxShardRuns
  BY ShardsAssumption
<1>2. TablesInv
  BY DEF GormInit, TablesInv
<1>3. IsABag(EmptyBag)
  BY DEF EmptyBag, SetToBag, IsABag
<1>4. OrderHistory
  BY DEF GormInit, OrderHistory, Created
<1> QED
  BY <1>1, <1>2, <1>3, <1>4 DEF GormInit, GormInv

\* Which statement comes next, by the number of this one.
LEMMA NextStatements ==
  ASSUME GormInv, RunStatement
  PROVE  /\ statement \in 1 .. 10 /\ shardRuns' = shardRuns
         /\ statement = 1 => statement' = 2 /\ shard' = shard
         /\ statement = 2 /\ shard < NumberOfShards - 1 => statement' = 1 /\ shard' = shard + 1
         /\ statement = 2 /\ shard = NumberOfShards - 1 => statement' = 3 /\ shard' = shard
         /\ statement \in 3 .. 9 => statement' = statement + 1 /\ shard' = shard
         /\ statement = 10 => statement' = 0 /\ shard' = shard
<1>1. statement \in 1 .. 10 /\ shardRuns' = shardRuns /\ NextStep
  BY StatementNames DEF GormInv, RunStatement, Execute, DropTable, CreateTable, At, StatementFails, Refused
<1>2. At("create") <=> statement = 2
  <2>1. statement = 1 \/ statement = 2 \/ statement = 3 \/ statement = 4 \/ statement = 5
        \/ statement = 6 \/ statement = 7 \/ statement = 8 \/ statement = 9 \/ statement = 10
    BY <1>1
  <2> QED
    BY <1>1, <2>1, StatementNames DEF At
<1>3. CASE statement = 2 /\ shard < NumberOfShards - 1
  <2>1. statement' = 1 /\ shard' = shard + 1
    BY <1>1, <1>2, <1>3 DEF NextStep
  <2>2. shard # NumberOfShards - 1
    BY <1>3, ShardsAssumption DEF GormInv
  <2> QED
    BY <1>1, <1>3, <2>1, <2>2
<1>4. CASE ~(statement = 2 /\ shard < NumberOfShards - 1)
  <2>1. statement' = (IF statement = 10 THEN 0 ELSE statement + 1) /\ shard' = shard
    BY <1>1, <1>2, <1>4, StatementNames DEF NextStep, NextStatement
  <2>2. NumberOfShards - 1 \in Int /\ shard \in Int
    BY ShardsAssumption DEF GormInv
  <2> QED
    BY <1>1, <1>4, <2>1, <2>2
<1> QED
  BY <1>1, <1>3, <1>4

\* What the statement does: it fails and changes nothing, or is carried out.
LEMMA StatementDone ==
  ASSUME GormInv, RunStatement
  PROVE  \/ /\ tables' = tables /\ selected' = selected
            /\ failures' = failures \cup {<<Statements[statement], shard>>}
         \/ failures' = failures /\ selected' = selected /\ tables' = tables /\ statement \in {5, 8, 10}
         \/ failures' = failures /\ statement = 1 /\ DropTable /\ selected' = selected
         \/ failures' = failures /\ statement = 2 /\ CreateTable /\ selected' = selected
         \/ failures' = failures /\ statement = 3 /\ InsertRow(2) /\ selected' = selected
         \/ failures' = failures /\ statement = 4 /\ InsertRow(3) /\ selected' = selected
         \/ failures' = failures /\ statement = 6 /\ SelectRows(2)
         \/ failures' = failures /\ statement = 7 /\ SelectRows(3)
         \/ failures' = failures /\ statement = 9 /\ UpdateRows(3) /\ selected' = selected
<1>1. statement \in 1 .. 10
  BY NextStatements
<1>2. statement = 1 \/ statement = 2 \/ statement = 3 \/ statement = 4 \/ statement = 5
      \/ statement = 6 \/ statement = 7 \/ statement = 8 \/ statement = 9 \/ statement = 10
  BY <1>1
<1>3. CASE StatementFails /\ UNCHANGED selected
  BY <1>3 DEF StatementFails
<1>4. CASE Refused /\ UNCHANGED <<tables, selected, failures>>
  <2>1. statement \in {5, 8, 10}
    BY <1>2, <1>4, StatementNames DEF Refused
  <2> QED
    BY <1>4, <2>1
<1>5. CASE Execute
  <2>1. failures' = failures
    BY <1>5 DEF Execute
  <2>2. /\ At("drop") => statement = 1
        /\ At("create") => statement = 2
        /\ At("insert2") => statement = 3
        /\ At("insert3") => statement = 4
        /\ At("select2") => statement = 6
        /\ At("select3") => statement = 7
        /\ At("update3") => statement = 9
    BY <1>2, StatementNames DEF At
  <2>3. (DropTable => At("drop")) /\ (CreateTable => At("create"))
    BY DEF DropTable, CreateTable
  <2> QED
    BY <1>5, <2>1, <2>2, <2>3 DEF Execute
<1> QED
  BY <1>3, <1>4, <1>5 DEF RunStatement

\* Every statement leaves every shard's rows where they belong.
LEMMA StatementTables == GormInv /\ RunStatement => TablesInv' /\ IsABag(selected')
<1> SUFFICES ASSUME GormInv, RunStatement PROVE TablesInv' /\ IsABag(selected')
  OBVIOUS
<1>1. TablesInv /\ IsABag(selected) /\ shard \in 0 .. NumberOfShards - 1
  BY DEF GormInv
<1>2. CASE tables' = tables /\ selected' = selected
  BY <1>1, <1>2 DEF TablesInv, GoodShard
<1>3. CASE DropTable /\ selected' = selected
  BY <1>1, <1>3, TableChanged DEF DropTable
<1>4. CASE CreateTable /\ selected' = selected
  <2>1. IsABag(EmptyBag) /\ BagToSet(EmptyBag) = {}
    BY DEF EmptyBag, SetToBag, IsABag, BagToSet
  <2> QED
    BY <1>1, <1>4, <2>1, TableChanged DEF CreateTable
<1>5. ASSUME NEW user \in {2, 3}, InsertRow(user), selected' = selected
      PROVE  TablesInv' /\ IsABag(selected')
  BY <1>1, <1>5, InsertKeeps
<1>6. ASSUME NEW user \in {2, 3}, SelectRows(user)
      PROVE  TablesInv' /\ IsABag(selected')
  <2>1. TablesInv'
    BY <1>1, <1>6 DEF SelectRows, TablesInv, GoodShard
  <2>2. selected' = RowsIn(user, tables[ShardOf(user)]) /\ tables[ShardOf(user)] # NoTable
    BY <1>6 DEF SelectRows, RowsOf, RowsIn
  <2>3. IsABag(tables[ShardOf(user)])
    BY <1>1, <2>2, ShardThere DEF TablesInv, GoodShard
  <2> QED
    BY <2>1, <2>2, <2>3, RowsInBag
<1>7. CASE UpdateRows(3) /\ selected' = selected
  BY <1>1, <1>7, UpdateTablesKeeps
<1> QED
  BY <1>2, <1>3, <1>4, <1>5, <1>6, <1>7, StatementDone

\* What has failed in a run has failed until its end.
LEMMA FailuresStay ==
  GormInv /\ RunStatement =>
    /\ failures \subseteq failures'
    /\ FailedFor("drop", 2) => FailedFor("drop", 2)'
    /\ FailedFor("create", 2) => FailedFor("create", 2)'
    /\ BothFailed => BothFailed'
    /\ \A s : FailedAt(s) => FailedAt(s)'
<1> SUFFICES ASSUME GormInv, RunStatement
             PROVE  /\ failures \subseteq failures'
                    /\ FailedFor("drop", 2) => FailedFor("drop", 2)'
                    /\ FailedFor("create", 2) => FailedFor("create", 2)'
                    /\ BothFailed => BothFailed'
                    /\ \A s : FailedAt(s) => FailedAt(s)'
  OBVIOUS
<1>1. failures \subseteq failures'
  BY StatementDone DEF SelectRows
<1> QED
  BY <1>1 DEF FailedFor, FailedAt, BothFailed

\* Every statement carries the history of the order of user 2 on.
LEMMA HistoryKept == GormInv /\ RunStatement => OrderHistory'
<1> SUFFICES ASSUME GormInv, RunStatement PROVE OrderHistory'
  OBVIOUS
<1> DEFINE home == ShardOf(2)
<1>1. home \in 0 .. NumberOfShards - 1 /\ home' = home /\ NumberOfShards \in Nat \ {0}
  BY ShardThere, ShardsAssumption DEF ShardOf
<1>2. TablesInv /\ OrderHistory /\ shard \in 0 .. NumberOfShards - 1 /\ DOMAIN tables = 0 .. NumberOfShards - 1
  BY DEF GormInv, TablesInv
<1>3. statement = 1 \/ statement = 2 \/ statement = 3 \/ statement = 4 \/ statement = 5
      \/ statement = 6 \/ statement \in {7, 8, 9, 10}
  BY NextStatements
<1>4. CASE statement = 1
  <2>1. statement' = 2 /\ shard' = shard
    BY <1>4, NextStatements
  <2>2. ASSUME shard' = home
        PROVE  tables'[home] = NoTable \/ FailedFor("drop", 2)'
    <3>1. CASE <<Statements[statement], shard>> \in failures'
      BY <1>4, <2>1, <2>2, <3>1, StatementNames DEF FailedFor
    <3>2. CASE DropTable
      BY <1>1, <1>2, <2>1, <2>2, <3>2 DEF DropTable
    <3> QED
      BY <1>4, <3>1, <3>2, StatementDone
  <2>3. ASSUME shard' > home
        PROVE  BothFailed' \/ tables'[home] = NoTable \/ \A r \in BagToSet(tables'[home]) : r[1] # 2
    <3>1. tables'[home] = tables[home]
      BY <1>1, <1>2, <1>4, <2>1, <2>3, StatementDone DEF DropTable
    <3>2. Created
      BY <1>4, <2>1, <2>3 DEF Created
    <3> QED
      BY <1>2, <3>1, <3>2, FailuresStay DEF OrderHistory
  <2> QED
    BY <1>1, <2>1, <2>2, <2>3 DEF OrderHistory, Created
<1>5. CASE statement = 2
  <2>1. \/ statement' = 1 /\ shard' = shard + 1
        \/ statement' = 3 /\ shard' = shard /\ shard = NumberOfShards - 1
    BY <1>1, <1>2, <1>5, NextStatements
  <2>2. ASSUME shard >= home
        PROVE  BothFailed' \/ tables'[home] = NoTable \/ \A r \in BagToSet(tables'[home]) : r[1] # 2
    <3>1. CASE shard = home
      <4>1. tables[home] = NoTable \/ FailedFor("drop", 2)
        BY <1>2, <1>5, <3>1 DEF OrderHistory
      <4>2. CASE <<Statements[statement], shard>> \in failures' /\ tables' = tables
        BY <1>5, <3>1, <4>1, <4>2, FailuresStay, StatementNames DEF FailedFor, BothFailed
      <4>3. CASE CreateTable
        <5>1. tables'[home] = EmptyBag
          BY <1>1, <1>2, <3>1, <4>3 DEF CreateTable
        <5> QED
          BY <5>1 DEF EmptyBag, SetToBag, BagToSet
      <4> QED
        BY <1>5, <4>2, <4>3, StatementDone
    <3>2. CASE shard > home
      <4>1. tables'[home] = tables[home]
        BY <1>1, <1>2, <1>5, <3>2, StatementDone DEF CreateTable
      <4>2. Created
        BY <1>5, <3>2 DEF Created
      <4> QED
        BY <1>2, <4>1, <4>2, FailuresStay DEF OrderHistory
    <3> QED
      BY <1>1, <1>2, <2>2, <3>1, <3>2
  <2>3. Created' => shard >= home
    <3>1. CASE statement' = 1 /\ shard' = shard + 1
      <4>1. Created' => shard + 1 > home
        BY <1>1, <3>1 DEF Created
      <4> QED
        BY <1>1, <1>2, <4>1
    <3>2. CASE shard = NumberOfShards - 1
      BY <1>1, <3>2
    <3> QED
      BY <2>1, <3>1, <3>2
  <2> QED
    BY <1>1, <2>1, <2>2, <2>3 DEF OrderHistory
<1>6. CASE statement = 3
  <2>1. statement' = 4
    BY <1>6, NextStatements
  <2>2. BothFailed \/ tables[home] = NoTable \/ \A r \in BagToSet(tables[home]) : r[1] # 2
    BY <1>2, <1>6 DEF OrderHistory, Created
  <2>3. CASE <<Statements[statement], shard>> \in failures'
    <3>1. FailedAt("insert2")'
      BY <1>6, <2>3, StatementNames DEF FailedAt
    <3> QED
      BY <2>1, <3>1 DEF OrderHistory, Created
  <2>4. CASE InsertRow(2)
    <3>1. tables[home] # NoTable
      BY <2>4 DEF InsertRow, Where
    <3>2. BothFailed' \/ RowsIn(2, tables'[home]) = SetToBag({<<2, 0>>})
      BY <1>2, <2>2, <2>4, <3>1, FailuresStay, InsertKeeps
    <3> QED
      BY <1>1, <2>1, <3>2 DEF OrderHistory, Created
  <2> QED
    BY <1>6, <2>3, <2>4, StatementDone
<1>7. CASE statement \in {4, 5}
  <2>1. statement' \in {5, 6}
    BY <1>7, NextStatements
  <2>2. BothFailed \/ FailedAt("insert2") \/ RowsIn(2, tables[home]) = SetToBag({<<2, 0>>})
    BY <1>2, <1>7 DEF OrderHistory
  <2>3. RowsIn(2, tables'[home]) = RowsIn(2, tables[home])
    <3>1. tables' = tables \/ InsertRow(3)
      BY <1>7, StatementDone
    <3> QED
      BY <1>2, <3>1, InsertKeeps
  <2> QED
    BY <1>1, <2>1, <2>2, <2>3, FailuresStay DEF OrderHistory, Created
<1>8. CASE statement = 6
  <2>1. statement' = 7
    BY <1>8, NextStatements
  <2>2. BothFailed \/ FailedAt("insert2") \/ RowsIn(2, tables[home]) = SetToBag({<<2, 0>>})
    BY <1>2, <1>8 DEF OrderHistory
  <2>3. CASE <<Statements[statement], shard>> \in failures'
    <3>1. FailedAt("select2")'
      BY <1>8, <2>3, StatementNames DEF FailedAt
    <3> QED
      BY <2>1, <3>1 DEF OrderHistory, Created
  <2>4. CASE SelectRows(2)
    <3>1. selected' = RowsIn(2, tables[home])
      BY <2>4 DEF SelectRows, RowsOf, RowsIn
    <3>2. BothFailed' \/ FailedAt("insert2")' \/ selected' = SetToBag({<<2, 0>>})
      BY <2>2, <3>1, FailuresStay
    <3> QED
      BY <2>1, <3>2 DEF OrderHistory, Created
  <2> QED
    BY <1>8, <2>3, <2>4, StatementDone
<1>9. CASE statement \in {7, 8, 9, 10}
  <2>1. statement' \in {0, 8, 9, 10}
    BY <1>9, NextStatements
  <2> QED
    BY <2>1 DEF OrderHistory, Created
<1> QED
  BY <1>3, <1>4, <1>5, <1>6, <1>7, <1>8, <1>9

\* Every step keeps the invariant; a killed run leaves what it had done.
LEMMA GormStep == GormInv /\ [GormNext]_gormVars => GormInv'
<1> SUFFICES ASSUME GormInv, [GormNext]_gormVars PROVE GormInv'
  OBVIOUS
<1>1. CASE StartShardRun
  <2>1. shardRuns' \in 0 .. MaxShardRuns /\ 0 \in 0 .. NumberOfShards - 1 /\ IsABag(EmptyBag)
    <3>1. shardRuns' \in 0 .. MaxShardRuns /\ 0 \in 0 .. NumberOfShards - 1
      BY <1>1, ShardsAssumption DEF StartShardRun, GormInv
    <3> QED
      BY <3>1 DEF EmptyBag, SetToBag, IsABag
  <2>2. statement' = 1 /\ shard' = 0 /\ tables' = tables /\ selected' = EmptyBag
    BY <1>1 DEF StartShardRun
  <2>3. ~Created'
    <3>1. ~(0 > ShardOf(2)) /\ ShardOf(2)' = ShardOf(2)
      BY ShardThere, ShardsAssumption DEF ShardOf
    <3> QED
      BY <2>2, <3>1 DEF Created
  <2>4. OrderHistory'
    BY <2>2, <2>3 DEF OrderHistory
  <2>5. TablesInv'
    BY <2>2 DEF GormInv, TablesInv, GoodShard
  <2> QED
    BY <2>1, <2>2, <2>4, <2>5 DEF GormInv
<1>2. CASE RunStatement
  <2>1. statement' \in 0 .. 10
    <3>1. statement = 1 \/ statement = 2 \/ statement \in 3 .. 9 \/ statement = 10
      BY <1>2, NextStatements
    <3>2. shard < NumberOfShards - 1 \/ shard = NumberOfShards - 1
      BY ShardsAssumption DEF GormInv
    <3>3. CASE statement \in 3 .. 9
      <4>1. statement + 1 \in 0 .. 10 /\ statement' = statement + 1
        BY <1>2, <3>3, NextStatements
      <4> QED
        BY <4>1
    <3> QED
      BY <1>2, <3>1, <3>2, <3>3, NextStatements
  <2>2. shard' \in 0 .. NumberOfShards - 1
    <3>1. shard \in 0 .. NumberOfShards - 1
          /\ (shard < NumberOfShards - 1 => shard + 1 \in 0 .. NumberOfShards - 1)
      BY ShardsAssumption DEF GormInv
    <3>2. shard < NumberOfShards - 1 \/ shard = NumberOfShards - 1
      BY <3>1, ShardsAssumption
    <3>3. shard' = shard \/ (shard < NumberOfShards - 1 /\ shard' = shard + 1)
      <4>1. statement = 1 \/ statement = 2 \/ statement \in 3 .. 9 \/ statement = 10
        BY <1>2, NextStatements
      <4> QED
        BY <1>2, <3>2, <4>1, NextStatements
    <3> QED
      BY <3>1, <3>3
  <2> QED
    BY <1>2, <2>1, <2>2, NextStatements, StatementTables, HistoryKept DEF GormInv
<1>3. CASE Killed
  <2>1. statement' = 0 /\ UNCHANGED <<tables, shard, failures, selected, shardRuns>>
    BY <1>3 DEF Killed
  <2>2. OrderHistory'
    BY <2>1 DEF OrderHistory, Created
  <2>3. TablesInv'
    BY <2>1 DEF GormInv, TablesInv, GoodShard
  <2> QED
    BY <2>1, <2>2, <2>3 DEF GormInv
<1>4. CASE UNCHANGED gormVars
  <2>1. UNCHANGED <<tables, statement, shard, failures, selected, shardRuns>>
    BY <1>4 DEF gormVars
  <2>2. OrderHistory'
    BY <2>1 DEF GormInv, OrderHistory, Created, BothFailed, FailedFor, FailedAt, RowsIn
  <2>3. TablesInv'
    BY <2>1 DEF GormInv, TablesInv, GoodShard
  <2> QED
    BY <2>1, <2>2, <2>3 DEF GormInv
<1> QED
  BY <1>1, <1>2, <1>3, <1>4 DEF GormNext

\* When the third query is next, the second has found the order of user 2.
LEMMA GormRight == GormInv => GormTypeOK /\ RowsInTheirShard /\ FindsItsOrder
<1> SUFFICES ASSUME GormInv PROVE GormTypeOK /\ RowsInTheirShard /\ FindsItsOrder
  OBVIOUS
<1>1. GormTypeOK
  BY StatementNames DEF GormInv, TablesInv, GoodShard, GormTypeOK
<1>2. RowsInTheirShard
  BY DEF GormInv, TablesInv, GoodShard, RowsInTheirShard
<1>3. At("select3") => statement = 7
  <2>1. ASSUME statement > 0
        PROVE  statement = 1 \/ statement = 2 \/ statement = 3 \/ statement = 4 \/ statement = 5
               \/ statement = 6 \/ statement = 7 \/ statement = 8 \/ statement = 9 \/ statement = 10
    BY <2>1 DEF GormInv
  <2> QED
    BY <2>1, StatementNames DEF At
<1>4. FindsItsOrder
  BY <1>3 DEF GormInv, OrderHistory, FindsItsOrder, BothFailed
<1> QED
  BY <1>1, <1>2, <1>4
-----------------------------------------------------------------------------
(* MCPrograms *)

\* Each program's invariant, whichever of them runs.
ProgramsInv ==
  /\ ContextInv /\ SimpleInv
  /\ HeapTypeOK /\ HeapOrder
  /\ PoolInv /\ FlyweightInv /\ ShardInv /\ GormInv /\ GenInv
  /\ OidcInv /\ PasswordInv
  /\ CacheInv /\ ServiceInv /\ NatsInv

\* A step of one of the programs is a step or a stutter of each.
Steps ==
  /\ [Next]_vars /\ [SimpleNext]_simpleVars /\ [HeapNext]_heapVars
  /\ [PoolNext]_poolVars /\ [FlyweightNext]_flyweightVars
  /\ [ShardNext]_shardVars /\ [GormNext]_gormVars /\ [GenNext]_genVars
  /\ [OidcNext]_oidcVars /\ [PasswordNext]_passwordVars
  /\ [LotteryNext]_lotteryVars /\ [ServiceNext]_serviceVars /\ [NatsNext]_natsVars

\* The programs have no variable in common.
LEMMA StepOfEach == [ProgramsNext]_programsVars => Steps
<1> SUFFICES ASSUME [ProgramsNext]_programsVars PROVE Steps
  OBVIOUS
<1>1. CASE ProgramsNext
  <2>1. CASE Only("payments") /\ Next
    BY <2>1 DEF Only, Steps
  <2>2. CASE Only("simple") /\ SimpleNext
    BY <2>2 DEF Only, Steps
  <2>3. CASE Only("heap") /\ HeapNext
    BY <2>3 DEF Only, Steps
  <2>4. CASE Only("pool") /\ PoolNext
    BY <2>4 DEF Only, Steps
  <2>5. CASE Only("circles") /\ FlyweightNext
    BY <2>5 DEF Only, Steps
  <2>6. CASE Only("ring") /\ ShardNext
    BY <2>6 DEF Only, Steps
  <2>7. CASE Only("shards") /\ GormNext
    BY <2>7 DEF Only, Steps
  <2>8. CASE Only("generator") /\ GenNext
    BY <2>8 DEF Only, Steps
  <2>9. CASE Only("oidc") /\ OidcNext
    BY <2>9 DEF Only, Steps
  <2>10. CASE Only("passwords") /\ PasswordNext
    BY <2>10 DEF Only, Steps
  <2>11. CASE Only("cache") /\ LotteryNext
    BY <2>11 DEF Only, Steps
  <2>12. CASE Only("lottery") /\ ServiceNext
    BY <2>12 DEF Only, Steps
  <2>13. CASE Only("nats") /\ NatsNext
    BY <2>13 DEF Only, Steps
  <2> QED
    BY <1>1, <2>1, <2>2, <2>3, <2>4, <2>5, <2>6, <2>7, <2>8, <2>9, <2>10, <2>11, <2>12, <2>13
       DEF ProgramsNext
<1>2. CASE UNCHANGED programsVars
  BY <1>2 DEF programsVars, Steps
<1> QED
  BY <1>1, <1>2

\* Every state the programs reach satisfies the invariant.
THEOREM ProgramsInvariance == ProgramsSpec => []ProgramsInv
<1>1. ProgramsInit => ProgramsInv
  <2> SUFFICES ASSUME ProgramsInit PROVE ProgramsInv
    OBVIOUS
  <2>1. ContextInv /\ SimpleInv /\ HeapTypeOK /\ HeapOrder
    BY ContextInitInv, SimpleInitInv, HeapTypeInit, HeapOrderInit DEF ProgramsInit
  <2>2. PoolInv /\ FlyweightInv /\ ShardInv /\ GormInv /\ GenInv
    BY PoolInitInv, FlyweightInitInv, ShardInitInv, GormInitInv, GenInitInv DEF ProgramsInit
  <2>3. OidcInv /\ PasswordInv /\ CacheInv /\ ServiceInv /\ NatsInv
    BY OidcInitInv, PasswordInitInv, CacheInitInv, ServiceInitInv, NatsInitInv DEF ProgramsInit
  <2> QED
    BY <2>1, <2>2, <2>3 DEF ProgramsInv
<1>2. ProgramsInv /\ [ProgramsNext]_programsVars => ProgramsInv'
  <2> SUFFICES ASSUME ProgramsInv, [ProgramsNext]_programsVars PROVE ProgramsInv'
    OBVIOUS
  <2>1. Steps
    BY StepOfEach
  <2>2. ContextInv' /\ SimpleInv'
    BY <2>1, ContextStep, SimpleStep DEF ProgramsInv, Steps
  <2>3. HeapTypeOK' /\ HeapOrder'
    BY <2>1, HeapTypeStep, HeapOrderStep DEF ProgramsInv, Steps
  <2>4. PoolInv' /\ FlyweightInv' /\ ShardInv' /\ GormInv' /\ GenInv'
    BY <2>1, PoolStep, FlyweightStep, ShardStep, GormStep, GenStep DEF ProgramsInv, Steps
  <2>5. OidcInv' /\ PasswordInv'
    BY <2>1, OidcStep, PasswordStep DEF ProgramsInv, Steps
  <2>6. CacheInv' /\ ServiceInv' /\ NatsInv'
    BY <2>1, CacheStep, ServiceStep, NatsStep DEF ProgramsInv, Steps
  <2> QED
    BY <2>2, <2>3, <2>4, <2>5, <2>6 DEF ProgramsInv
<1> QED
  BY <1>1, <1>2, PTL DEF ProgramsSpec

\* Every variable of every program keeps its type.
THEOREM ProgramsTyped == ProgramsSpec => []ProgramsTypeOK
<1>1. ProgramsInv => ProgramsTypeOK
  BY SimpleRight, PoolRight, FlyweightRight, ShardRight, GormRight, GenRight, ServiceRight, NatsRight
     DEF ProgramsInv, ProgramsTypeOK, ContextInv, OidcInv, PasswordInv, CacheInv
<1> QED
  BY <1>1, ProgramsInvariance, PTL

\* Payments account for every point and unit, whatever strategies and decorators
\* are tried in whatever order (strategy.go:103-149, stragety.go:57-74,
\* decorator.go:30-58).
THEOREM PaymentsAddUp == ProgramsSpec => []PaymentsRight
<1>1. ProgramsInv => PaymentsRight
  BY SimpleRight DEF ProgramsInv, PaymentsRight, ContextInv
<1> QED
  BY <1>1, ProgramsInvariance, PTL

\* Between and within calls the heap has its order, except at the element that
\* is being sifted (heapx.go:12-57).
THEOREM ProgramsHeap == ProgramsSpec => []HeapOrder
<1>1. ProgramsInv => HeapOrder
  BY DEF ProgramsInv
<1> QED
  BY <1>1, ProgramsInvariance, PTL

\* ExtractMin takes one of the smallest values that were inserted and not yet
\* taken, and sifting neither loses nor doubles one (heapx.go:12-57).
THEOREM ProgramsQueue == ProgramsSpec => QueueSpec
<1>1. ProgramsInit => Queue!QueueInit
  BY QueueInitially DEF ProgramsInit
<1>2. ProgramsInv /\ ProgramsInv' /\ [ProgramsNext]_programsVars => [Queue!QueueNext]_Queue!queueVars
  BY StepOfEach, WholeBetweenCalls, QueueStep DEF ProgramsInv, Steps
<1> QED
  BY <1>1, <1>2, ProgramsInvariance, PTL DEF ProgramsSpec, QueueSpec, Queue!QueueSpec

\* Casts meet the objects they are for, and circles are shared and of the kind
\* asked for (unsafe.go:21-73, flyweight.go:32-42).
THEOREM ObjectsShared == ProgramsSpec => []ObjectsRight
<1>1. ProgramsInv => ObjectsRight
  BY PoolRight, FlyweightRight DEF ProgramsInv, ObjectsRight
<1> QED
  BY <1>1, ProgramsInvariance, PTL

\* Lookups find a database once there is one, orders lie in their users' shards,
\* and the query finds this run's order unless a statement it rests on failed
\* (shardding.go:31-58, gorm/demo.go:25-67).
THEOREM ShardsFound == ProgramsSpec => []ShardsRight
<1>1. ProgramsInv => ShardsRight
  BY ShardRight, GormRight DEF ProgramsInv, ShardsRight
<1> QED
  BY <1>1, ProgramsInvariance, PTL

\* When main prints its success, every file is complete but those an error was
\* about (generatex.go:121, 149-164).
THEOREM GeneratedComplete == ProgramsSpec => []CompleteUnlessFailed
<1>1. ProgramsInv => CompleteUnlessFailed
  BY GenRight DEF ProgramsInv
<1> QED
  BY <1>1, ProgramsInvariance, PTL

\* A login is answered with tokens once, what is protected is served for such
\* tokens only, and the Dex account is a lock (server.go:79, 129,
\* resource.go:71-84, grpcclien.go:54-107).
THEOREM LoginsSafe == ProgramsSpec => []LoginsRight
<1>1. ProgramsInv => LoginsRight
  BY OidcRight, PasswordRight DEF ProgramsInv, LoginsRight
<1> QED
  BY <1>1, ProgramsInvariance, PTL

\* The cache shows what the database has unless a save failed, what the calls of
\* the lottery returned is found, and of two users one at most prints the other's
\* event unless one subscribed again (lottery.go:221-222, demo.go:128-177, 204-229,
\* nats.go:44, 52).
THEOREM LotterySafe == ProgramsSpec => []LotteryRight
<1>1. ProgramsInv => LotteryRight
  BY ServiceRight, NatsRight DEF ProgramsInv, LotteryRight, CacheInv
<1> QED
  BY <1>1, ProgramsInvariance, PTL

\* No key moves to a database that was there, and no ticket takes another's place
\* (shardding.go:31-58, lottery.go:104).
THEOREM NeverUndoes == ProgramsSpec => NeverUndone
<1>1. ProgramsInv /\ [ProgramsNext]_programsVars =>
        [\A k \in UserKeys :
           answered'[k] # answered[k] => answered'[k] \in ring' \cap since[k]]_shardVars
  BY StepOfEach, ShardRight DEF ProgramsInv, Steps
<1>2. ProgramsInv /\ [ProgramsNext]_programsVars =>
        [\A d \in TicketIDs : collection[d] # NoTicket => collection'[d] = collection[d]]_lotteryVars
  BY StepOfEach, CacheStep DEF ProgramsInv, Steps
<1>3. ProgramsSpec => MovesOnlyToNew
  BY <1>1, ProgramsInvariance, PTL DEF ProgramsSpec, MovesOnlyToNew
<1>4. ProgramsSpec => FirstTicketStays
  BY <1>2, ProgramsInvariance, PTL DEF ProgramsSpec, FirstTicketStays
<1> QED
  BY <1>3, <1>4 DEF NeverUndone
=============================================================================
