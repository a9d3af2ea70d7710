------------------------- MODULE PaymentChainProofs -------------------------
(***************************************************************************)
(* What the run payment_chain checks on a small instance, proved for any    *)
(* amounts (multiples of ten units), any coupon, any points and any number  *)
(* of payments.                                                             *)
(***************************************************************************)
EXTENDS PaymentChain, TLAPS

\* The maps a PaymentTracker may hold.
RecordMap(r) ==
  /\ DOMAIN r \subseteq Methods
  /\ \A m \in DOMAIN r : r[m] \in Record

\* What a method was recorded with is a number.
LEMMA RecordedType ==
  ASSUME NEW r, RecordMap(r), NEW m
  PROVE  Recorded(r, m) \in Record
BY DEF RecordMap, Recorded, Record

\* RecordPayment adds to its method and leaves the others alone.
LEMMA RecordPaymentAdds ==
  ASSUME NEW r, RecordMap(r), NEW m \in Methods, NEW a \in Nat, NEW d \in Nat
  PROVE  /\ RecordMap(RecordPayment(r, m, a, d))
         /\ \A n \in Methods :
              Paid(RecordPayment(r, m, a, d), n) = Paid(r, n) + (IF n = m THEN a ELSE 0)
<1>1. Recorded(r, m) \in Record
  BY RecordedType
<1>2. Paid(r, m) \in Nat /\ Discounted(r, m) \in Nat
  BY <1>1 DEF Paid, Discounted, Record
<1>3. RecordMap(RecordPayment(r, m, a, d))
  <2> DEFINE new == RecordPayment(r, m, a, d)
  <2>1. DOMAIN new \subseteq Methods
    BY DEF RecordPayment, RecordMap
  <2>2. ASSUME NEW n \in DOMAIN new
        PROVE  new[n] \in Record
    <3>1. CASE n = m
      BY <1>2, <3>1 DEF RecordPayment, Record
    <3>2. CASE n # m
      BY <3>2 DEF RecordPayment, RecordMap
    <3> QED
      BY <3>1, <3>2
  <2> QED
    BY <2>1, <2>2 DEF RecordMap
<1>4. ASSUME NEW n \in Methods
      PROVE  Paid(RecordPayment(r, m, a, d), n) = Paid(r, n) + (IF n = m THEN a ELSE 0)
  <2>1. Paid(r, n) \in Nat
    BY RecordedType DEF Paid, Record
  <2>2. CASE n = m
    BY <2>2 DEF Paid, Recorded, RecordPayment
  <2>3. CASE n # m
    BY <2>1, <2>3 DEF Paid, Recorded, RecordPayment
  <2> QED
    BY <2>2, <2>3
<1> QED
  BY <1>3, <1>4

\* What the proof needs of the constants.
LEMMA Constants ==
  /\ \A a \in Amounts : a \in Nat
  /\ CouponDiscount \in Nat /\ InitialPoints \in Nat /\ MaxPayments \in Nat
BY ChainAssumption

\* The inductive invariant: no payment is under way with anything left, points
\* are only taken where they are, and an amount on its way to PointsPay is one
\* that main asked for.
IndInv ==
  /\ TypeOK
  /\ next = "main" => amount = 0
  /\ next = "Points" => amount \in Amounts
  /\ Conservation
  /\ PointsAccounted

\* A tenth of an amount is a number between nothing and the amount.
LEMMA Tenth ==
  ASSUME NEW a \in Nat
  PROVE  a \div 10 \in Nat /\ a \div 10 <= a /\ a - a \div 10 \in Nat
OBVIOUS

\* The state BuildPaymentChain makes satisfies the inductive invariant.
LEMMA InitInd == Init => IndInv
BY Constants
   DEF Init, IndInv, TypeOK, Conservation, PointsAccounted, NoRecords, Methods,
       TotalPaid, Paid, Recorded

\* Every step keeps it.
LEMMA NextInd == IndInv /\ [Next]_vars => IndInv'
<1> SUFFICES ASSUME IndInv, [Next]_vars PROVE IndInv'
  OBVIOUS
<1>1. RecordMap(records)
  BY DEF IndInv, TypeOK, RecordMap
<1>2. \A m \in Methods : Paid(records, m) \in Nat
  BY <1>1, RecordedType DEF Paid, Record
<1>3. ASSUME NEW a \in Amounts, Begin(a)
      PROVE  IndInv'
  <2>1. a \in Nat /\ count + 1 \in 0 .. MaxPayments
    BY <1>3, Constants DEF Begin, IndInv, TypeOK
  <2>2. TypeOK'
    BY <1>3, <2>1 DEF Begin, IndInv, TypeOK, Methods
  <2>3. Conservation'
    BY <1>2, <1>3, <2>1 DEF Begin, IndInv, TypeOK, Conservation, TotalPaid, Methods
  <2> QED
    BY <1>3, <2>2, <2>3 DEF Begin, IndInv, PointsAccounted
<1>4. CASE PointsPay
  <2> DEFINE d == amount \div 10
  <2>1. amount \in Nat /\ points \in Nat
    BY DEF IndInv, TypeOK
  <2>2. d \in Nat /\ amount - d \in Nat
    BY <2>1, Tenth
  <2> HIDE DEF d
  <2>3. CASE points >= d
    <3>1. /\ points' = points - d
          /\ records' = RecordPayment(records, "Points", d, d)
          /\ amount' = amount - d
          /\ next' = "Coupon" /\ count' = count /\ total' = total
      BY <1>4, <2>3 DEF PointsPay, d
    <3>2. RecordMap(records')
      BY <1>1, <2>2, <3>1, RecordPaymentAdds DEF Methods
    <3>3. TypeOK'
      BY <2>1, <2>2, <2>3, <3>1, <3>2 DEF IndInv, TypeOK, RecordMap, Methods
    <3>4. /\ Paid(records', "Points") = Paid(records, "Points") + d
          /\ Paid(records', "Coupon") = Paid(records, "Coupon")
          /\ Paid(records', "CreditCard") = Paid(records, "CreditCard")
      BY <1>1, <1>2, <2>2, <3>1, RecordPaymentAdds DEF Methods
    <3>5. Conservation' /\ PointsAccounted'
      BY <1>2, <2>1, <2>2, <3>1, <3>4
         DEF IndInv, TypeOK, Conservation, PointsAccounted, TotalPaid, Methods
    <3> QED
      BY <3>1, <3>3, <3>5 DEF IndInv
  <2>4. CASE ~(points >= d)
    <3>1. UNCHANGED <<points, records, amount, count, total>> /\ next' = "Coupon"
      BY <1>4, <2>4 DEF PointsPay, d
    <3> QED
      BY <3>1 DEF IndInv, TypeOK, Conservation, PointsAccounted, Methods
  <2> QED
    BY <2>3, <2>4
<1>5. CASE CouponPay
  <2> DEFINE d == IF amount < CouponDiscount THEN 0 ELSE amount - CouponDiscount
  <2>1. amount \in Nat /\ d \in Nat /\ amount - d \in Nat /\ CouponDiscount \in Nat
    BY Constants DEF IndInv, TypeOK
  <2> HIDE DEF d
  <2>2. /\ records' = RecordPayment(records, "Coupon", amount - d, CouponDiscount)
        /\ amount' = d
        /\ next' = "CreditCard"
        /\ UNCHANGED <<points, count, total>>
    BY <1>5 DEF CouponPay, d
  <2>3. RecordMap(records')
    BY <1>1, <2>1, <2>2, RecordPaymentAdds DEF Methods
  <2>4. TypeOK'
    BY <2>1, <2>2, <2>3 DEF IndInv, TypeOK, RecordMap, Methods
  <2>5. /\ Paid(records', "Points") = Paid(records, "Points")
        /\ Paid(records', "Coupon") = Paid(records, "Coupon") + (amount - d)
        /\ Paid(records', "CreditCard") = Paid(records, "CreditCard")
    BY <1>1, <1>2, <2>1, <2>2, RecordPaymentAdds DEF Methods
  <2>6. Conservation' /\ PointsAccounted'
    BY <1>2, <2>1, <2>2, <2>5
       DEF IndInv, TypeOK, Conservation, PointsAccounted, TotalPaid, Methods
  <2> QED
    BY <2>2, <2>4, <2>6 DEF IndInv
<1>6. CASE CardPay
  <2>1. amount \in Nat
    BY DEF IndInv, TypeOK
  <2>2. /\ records' = RecordPayment(records, "CreditCard", amount, 0)
        /\ amount' = 0
        /\ next' = "main"
        /\ UNCHANGED <<points, count, total>>
    BY <1>6 DEF CardPay
  <2>3. RecordMap(records')
    BY <1>1, <2>1, <2>2, RecordPaymentAdds DEF Methods
  <2>4. TypeOK'
    BY <2>2, <2>3 DEF IndInv, TypeOK, RecordMap, Methods
  <2>5. /\ Paid(records', "Points") = Paid(records, "Points")
        /\ Paid(records', "Coupon") = Paid(records, "Coupon")
        /\ Paid(records', "CreditCard") = Paid(records, "CreditCard") + amount
    BY <1>1, <1>2, <2>1, <2>2, RecordPaymentAdds DEF Methods
  <2>6. Conservation' /\ PointsAccounted'
    BY <1>2, <2>1, <2>2, <2>5
       DEF IndInv, TypeOK, Conservation, PointsAccounted, TotalPaid, Methods
  <2> QED
    BY <2>2, <2>4, <2>6 DEF IndInv
<1>7. CASE UNCHANGED vars
  BY <1>7 DEF vars, IndInv, TypeOK, Conservation, PointsAccounted
<1> QED
  BY <1>3, <1>4, <1>5, <1>6, <1>7 DEF Next

\* The inductive invariant holds in every reachable state.
THEOREM Invariance == Spec => []IndInv
BY InitInd, NextInd, PTL DEF Spec

\* Every variable keeps its type: in particular no balance goes below zero.
THEOREM TypeCorrect == Spec => []TypeOK
<1>1. IndInv => TypeOK
  BY DEF IndInv
<1> QED
  BY Invariance, <1>1, PTL

\* No unit of a payment is paid twice or left out, in any number of payments.
THEOREM Conserved == Spec => []Conservation
<1>1. IndInv => Conservation
  BY DEF IndInv
<1> QED
  BY Invariance, <1>1, PTL

\* The points recorded as paid are the points gone from the account.
THEOREM PointsBalance == Spec => []PointsAccounted
<1>1. IndInv => PointsAccounted
  BY DEF IndInv
<1> QED
  BY Invariance, <1>1, PTL

-----------------------------------------------------------------------------
\* Before the first payment the ledger is empty.
LEMMA LedgerInit == Init => Ledger!Init
BY DEF Init, Ledger!Init, NoRecords, Paid, Recorded, Methods

\* A decorator that records a part covers that part in the ledger.
LEMMA CoverStep ==
  ASSUME IndInv, NEW m \in Methods, NEW part \in Nat, NEW d \in Nat, part <= amount,
         records' = RecordPayment(records, m, part, d), amount' = amount - part,
         total' = total
  PROVE  Ledger!Next
<1>1. RecordMap(records)
  BY DEF IndInv, TypeOK, RecordMap
<1>2. \A n \in Methods : Paid(records', n) = Paid(records, n) + (IF n = m THEN part ELSE 0)
  BY <1>1, RecordPaymentAdds
<1>3. \A n \in Methods : Paid(records, n) \in Nat
  BY <1>1, RecordedType DEF Paid, Record
<1>4. [n \in Methods |-> Paid(records', n)]
        = [[n \in Methods |-> Paid(records, n)] EXCEPT ![m] = @ + part]
  <2> DEFINE f == [n \in Methods |-> Paid(records, n)]
             g == [n \in Methods |-> Paid(records', n)]
  <2>1. ASSUME NEW n \in Methods
        PROVE  g[n] = [f EXCEPT ![m] = @ + part][n]
    <3>1. g[n] = Paid(records', n) /\ f[n] = Paid(records, n)
      OBVIOUS
    <3>2. [f EXCEPT ![m] = @ + part][n] = IF n = m THEN f[n] + part ELSE f[n]
      OBVIOUS
    <3>3. Paid(records, n) \in Nat
      BY <1>3
    <3> HIDE DEF f, g
    <3>4. Paid(records', n) = Paid(records, n) + (IF n = m THEN part ELSE 0)
      BY <1>2
    <3> QED
      BY <3>1, <3>2, <3>3, <3>4
  <2> QED
    BY <2>1
<1>5. Ledger!Cover(m, part)
  BY <1>4 DEF Ledger!Cover
<1>6. part \in 0 .. amount
  BY DEF IndInv, TypeOK
<1> QED
  BY <1>5, <1>6 DEF Ledger!Next

\* Every step of the chain is a step of the ledger, or none.
LEMMA LedgerStep == IndInv /\ [Next]_vars => [Ledger!Next]_(Ledger!vars)
<1> SUFFICES ASSUME IndInv, [Next]_vars PROVE [Ledger!Next]_(Ledger!vars)
  OBVIOUS
<1>0. amount \in Nat
  BY DEF IndInv, TypeOK
<1>1. ASSUME NEW a \in Amounts, Begin(a)
      PROVE  Ledger!Next
  BY <1>1 DEF Begin, IndInv, Ledger!Next, Ledger!Request
<1>2. CASE PointsPay
  <2> DEFINE d == amount \div 10
  <2>1. d \in Nat /\ d <= amount
    BY <1>0, Tenth
  <2> HIDE DEF d
  <2>2. CASE points >= d
    <3>1. /\ records' = RecordPayment(records, "Points", d, d)
          /\ amount' = amount - d
          /\ total' = total
      BY <1>2, <2>2 DEF PointsPay, d
    <3> QED
      BY <2>1, <3>1, CoverStep DEF Methods
  <2>3. CASE ~(points >= d)
    BY <1>2, <2>3 DEF PointsPay, d, Ledger!vars
  <2> QED
    BY <2>2, <2>3
<1>3. CASE CouponPay
  <2> DEFINE d == IF amount < CouponDiscount THEN 0 ELSE amount - CouponDiscount
  <2>1. /\ amount - d \in Nat /\ CouponDiscount \in Nat
        /\ amount - d <= amount /\ d = amount - (amount - d)
    BY <1>0, Constants
  <2> HIDE DEF d
  <2>2. /\ records' = RecordPayment(records, "Coupon", amount - d, CouponDiscount)
        /\ amount' = d
        /\ total' = total
    BY <1>3 DEF CouponPay, d
  <2> QED
    BY <2>1, <2>2, CoverStep DEF Methods
<1>4. CASE CardPay
  <2>1. /\ records' = RecordPayment(records, "CreditCard", amount, 0)
        /\ amount' = amount - amount
        /\ total' = total
    BY <1>0, <1>4 DEF CardPay
  <2> QED
    BY <1>0, <2>1, CoverStep DEF Methods
<1>5. CASE UNCHANGED vars
  BY <1>5 DEF vars, Ledger!vars
<1> QED
  BY <1>1, <1>2, <1>3, <1>4, <1>5 DEF Next

\* The chain of decorators implements the ledger.
THEOREM ImplementsLedger == Spec => LedgerSpec
BY Invariance, LedgerInit, LedgerStep, PTL DEF Spec, LedgerSpec, Ledger!Spec
=============================================================================
