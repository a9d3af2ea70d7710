---------------------------- MODULE PaymentChain ----------------------------
(***************************************************************************)
(* cmd/design/decorator/decorator/decorator.go: the chain BuildPaymentChain *)
(* makes, points around coupon around credit card, walked once per payment. *)
(* A decorator records its part, then calls the Pay of the next one.        *)
(***************************************************************************)
EXTENDS PaymentTracker

CONSTANTS Amounts,         \* what a payment may be of
          CouponDiscount,  \* couponDiscount: 20 in the code
          InitialPoints,   \* points: 50 in the code
          MaxPayments      \* bound: payments made

ASSUME ChainAssumption ==
  /\ \A a \in Amounts : a \in Nat /\ a % 10 = 0
  /\ CouponDiscount \in Nat
  /\ InitialPoints \in Nat
  /\ MaxPayments \in Nat

VARIABLES records,  \* PaymentTracker.records
          points,   \* PointsPaymentDecorator.points
          next,     \* whose Pay is called next; "main" between payments
          amount,   \* the argument of that call
          count,    \* payments begun
          total     \* history: the sum of the payments begun

vars == <<records, points, next, amount, count, total>>

TypeOK ==
  /\ DOMAIN records \subseteq Methods
  /\ \A m \in DOMAIN records : records[m] \in Record
  /\ points \in Nat
  /\ next \in Methods \cup {"main"}
  /\ amount \in Nat
  /\ count \in 0 .. MaxPayments
  /\ total \in Nat

Init ==
  /\ records = NoRecords
  /\ points = InitialPoints
  /\ next = "main"
  /\ amount = 0
  /\ count = 0
  /\ total = 0

-----------------------------------------------------------------------------
(* Mutants: the handlers as a plausible bug would have them. *)

\* What is recorded as paid is the coupon's value, also when it exceeds the rest.
CouponPayInFull ==
  /\ next = "Coupon"
  /\ records' = RecordPayment(records, "Coupon", CouponDiscount, CouponDiscount)
  /\ amount' = IF amount < CouponDiscount THEN 0 ELSE amount - CouponDiscount
  /\ next' = "CreditCard"
  /\ UNCHANGED <<points, count, total>>

\* The points are recorded and stay on the account.
PointsPayKeep ==
  /\ next = "Points"
  /\ next' = "Coupon"
  /\ LET discount == amount \div 10
     IN  IF points >= discount
           THEN /\ records' = RecordPayment(records, "Points", discount, discount)
                /\ amount' = amount - discount
           ELSE UNCHANGED <<records, amount>>
  /\ UNCHANGED <<points, count, total>>

\* The decorator returns instead of calling the one it wraps.
CouponPayReturns ==
  /\ next = "Coupon"
  /\ LET discounted == IF amount < CouponDiscount THEN 0 ELSE amount - CouponDiscount
     IN  /\ records' = RecordPayment(records, "Coupon", amount - discounted, CouponDiscount)
         /\ amount' = discounted
  /\ next' = "main"
  /\ UNCHANGED <<points, count, total>>

\* The check of the balance compares the wrong way round.
PointsPayOverdraw ==
  /\ next = "Points"
  /\ next' = "Coupon"
  /\ LET discount == amount \div 10
     IN  IF points <= discount
           THEN /\ points' = points - discount
                /\ records' = RecordPayment(records, "Points", discount, discount)
                /\ amount' = amount - discount
           ELSE UNCHANGED <<points, records, amount>>
  /\ UNCHANGED <<count, total>>

-----------------------------------------------------------------------------
(* The actions *)

\* main calls payment.Pay(a).
Begin(a) ==
  /\ next = "main"
  /\ count < MaxPayments
  /\ next' = "Points"
  /\ amount' = a
  /\ count' = count + 1
  /\ total' = total + a
  /\ UNCHANGED <<records, points>>

\* PointsPaymentDecorator.Pay: ten units in a hundred, or nothing at all.
PointsPay ==
  /\ next = "Points"
  /\ next' = "Coupon"
  /\ LET discount == amount \div 10
     IN  IF points >= discount
           THEN /\ points' = points - discount
                /\ records' = RecordPayment(records, "Points", discount, discount)
                /\ amount' = amount - discount
           ELSE UNCHANGED <<points, records, amount>>
  /\ UNCHANGED <<count, total>>

\* CouponPaymentDecorator.Pay: the discount recorded is the coupon's in full.
CouponPay ==
  /\ next = "Coupon"
  /\ next' = "CreditCard"
  /\ LET discounted == IF amount < CouponDiscount THEN 0 ELSE amount - CouponDiscount
     IN  /\ records' = RecordPayment(records, "Coupon", amount - discounted, CouponDiscount)
         /\ amount' = discounted
  /\ UNCHANGED <<points, count, total>>

\* CreditCardPayment.Pay takes all that is left, and every Pay returns.
CardPay ==
  /\ next = "CreditCard"
  /\ next' = "main"
  /\ records' = RecordPayment(records, "CreditCard", amount, 0)
  /\ amount' = 0
  /\ UNCHANGED <<points, count, total>>

Next ==
  \/ \E a \in Amounts : Begin(a)
  \/ PointsPay \/ CouponPay \/ CardPay

Spec == Init /\ [][Next]_vars

-----------------------------------------------------------------------------
(* Properties *)

\* At every point of the chain, what the methods were recorded with and what
\* the next one is asked for make up what was requested: no unit is paid twice
\* or left out (decorator.go:95, 98, 117, 120, 67).
Conservation == TotalPaid(records) + amount = total

\* The points recorded as paid are the points that left the account
\* (decorator.go:113 and 117).
PointsAccounted == points + Paid(records, "Points") = InitialPoints

\* The chain of decorators implements the ledger.
Ledger == INSTANCE PaymentLedger WITH
  open <- amount, paid <- [m \in Methods |-> Paid(records, m)]
LedgerSpec == Ledger!Spec
=============================================================================
