--------------------------- MODULE PaymentTracker ---------------------------
(***************************************************************************)
(* PaymentTracker, the same in cmd/design/decorator/decorator/decorator.go  *)
(* and cmd/design/strategy/strategy/strategy.go: what each payment method   *)
(* has paid and discounted so far.  RecordPayment runs under the tracker's  *)
(* lock, so one call is one step.  Amounts are whole units; a tenth of an   *)
(* amount is only ever taken where it is whole, as float64 would give it.   *)
(***************************************************************************)
EXTENDS Naturals

Methods == {"Points", "Coupon", "CreditCard"}

Record == [paid : Nat, discount : Nat]

\* PaymentTracker.records before the first payment: an empty map.
NoRecords == [m \in {} |-> 0]

Recorded(records, m) ==
  IF m \in DOMAIN records THEN records[m] ELSE [paid |-> 0, discount |-> 0]

Paid(records, m) == Recorded(records, m).paid
Discounted(records, m) == Recorded(records, m).discount

\* The map after RecordPayment(method, amountPaid, discount).
RecordPayment(records, method, amountPaid, discount) ==
  [m \in DOMAIN records \cup {method} |->
     IF m = method
       THEN [paid |-> Paid(records, m) + amountPaid,
             discount |-> Discounted(records, m) + discount]
       ELSE records[m]]

TotalPaid(records) ==
  Paid(records, "Points") + Paid(records, "Coupon") + Paid(records, "CreditCard")
=============================================================================
