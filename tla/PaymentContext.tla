--------------------------- MODULE PaymentContext ---------------------------
(***************************************************************************)
(* cmd/design/strategy/strategy/strategy.go: PaymentContext.Pay applies the *)
(* strategies in the order they were added and records each; the payments   *)
(* follow one another as in main.                                           *)
(***************************************************************************)
EXTENDS PaymentTracker, Sequences

CONSTANTS Orders,          \* the orders AddStrategy may have been called in
          Amounts,         \* what a payment may be of
          CouponDiscount,  \* CouponStrategy.couponDiscount
          InitialPoints,   \* PointsStrategy.points at first
          MaxPayments      \* bound: payments made

ASSUME ContextAssumption ==
  /\ Orders \subseteq Seq(Methods)
  /\ \A o \in Orders : \A a, b \in DOMAIN o : o[a] = o[b] => a = b
  /\ \A a \in Amounts : a \in Nat /\ a % 10 = 0
  /\ CouponDiscount \in Nat /\ CouponDiscount % 10 = 0
  /\ InitialPoints \in Nat
  /\ MaxPayments \in Nat

VARIABLES strategies,  \* PaymentContext.strategies
          records,     \* PaymentTracker.records
          points,      \* PointsStrategy.points
          i,           \* the next strategy; 0 between payments
          amount,      \* the parameter of Pay
          remaining,   \* remainingAmount
          count,       \* payments begun
          total,       \* history: the sum of the payments begun
          due          \* history: the sum of what each of them leaves to pay

vars == <<strategies, records, points, i, amount, remaining, count, total, due>>

TypeOK ==
  /\ strategies \in Orders
  /\ DOMAIN records \subseteq Methods
  /\ \A m \in DOMAIN records : records[m] \in Record
  /\ points \in Nat
  /\ i \in 0 .. Len(strategies)
  /\ amount \in Nat /\ remaining \in Nat
  /\ count \in 0 .. MaxPayments
  /\ total \in Nat /\ due \in Nat

Init ==
  /\ strategies \in Orders
  /\ records = NoRecords
  /\ points = InitialPoints
  /\ i = 0
  /\ amount = 0 /\ remaining = 0
  /\ count = 0
  /\ total = 0 /\ due = 0

\* What strategy m leaves of an amount, and the discount it reports.  The
\* coupon reports its value in full; the credit card leaves what it charges.
Left(m, owed) ==
  CASE m = "Coupon" -> IF owed < CouponDiscount THEN 0 ELSE owed - CouponDiscount
    [] m = "Points" -> IF points >= owed \div 10 THEN owed - owed \div 10 ELSE owed
    [] m = "CreditCard" -> owed

Discount(m, owed) ==
  CASE m = "Coupon" -> CouponDiscount
    [] m = "Points" -> IF points >= owed \div 10 THEN owed \div 10 ELSE 0
    [] m = "CreditCard" -> 0

\* Mutant: the points used are reported and stay on the account.
ApplyKeepPoints ==
  /\ i > 0
  /\ LET m == strategies[i]
         left == Left(m, remaining)
     IN  /\ remaining' = left
         /\ due' = due - remaining + left
         /\ records' = RecordPayment(records, m, amount - left, Discount(m, remaining))
         /\ i' = IF left = 0 \/ i = Len(strategies) THEN 0 ELSE i + 1
  /\ UNCHANGED <<strategies, points, amount, count, total>>

-----------------------------------------------------------------------------
\* main calls Pay(a) on a context that has strategies.
Begin(a) ==
  /\ i = 0
  /\ count < MaxPayments
  /\ strategies # << >>
  /\ i' = 1
  /\ amount' = a /\ remaining' = a
  /\ count' = count + 1
  /\ total' = total + a /\ due' = due + a
  /\ UNCHANGED <<strategies, records, points>>

\* One turn of the loop; it records amount - remainingAmount, and stops when
\* nothing remains.
Apply ==
  /\ i > 0
  /\ LET m == strategies[i]
         left == Left(m, remaining)
     IN  /\ remaining' = left
         /\ due' = due - remaining + left
         /\ records' = RecordPayment(records, m, amount - left, Discount(m, remaining))
         /\ points' = IF m = "Points" THEN points - Discount(m, remaining) ELSE points
         /\ i' = IF left = 0 \/ i = Len(strategies) THEN 0 ELSE i + 1
  /\ UNCHANGED <<strategies, amount, count, total>>

Next == (\E a \in Amounts : Begin(a)) \/ Apply

Spec == Init /\ [][Next]_vars

-----------------------------------------------------------------------------
(* Properties *)

\* The points reported as discounts are the points that left the account
\* (strategy.go:103, 107, 149), in whatever order the strategies are applied.
PointsAccounted == points + Discounted(records, "Points") = InitialPoints

\* Whatever a payment is reduced by is in the records as a discount: summed over
\* all payments, what was requested less what is left to pay never exceeds the
\* discounts recorded (strategy.go:144-149).
ReductionsRecorded ==
  total - due <= Discounted(records, "Points") + Discounted(records, "Coupon")

\* "PaymentRecord records the payment details of each payment method"
\* (strategy.go:8): with a credit card to take the rest, what the methods were
\* recorded with between payments is what was paid.
RecordsAddUp == i = 0 => TotalPaid(records) = total
=============================================================================
