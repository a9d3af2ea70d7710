--------------------------- MODULE SimplePayments ---------------------------
(***************************************************************************)
(* cmd/design/decorator/decorator.go and cmd/design/strategy/stragety.go:   *)
(* an amount is paid by points, a coupon and a card, as decorators around   *)
(* the card or as strategies tried one after another.  The points are kept  *)
(* from one payment to the next.  All quantities are counted in tenths of a *)
(* unit and the amounts are whole units, so that the tenth points take is   *)
(* whole too, as float64 has it.                                            *)
(***************************************************************************)
EXTENDS Integers, Sequences

CONSTANTS PricesAsked,   \* the amounts, in tenths
          CouponCut,     \* couponDiscount, in tenths
          PointsAtFirst, \* the points the wrapper or strategy begins with, in tenths
          MaxPaid        \* bound: payments

ASSUME SimpleAssumption ==
  /\ \A a \in PricesAsked \cup {CouponCut} : a \in Nat \ {0} /\ a % 10 = 0
  /\ PointsAtFirst \in Nat /\ MaxPaid \in Nat

VARIABLES pattern,   \* "decorator" or "strategy", and which layers are still to pay
          layers,
          price,     \* the amount of the call
          rest,      \* what the next layer is called with, or what the last returned
          pointsLeft, \* the points left
          pointsSpent,     \* of them in this call
          cut,       \* what the coupon took off in this call
          charged,   \* what the card was charged in this call
          payments   \* calls so far

simpleVars == <<pattern, layers, price, rest, pointsLeft, pointsSpent, cut, charged, payments>>

\* main of either program: points around a coupon around the card; coupon,
\* points, card; a decorator chain is also built without the coupon.
Chains == [decorator |-> {<<"points", "coupon", "card">>, <<"points", "card">>},
           strategy  |-> {<<"coupon", "points", "card">>}]

SimpleTypeOK ==
  /\ pattern \in {"none", "decorator", "strategy"}
  /\ layers \in Seq({"points", "coupon", "card"})
  /\ {price, rest, pointsLeft, pointsSpent, cut, charged} \subseteq Nat
  /\ payments \in 0 .. MaxPaid

SimpleInit ==
  /\ pattern = "none" /\ layers = << >> /\ pointsLeft = PointsAtFirst
  /\ price = 0 /\ rest = 0 /\ pointsSpent = 0 /\ cut = 0 /\ charged = 0 /\ payments = 0

Tenth == rest \div 10

-----------------------------------------------------------------------------
(* Mutants                                                                 *)

\* The points are compared with nothing.
PayPointsBlindly ==
  /\ pointsLeft' = pointsLeft - Tenth
  /\ pointsSpent' = pointsSpent + Tenth /\ rest' = rest - Tenth

-----------------------------------------------------------------------------
PayPoints ==
  /\ pointsLeft >= Tenth /\ pointsLeft' = pointsLeft - Tenth
  /\ pointsSpent' = pointsSpent + Tenth /\ rest' = rest - Tenth

PointsShort == pointsLeft < Tenth /\ UNCHANGED <<pointsLeft, pointsSpent, rest>>

Smaller(a, b) == IF a < b THEN a ELSE b

\* Both coupons stop at zero.
PayCoupon == cut' = Smaller(rest, CouponCut) /\ rest' = rest - cut'

\* The decorator of the coupon never calls the payment it wraps; the strategies
\* break once nothing is left.
HandsOn(layer, left) ==
  IF pattern = "decorator" THEN layer # "coupon" ELSE left > 0

StartPayment(p, chain, amount) ==
  /\ layers = << >> /\ payments < MaxPaid /\ payments' = payments + 1
  /\ pattern \in {"none", p}
  /\ pattern' = p /\ layers' = chain /\ price' = amount /\ rest' = amount
  /\ pointsSpent' = 0 /\ cut' = 0 /\ charged' = 0 /\ UNCHANGED pointsLeft

PayLayer ==
  /\ layers # << >>
  /\ \/ Head(layers) = "points" /\ (PayPoints \/ PointsShort) /\ UNCHANGED <<cut, charged>>
     \/ Head(layers) = "coupon" /\ PayCoupon /\ UNCHANGED <<pointsLeft, pointsSpent, charged>>
     \/ Head(layers) = "card" /\ charged' = rest /\ UNCHANGED <<pointsLeft, pointsSpent, cut, rest>>
  /\ layers' = IF HandsOn(Head(layers), rest') THEN Tail(layers) ELSE << >>
  /\ UNCHANGED <<pattern, price, payments>>

SimpleNext ==
  \/ \E p \in DOMAIN Chains : \E chain \in Chains[p], a \in PricesAsked : StartPayment(p, chain, a)
  \/ PayLayer

-----------------------------------------------------------------------------
(* Properties                                                              *)

\* When a call returns, its parts add up to the amount, and the card has been
\* charged the rest, or nothing where a decorator of the coupon stood in its way
\* or a strategy before it had paid everything (decorator.go:30-58,
\* stragety.go:57-74: the rest is returned though the card has paid it).
CallAddsUp ==
  layers = << >> =>
    /\ rest + pointsSpent + cut = price
    /\ charged \in {0, rest}
    /\ charged = 0 => rest = 0 \/ (pattern = "decorator" /\ cut > 0)

\* Points never go below zero, and no strategy spends or charges anything once
\* nothing is left to pay (stragety.go:68-70).
NothingPaidTwice ==
  /\ pointsLeft >= 0
  /\ pattern = "strategy" /\ rest = 0 => layers = << >>
=============================================================================
