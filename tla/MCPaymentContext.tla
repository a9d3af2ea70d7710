-------------------------- MODULE MCPaymentContext --------------------------
(* Instances of PaymentContext for TLC: main's order of the strategies, and  *)
(* every other order of two or three of them.                                *)
EXTENDS PaymentContext

SomeAmounts == {0, 10, 100, 200}

MainOrder == {<<"Coupon", "Points", "CreditCard">>}

SomeOrders ==
  MainOrder \cup {<<"Points", "Coupon", "CreditCard">>, <<"CreditCard", "Points">>,
                  <<"Points", "Coupon">>, << >>}
=============================================================================
