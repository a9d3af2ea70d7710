--------------------------- MODULE MCPaymentChain ---------------------------
(* An instance of PaymentChain for TLC: amounts below, at and above the      *)
(* coupon, and points that run out.                                          *)
EXTENDS PaymentChain

SomeAmounts == {0, 10, 20, 100, 200, 300}
=============================================================================
