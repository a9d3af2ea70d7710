----------------------------- MODULE MCAuthFlow -----------------------------
(* Instances of AuthFlow for TLC: one client among two exchanges.  Even the *)
(* token that the client gets is one the resource server would accept.      *)
EXTENDS AuthFlow

CONSTANTS g1, g2, x1, x2, k1, k2, s1

TwoGrants == {g1, g2}
TwoExchanges == {x1, x2}
OneClient == {x1}
TwoCodes == {k1, k2}
OneToken == {s1}
=============================================================================
