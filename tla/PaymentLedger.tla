--------------------------- MODULE PaymentLedger ---------------------------
(***************************************************************************)
(* What a payment is, whatever the pattern it is programmed in: an amount   *)
(* is requested, each method covers a part of what is still open and is     *)
(* booked with that part, and nothing is open when the next one begins.     *)
(***************************************************************************)
EXTENDS Naturals

CONSTANTS Methods, Amounts

VARIABLES total,  \* everything requested so far
          open,   \* what of the current payment is not covered yet
          paid    \* paid[m]: what method m has been booked with

vars == <<total, open, paid>>

Init ==
  /\ total = 0
  /\ open = 0
  /\ paid = [m \in Methods |-> 0]

Request(a) ==
  /\ open = 0
  /\ total' = total + a
  /\ open' = a
  /\ UNCHANGED paid

Cover(m, part) ==
  /\ part <= open
  /\ open' = open - part
  /\ paid' = [paid EXCEPT ![m] = @ + part]
  /\ UNCHANGED total

Next ==
  \/ \E a \in Amounts : Request(a)
  \/ \E m \in Methods, part \in 0 .. open : Cover(m, part)

Spec == Init /\ [][Next]_vars
=============================================================================
