--------------------------- MODULE MCOrderRanking ---------------------------
(* Instances of OrderRanking for TLC.  Amounts are in hundredths; an order is *)
(* its amount, 9799 being below what the query asks for.                      *)
EXTENDS OrderRanking

OneDigit == [n \in 1 .. N |-> n]   \* up to "9" the bytes are in the order of the numbers
BothPrograms == {"order", "order1"}
OneCommand == [p \in BothPrograms |-> 1]
Amount(a) == [amount |-> a]
Drawn == [order |-> {Amount(9800)},
          order1 |-> {Amount(9799), Amount(9800), Amount(9999)}]
DrawnApart == [order |-> {Amount(9800), Amount(9999)},
               order1 |-> {Amount(9800), Amount(9999)}]
=============================================================================
