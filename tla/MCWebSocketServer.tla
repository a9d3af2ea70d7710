------------------------- MODULE MCWebSocketServer -------------------------
(* Instances of WebSocketServer for TLC. *)
EXTENDS WebSocketServer, TLC

CONSTANTS c1, c2

TwoConns == {c1, c2}
OnlyC1 == {c1}

\* One peer sends a message after another, which is what their order is about.
TwoAndOne == (c1 :> 2) @@ (c2 :> 1)
=============================================================================
