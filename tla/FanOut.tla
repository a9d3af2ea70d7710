------------------------------- MODULE FanOut -------------------------------
(***************************************************************************)
(* What WebSocketServer.Broadcast (cmd/design/lottery/timeline/timeline.go) *)
(* promises a client, with no goroutine, lock or channel in it: messages    *)
(* are published in one total order, and a member is served every message   *)
(* published since it joined, in that order, before the next one is         *)
(* published.  A member is given up only in place of a message it was due.  *)
(***************************************************************************)
EXTENDS Naturals, Sequences

CONSTANTS Conns,    \* the connections
          Messages  \* what may be published

VARIABLES log,      \* every message published, in order
          members,  \* the connections being served
          start,    \* start[c]: how much of log was published before c joined
          view      \* view[c]: what c has been served

vars == <<log, members, start, view>>

\* How many of the published messages c is accounted for.
Position(c) == start[c] + Len(view[c])

CaughtUp(c) == Position(c) = Len(log)

Init ==
  /\ log = << >>
  /\ members = {}
  /\ start = [c \in Conns |-> 0]
  /\ view = [c \in Conns |-> << >>]

Join(c) ==
  /\ c \notin members
  /\ view[c] = << >>
  /\ members' = members \cup {c}
  /\ start' = [start EXCEPT ![c] = Len(log)]
  /\ UNCHANGED <<log, view>>

Publish(m) ==
  /\ \A c \in members : CaughtUp(c)
  /\ log' = Append(log, m)
  /\ UNCHANGED <<members, start, view>>

Deliver(c) ==
  /\ c \in members
  /\ ~CaughtUp(c)
  /\ view' = [view EXCEPT ![c] = Append(@, log[Position(c) + 1])]
  /\ UNCHANGED <<log, members, start>>

Drop(c) ==
  /\ c \in members
  /\ ~CaughtUp(c)
  /\ members' = members \ {c}
  /\ UNCHANGED <<log, start, view>>

Next ==
  \/ \E m \in Messages : Publish(m)
  \/ \E c \in Conns : Join(c) \/ Deliver(c) \/ Drop(c)

Spec == Init /\ [][Next]_vars
=============================================================================
