--------------------------- MODULE PriorityQueue ---------------------------
(***************************************************************************)
(* What a minimum heap promises: a bag of values, of which ExtractMin       *)
(* returns and removes one of the smallest.                                 *)
(***************************************************************************)
EXTENDS Integers

CONSTANTS Values, None

VARIABLES bag,      \* bag[v]: how often v is in the queue
          returned  \* what ExtractMin returned last

queueVars == <<bag, returned>>

Held == {v \in Values : bag[v] > 0}

QueueInit == bag = [v \in Values |-> 0] /\ returned = None

Enqueue(v) == bag' = [bag EXCEPT ![v] = @ + 1] /\ UNCHANGED returned

Dequeue(v) ==
  /\ v \in Held /\ \A w \in Held : v <= w
  /\ bag' = [bag EXCEPT ![v] = @ - 1] /\ returned' = v

QueueNext == \E v \in Values : Enqueue(v) \/ Dequeue(v)

QueueSpec == QueueInit /\ [][QueueNext]_queueVars
=============================================================================
