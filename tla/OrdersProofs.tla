---------------------------- MODULE OrdersProofs ----------------------------
(***************************************************************************)
(* The invariants of the programs on Redis: the sets (order2), the action   *)
(* log (order3), the leaderboard and the ranking (order, order1), for every   *)
(* number of orders, of retries and of runs.                                *)
(***************************************************************************)
EXTENDS MCOrders, RedisLoaderProofs, FiniteSetTheorems, SequenceTheorems, TLAPS

-----------------------------------------------------------------------------
(* The sets of order2. *)

\* The loader of order2.
Adder == INSTANCE RedisLoaderProofs
  WITH Programs <- OnlyOrder2, Steps <- [p \in OnlyOrder2 |-> 2],
       Draws <- [p \in OnlyOrder2 |-> SetDraws],
       N <- SetOrders, MaxRetries <- SetRetries, MaxRuns <- SetRuns

P2 == "order2"

\* An order that was drawn belongs to a run that was started, and the current run
\* has drawn the orders up to the one its loop is at.
DrawnBy(d, r) ==
  /\ d.run = <<P2, r>> /\ r <= runs[P2] /\ d.number \in 1 .. SetOrders /\ d.order \in SetDraws
  /\ (r = runs[P2] /\ i[P2] > 0) =>
       d.number < i[P2] \/ (d.number = i[P2] /\ step[P2] > 0 /\ d.order = order[P2])

\* One order is drawn for each number of a run, and each command sent is of one.
DrawnOnce ==
  /\ \A d \in drawn : \E r \in 1 .. SetRuns : DrawnBy(d, r)
  /\ \A d, e \in drawn : d.run = e.run /\ d.number = e.number => d.order = e.order

Traced(c) == [run |-> <<c.program, c.run>>, number |-> c.number, order |-> c.order] \in drawn

SentDrawn ==
  /\ \A c \in late : Traced(c)
  /\ call[P2] # "none" => Traced(Adder!Command(P2))

\* What is in a set was drawn with its key; what was executed is in its set.
Members ==
  /\ customerSet \in [Customers -> SUBSET (1 .. SetOrders)]
  /\ productSet \in [Products -> SUBSET (1 .. SetOrders)]
  /\ \A c \in Customers : \A n \in customerSet[c] : \E d \in drawn : d.number = n /\ d.order.customer = c
  /\ \A q \in Products : \A n \in productSet[q] : \E d \in drawn : d.number = n /\ d.order.product = q
  /\ call[P2] = "executed" =>
       /\ step[P2] = 1 => i[P2] \in customerSet[order[P2].customer]
       /\ step[P2] = 2 => i[P2] \in productSet[order[P2].product]

Stored2 ==
  \A d \in drawn : d.run = <<P2, runs[P2]>> =>
    /\ Adder!Acknowledged(P2, d.number, 1) => d.number \in customerSet[d.order.customer]
    /\ Adder!Acknowledged(P2, d.number, 2) => d.number \in productSet[d.order.product]

SetsInv == Adder!LoaderInv /\ DrawnOnce /\ SentDrawn /\ Members /\ Stored2

\* The loader's assumption, for order2.
LEMMA AdderAssumption == Adder!LoaderAssumption
BY OrdersAssumption DEF Adder!LoaderAssumption

\* The steps of order2 are steps of its loader.
LEMMA SetsLoad ==
  /\ Index!LoaderInit => Adder!LoaderInit
  /\ Index!Next =>
       /\ Adder!LoaderNext
       /\ \/ \E c \in Adder!Sent : Adder!Execute(c) /\ Index!Store(c)
          \/ \E o \in SetDraws : Adder!Generate(P2, o) /\ Index!Draw(P2, o)
          \/ (Adder!Start(P2) \/ Adder!Proceed(P2) \/ Adder!Kill(P2)) /\ Index!Control(P2)
<1>1. Index!LoaderInit => Adder!LoaderInit
  BY DEF Index!LoaderInit, Adder!LoaderInit
<1>2. ASSUME NEW c PROVE Index!Execute(c) <=> Adder!Execute(c)
  BY DEF Index!Execute, Adder!Execute
<1>3. Index!Sent = Adder!Sent
  BY DEF Index!Sent, Adder!Sent, Index!Command, Adder!Command
<1>4. ASSUME NEW o PROVE Index!Generate(P2, o) <=> Adder!Generate(P2, o)
  BY DEF Index!Generate, Adder!Generate, Index!InLoop, Adder!InLoop
<1>5. Index!Start(P2) <=> Adder!Start(P2)
  BY DEF Index!Start, Adder!Start, Index!InLoop, Adder!InLoop
<1>6. Index!Kill(P2) <=> Adder!Kill(P2)
  BY DEF Index!Kill, Adder!Kill, Index!InLoop, Adder!InLoop, Index!Abandon, Adder!Abandon,
         Index!Command, Adder!Command
<1>7. Index!Continue(P2) <=> Adder!Continue(P2)
  BY DEF Index!Continue, Adder!Continue
<1>8. Index!Abandon(P2) <=> Adder!Abandon(P2)
  BY DEF Index!Abandon, Adder!Abandon, Index!Command, Adder!Command
<1>9. Index!Proceed(P2) <=> Adder!Proceed(P2)
  BY <1>7, <1>8 DEF Index!Proceed, Adder!Proceed, Index!Answer, Adder!Answer, Index!Retry, Adder!Retry,
         Index!GiveUp, Adder!GiveUp
<1>10. ASSUME Index!Next
       PROVE  \/ \E c \in Adder!Sent : Adder!Execute(c) /\ Index!Store(c)
              \/ \E o \in SetDraws : Adder!Generate(P2, o) /\ Index!Draw(P2, o)
              \/ (Adder!Start(P2) \/ Adder!Proceed(P2) \/ Adder!Kill(P2)) /\ Index!Control(P2)
  <2>1. CASE \E c \in Index!Sent : Index!Store(c)
    BY <1>2, <1>3, <2>1 DEF Index!Store
  <2>2. ASSUME NEW p \in OnlyOrder2, NEW o \in [q \in OnlyOrder2 |-> SetDraws][p],
               Index!Draw(p, o)
        PROVE  \E x \in SetDraws : Adder!Generate(P2, x) /\ Index!Draw(P2, x)
    <3>1. p = P2 /\ o \in SetDraws
      BY <2>2 DEF OnlyOrder2, P2
    <3> QED
      BY <1>4, <2>2, <3>1 DEF Index!Draw
  <2>3. ASSUME NEW p \in OnlyOrder2, Index!Control(p)
        PROVE  (Adder!Start(P2) \/ Adder!Proceed(P2) \/ Adder!Kill(P2)) /\ Index!Control(P2)
    <3>1. p = P2
      BY <2>3 DEF OnlyOrder2, P2
    <3> QED
      BY <1>5, <1>6, <1>9, <2>3, <3>1 DEF Index!Control
  <2> QED
    BY <1>10, <2>1, <2>2, <2>3 DEF Index!Next
<1>11. P2 \in OnlyOrder2 /\ [p \in OnlyOrder2 |-> SetDraws][P2] = SetDraws
  BY DEF P2, OnlyOrder2
<1>12. Index!Next => Adder!LoaderNext
  BY <1>10, <1>11 DEF Adder!LoaderNext, Adder!Moves
<1> QED
  BY <1>1, <1>10, <1>12

\* P2 is the one program of this loader.
LEMMA AdderPrograms ==
  /\ P2 \in OnlyOrder2 /\ \A p \in OnlyOrder2 : p = P2
  /\ [p \in OnlyOrder2 |-> 2][P2] = 2 /\ [p \in OnlyOrder2 |-> SetDraws][P2] = SetDraws
  /\ SetDraws # {} /\ \A o \in SetDraws : o.customer \in Customers /\ o.product \in Products
<1>1. SetDraws # {}
  BY OrdersAssumption
<1>2. P2 \in OnlyOrder2 /\ \A p \in OnlyOrder2 : p = P2
  BY DEF P2, OnlyOrder2
<1>3. \A o \in SetDraws : o.customer \in Customers /\ o.product \in Products
  BY OrdersAssumption
<1> QED
  BY <1>1, <1>2, <1>3

\* Nothing has been drawn at first.
LEMMA SetsInitInv == Index!Init => SetsInv
<1> SUFFICES ASSUME Index!Init PROVE SetsInv
  OBVIOUS
<1>1. /\ Adder!LoaderInit /\ drawn = {}
      /\ customerSet = [c \in Customers |-> {}] /\ productSet = [q \in Products |-> {}]
  BY SetsLoad DEF Index!Init
<1>2. Adder!LoaderInv
  BY <1>1, Adder!LoaderInitInv, AdderAssumption
<1>3. late = {} /\ call[P2] = "none"
  BY <1>1, AdderPrograms DEF Adder!LoaderInit
<1> QED
  BY <1>1, <1>2, <1>3 DEF SetsInv, DrawnOnce, SentDrawn, Members, Stored2

\* What the loader's invariant says of P2.
LEMMA AdderTypes ==
  ASSUME Adder!LoaderInv
  PROVE  /\ SetOrders \in Nat \ {0} /\ SetRuns \in Nat /\ i[P2] \in 0 .. SetOrders + 1 /\ step[P2] \in 0 .. 2
         /\ order[P2] \in SetDraws /\ runs[P2] \in 0 .. SetRuns
         /\ call[P2] = "none" <=> step[P2] = 0
         /\ ~Adder!InLoop(P2) => step[P2] = 0
         /\ i[P2] > 0 => runs[P2] > 0
         /\ DOMAIN i = OnlyOrder2 /\ DOMAIN step = OnlyOrder2 /\ DOMAIN order = OnlyOrder2
         /\ DOMAIN call = OnlyOrder2 /\ DOMAIN runs = OnlyOrder2
<1>1. Adder!LoaderTypes /\ Adder!InStep
  BY DEF Adder!LoaderInv
<1> QED
  BY <1>1, AdderPrograms, OrdersAssumption DEF Adder!LoaderTypes, Adder!InStep

\* A step of order2 that draws nothing stays with its order or leaves it behind.
LEMMA AdderControl ==
  ASSUME Adder!LoaderInv, Adder!Start(P2) \/ Adder!Proceed(P2) \/ Adder!Kill(P2)
  PROVE  /\ order'[P2] = order[P2] /\ call'[P2] # "executed"
         /\ \/ runs'[P2] = runs[P2] + 1
            \/ /\ runs'[P2] = runs[P2]
               /\ i'[P2] = 0 \/ (i[P2] > 0 /\ i'[P2] = i[P2] + 1) \/ (i'[P2] = i[P2] /\ (step[P2] > 0 => step'[P2] > 0))
         /\ call'[P2] # "none" => call[P2] # "none" /\ i'[P2] = i[P2] /\ runs'[P2] = runs[P2]
<1>0. /\ SetOrders \in Nat \ {0} /\ i[P2] \in 0 .. SetOrders + 1 /\ step[P2] \in 0 .. 2
      /\ call[P2] = "none" <=> step[P2] = 0
      /\ ~Adder!InLoop(P2) => step[P2] = 0
      /\ runs[P2] \in Nat
      /\ P2 \in DOMAIN i /\ P2 \in DOMAIN step /\ P2 \in DOMAIN order /\ P2 \in DOMAIN call /\ P2 \in DOMAIN runs
  BY AdderTypes, AdderPrograms
<1>1. CASE Adder!Start(P2)
  BY <1>0, <1>1 DEF Adder!Start
<1>2. ASSUME Adder!Continue(P2), call[P2] # "none"
      PROVE  /\ call'[P2] # "executed"
             /\ (i[P2] > 0 /\ i'[P2] = i[P2] + 1) \/ (i'[P2] = i[P2] /\ step'[P2] > 0)
             /\ call'[P2] # "none" => i'[P2] = i[P2]
  BY <1>0, <1>2, AdderPrograms DEF Adder!Continue, Adder!InLoop
<1>3. CASE Adder!Answer(P2)
  BY <1>0, <1>2, <1>3 DEF Adder!Answer
<1>4. CASE Adder!GiveUp(P2)
  BY <1>0, <1>2, <1>4 DEF Adder!GiveUp
<1>5. CASE Adder!Retry(P2)
  BY <1>0, <1>5 DEF Adder!Retry
<1>6. CASE Adder!Kill(P2)
  BY <1>0, <1>6 DEF Adder!Kill
<1> QED
  BY <1>1, <1>3, <1>4, <1>5, <1>6 DEF Adder!Proceed

\* An order that was drawn stays drawn by its run.
LEMMA DrawnStays ==
  ASSUME Adder!LoaderInv, Adder!LoaderInv', NEW d, NEW r \in 1 .. SetRuns, DrawnBy(d, r),
         order'[P2] = order[P2],
         \/ runs'[P2] = runs[P2] + 1
         \/ /\ runs'[P2] = runs[P2]
            /\ i'[P2] = 0 \/ (i[P2] > 0 /\ i'[P2] = i[P2] + 1) \/ (i'[P2] = i[P2] /\ (step[P2] > 0 => step'[P2] > 0))
  PROVE  DrawnBy(d, r)'
<1>1. PICK j \in Nat, k \in Nat, s \in Nat, t \in Nat, a \in Nat, b \in Nat :
        /\ j = i[P2] /\ k = i'[P2] /\ s = step[P2] /\ t = step'[P2] /\ a = runs[P2] /\ b = runs'[P2]
  <2>1. i[P2] \in Nat /\ step[P2] \in Nat /\ runs[P2] \in Nat
    BY AdderTypes
  <2>2. i'[P2] \in Nat /\ step'[P2] \in Nat /\ runs'[P2] \in Nat
    <3>1. (Adder!LoaderTypes)'
      BY DEF Adder!LoaderInv
    <3>2. /\ i' \in [OnlyOrder2 -> 0 .. SetOrders + 1] /\ step' \in [OnlyOrder2 -> Nat]
          /\ runs' \in [OnlyOrder2 -> 0 .. SetRuns]
      BY <3>1 DEF Adder!LoaderTypes
    <3> QED
      BY <3>2, AdderPrograms, OrdersAssumption
  <2> QED
    BY <2>1, <2>2
<1>2. d.run = <<P2, r>> /\ r <= a /\ d.number \in 1 .. SetOrders /\ d.order \in SetDraws
      /\ (r = a /\ j > 0 => d.number < j \/ (d.number = j /\ s > 0 /\ d.order = order[P2]))
  BY <1>1 DEF DrawnBy
<1>3. \/ b = a + 1
      \/ b = a /\ (k = 0 \/ (j > 0 /\ k = j + 1) \/ (k = j /\ (s > 0 => t > 0)))
  BY <1>1
<1>4. r <= b /\ (r = b /\ k > 0 => d.number < k \/ (d.number = k /\ t > 0 /\ d.order = order[P2]))
  <2>1. d.number \in Nat
    BY <1>2, OrdersAssumption
  <2>2. CASE b = a + 1
    BY <1>2, <2>2
  <2>3. CASE b = a
    BY <1>2, <1>3, <2>1, <2>3
  <2> QED
    BY <1>3, <2>2, <2>3
<1> QED
  BY <1>1, <1>2, <1>4 DEF DrawnBy

\* A command is traced to the draw of its order, and stays so.
LEMMA TracedStays ==
  ASSUME NEW c, Traced(c), drawn \subseteq drawn'
  PROVE  Traced(c)'
BY DEF Traced

\* Every step of order2 preserves the invariant.
LEMMA SetsStep == SetsInv /\ Index!Next => SetsInv'
<1> SUFFICES ASSUME SetsInv, Index!Next PROVE SetsInv'
  OBVIOUS
<1>0. /\ Adder!LoaderInv /\ DrawnOnce /\ SentDrawn /\ Members /\ Stored2
      /\ SetOrders \in Nat \ {0} /\ SetRuns \in Nat /\ i[P2] \in 0 .. SetOrders + 1 /\ step[P2] \in 0 .. 2
      /\ order[P2] \in SetDraws /\ runs[P2] \in 0 .. SetRuns
      /\ call[P2] = "none" <=> step[P2] = 0
  BY AdderTypes DEF SetsInv
<1>1. Adder!LoaderNext
  BY SetsLoad
<1>2. (Adder!LoaderInv)'
  BY <1>0, <1>1, AdderAssumption, Adder!LoaderStep
<1>3. CASE (Adder!Start(P2) \/ Adder!Proceed(P2) \/ Adder!Kill(P2)) /\ Index!Control(P2)
  <2>1. UNCHANGED <<customerSet, productSet, drawn>>
    BY <1>3 DEF Index!Control
  <2>2. DrawnOnce'
    <3>1. ASSUME NEW d \in drawn' PROVE \E r \in 1 .. SetRuns : DrawnBy(d, r)'
      <4>1. PICK r \in 1 .. SetRuns : DrawnBy(d, r)
        BY <1>0, <2>1 DEF DrawnOnce
      <4>2. DrawnBy(d, r)'
        BY <1>0, <1>2, <1>3, <4>1, AdderControl, DrawnStays
      <4> QED
        BY <4>2
    <3> QED
      BY <1>0, <2>1, <3>1 DEF DrawnOnce
  <2>3. SentDrawn'
    <3>1. call'[P2] # "none" => call[P2] # "none" /\ i'[P2] = i[P2] /\ runs'[P2] = runs[P2] /\ order'[P2] = order[P2]
      BY <1>0, <1>3, AdderControl
    <3>2. late' = late \/ (call[P2] # "none" /\ late' = late \cup {Adder!Command(P2)})
      BY <1>0, <1>3, AdderPrograms, AdderAssumption, Adder!MoveEffect DEF Adder!Moves
    <3> QED
      BY <1>0, <2>1, <3>1, <3>2 DEF SentDrawn, Traced, Adder!Command
  <2>4. Members'
    <3>1. call'[P2] # "executed"
      BY <1>0, <1>3, AdderControl
    <3> QED
      BY <1>0, <2>1, <3>1 DEF Members
  <2>5. Stored2'
    <3> SUFFICES ASSUME NEW d \in drawn, d.run = <<P2, runs'[P2]>>, NEW s \in 1 .. 2,
                        Adder!Acknowledged(P2, d.number, s)'
                 PROVE  /\ s = 1 => d.number \in customerSet[d.order.customer]
                        /\ s = 2 => d.number \in productSet[d.order.product]
      BY <2>1 DEF Stored2
    <3>1. PICK r \in 1 .. SetRuns : DrawnBy(d, r)
      BY <1>0 DEF DrawnOnce
    <3>2. d.number \in 1 .. SetOrders
      BY <3>1 DEF DrawnBy
    <3>3. /\ runs'[P2] = runs[P2] /\ i[P2] > 0
          /\ \/ Adder!Acknowledged(P2, d.number, s)
             \/ d.number = i[P2] /\ s = step[P2] /\ call[P2] = "executed" /\ Adder!Answer(P2)
      BY <1>0, <1>1, <3>2, AdderPrograms, AdderAssumption, Adder!Acknowledges
    <3>4. CASE Adder!Acknowledged(P2, d.number, s)
      BY <1>0, <3>3, <3>4 DEF Stored2
    <3>5. CASE d.number = i[P2] /\ s = step[P2] /\ call[P2] = "executed"
      <4>1. d.order = order[P2]
        BY <1>0, <3>1, <3>3, <3>5 DEF DrawnBy
      <4> QED
        BY <1>0, <3>5, <4>1 DEF Members
    <3> QED
      BY <3>3, <3>4, <3>5
  <2> QED
    BY <1>2, <2>2, <2>3, <2>4, <2>5 DEF SetsInv
<1>4. ASSUME NEW o \in SetDraws, Adder!Generate(P2, o) /\ Index!Draw(P2, o) PROVE SetsInv'
  <2> DEFINE new == [run |-> <<P2, runs[P2]>>, number |-> i[P2], order |-> o]
  <2>1. /\ drawn' = drawn \cup {new} /\ UNCHANGED <<customerSet, productSet>>
        /\ i' = i /\ runs' = runs /\ late' = late /\ step[P2] = 0 /\ i[P2] \in 1 .. SetOrders
        /\ order'[P2] = o /\ step'[P2] = 1 /\ call'[P2] = "sent"
    BY <1>0, <1>4, AdderTypes, AdderPrograms DEF Index!Draw, Adder!Generate, Adder!InLoop
  <2>2. ASSUME NEW d \in drawn, NEW r \in 1 .. SetRuns, DrawnBy(d, r)
        PROVE  DrawnBy(d, r)' /\ ~(d.run = new.run /\ d.number = new.number)
    <3>1. DrawnBy(d, r)'
      BY <1>0, <2>1, <2>2 DEF DrawnBy
    <3>2. d.run = <<P2, r>> /\ d.number \in 1 .. SetOrders /\ (r = runs[P2] => d.number < i[P2])
      BY <1>0, <2>1, <2>2 DEF DrawnBy
    <3>3. ASSUME d.run = new.run PROVE d.number # new.number
      <4>1. r = runs[P2]
        BY <3>2, <3>3
      <4> QED
        BY <2>1, <3>2, <4>1
    <3> QED
      BY <3>1, <3>3
  <2>3. runs[P2] \in 1 .. SetRuns /\ DrawnBy(new, runs[P2])'
    BY <1>0, <2>1, AdderTypes DEF DrawnBy
  <2>4. DrawnOnce'
    <3>1. \A d \in drawn' : \E r \in 1 .. SetRuns : DrawnBy(d, r)'
      BY <1>0, <2>1, <2>2, <2>3 DEF DrawnOnce
    <3>2. \A d \in drawn : ~(d.run = new.run /\ d.number = new.number)
      BY <1>0, <2>2 DEF DrawnOnce
    <3>3. ASSUME NEW d \in drawn', NEW e \in drawn', d.run = e.run, d.number = e.number PROVE d.order = e.order
      BY <1>0, <2>1, <3>2, <3>3 DEF DrawnOnce
    <3> QED
      BY <3>1, <3>3 DEF DrawnOnce
  <2>5. SentDrawn'
    BY <1>0, <2>1 DEF SentDrawn, Traced, Adder!Command
  <2>6. Members'
    BY <1>0, <2>1 DEF Members
  <2>7. Stored2'
    <3> SUFFICES ASSUME NEW d \in drawn', d.run = <<P2, runs[P2]>>, NEW s \in 1 .. 2,
                        Adder!Acknowledged(P2, d.number, s)'
                 PROVE  /\ s = 1 => d.number \in customerSet[d.order.customer]
                        /\ s = 2 => d.number \in productSet[d.order.product]
      BY <2>1 DEF Stored2
    <3>1. d.number \in 1 .. SetOrders /\ d.number \in Nat
      <4>1. \E r \in 1 .. SetRuns : DrawnBy(d, r)'
        BY <2>4 DEF DrawnOnce
      <4> QED
        BY <4>1, OrdersAssumption DEF DrawnBy
    <3>2. \/ Adder!Acknowledged(P2, d.number, s)
          \/ d.number = i[P2] /\ s = step[P2]
      BY <1>0, <1>1, <3>1, AdderPrograms, AdderAssumption, Adder!Acknowledges
    <3>3. Adder!Acknowledged(P2, d.number, s)
      BY <2>1, <3>2
    <3>4. d # new
      BY <2>1, <3>3 DEF Adder!Acknowledged
    <3> QED
      BY <1>0, <2>1, <3>3, <3>4 DEF Stored2
  <2> QED
    BY <1>2, <2>4, <2>5, <2>6, <2>7 DEF SetsInv
<1>5. ASSUME NEW c \in Adder!Sent, Adder!Execute(c) /\ Index!Store(c) PROVE SetsInv'
  <2>1. /\ drawn' = drawn /\ i' = i /\ step' = step /\ order' = order /\ runs' = runs /\ late' \subseteq late
        /\ call'[P2] = "none" <=> call[P2] = "none"
        /\ call'[P2] = "executed" => call[P2] = "executed" \/ c = Adder!Command(P2)
    <3>1. c \in late \/ (c.program = P2 /\ call[P2] = "sent" /\ c = Adder!Command(P2))
      BY <1>0, AdderPrograms, AdderAssumption, Adder!SentWell DEF Adder!WellSent
    <3>2. P2 \in DOMAIN call
      BY <1>0, AdderTypes, AdderPrograms
    <3> QED
      BY <1>5, <3>1, <3>2 DEF Index!Store, Adder!Execute
  <2>2. Traced(c) /\ c.program = P2 /\ c.number \in 1 .. SetOrders /\ c.step \in 1 .. 2 /\ c.order \in SetDraws
    <3>1. Adder!WellSent(c)
      BY <1>0, AdderAssumption, Adder!SentWell
    <3>2. Traced(c)
      BY <1>0, AdderPrograms DEF SentDrawn, Adder!Sent
    <3> QED
      BY <3>1, <3>2, AdderPrograms DEF Adder!WellSent
  <2>3. c.order.customer \in Customers /\ c.order.product \in Products
    BY <2>2, AdderPrograms
  <2>4. \/ /\ c.step = 1 /\ productSet' = productSet
           /\ customerSet' = [customerSet EXCEPT ![c.order.customer] = @ \cup {c.number}]
        \/ /\ c.step = 2 /\ customerSet' = customerSet
           /\ productSet' = [productSet EXCEPT ![c.order.product] = @ \cup {c.number}]
    BY <1>5, <2>2 DEF Index!Store
  <2>5. /\ customerSet' \in [Customers -> SUBSET (1 .. SetOrders)] /\ productSet' \in [Products -> SUBSET (1 .. SetOrders)]
        /\ \A k \in Customers : customerSet[k] \subseteq customerSet'[k]
        /\ \A k \in Products : productSet[k] \subseteq productSet'[k]
        /\ \A k \in Customers : \A n \in customerSet'[k] :
             n \in customerSet[k] \/ (n = c.number /\ k = c.order.customer)
        /\ \A k \in Products : \A n \in productSet'[k] :
             n \in productSet[k] \/ (n = c.number /\ k = c.order.product)
        /\ c.step = 1 => c.number \in customerSet'[c.order.customer]
        /\ c.step = 2 => c.number \in productSet'[c.order.product]
    <3>1. customerSet \in [Customers -> SUBSET (1 .. SetOrders)] /\ productSet \in [Products -> SUBSET (1 .. SetOrders)]
      BY <1>0 DEF Members
    <3> QED
      BY <2>2, <2>3, <2>4, <3>1
  <2>6. DrawnOnce' /\ SentDrawn'
    BY <1>0, <2>1 DEF DrawnOnce, DrawnBy, SentDrawn, Traced, Adder!Command
  <2>7. Members'
    <3>1. \E d \in drawn : d.number = c.number /\ d.order = c.order
      BY <2>2 DEF Traced
    <3>2. ASSUME call'[P2] = "executed"
          PROVE  /\ step[P2] = 1 => i[P2] \in customerSet'[order[P2].customer]
                 /\ step[P2] = 2 => i[P2] \in productSet'[order[P2].product]
      <4>1. CASE call[P2] = "executed"
        BY <1>0, <2>5, <4>1, AdderPrograms DEF Members
      <4>2. CASE c = Adder!Command(P2)
        BY <2>5, <4>2 DEF Adder!Command
      <4> QED
        BY <2>1, <3>2, <4>1, <4>2
    <3>3. \A k \in Customers : \A n \in customerSet'[k] : \E d \in drawn : d.number = n /\ d.order.customer = k
      BY <1>0, <2>5, <3>1 DEF Members
    <3>4. \A k \in Products : \A n \in productSet'[k] : \E d \in drawn : d.number = n /\ d.order.product = k
      BY <1>0, <2>5, <3>1 DEF Members
    <3> QED
      BY <2>1, <2>5, <3>2, <3>3, <3>4 DEF Members
  <2>8. Stored2'
    <3>1. \A d \in drawn : d.order.customer \in Customers /\ d.order.product \in Products
      BY <1>0, AdderPrograms DEF DrawnOnce, DrawnBy
    <3>2. ASSUME NEW n, NEW s PROVE Adder!Acknowledged(P2, n, s)' <=> Adder!Acknowledged(P2, n, s)
      BY <1>5, <2>1 DEF Adder!Acknowledged, Adder!Execute
    <3> QED
      BY <1>0, <2>1, <2>5, <3>1, <3>2 DEF Stored2
  <2> QED
    BY <1>2, <2>6, <2>7, <2>8 DEF SetsInv
<1> QED
  BY <1>3, <1>4, <1>5, SetsLoad

-----------------------------------------------------------------------------
(* The action log of order3. *)

\* The loop of order3.
Logger == INSTANCE RedisLoaderProofs
  WITH Programs <- OnlyOrder3, Steps <- [p \in OnlyOrder3 |-> 1],
       Draws <- [p \in OnlyOrder3 |-> {"none"}], N <- LogLength, MaxRetries <- Retries

P3 == "order3"

LogEntries == [run : 1 .. MaxRuns, number : 1 .. LogLength - 2]

\* An entry comes from a run that was started and, in the current one, from a call
\* that its main has reached.
Reached(e) ==
  e.run <= runs[P3] /\ ((e.run = runs[P3] /\ i[P3] > 0) => e.number <= i[P3])

ThisRun(n) == [run |-> runs[P3], number |-> n]
CopyIn(s, e) == \E k \in 1 .. Len(s) : s[k] = e

\* Copy k of call a is to the right of all copies of the later calls of its run.
FirstCopy(k, a) ==
  /\ log[k] = ThisRun(a)
  /\ \A l \in 1 .. Len(log), b \in 1 .. LogLength - 2 : b > a /\ log[l] = ThisRun(b) => l < k

LogSeqs ==
  /\ log \in Seq(LogEntries) /\ shown \in Seq(LogEntries)
  /\ \A k \in 1 .. Len(log) : Reached(log[k])

Pushed ==
  /\ (call[P3] = "executed" /\ i[P3] < LogLength - 1) => CopyIn(log, ThisRun(i[P3]))
  /\ \A a \in 1 .. LogLength - 2 : Logger!Acknowledged(P3, a, 1) => \E k \in 1 .. Len(log) : FirstCopy(k, a)

\* From the answer to LRANGE on, what is shown holds what is recorded.
Listed3 ==
  \/ call[P3] = "executed" /\ i[P3] = LogLength - 1
  \/ Logger!Acknowledged(P3, LogLength - 1, 1)

ListHolds ==
  Listed3 => \A n \in 1 .. LogLength - 2 :
               Logger!Acknowledged(P3, n, 1) => CopyIn(shown, ThisRun(n))

AmountInv == stores \in Nat /\ applied \in Nat /\ Log!AmountAccounted

LogInv == Logger!LoaderInv /\ LogSeqs /\ Pushed /\ ListHolds /\ AmountInv

\* The loader's assumption, for order3.
LEMMA LoggerAssumption == Logger!LoaderAssumption /\ LogLength \in Nat /\ LogLength > 2
BY LoaderAssumption, OrdersAssumption, LogsAssumption DEF Logger!LoaderAssumption, Log!LogAssumption

\* P3 is the one program of this loader.
LEMMA LoggerPrograms ==
  /\ P3 \in OnlyOrder3 /\ \A p \in OnlyOrder3 : p = P3
  /\ [p \in OnlyOrder3 |-> 1][P3] = 1 /\ [p \in OnlyOrder3 |-> {"none"}][P3] = {"none"}
BY DEF P3, OnlyOrder3

LoggerMoves ==
  \/ Logger!Start(P3) \/ Logger!Proceed(P3) \/ Logger!Kill(P3)
  \/ Logger!Generate(P3, "none")

\* The steps of order3 are steps of its loader, and order.go's stores are none.
LEMMA LogLoads ==
  /\ Log!LoaderInit => Logger!LoaderInit
  /\ Log!Next =>
       /\ Logger!LoaderNext
       /\ \/ \E c \in Logger!Sent :
               Logger!Execute(c) /\ (Log!Push(c) \/ Log!List(c) \/ Log!Add(c))
          \/ Log!Store /\ UNCHANGED loader
          \/ LoggerMoves /\ UNCHANGED <<log, shown, amount, stores, applied>>
<1>1. Log!LoaderInit => Logger!LoaderInit
  BY DEF Log!LoaderInit, Logger!LoaderInit
<1>2. ASSUME NEW c PROVE Log!Execute(c) <=> Logger!Execute(c)
  BY DEF Log!Execute, Logger!Execute
<1>3. Log!Sent = Logger!Sent
  BY DEF Log!Sent, Logger!Sent, Log!Command, Logger!Command
<1>4. ASSUME NEW o PROVE Log!Generate(P3, o) <=> Logger!Generate(P3, o)
  BY DEF Log!Generate, Logger!Generate, Log!InLoop, Logger!InLoop
<1>5. Log!Start(P3) <=> Logger!Start(P3)
  BY DEF Log!Start, Logger!Start, Log!InLoop, Logger!InLoop
<1>6. Log!Abandon(P3) <=> Logger!Abandon(P3)
  BY DEF Log!Abandon, Logger!Abandon, Log!Command, Logger!Command
<1>7. Log!Kill(P3) <=> Logger!Kill(P3)
  BY <1>6 DEF Log!Kill, Logger!Kill, Log!InLoop, Logger!InLoop
<1>8. Log!Continue(P3) <=> Logger!Continue(P3)
  BY DEF Log!Continue, Logger!Continue
<1>9. Log!Answer(P3) \/ Log!Retry(P3) \/ Log!Fail(P3) => Logger!Proceed(P3) \/ Logger!Kill(P3)
  BY <1>6, <1>7, <1>8 DEF Log!Fail, Logger!Proceed, Log!Answer, Logger!Answer, Log!Retry, Logger!Retry,
         Log!GiveUp, Logger!GiveUp
<1>10. ASSUME Log!Next
       PROVE  \/ \E c \in Logger!Sent :
                    Logger!Execute(c) /\ (Log!Push(c) \/ Log!List(c) \/ Log!Add(c))
              \/ Log!Store /\ UNCHANGED loader
              \/ LoggerMoves /\ UNCHANGED <<log, shown, amount, stores, applied>>
  <2>1. CASE \E c \in Log!Sent : Log!Push(c) \/ Log!List(c) \/ Log!Add(c)
    BY <1>2, <1>3, <2>1 DEF Log!Push, Log!List, Log!Add
  <2>2. CASE Log!Store
    BY <2>2 DEF Log!Store, Log!loader, loader
  <2>3. ASSUME NEW p \in OnlyOrder3, Log!Control(p)
        PROVE  LoggerMoves /\ UNCHANGED <<log, shown, amount, stores, applied>>
    <3>1. Log!Control(P3)
      BY <2>3, LoggerPrograms
    <3> QED
      BY <1>4, <1>5, <1>7, <1>9, <3>1, LoggerPrograms DEF Log!Control, Log!data, LoggerMoves
  <2> QED
    BY <1>10, <2>1, <2>2, <2>3 DEF Log!Next
<1>11. Log!Next => Logger!LoaderNext
  BY <1>10, LoggerPrograms DEF Logger!LoaderNext, Logger!Moves, LoggerMoves, Logger!loader, loader
<1> QED
  BY <1>1, <1>10, <1>11

\* Nothing has been pushed at first.
LEMMA LogInitInv == Log!Init => LogInv
<1> SUFFICES ASSUME Log!Init PROVE LogInv
  OBVIOUS
<1>1. /\ Logger!LoaderInit /\ log = <<>> /\ shown = <<>> /\ amount = NoAmount /\ stores = 0 /\ applied = 0
  BY LogLoads DEF Log!Init
<1>2. Logger!LoaderInv
  BY <1>1, Logger!LoaderInitInv, LoggerAssumption
<1>3. call[P3] = "none" /\ runs[P3] = 0
  BY <1>1, LoggerPrograms DEF Logger!LoaderInit
<1>4. \A n, s : ~Logger!Acknowledged(P3, n, s)
  BY <1>3 DEF Logger!Acknowledged
<1>5. LogSeqs
  BY <1>1, EmptySeq DEF LogSeqs
<1> QED
  BY <1>1, <1>2, <1>3, <1>4, <1>5 DEF LogInv, Pushed, ListHolds, Listed3, AmountInv, Log!AmountAccounted

\* What the loader's invariant says of P3.
LEMMA LoggerTypes ==
  ASSUME Logger!LoaderInv
  PROVE  /\ i[P3] \in 0 .. LogLength + 1 /\ step[P3] \in 0 .. 1
         /\ runs[P3] \in 0 .. MaxRuns /\ MaxRuns \in Nat
         /\ call[P3] = "none" <=> step[P3] = 0
         /\ ~Logger!InLoop(P3) => step[P3] = 0
         /\ i[P3] > 0 => runs[P3] > 0
         /\ DOMAIN i = OnlyOrder3 /\ DOMAIN step = OnlyOrder3 /\ DOMAIN call = OnlyOrder3
<1>1. Logger!LoaderTypes /\ Logger!InStep
  BY DEF Logger!LoaderInv
<1> QED
  BY <1>1, LoggerPrograms, LoaderAssumption DEF Logger!LoaderTypes, Logger!InStep

\* LPUSH puts an entry before the others, in their order.
LEMMA PushLeft ==
  ASSUME NEW S, NEW s \in Seq(S), NEW e \in S
  PROVE  /\ <<e>> \o s \in Seq(S) /\ Len(<<e>> \o s) = Len(s) + 1 /\ (<<e>> \o s)[1] = e
         /\ Len(s) \in Nat
         /\ \A k \in 1 .. Len(s) : (<<e>> \o s)[k + 1] = s[k]
         /\ \A k \in 1 .. Len(s) + 1 : k = 1 \/ (k - 1 \in 1 .. Len(s) /\ (<<e>> \o s)[k] = s[k - 1])
<1>1. <<e>> \in Seq(S) /\ Len(<<e>>) = 1 /\ <<e>>[1] = e
  OBVIOUS
<1>2. Len(s) \in Nat
  OBVIOUS
<1>3. /\ <<e>> \o s \in Seq(S) /\ Len(<<e>> \o s) = 1 + Len(s)
      /\ \A k \in 1 .. Len(<<e>> \o s) :
           (<<e>> \o s)[k] = IF k <= 1 THEN <<e>>[k] ELSE s[k - 1]
  BY <1>1, ConcatProperties
<1>4. ASSUME NEW k \in 1 .. Len(s) PROVE (<<e>> \o s)[k + 1] = s[k]
  <2>1. PICK n \in Nat : n = Len(s)
    BY <1>2
  <2>2. k + 1 \in 1 .. Len(<<e>> \o s) /\ ~(k + 1 <= 1) /\ (k + 1) - 1 = k
    BY <1>3, <2>1
  <2> QED
    BY <1>3, <2>2
<1>5. ASSUME NEW k \in 1 .. Len(s) + 1, k # 1
      PROVE  k - 1 \in 1 .. Len(s) /\ (<<e>> \o s)[k] = s[k - 1]
  <2>1. PICK n \in Nat : n = Len(s)
    BY <1>2
  <2>2. k \in 1 .. Len(<<e>> \o s) /\ ~(k <= 1) /\ k - 1 \in 1 .. Len(s)
    BY <1>3, <1>5, <2>1
  <2> QED
    BY <1>3, <2>2
<1>6. (<<e>> \o s)[1] = e /\ Len(<<e>> \o s) = Len(s) + 1
  <2>1. PICK n \in Nat : n = Len(s)
    BY <1>2
  <2>2. 1 \in 1 .. Len(<<e>> \o s) /\ Len(<<e>> \o s) = Len(s) + 1
    BY <1>3, <2>1
  <2> QED
    BY <1>1, <1>3, <2>2
<1> QED
  BY <1>2, <1>3, <1>4, <1>5, <1>6

\* A step of order3 itself keeps the log's invariant: it can only record what was
\* executed, and a killed or a new run has recorded nothing.
LEMMA LoggerKeeps ==
  ASSUME LogInv, Logger!LoaderInv', LoggerMoves, UNCHANGED <<log, shown, amount, stores, applied>>
  PROVE  LogInv'
<1>0. /\ Logger!LoaderInv /\ LogSeqs /\ Pushed /\ ListHolds /\ AmountInv
      /\ i[P3] \in 0 .. LogLength + 1 /\ runs[P3] \in 0 .. MaxRuns /\ MaxRuns \in Nat
      /\ LogLength \in Nat /\ LogLength > 2
  BY LoggerTypes, LoggerAssumption DEF LogInv
<1>1. Logger!Moves(P3) /\ Logger!LoaderNext
  BY LoggerPrograms DEF LoggerMoves, Logger!Moves, Logger!LoaderNext
<1>2. /\ runs'[P3] = runs[P3] \/ runs'[P3] = runs[P3] + 1
      /\ runs'[P3] = runs[P3] => i'[P3] = 0 \/ i'[P3] >= i[P3]
      /\ i'[P3] > 0 /\ runs'[P3] = runs[P3] => i[P3] > 0
  BY <1>0, <1>1, LoggerPrograms, LoggerAssumption, Logger!MoveEffect
<1>3. i'[P3] \in Nat /\ runs'[P3] \in Nat
  <2>1. (Logger!LoaderTypes)'
    BY DEF Logger!LoaderInv
  <2>2. i' \in [OnlyOrder3 -> 0 .. LogLength + 1] /\ runs' \in [OnlyOrder3 -> 0 .. MaxRuns]
    BY <2>1 DEF Logger!LoaderTypes
  <2> QED
    BY <1>0, <2>2, LoggerPrograms
<1>4. call'[P3] # "executed"
  <2>1. P3 \in DOMAIN call
    BY <1>0, LoggerTypes, LoggerPrograms
  <2>2. Logger!Start(P3) => call[P3] = "none"
    BY <1>0, LoggerTypes DEF Logger!Start
  <2> QED
    BY <2>1, <2>2 DEF LoggerMoves, Logger!Start, Logger!Proceed, Logger!Answer, Logger!Retry, Logger!GiveUp,
       Logger!Continue, Logger!Kill, Logger!Generate
<1>5. ASSUME NEW n \in 1 .. LogLength, Logger!Acknowledged(P3, n, 1)'
      PROVE  /\ runs'[P3] = runs[P3]
             /\ Logger!Acknowledged(P3, n, 1) \/ (n = i[P3] /\ call[P3] = "executed")
  BY <1>0, <1>1, <1>5, LoggerPrograms, LoggerAssumption, Logger!Acknowledges
<1>6. LogSeqs'
  <2>1. ASSUME NEW k \in 1 .. Len(log) PROVE Reached(log[k])'
    <3>1. Reached(log[k]) /\ log[k] \in LogEntries
      BY <1>0 DEF LogSeqs
    <3>2. log[k].run \in Nat /\ log[k].number \in Nat
      BY <1>0, <3>1 DEF LogEntries
    <3>3. PICK r \in Nat, q \in Nat, j \in Nat, l \in Nat, e \in Nat, n \in Nat :
            /\ r = runs[P3] /\ q = runs'[P3] /\ j = i[P3] /\ l = i'[P3] /\ e = log[k].run /\ n = log[k].number
      <4>1. i[P3] \in Nat /\ runs[P3] \in Nat
        BY <1>0
      <4> QED
        BY <1>3, <3>2, <4>1
    <3>4. /\ q = r \/ q = r + 1
          /\ q = r => l = 0 \/ l >= j
          /\ l > 0 /\ q = r => j > 0
      BY <1>2, <3>3
    <3>5. e <= r /\ ((e = r /\ j > 0) => n <= j)
      BY <3>1, <3>3 DEF Reached
    <3>6. e <= q /\ ((e = q /\ l > 0) => n <= l)
      BY <3>4, <3>5
    <3> QED
      BY <3>3, <3>6 DEF Reached
  <2> QED
    BY <1>0, <2>1 DEF LogSeqs
<1>7. Pushed'
  <2>1. ASSUME NEW a \in 1 .. LogLength - 2, Logger!Acknowledged(P3, a, 1)'
        PROVE  \E k \in 1 .. Len(log) : FirstCopy(k, a)'
    <3>0. a \in 1 .. LogLength
      BY <1>0
    <3>1. runs'[P3] = runs[P3]
      BY <1>5, <2>1, <3>0
    <3>2. CASE Logger!Acknowledged(P3, a, 1)
      BY <1>0, <3>1, <3>2 DEF Pushed, FirstCopy, ThisRun
    <3>3. CASE a = i[P3] /\ call[P3] = "executed"
      <4>1. PICK k \in 1 .. Len(log) : log[k] = ThisRun(a)
        BY <1>0, <3>3 DEF Pushed, CopyIn
      <4>2. ASSUME NEW l \in 1 .. Len(log), NEW b \in 1 .. LogLength - 2, log[l] = ThisRun(b)
            PROVE  ~(b > a)
        <5>1. Reached(ThisRun(b))
          BY <1>0, <4>2 DEF LogSeqs
        <5>2. b <= i[P3]
          BY <3>3, <5>1 DEF Reached, ThisRun
        <5> QED
          BY <1>0, <3>3, <5>2
      <4> QED
        BY <3>1, <4>1, <4>2 DEF FirstCopy, ThisRun
    <3> QED
      BY <1>5, <2>1, <3>0, <3>2, <3>3
  <2> QED
    BY <1>4, <2>1 DEF Pushed
<1>8. ListHolds'
  <2> SUFFICES ASSUME Listed3', NEW n \in 1 .. LogLength - 2, Logger!Acknowledged(P3, n, 1)'
               PROVE  CopyIn(shown, ThisRun(n))'
    BY DEF ListHolds
  <2>1. LogLength - 1 \in 1 .. LogLength /\ n \in 1 .. LogLength /\ n < LogLength - 1
    BY <1>0
  <2>2. Logger!Acknowledged(P3, LogLength - 1, 1)'
    BY <1>4 DEF Listed3
  <2>3. runs'[P3] = runs[P3] /\ Listed3 /\ i[P3] >= LogLength - 1
    <3>1. /\ runs'[P3] = runs[P3]
          /\ \/ Logger!Acknowledged(P3, LogLength - 1, 1)
             \/ LogLength - 1 = i[P3] /\ call[P3] = "executed"
      BY <1>5, <2>1, <2>2
    <3> QED
      BY <1>0, <3>1 DEF Listed3, Logger!Acknowledged
  <2>4. Logger!Acknowledged(P3, n, 1)
    BY <1>0, <1>5, <2>1, <2>3
  <2> QED
    BY <1>0, <2>3, <2>4 DEF ListHolds, CopyIn, ThisRun
<1>9. AmountInv'
  BY <1>0 DEF AmountInv, Log!AmountAccounted
<1> QED
  BY <1>6, <1>7, <1>8, <1>9 DEF LogInv

\* LPUSH keeps the log's invariant: the copies that are there keep their order, and
\* the new one, of a call that its run has reached, is to the left of them.
LEMMA PushKeeps ==
  ASSUME LogInv, Logger!LoaderInv', NEW c \in Logger!Sent, Logger!Execute(c), Log!Push(c)
  PROVE  LogInv'
<1>0. /\ Logger!LoaderInv /\ LogSeqs /\ Pushed /\ ListHolds /\ AmountInv
      /\ i[P3] \in 0 .. LogLength + 1 /\ runs[P3] \in 0 .. MaxRuns /\ MaxRuns \in Nat
      /\ LogLength \in Nat /\ LogLength > 2
  BY LoggerTypes, LoggerAssumption DEF LogInv
<1> DEFINE new == Log!LogEntry(c)
<1>1. /\ log' = <<new>> \o log /\ UNCHANGED <<shown, amount, stores, applied>> /\ c.number < LogLength - 1
      /\ i' = i /\ step' = step /\ runs' = runs /\ failed' = failed
  BY DEF Log!Push, Logger!Execute
<1>2. Logger!WellSent(c) /\ c.program = P3
  BY <1>0, LoggerAssumption, LoggerPrograms, Logger!SentWell DEF Logger!WellSent
<1>3. new \in LogEntries /\ Reached(new)
  <2>1. /\ c.run \in Nat \ {0} /\ c.run <= runs[P3] /\ c.number \in 1 .. LogLength
        /\ (c.run = runs[P3] /\ i[P3] > 0) => c.number <= i[P3]
    BY <1>2 DEF Logger!WellSent
  <2>2. c.run \in 1 .. MaxRuns /\ c.number \in 1 .. LogLength - 2
    BY <1>0, <1>1, <2>1
  <2> QED
    BY <2>1, <2>2 DEF LogEntries, Reached, Log!LogEntry
<1> HIDE DEF new
<1>4. /\ log' \in Seq(LogEntries) /\ Len(log') = Len(log) + 1 /\ log'[1] = new /\ Len(log) \in Nat
      /\ \A k \in 1 .. Len(log) : log'[k + 1] = log[k] /\ k + 1 \in 1 .. Len(log') /\ k \in Nat
      /\ \A k \in 1 .. Len(log') : k = 1 \/ (k - 1 \in 1 .. Len(log) /\ log'[k] = log[k - 1])
      /\ 1 \in 1 .. Len(log')
  <2>1. log \in Seq(LogEntries)
    BY <1>0 DEF LogSeqs
  <2>2. /\ log' \in Seq(LogEntries) /\ Len(log') = Len(log) + 1 /\ log'[1] = new /\ Len(log) \in Nat
        /\ \A k \in 1 .. Len(log) : log'[k + 1] = log[k]
        /\ \A k \in 1 .. Len(log') : k = 1 \/ (k - 1 \in 1 .. Len(log) /\ log'[k] = log[k - 1])
    BY <1>1, <1>3, <2>1, PushLeft
  <2>3. PICK n \in Nat, m \in Nat : n = Len(log) /\ m = Len(log') /\ m = n + 1
    BY <2>2
  <2>4. 1 \in 1 .. m /\ \A k \in 1 .. n : k + 1 \in 1 .. m /\ k \in Nat
    BY <2>3
  <2> QED
    BY <2>2, <2>3, <2>4
<1>5. \A n : Logger!Acknowledged(P3, n, 1)' <=> Logger!Acknowledged(P3, n, 1)
  BY <1>1 DEF Logger!Acknowledged
<1>6. call'[P3] = "executed" => call[P3] = "executed" \/ (c.run = runs[P3] /\ c.number = i[P3])
  <2>1. c \notin late => c = Logger!Command(P3)
    BY <1>0, <1>2, LoggerAssumption, Logger!SentWell
  <2> QED
    BY <2>1 DEF Logger!Execute, Logger!Command
<1>7. LogSeqs'
  <2>1. \A k \in 1 .. Len(log) : Reached(log[k])
    BY <1>0 DEF LogSeqs
  <2>2. \A k \in 1 .. Len(log') : Reached(log'[k])
    BY <1>3, <1>4, <2>1
  <2> QED
    BY <1>0, <1>1, <1>4, <2>2 DEF LogSeqs, Reached
<1>8. Pushed'
  <2>1. ASSUME call'[P3] = "executed", i[P3] < LogLength - 1 PROVE CopyIn(log', ThisRun(i[P3]))
    <3>1. CASE call[P3] = "executed"
      <4>1. PICK k \in 1 .. Len(log) : log[k] = ThisRun(i[P3])
        BY <1>0, <2>1, <3>1 DEF Pushed, CopyIn
      <4> QED
        BY <1>4, <4>1 DEF CopyIn
    <3>2. CASE c.run = runs[P3] /\ c.number = i[P3]
      BY <1>4, <3>2 DEF CopyIn, ThisRun, new, Log!LogEntry
    <3> QED
      BY <1>6, <2>1, <3>1, <3>2
  <2>2. ASSUME NEW a \in 1 .. LogLength - 2, Logger!Acknowledged(P3, a, 1)
        PROVE  \E k \in 1 .. Len(log') : FirstCopy(k, a)'
    <3>1. PICK k \in 1 .. Len(log) :
            /\ log[k] = ThisRun(a)
            /\ \A l \in 1 .. Len(log), b \in 1 .. LogLength - 2 : b > a /\ log[l] = ThisRun(b) => l < k
      BY <1>0, <2>2 DEF Pushed, FirstCopy
    <3>2. log'[k + 1] = ThisRun(a) /\ k + 1 \in 1 .. Len(log') /\ k \in Nat \ {0}
      BY <1>4, <3>1
    <3>3. ASSUME NEW l \in 1 .. Len(log'), NEW b \in 1 .. LogLength - 2, b > a, log'[l] = ThisRun(b)
          PROVE  l < k + 1
      <4>1. CASE l = 1
        BY <3>2, <4>1
      <4>2. CASE l # 1
        <5>1. l - 1 \in 1 .. Len(log) /\ log[l - 1] = ThisRun(b)
          BY <1>4, <3>3, <4>2
        <5>2. l - 1 < k
          BY <3>1, <3>3, <5>1
        <5>3. l \in Int
          BY <3>3
        <5> QED
          BY <3>2, <5>2, <5>3
      <4> QED
        BY <4>1, <4>2
    <3> QED
      BY <1>1, <3>2, <3>3 DEF FirstCopy, ThisRun
  <2> QED
    BY <1>1, <1>5, <2>1, <2>2 DEF Pushed, CopyIn, ThisRun
<1>9. ListHolds'
  <2>1. Listed3' => Listed3
    BY <1>0, <1>1, <1>5, <1>6 DEF Listed3
  <2> QED
    BY <1>0, <1>1, <1>5, <2>1 DEF ListHolds, CopyIn, ThisRun
<1>10. AmountInv'
  BY <1>0, <1>1 DEF AmountInv, Log!AmountAccounted
<1> QED
  BY <1>7, <1>8, <1>9, <1>10 DEF LogInv

\* LRANGE and the script change no entry: a list that the program waits for shows
\* what is in the log, and the amount grows by ARGV[1].
LEMMA ReadKeeps ==
  ASSUME LogInv, Logger!LoaderInv', NEW c \in Logger!Sent, Logger!Execute(c), Log!List(c) \/ Log!Add(c)
  PROVE  LogInv'
<1>0. /\ Logger!LoaderInv /\ LogSeqs /\ Pushed /\ ListHolds /\ AmountInv
      /\ i[P3] \in 0 .. LogLength + 1 /\ step[P3] \in 0 .. 1
      /\ LogLength \in Nat /\ LogLength > 2
  BY LoggerTypes, LoggerAssumption DEF LogInv
<1>1. /\ log' = log /\ i' = i /\ step' = step /\ runs' = runs /\ failed' = failed /\ c.number >= LogLength - 1
  BY <1>0 DEF Log!List, Log!Add, Logger!Execute
<1>2. \A n : Logger!Acknowledged(P3, n, 1)' <=> Logger!Acknowledged(P3, n, 1)
  BY <1>1 DEF Logger!Acknowledged
<1>3. call'[P3] = "executed" =>
        call[P3] = "executed" \/ (c \notin late /\ c.number = i[P3])
  <2>1. Logger!WellSent(c) /\ c.program = P3 /\ (c \notin late => c = Logger!Command(P3))
    BY <1>0, LoggerAssumption, LoggerPrograms, Logger!SentWell DEF Logger!WellSent
  <2> QED
    BY <2>1 DEF Logger!Execute, Logger!Command
<1>4. LogSeqs'
  <2>1. shown' \in Seq(LogEntries)
    BY <1>0 DEF Log!List, Log!Add, LogSeqs
  <2> QED
    BY <1>0, <1>1, <2>1 DEF LogSeqs, Reached
<1>5. Pushed'
  <2>1. call'[P3] = "executed" /\ i[P3] < LogLength - 1 => call[P3] = "executed"
    BY <1>0, <1>1, <1>3
  <2>2. \A a, k : FirstCopy(k, a)' <=> FirstCopy(k, a)
    BY <1>1 DEF FirstCopy, ThisRun
  <2> QED
    BY <1>0, <1>1, <1>2, <2>1, <2>2 DEF Pushed, CopyIn, ThisRun
<1>6. ListHolds'
  <2> SUFFICES ASSUME Listed3', NEW n \in 1 .. LogLength - 2, Logger!Acknowledged(P3, n, 1)
               PROVE  CopyIn(shown', ThisRun(n))
    BY <1>1, <1>2 DEF ListHolds, CopyIn, ThisRun
  <2>1. CASE shown' = log
    BY <1>0, <2>1 DEF Pushed, FirstCopy, CopyIn
  <2>2. CASE shown' = shown
    <3>1. CASE Listed3
      BY <1>0, <2>2, <3>1 DEF ListHolds
    <3>2. CASE ~Listed3
      <4>1. c \notin late /\ c.number = i[P3] /\ i[P3] = LogLength - 1
        BY <1>1, <1>2, <1>3, <3>2 DEF Listed3
      <4>2. ~Log!Add(c)
        BY <1>0, <4>1 DEF Log!Add
      <4>3. shown' = log
        BY <4>1, <4>2 DEF Log!List
      <4> QED
        BY <2>1, <4>3
    <3> QED
      BY <3>1, <3>2
  <2> QED
    BY <2>1, <2>2 DEF Log!List, Log!Add
<1>7. AmountInv'
  BY <1>0 DEF AmountInv, Log!AmountAccounted, Log!List, Log!Add
<1> QED
  BY <1>4, <1>5, <1>6, <1>7 DEF LogInv

\* order.go's store of the other order has nothing to do with the log.
LEMMA StoreKeeps == LogInv /\ Logger!LoaderInv' /\ Log!Store /\ UNCHANGED loader => LogInv'
<1> SUFFICES ASSUME LogInv, Logger!LoaderInv', Log!Store, UNCHANGED loader PROVE LogInv'
  OBVIOUS
<1>1. UNCHANGED <<i, step, call, failed, runs, log, shown>>
  BY DEF loader, Log!Store
<1>2. \A n : Logger!Acknowledged(P3, n, 1)' <=> Logger!Acknowledged(P3, n, 1)
  BY <1>1 DEF Logger!Acknowledged
<1>3. LogSeqs' /\ Pushed' /\ ListHolds'
  BY <1>1, <1>2 DEF LogInv, LogSeqs, Reached, Pushed, FirstCopy, CopyIn, ThisRun, ListHolds, Listed3
<1>4. AmountInv'
  BY DEF LogInv, AmountInv, Log!AmountAccounted, Log!Store
<1> QED
  BY <1>3, <1>4 DEF LogInv

\* Every step with the log preserves its invariant.
LEMMA LogStep == LogInv /\ Log!Next => LogInv'
<1> SUFFICES ASSUME LogInv, Log!Next PROVE LogInv'
  OBVIOUS
<1>1. (Logger!LoaderInv)'
  BY LogLoads, LoggerAssumption, Logger!LoaderStep DEF LogInv
<1>2. \/ \E c \in Logger!Sent :
           Logger!Execute(c) /\ (Log!Push(c) \/ Log!List(c) \/ Log!Add(c))
      \/ Log!Store /\ UNCHANGED loader
      \/ LoggerMoves /\ UNCHANGED <<log, shown, amount, stores, applied>>
  BY LogLoads
<1> QED
  BY <1>1, <1>2, LoggerKeeps, PushKeeps, ReadKeeps, StoreKeeps

\* Each entry of the list is a push that was executed, and the script was executed
\* at least as often as it was applied; the two kinds are counted apart.
LogCounts ==
  /\ Logger!Counted(P3, 1, LogLength - 2, Len(log))
  /\ Logger!Counted(P3, LogLength, LogLength, applied)
  /\ stores \in 0 .. 2

\* Nothing has been counted at first.
LEMMA LogInitCounts == Log!Init => LogCounts
<1> SUFFICES ASSUME Log!Init PROVE LogCounts
  OBVIOUS
<1>1. /\ late = {} /\ runs[P3] = 0 /\ i[P3] = 0 /\ call[P3] = "none" /\ log = <<>> /\ stores = 0 /\ applied = 0
  BY LogLoads, LoggerPrograms DEF Log!Init, Logger!LoaderInit
<1>2. ASSUME NEW lo \in Nat, NEW hi \in Nat PROVE Logger!Counted(P3, lo, hi, 0)
  <2>1. Logger!LateIn(P3, lo, hi) = {} /\ IsFiniteSet({}) /\ Cardinality({}) = 0
    BY <1>1, FS_EmptySet DEF Logger!LateIn
  <2>2. 0 * (hi - lo + 1) = 0 /\ (0 - 0) * (Retries + 1) = 0
    BY OrdersAssumption
  <2>3. Logger!LeftAt(i[P3], lo, hi) = 0 /\ Logger!OpenAt(i[P3], call[P3], tries[P3], lo, hi) = 0
    BY <1>1 DEF Logger!LeftAt, Logger!OpenAt
  <2>4. Logger!Allowance(P3, lo, hi) = 0
    BY <1>1, <2>2, <2>3 DEF Logger!Allowance
  <2>5. Logger!Cardinality({}) = 0 /\ Logger!IsFiniteSet({})
    BY <2>1 DEF Logger!Cardinality, Cardinality, Logger!IsFiniteSet, IsFiniteSet
  <2> QED
    BY <2>1, <2>4, <2>5 DEF Logger!Counted
<1>3. Len(<<>>) = 0 /\ LogLength - 2 \in Nat /\ LogLength \in Nat /\ 1 \in Nat
  BY LoggerAssumption
<1> QED
  BY <1>1, <1>2, <1>3 DEF LogCounts

\* Every step with the log counts what it executes.
LEMMA LogCountsStep ==
  ASSUME LogInv, Logger!LoaderInv', LogCounts, Log!Next
  PROVE  LogCounts'
<1>0. /\ Logger!LoaderInv /\ LogLength \in Nat /\ LogLength > 2 /\ log \in Seq(LogEntries)
      /\ P3 \in OnlyOrder3 /\ [p \in OnlyOrder3 |-> 1][P3] = 1
      /\ applied \in Nat /\ stores \in 0 .. 2
  BY LoggerAssumption, LoggerPrograms DEF LogInv, LogSeqs, AmountInv, LogCounts
<1>1. PICK n \in Nat, a \in Nat, h \in Nat, m \in Nat :
        n = Len(log) /\ a = applied /\ h = LogLength - 2 /\ m = LogLength
  BY <1>0
<1>2. /\ 1 \in Nat \ {0} /\ 1 <= h /\ h <= LogLength /\ m \in Nat \ {0} /\ m <= m /\ m <= LogLength
      /\ Logger!Counted(P3, 1, h, n) /\ Logger!Counted(P3, m, m, a)
  BY <1>0, <1>1 DEF LogCounts
<1>3. ASSUME NEW k \in Nat, NEW b \in Nat, Logger!Counted(P3, 1, h, k)', Logger!Counted(P3, m, m, b)',
             Len(log') = k, applied' = b, stores' \in 0 .. 2
      PROVE  LogCounts'
  BY <1>1, <1>3 DEF LogCounts
<1>4. ASSUME NEW c \in Logger!Sent, Logger!Execute(c), Log!Push(c) \/ Log!List(c) \/ Log!Add(c)
      PROVE  LogCounts'
  <2>1. Logger!WellSent(c) /\ c.program = P3 /\ c.number \in 1 .. LogLength
    BY <1>0, LoggerAssumption, LoggerPrograms, Logger!SentWell DEF Logger!WellSent
  <2>2. /\ stores' = stores
        /\ \E x \in {0, 1}, y \in {0, 1} :
             /\ Len(log') = n + x /\ applied' = a + y
             /\ x = 1 => 1 <= c.number /\ c.number <= h
             /\ y = 1 => m <= c.number /\ c.number <= m
    <3>1. CASE Log!Push(c)
      <4>1. Len(log') = n + 1
        <5>1. Log!LogEntry(c) \in LogEntries
          <6>1. c.run \in 1 .. MaxRuns /\ c.number \in 1 .. LogLength - 2
            BY <1>0, <2>1, <3>1, LoggerTypes DEF Log!Push, Logger!WellSent
          <6> QED
            BY <6>1 DEF Log!LogEntry, LogEntries
        <5> QED
          BY <1>0, <1>1, <3>1, <5>1, PushLeft DEF Log!Push
      <4>2. 1 <= c.number /\ c.number <= h /\ stores' = stores /\ applied' = a + 0
        BY <1>0, <1>1, <2>1, <3>1 DEF Log!Push
      <4> QED
        BY <4>1, <4>2
    <3>2. CASE Log!List(c)
      <4>1. Len(log') = n + 0 /\ applied' = a + 0 /\ stores' = stores
        BY <1>1, <3>2 DEF Log!List
      <4> QED
        BY <4>1
    <3>3. CASE Log!Add(c)
      <4>1. Len(log') = n + 0 /\ stores' = stores /\ c.number = m /\ (applied' = a + 0 \/ applied' = a + 1)
        BY <1>1, <3>3 DEF Log!Add
      <4> QED
        BY <1>1, <4>1
    <3> QED
      BY <1>4, <3>1, <3>2, <3>3
  <2>3. PICK x \in {0, 1}, y \in {0, 1} :
          /\ Len(log') = n + x /\ applied' = a + y
          /\ x = 1 => c.program = P3 /\ 1 <= c.number /\ c.number <= h
          /\ y = 1 => c.program = P3 /\ m <= c.number /\ c.number <= m
    BY <2>1, <2>2
  <2>4. Logger!Counted(P3, 1, h, n + x)'
    BY <1>0, <1>2, <1>4, <2>3, LoggerAssumption, Logger!ExecuteCounts
  <2>5. Logger!Counted(P3, m, m, a + y)'
    BY <1>0, <1>2, <1>4, <2>3, LoggerAssumption, Logger!ExecuteCounts
  <2> QED
    BY <1>0, <1>3, <2>2, <2>3, <2>4, <2>5
<1>5. CASE Log!Store /\ UNCHANGED loader
  <2>1. UNCHANGED <<late, runs, i, call, tries, log>> /\ applied' = 0 /\ stores' \in 0 .. 2
    BY <1>0, <1>5 DEF Log!Store, loader
  <2>2. Logger!Counted(P3, 1, h, n)'
    BY <1>2, <2>1 DEF Logger!Counted, Logger!LateIn, Logger!Allowance
  <2>3. Logger!Counted(P3, m, m, 0)'
    <3>1. PICK z, w : z = Logger!Cardinality(Logger!LateIn(P3, m, m)) /\ w = Logger!Allowance(P3, m, m)
      OBVIOUS
    <3>2. Logger!IsFiniteSet(Logger!LateIn(P3, m, m)) /\ a + z <= w
      BY <1>2, <3>1 DEF Logger!Counted
    <3>3. z \in Nat
      <4>1. IsFiniteSet(Logger!LateIn(P3, m, m)) /\ z = Cardinality(Logger!LateIn(P3, m, m))
        BY <3>1, <3>2 DEF Logger!Cardinality, Cardinality, Logger!IsFiniteSet, IsFiniteSet
      <4> QED
        BY <4>1, FS_CardinalityType
    <3>4. w \in Nat
      BY <1>0, <1>2, <3>1, LoggerAssumption, Logger!AllowanceIsNat
    <3>5. 0 + z <= w
      BY <3>2, <3>3, <3>4
    <3> QED
      BY <2>1, <3>1, <3>2, <3>5 DEF Logger!Counted, Logger!LateIn, Logger!Allowance
  <2> QED
    BY <1>1, <1>3, <2>1, <2>2, <2>3
<1>6. CASE LoggerMoves /\ UNCHANGED <<log, shown, amount, stores, applied>>
  <2>1. Logger!Moves(P3)
    BY <1>6, LoggerPrograms DEF LoggerMoves, Logger!Moves
  <2>2. Logger!Counted(P3, 1, h, n)'
    BY <1>0, <1>2, <2>1, LoggerAssumption, Logger!MoveCounts
  <2>3. Logger!Counted(P3, m, m, a)'
    BY <1>0, <1>2, <2>1, LoggerAssumption, Logger!MoveCounts
  <2> QED
    BY <1>0, <1>1, <1>3, <1>6, <2>2, <2>3
<1> QED
  BY <1>4, <1>5, <1>6, LogLoads

\* What is counted is within what the runs may send.
LEMMA CountedBound ==
  ASSUME LogInv, NEW lo \in Nat \ {0}, NEW hi \in Nat, lo <= hi, hi <= LogLength,
         NEW e \in Nat, Logger!Counted(P3, lo, hi, e)
  PROVE  e <= Log!Executions * (hi - lo + 1)
<1>0. /\ Logger!LoaderInv /\ P3 \in OnlyOrder3 /\ MaxRuns \in Nat /\ Retries \in Nat
  BY LoggerTypes, LoggerPrograms, OrdersAssumption DEF LogInv
<1>1. PICK z, w : z = Logger!Cardinality(Logger!LateIn(P3, lo, hi)) /\ w = Logger!Allowance(P3, lo, hi)
  OBVIOUS
<1>2. Logger!IsFiniteSet(Logger!LateIn(P3, lo, hi)) /\ e + z <= w
  BY <1>1 DEF Logger!Counted
<1>3. z \in Nat
  <2>1. IsFiniteSet(Logger!LateIn(P3, lo, hi)) /\ z = Cardinality(Logger!LateIn(P3, lo, hi))
    BY <1>1, <1>2 DEF Logger!Cardinality, Cardinality, Logger!IsFiniteSet, IsFiniteSet
  <2> QED
    BY <2>1, FS_CardinalityType
<1>4. w \in Nat /\ w <= MaxRuns * (hi - lo + 1) * (Retries + 1)
  BY <1>0, <1>1, LoggerAssumption, Logger!AllowanceIsNat, Logger!AllowanceBound
<1>5. PICK d \in Nat, K \in Nat : d = hi - lo + 1 /\ K = Retries + 1
  BY <1>0
<1>6. MaxRuns * d * K = K * MaxRuns * d /\ K * MaxRuns * d \in Nat
  BY <1>0
<1>7. PICK b \in Nat : b = MaxRuns * d * K /\ b = K * MaxRuns * d
  BY <1>6
<1>8. w <= b
  BY <1>4, <1>5, <1>7
<1>9. e <= b
  BY <1>2, <1>3, <1>4, <1>8
<1> QED
  BY <1>5, <1>7, <1>9 DEF Log!Executions

\* The log's types follow: no call is executed more often than it was sent.
LEMMA LogTyped == LogInv /\ LogCounts => Log!TypeOK
<1> SUFFICES ASSUME LogInv, LogCounts PROVE Log!TypeOK
  OBVIOUS
<1>0. /\ Logger!LoaderInv /\ LogLength \in Nat /\ LogLength > 2 /\ applied \in Nat
      /\ log \in Seq(LogEntries) /\ shown \in Seq(LogEntries) /\ Log!AmountAccounted
      /\ MaxRuns \in Nat /\ Retries \in Nat
  BY LoggerAssumption, LoggerTypes, OrdersAssumption DEF LogInv, LogSeqs, AmountInv
<1>1. Log!LoaderTypeOK
  BY <1>0, LoggerAssumption, Logger!LoaderTyped DEF Logger!LoaderTypeOK, Log!LoaderTypeOK
<1>2. Len(log) <= Log!Executions * (LogLength - 2)
  <2>1. PICK n \in Nat, h \in Nat : n = Len(log) /\ h = LogLength - 2 /\ 1 <= h /\ h <= LogLength
    BY <1>0
  <2>2. n <= Log!Executions * (h - 1 + 1)
    BY <2>1, CountedBound DEF LogCounts
  <2>3. h - 1 + 1 = h
    BY <2>1
  <2> QED
    BY <2>1, <2>2, <2>3
<1>3. applied \in 0 .. Log!Executions
  <2>1. applied <= Log!Executions * (LogLength - LogLength + 1)
    BY <1>0, CountedBound DEF LogCounts
  <2>2. LogLength - LogLength + 1 = 1
    BY <1>0
  <2>3. Log!Executions \in Nat
    BY <1>0 DEF Log!Executions
  <2> QED
    BY <1>0, <2>1, <2>2, <2>3
<1>4. amount = NoAmount \/ amount \in {100 + k * 50 : k \in 0 .. Log!Executions}
  BY <1>0, <1>3 DEF Log!AmountAccounted
<1>5. stores \in 0 .. 2
  BY DEF LogCounts
<1>6. Log!Entry = LogEntries
  BY DEF Log!Entry, LogEntries
<1> QED
  BY <1>0, <1>1, <1>2, <1>4, <1>5, <1>6 DEF Log!TypeOK

\* The properties of the log follow.
LEMMA LogHolds ==
  LogInv => Log!FirstCopiesInOrder /\ Log!ShownComplete /\ Log!AmountAccounted
<1> SUFFICES ASSUME LogInv PROVE Log!FirstCopiesInOrder /\ Log!ShownComplete /\ Log!AmountAccounted
  OBVIOUS
<1>0. /\ LogSeqs /\ Pushed /\ ListHolds /\ AmountInv /\ LogLength \in Nat /\ LogLength > 2
  BY LoggerAssumption DEF LogInv
<1>1. \A n, s : Log!Acknowledged(P3, n, s) <=> Logger!Acknowledged(P3, n, s)
  BY DEF Log!Acknowledged, Logger!Acknowledged
<1>2. /\ Log!Recorded = {n \in 1 .. LogLength - 2 : Logger!Acknowledged(P3, n, 1)}
      /\ \A s, n : Log!Copies(s, n) = {k \in DOMAIN s : s[k] = ThisRun(n)}
  BY <1>1 DEF Log!Recorded, Log!Copies, Log!Positions, ThisRun, P3
<1>3. DOMAIN log = 1 .. Len(log) /\ DOMAIN shown = 1 .. Len(shown)
  BY <1>0 DEF LogSeqs
<1>4. Log!FirstCopiesInOrder
  <2> SUFFICES ASSUME NEW a \in Log!Recorded, NEW b \in Log!Recorded, a < b
               PROVE  \E k \in Log!Copies(log, a) : \A l \in Log!Copies(log, b) : l < k
    BY DEF Log!FirstCopiesInOrder
  <2>1. PICK k \in 1 .. Len(log) : FirstCopy(k, a)
    BY <1>0, <1>2 DEF Pushed
  <2>2. b > a /\ b \in 1 .. LogLength - 2
    BY <1>2
  <2> QED
    BY <1>2, <1>3, <2>1, <2>2 DEF FirstCopy
<1>5. Log!ShownComplete
  BY <1>0, <1>1, <1>2, <1>3 DEF Log!ShownComplete, ListHolds, Listed3, CopyIn, P3
<1> QED
  BY <1>0, <1>4, <1>5 DEF AmountInv

-----------------------------------------------------------------------------
(* The leaderboard. *)

\* Between its update and the next list the raised player has the new score,
\* unless the old one was set again; a list read then shows that player.
BoardInv ==
  /\ DOMAIN board = Board!Players /\ \A p \in Board!Players : board[p] \in {0} \cup Board!ScoresOf(p)
  /\ next \in [{1, 2} -> Board!Ping .. Board!Fatal]
  /\ \A c \in unanswered : c[1] \in Board!Players /\ c[2] \in Board!ScoresOf(c[1])
  /\ topPlayers \in [{1, 2} -> SUBSET Board!Players] /\ beaten \subseteq {1, 2}
  /\ \A r \in {1, 2} : next[r] = Board!Update + 1 /\ r \notin beaten =>
       board[Board!Raised] = Board!RaisedScore
  /\ Board!UpdateShown

LEMMA BoardInitInv == Board!BoardInit => BoardInv
BY DEF Board!BoardInit, BoardInv, Board!ScoresOf, Board!Ping, Board!Fatal, Board!UpdateShown, Board!End,
       Board!Update

\* Only the last of the six players ever scores more than the raised one.
LEMMA RaisedIsBest ==
  ASSUME BoardInv, board[Board!Raised] = Board!RaisedScore
  PROVE  Board!Raised \in Board!Best(3)
<1>1. {q \in Board!Players : board[q] > board[Board!Raised]} \subseteq {6}
  BY DEF BoardInv, Board!Players, Board!ScoresOf, Board!FirstScore, Board!Raised, Board!RaisedScore
<1>2. Cardinality({q \in Board!Players : board[q] > board[Board!Raised]}) < 3
  <2>1. IsFiniteSet({6}) /\ Cardinality({6}) = 1
    BY FS_Singleton
  <2>2. Cardinality({q \in Board!Players : board[q] > board[Board!Raised]}) <= 1
    BY <1>1, <2>1, FS_Subset
  <2>3. Cardinality({q \in Board!Players : board[q] > board[Board!Raised]}) \in Nat
    BY <1>1, <2>1, FS_Subset, FS_CardinalityType
  <2> QED
    BY <2>2, <2>3
<1> QED
  <2>1. Board!Raised \in Board!Players /\ board[Board!Raised] > 0
    BY DEF Board!Players, Board!Raised, Board!RaisedScore
  <2>2. \A S : Board!Cardinality(S) = Cardinality(S)
    BY DEF Board!Cardinality, Cardinality
  <2> QED
    BY <1>2, <2>1, <2>2 DEF Board!Best

\* ZADD of a score that a player may have.
LEMMA SetEffect ==
  ASSUME BoardInv, NEW p \in Board!Players, NEW score \in Board!ScoresOf(p), Board!Set(p, score)
  PROVE  /\ DOMAIN board' = Board!Players
         /\ \A q \in Board!Players : board'[q] \in {0} \cup Board!ScoresOf(q)
         /\ beaten \subseteq beaten' /\ beaten' \subseteq {1, 2}
         /\ \A r \in {1, 2} : next[r] = Board!Update + 1 /\ r \notin beaten' =>
              board'[Board!Raised] = Board!RaisedScore
<1>1. /\ DOMAIN board' = Board!Players
      /\ \A q \in Board!Players : board'[q] = IF q = p THEN score ELSE board[q]
  BY DEF BoardInv, Board!Set
<1>2. beaten \subseteq beaten' /\ beaten' \subseteq {1, 2}
  BY DEF BoardInv, Board!Set
<1>3. ASSUME NEW r \in {1, 2}, next[r] = Board!Update + 1, r \notin beaten'
      PROVE  board'[Board!Raised] = Board!RaisedScore
  <2>1. board[Board!Raised] = Board!RaisedScore
    BY <1>2, <1>3 DEF BoardInv
  <2>2. p = Board!Raised => score # Board!FirstScore[p]
    BY <1>3 DEF Board!Set
  <2>3. p = Board!Raised => score = Board!RaisedScore
    BY <2>2 DEF Board!ScoresOf
  <2>4. Board!Raised \in Board!Players
    BY DEF Board!Raised, Board!Players
  <2> QED
    BY <1>1, <2>1, <2>3, <2>4
<1> QED
  BY <1>1, <1>2, <1>3 DEF BoardInv

\* Every step on the leaderboard preserves its invariant.
LEMMA BoardStep == BoardInv /\ Board!BoardNext => BoardInv'
<1> SUFFICES ASSUME BoardInv, Board!BoardNext PROVE BoardInv'
  OBVIOUS
<1>0. /\ next \in [{1, 2} -> Board!Ping .. Board!Fatal] /\ topPlayers \in [{1, 2} -> SUBSET Board!Players]
      /\ DOMAIN board = Board!Players /\ \A p \in Board!Players : board[p] \in {0} \cup Board!ScoresOf(p)
      /\ \A c \in unanswered : c[1] \in Board!Players /\ c[2] \in Board!ScoresOf(c[1])
      /\ beaten \subseteq {1, 2}
      /\ \A r \in {1, 2} : next[r] = Board!Update + 1 /\ r \notin beaten =>
           board[Board!Raised] = Board!RaisedScore
      /\ Board!UpdateShown
  BY DEF BoardInv
<1>1. ASSUME NEW r \in {1, 2}, NEW to \in Board!Ping .. Board!Fatal, Board!Go(r, to)
      PROVE  /\ next' \in [{1, 2} -> Board!Ping .. Board!Fatal]
             /\ next'[r] = to /\ \A q \in {1, 2} : q # r => next'[q] = next[q]
  BY <1>0, <1>1 DEF Board!Go
<1>2. ASSUME NEW p \in Board!Players, NEW score \in Board!ScoresOf(p), Board!Leave(p, score)
      PROVE  \A c \in unanswered' : c[1] \in Board!Players /\ c[2] \in Board!ScoresOf(c[1])
  BY <1>0, <1>2 DEF Board!Leave
<1>3. ASSUME NEW r \in {1, 2}, Board!PingServer(r) PROVE BoardInv'
  <2>1. 1 \in Board!Ping .. Board!Fatal /\ Board!Fatal \in Board!Ping .. Board!Fatal
    BY DEF Board!Ping, Board!Fatal
  <2>2. /\ UNCHANGED <<board, unanswered, topPlayers, beaten>>
        /\ next' \in [{1, 2} -> Board!Ping .. Board!Fatal]
        /\ next'[r] \notin {Board!Update + 1, Board!End} /\ \A q \in {1, 2} : q # r => next'[q] = next[q]
    BY <1>1, <1>3, <2>1 DEF Board!PingServer, Board!Update, Board!End, Board!Fatal
  <2> QED
    BY <1>0, <2>2 DEF BoardInv, Board!UpdateShown
<1>4. ASSUME NEW r \in {1, 2}, Board!addPlayerScore(r) PROVE BoardInv'
  <2> DEFINE p == next[r]
  <2>1. p \in Board!Players /\ p + 1 \in Board!Ping .. Board!Fatal /\ p + 1 \notin {Board!Update + 1, Board!End}
        /\ Board!FirstScore[p] \in Board!ScoresOf(p)
    BY <1>4 DEF Board!addPlayerScore, Board!Players, Board!Ping, Board!Fatal, Board!Update, Board!End, Board!ScoresOf
  <2>2. /\ Board!Go(r, p + 1) /\ topPlayers' = topPlayers
        /\ Board!Leave(p, Board!FirstScore[p])
        /\ Board!Set(p, Board!FirstScore[p]) \/ UNCHANGED <<board, beaten>>
    BY <1>4 DEF Board!addPlayerScore, Board!ZAdd, Board!ZAddFails
  <2> HIDE DEF p
  <2>3. /\ next' \in [{1, 2} -> Board!Ping .. Board!Fatal]
        /\ next'[r] \notin {Board!Update + 1, Board!End} /\ \A q \in {1, 2} : q # r => next'[q] = next[q]
    BY <1>1, <2>1, <2>2
  <2>4. /\ DOMAIN board' = Board!Players
        /\ \A q \in Board!Players : board'[q] \in {0} \cup Board!ScoresOf(q)
        /\ beaten \subseteq beaten' /\ beaten' \subseteq {1, 2}
        /\ \A q \in {1, 2} : next[q] = Board!Update + 1 /\ q \notin beaten' =>
             board'[Board!Raised] = Board!RaisedScore
    BY <1>0, <2>1, <2>2, SetEffect
  <2>5. \A c \in unanswered' : c[1] \in Board!Players /\ c[2] \in Board!ScoresOf(c[1])
    BY <1>2, <2>1, <2>2
  <2> QED
    BY <1>0, <2>2, <2>3, <2>4, <2>5 DEF BoardInv, Board!UpdateShown
<1>5. ASSUME NEW r \in {1, 2}, Board!geTopPlayer(r) PROVE BoardInv'
  <2>1. next[r] + 1 \in Board!Ping .. Board!Fatal
        /\ (next[r] + 1 = Board!End => next[r] = Board!Update + 1) /\ next[r] + 1 # Board!Update + 1
    BY <1>5 DEF Board!geTopPlayer, Board!Tops, Board!Ping, Board!Fatal, Board!Update, Board!End
  <2>2. PICK list \in {Board!Best(3), {}} : topPlayers' = [topPlayers EXCEPT ![r] = list]
    BY <1>5 DEF Board!geTopPlayer
  <2>3. list \in SUBSET Board!Players
    BY <2>2 DEF Board!Best
  <2>4. UNCHANGED <<board, unanswered, beaten>> /\ Board!Go(r, next[r] + 1)
    BY <1>5 DEF Board!geTopPlayer
  <2>5. /\ next' \in [{1, 2} -> Board!Ping .. Board!Fatal]
        /\ next'[r] = next[r] + 1 /\ \A q \in {1, 2} : q # r => next'[q] = next[q]
    BY <1>1, <2>1, <2>4
  <2>6. topPlayers' \in [{1, 2} -> SUBSET Board!Players] /\ topPlayers'[r] = list
        /\ \A q \in {1, 2} : q # r => topPlayers'[q] = topPlayers[q]
    BY <1>0, <2>2, <2>3
  <2>7. Board!UpdateShown'
    <3>1. ASSUME next'[r] = Board!End, list # {} PROVE Board!Raised \in list \/ r \in beaten
      <4>1. next[r] = Board!Update + 1
        BY <2>1, <2>5, <3>1
      <4> QED
        BY <1>0, <2>2, <3>1, <4>1, RaisedIsBest
    <3> QED
      BY <1>0, <2>4, <2>5, <2>6, <3>1 DEF Board!UpdateShown
  <2> QED
    BY <1>0, <2>1, <2>4, <2>5, <2>6, <2>7 DEF BoardInv
<1>6. ASSUME NEW r \in {1, 2}, Board!getPlayerRank(r) PROVE BoardInv'
  <2>1. /\ Board!Update \in Board!Ping .. Board!Fatal /\ Board!Fatal \in Board!Ping .. Board!Fatal
        /\ Board!Update \notin {Board!Update + 1, Board!End} /\ Board!Fatal \notin {Board!Update + 1, Board!End}
    BY DEF Board!Ping, Board!Fatal, Board!Update, Board!End
  <2>2. /\ UNCHANGED <<board, unanswered, topPlayers, beaten>>
        /\ Board!Go(r, Board!Update) \/ Board!Go(r, Board!Fatal)
    BY <1>6 DEF Board!getPlayerRank
  <2>3. /\ next' \in [{1, 2} -> Board!Ping .. Board!Fatal]
        /\ next'[r] \notin {Board!Update + 1, Board!End} /\ \A q \in {1, 2} : q # r => next'[q] = next[q]
    BY <1>1, <2>1, <2>2
  <2> QED
    BY <1>0, <2>2, <2>3 DEF BoardInv, Board!UpdateShown
<1>7. ASSUME NEW r \in {1, 2}, Board!updatePlayerScore(r) PROVE BoardInv'
  <2>1. /\ Board!Update + 1 \in Board!Ping .. Board!Fatal /\ Board!Fatal \in Board!Ping .. Board!Fatal
        /\ Board!Update + 1 # Board!End /\ Board!Fatal \notin {Board!Update + 1, Board!End}
        /\ Board!Raised \in Board!Players /\ Board!RaisedScore \in Board!ScoresOf(Board!Raised)
    BY DEF Board!Ping, Board!Fatal, Board!Update, Board!End, Board!Raised, Board!RaisedScore, Board!Players, Board!ScoresOf
  <2>2. /\ Board!Leave(Board!Raised, Board!RaisedScore) /\ topPlayers' = topPlayers
        /\ \/ Board!Set(Board!Raised, Board!RaisedScore) /\ Board!Go(r, Board!Update + 1)
           \/ UNCHANGED <<board, beaten>> /\ Board!Go(r, Board!Fatal)
    BY <1>7 DEF Board!updatePlayerScore, Board!ZAdd, Board!ZAddFails
  <2>3. \A c \in unanswered' : c[1] \in Board!Players /\ c[2] \in Board!ScoresOf(c[1])
    BY <1>2, <2>1, <2>2
  <2>4. CASE Board!Set(Board!Raised, Board!RaisedScore) /\ Board!Go(r, Board!Update + 1)
    <3>1. /\ next' \in [{1, 2} -> Board!Ping .. Board!Fatal]
          /\ next'[r] = Board!Update + 1 /\ \A q \in {1, 2} : q # r => next'[q] = next[q]
      BY <1>1, <2>1, <2>4
    <3>2. /\ DOMAIN board' = Board!Players
          /\ \A q \in Board!Players : board'[q] \in {0} \cup Board!ScoresOf(q)
          /\ beaten \subseteq beaten' /\ beaten' \subseteq {1, 2}
      BY <2>1, <2>4, SetEffect
    <3>3. board'[Board!Raised] = Board!RaisedScore
      BY <1>0, <2>1, <2>4 DEF Board!Set
    <3> QED
      BY <1>0, <2>1, <2>2, <2>3, <3>1, <3>2, <3>3 DEF BoardInv, Board!UpdateShown
  <2>5. CASE UNCHANGED <<board, beaten>> /\ Board!Go(r, Board!Fatal)
    <3>1. /\ next' \in [{1, 2} -> Board!Ping .. Board!Fatal]
          /\ next'[r] \notin {Board!Update + 1, Board!End} /\ \A q \in {1, 2} : q # r => next'[q] = next[q]
      BY <1>1, <2>1, <2>5
    <3> QED
      BY <1>0, <2>2, <2>3, <2>5, <3>1 DEF BoardInv, Board!UpdateShown
  <2> QED
    BY <2>2, <2>4, <2>5
<1>8. ASSUME NEW c \in unanswered, Board!ExecuteLate(c) PROVE BoardInv'
  <2>1. c[1] \in Board!Players /\ c[2] \in Board!ScoresOf(c[1]) /\ Board!Set(c[1], c[2])
        /\ unanswered' \subseteq unanswered /\ UNCHANGED <<next, topPlayers>>
    BY <1>0, <1>8 DEF Board!ExecuteLate
  <2>2. /\ DOMAIN board' = Board!Players
        /\ \A q \in Board!Players : board'[q] \in {0} \cup Board!ScoresOf(q)
        /\ beaten \subseteq beaten' /\ beaten' \subseteq {1, 2}
        /\ \A q \in {1, 2} : next[q] = Board!Update + 1 /\ q \notin beaten' =>
             board'[Board!Raised] = Board!RaisedScore
    BY <2>1, SetEffect
  <2> QED
    BY <1>0, <2>1, <2>2 DEF BoardInv, Board!UpdateShown
<1> QED
  BY <1>3, <1>4, <1>5, <1>6, <1>7, <1>8 DEF Board!BoardNext

\* The copies of ZADDs that may be executed yet are within their bound.
FewUnanswered == IsFiniteSet(unanswered) /\ Cardinality(unanswered) <= 1

\* A copy is left only below the bound.
LEMMA FewStay == FewUnanswered /\ Board!BoardNext => FewUnanswered'
<1> SUFFICES ASSUME FewUnanswered, Board!BoardNext PROVE FewUnanswered'
  OBVIOUS
<1>0. IsFiniteSet(unanswered) /\ Cardinality(unanswered) \in Nat /\ Cardinality(unanswered) <= 1
  BY FS_CardinalityType DEF FewUnanswered
<1>1. Board!Cardinality(unanswered) = Cardinality(unanswered)
  BY DEF Board!Cardinality, Cardinality
<1>2. ASSUME NEW p, NEW score, Board!Leave(p, score) PROVE FewUnanswered'
  <2>1. CASE UNCHANGED unanswered
    BY <2>1 DEF FewUnanswered
  <2>2. CASE Cardinality(unanswered) < 1 /\ unanswered' = unanswered \cup {<<p, score>>}
    <3>1. PICK n, x : n \in Nat /\ n = Cardinality(unanswered) /\ x = <<p, score>>
      BY <1>0
    <3>2. IsFiniteSet(unanswered') /\ Cardinality(unanswered') \in {n, n + 1}
      BY <1>0, <2>2, <3>1, FS_AddElement
    <3> QED
      BY <2>2, <3>1, <3>2 DEF FewUnanswered
  <2> QED
    BY <1>1, <1>2, <2>1, <2>2 DEF Board!Leave
<1>3. ASSUME NEW c \in unanswered, Board!ExecuteLate(c) PROVE FewUnanswered'
  <2>1. unanswered' = unanswered \ {c}
    BY <1>3 DEF Board!ExecuteLate
  <2>2. IsFiniteSet(unanswered') /\ Cardinality(unanswered') = Cardinality(unanswered) - 1
    BY <1>0, <1>3, <2>1, FS_RemoveElement
  <2> QED
    BY <1>0, <2>2 DEF FewUnanswered
<1>4. ASSUME NEW r \in {1, 2},
             Board!PingServer(r) \/ Board!geTopPlayer(r) \/ Board!getPlayerRank(r)
      PROVE  FewUnanswered'
  BY <1>4 DEF Board!PingServer, Board!geTopPlayer, Board!getPlayerRank, FewUnanswered
<1>5. ASSUME NEW r \in {1, 2}, Board!addPlayerScore(r) \/ Board!updatePlayerScore(r) PROVE FewUnanswered'
  BY <1>2, <1>5 DEF Board!addPlayerScore, Board!updatePlayerScore, Board!ZAdd, Board!ZAddFails
<1> QED
  BY <1>3, <1>4, <1>5 DEF Board!BoardNext

\* The leaderboard's types follow.
LEMMA BoardTyped == BoardInv /\ FewUnanswered => Board!BoardTypeOK
<1>1. Board!Cardinality(unanswered) = Cardinality(unanswered)
  BY DEF Board!Cardinality, Cardinality
<1> QED
  BY <1>1 DEF BoardInv, FewUnanswered, Board!BoardTypeOK

-----------------------------------------------------------------------------
(* The hashes and the ranking of order and order1. *)

RankTypes ==
  /\ hash \in [OrderIDs -> Orders \cup {NoOrder}] /\ scores \in [OrderIDs -> Amounts \cup {NoAmount}]
  /\ query \in {"idle", "details", "done"} /\ result \in Seq(OrderIDs)
  /\ orders \in Seq([id : OrderIDs, order : Orders])
  /\ Len(orders) + Len(result) <= TopN /\ missed \subseteq OrderIDs /\ snap.hashed \subseteq OrderIDs

\* The order of command c was drawn by its program.
DrawnFor(c) == [program |-> c.program, number |-> c.number, order |-> c.order] \in drawn

\* Order n of program p is in Redis as that program drew it.
InStore(p, n) ==
  \E d \in drawn :
    /\ d.program = p /\ d.number = n
    /\ IF p = "order" THEN hash[n] = d.order ELSE scores[n] = d.order.amount

StoreInv ==
  /\ \A c \in late : DrawnFor(c)
  /\ \A p \in Programs : call[p] # "none" => DrawnFor(Command(p))
  /\ \A p \in Programs : call[p] = "executed" => InStore(p, i[p])
  /\ \A p \in Programs, n \in OrderIDs : Acknowledged(p, n, 1) => InStore(p, n)

\* Between its first command and its last the query has listed, looked up in vain
\* or still to look up the orders of the ranking it read, down to the TopN-th.
Ahead(s, n) == {m \in InRange(s) : Above(s, m, n)}

QueryInv ==
  /\ query = "idle" => orders = <<>>
  /\ \A j, k \in 1 .. Len(result) : j < k => Above(snap.scores, result[j], result[k])
  /\ \A j, k \in 1 .. Len(orders) : j < k => Above(snap.scores, orders[j].id, orders[k].id)
  /\ \A j \in 1 .. Len(orders), k \in 1 .. Len(result) : Above(snap.scores, orders[j].id, result[k])
  /\ \A n \in snap.hashed : hash[n] # NoOrder
  /\ query # "idle" =>
       \A n \in InRange(snap.scores) \cap snap.hashed :
         \/ n \in Listed \cup missed \/ \E k \in 1 .. Len(result) : result[k] = n
         \/ Cardinality(Ahead(snap.scores, n)) >= TopN
  /\ query = "done" => result = <<>>

RankInv == LoaderInv /\ RankTypes /\ StoreInv /\ QueryInv

\* Nothing is stored and nothing asked at first.
LEMMA RankInitInv == Init => RankInv
<1> SUFFICES ASSUME Init PROVE RankInv
  OBVIOUS
<1>1. LoaderInit /\ drawn = {} /\ query = "idle" /\ result = <<>> /\ orders = <<>>
      /\ hash = [n \in OrderIDs |-> NoOrder] /\ scores = [n \in OrderIDs |-> NoAmount]
      /\ snap.hashed = {} /\ missed = {}
  BY DEF Init
<1>2. LoaderInv
  BY <1>1, LoaderInitInv
<1>3. RankTypes
  BY <1>1, EmptySeq, RankingAssumption DEF RankTypes
<1>4. StoreInv
  BY <1>1 DEF StoreInv, LoaderInit, Acknowledged
<1>5. QueryInv
  <2>1. Len(result) = 0 /\ Len(orders) = 0
    BY <1>1, EmptySeq
  <2> QED
    BY <1>1, <2>1 DEF QueryInv
<1> QED
  BY <1>2, <1>3, <1>4, <1>5 DEF RankInv

\* The names that the orders of a well sent command, and what it stores, have.
LEMMA SentOrder ==
  ASSUME LoaderInv, NEW c \in Sent
  PROVE  /\ c.program \in {"order", "order1"} /\ c.number \in OrderIDs
         /\ c.program = "order" => c.order \in Orders
         /\ c.program # "order" => c.order.amount \in Amounts
<1>1. WellSent(c)
  BY SentWell
<1> QED
  BY <1>1, RankingAssumption DEF WellSent, OrderIDs, Orders, Amounts

\* What a program has stored stays stored when a command is executed, as every
\* command carries an order that was drawn under its number.
LEMMA StoreKeepsStored ==
  ASSUME LoaderInv, RankTypes, StoreInv, NEW c \in Sent, Store(c)
  PROVE  /\ \A p \in Programs, n \in OrderIDs : InStore(p, n) => InStore(p, n)'
         /\ InStore(c.program, c.number)'
<1>1. DrawnFor(c)
  BY DEF StoreInv, Sent, Command
<1>2. c.program \in {"order", "order1"} /\ c.number \in OrderIDs
  BY SentOrder
<1>3. drawn' = drawn
  BY DEF Store
<1>4. DOMAIN hash = OrderIDs /\ DOMAIN scores = OrderIDs
  BY DEF RankTypes
<1>5. InStore(c.program, c.number)'
  <2> DEFINE d == [program |-> c.program, number |-> c.number, order |-> c.order]
  <2>1. d \in drawn' /\ d.program = c.program /\ d.number = c.number /\ d.order = c.order
    BY <1>1, <1>3 DEF DrawnFor
  <2>2. IF c.program = "order" THEN hash'[c.number] = c.order ELSE scores'[c.number] = c.order.amount
    BY <1>2, <1>4 DEF Store
  <2> HIDE DEF d
  <2> QED
    BY <2>1, <2>2 DEF InStore
<1>6. ASSUME NEW p \in Programs, NEW n \in OrderIDs, InStore(p, n) PROVE InStore(p, n)'
  <2>1. CASE p = c.program /\ n = c.number
    BY <1>5, <2>1
  <2>2. CASE ~(p = c.program /\ n = c.number)
    <3>1. p = "order" => hash'[n] = hash[n]
      BY <1>2, <1>4, <2>2 DEF Store
    <3>2. p # "order" => scores'[n] = scores[n]
      BY <1>2, <1>4, <2>2, RankingAssumption DEF Store
    <3> QED
      BY <1>3, <1>6, <3>1, <3>2 DEF InStore
  <2> QED
    BY <2>1, <2>2
<1> QED
  BY <1>5, <1>6

\* The loaders' own steps: what is waited for was drawn, and what is acknowledged
\* was executed.
LEMMA LoadersKeep ==
  ASSUME LoaderInv, StoreInv, NEW p \in Programs, UNCHANGED <<hash, scores>>,
         \/ \E o \in Draws[p] : Draw(p, o)
         \/ Control(p)
  PROVE  StoreInv'
<1>0. Moves(p) /\ LoaderNext /\ drawn \subseteq drawn'
  BY DEF Draw, Control, Moves, LoaderNext
<1>1. \A q \in Programs : \A n : InStore(q, n) => InStore(q, n)'
  BY <1>0 DEF InStore
<1>2. /\ late' = late \/ (call[p] # "none" /\ late' = late \cup {Command(p)})
      /\ \A q \in Programs : q # p =>
           i'[q] = i[q] /\ step'[q] = step[q] /\ order'[q] = order[q] /\ call'[q] = call[q] /\ tries'[q] = tries[q]
           /\ runs'[q] = runs[q]
  BY <1>0, MoveEffect
<1>3. \A c \in late' : DrawnFor(c)'
  BY <1>0, <1>2 DEF StoreInv, DrawnFor
<1>4. ASSUME NEW q \in Programs, call'[q] # "none" PROVE DrawnFor(Command(q))'
  <2>0. p \in DOMAIN i /\ p \in DOMAIN step /\ p \in DOMAIN order /\ p \in DOMAIN call
    BY DEF LoaderInv, LoaderTypes
  <2>1. CASE q # p
    BY <1>0, <1>2, <1>4, <2>1 DEF StoreInv, DrawnFor, Command
  <2>2. ASSUME q = p, NEW o \in Draws[p], Draw(p, o) PROVE DrawnFor(Command(q))'
    <3>1. order'[p] = o /\ i'[p] = i[p] /\ [program |-> p, number |-> i[p], order |-> o] \in drawn'
      BY <2>0, <2>2 DEF Draw, Generate
    <3> QED
      BY <2>2, <3>1 DEF DrawnFor, Command
  <2>3. ASSUME q = p, Control(p) PROVE DrawnFor(Command(q))'
    <3>1. ASSUME Continue(p), order' = order PROVE i'[p] = i[p] /\ order'[p] = order[p]
      BY <1>4, <2>0, <2>3, <3>1 DEF Continue
    <3>2. ~Start(p)
      <4>1. Start(p) => call[p] = "none" /\ call' = call
        BY SentWell DEF Start
      <4> QED
        BY <1>4, <2>3, <4>1
    <3>3. ~Kill(p)
      BY <1>4, <2>0, <2>3 DEF Kill
    <3>4. Proceed(p) /\ drawn' = drawn
      BY <2>3, <3>2, <3>3 DEF Control
    <3>5. call[p] # "none" /\ i'[p] = i[p] /\ order'[p] = order[p]
      BY <3>1, <3>4 DEF Proceed, Answer, Retry, GiveUp
    <3>6. DrawnFor(Command(p))
      BY <3>5 DEF StoreInv
    <3> QED
      BY <2>3, <3>4, <3>5, <3>6 DEF DrawnFor, Command
  <2> QED
    BY <2>1, <2>2, <2>3
<1>5. ASSUME NEW q \in Programs, call'[q] = "executed" PROVE InStore(q, i[q])' /\ i'[q] = i[q]
  <2>1. i'[q] = i[q]
    BY <1>0, <1>5, Executes
  <2>2. call[q] = "executed"
    <3>1. CASE q # p
      BY <1>2, <1>5, <3>1
    <3>2. CASE q = p
      <4>1. p \in DOMAIN call
        BY DEF LoaderInv, LoaderTypes
      <4>2. Start(p) => call[p] = call'[p]
        BY DEF Start
      <4>3. ~Start(p) => call'[p] # "executed"
        BY <1>0, <4>1 DEF Moves, Generate, Proceed, Answer, Retry, GiveUp, Continue, Kill
      <4> QED
        BY <1>5, <3>2, <4>2, <4>3
    <3> QED
      BY <3>1, <3>2
  <2>3. InStore(q, i[q])
    BY <2>2 DEF StoreInv
  <2> QED
    BY <1>0, <2>1, <2>3 DEF InStore
<1>6. ASSUME NEW q \in Programs, NEW n \in OrderIDs, Acknowledged(q, n, 1)' PROVE InStore(q, n)'
  <2>1. Acknowledged(q, n, 1) \/ (n = i[q] /\ call[q] = "executed")
    BY <1>0, <1>6, Acknowledges, LoaderAssumption DEF OrderIDs
  <2>2. InStore(q, n)
    BY <2>1 DEF StoreInv
  <2> QED
    BY <1>1, <2>2
<1> QED
  BY <1>3, <1>4, <1>5, <1>6 DEF StoreInv

\* The execution of a command keeps what is stored, and stores what it carries.
LEMMA StoreKeepsInv ==
  ASSUME LoaderInv, RankTypes, StoreInv, NEW c \in Sent, Store(c)
  PROVE  /\ StoreInv'
         /\ hash' \in [OrderIDs -> Orders \cup {NoOrder}] /\ scores' \in [OrderIDs -> Amounts \cup {NoAmount}]
         /\ \A n \in OrderIDs : hash[n] # NoOrder => hash'[n] # NoOrder
<1>1. /\ UNCHANGED <<i, step, order, tries, failed, runs, drawn>> /\ late' \subseteq late
      /\ LoaderNext /\ Execute(c)
  BY DEF Store, Execute, LoaderNext
<1>2. /\ \A p \in Programs, n \in OrderIDs : InStore(p, n) => InStore(p, n)'
      /\ InStore(c.program, c.number)'
  BY StoreKeepsStored
<1>3. \A p \in Programs : \A n : Acknowledged(p, n, 1)' <=> Acknowledged(p, n, 1)
  BY <1>1 DEF Acknowledged
<1>4. ASSUME NEW p \in Programs
      PROVE  /\ call'[p] = "none" <=> call[p] = "none"
             /\ call'[p] = "executed" => call[p] = "executed" \/ (c.program = p /\ c.number = i[p])
  <2>1. c \notin late => call[c.program] = "sent" /\ c = Command(c.program)
    BY SentWell
  <2>2. p \in DOMAIN call
    BY DEF LoaderInv, LoaderTypes
  <2> QED
    BY <1>1, <2>1, <2>2 DEF Execute, Command
<1>5. \A p \in Programs : call[p] = "executed" => i[p] \in OrderIDs
  <2>1. \A p \in Programs : call[p] = "executed" => InLoop(p)
    BY SentWell
  <2> QED
    BY <2>1 DEF InLoop, OrderIDs
<1>6. StoreInv'
  <2>1. \A d \in late' : DrawnFor(d)'
    BY <1>1 DEF StoreInv, DrawnFor
  <2>2. \A p \in Programs : call'[p] # "none" => DrawnFor(Command(p))'
    BY <1>1, <1>4 DEF StoreInv, DrawnFor, Command
  <2>3. ASSUME NEW p \in Programs, call'[p] = "executed" PROVE InStore(p, i[p])'
    <3>1. CASE call[p] = "executed"
      <4>1. InStore(p, i[p]) /\ i[p] \in OrderIDs
        BY <1>5, <3>1 DEF StoreInv
      <4>2. InStore(p, i[p]) => (InStore(p, i[p]))'
        BY <1>1, <1>2, <4>1 DEF InStore
      <4> QED
        BY <1>1, <4>1, <4>2
    <3>2. CASE c.program = p /\ c.number = i[p]
      BY <1>1, <1>2, <3>2 DEF InStore
    <3> QED
      BY <1>4, <2>3, <3>1, <3>2
  <2>4. \A p \in Programs, n \in OrderIDs : Acknowledged(p, n, 1)' => InStore(p, n)'
    BY <1>2, <1>3 DEF StoreInv
  <2> QED
    BY <1>1, <2>1, <2>2, <2>3, <2>4 DEF StoreInv
<1>7. /\ hash' \in [OrderIDs -> Orders \cup {NoOrder}] /\ scores' \in [OrderIDs -> Amounts \cup {NoAmount}]
      /\ \A n \in OrderIDs : hash[n] # NoOrder => hash'[n] # NoOrder
  <2>1. /\ c.program \in {"order", "order1"} /\ c.number \in OrderIDs
        /\ c.program = "order" => c.order \in Orders
        /\ c.program # "order" => c.order.amount \in Amounts
    BY SentOrder
  <2>2. NoOrder \notin Orders
    BY RankingAssumption DEF Orders
  <2> QED
    BY <2>1, <2>2 DEF Store, RankTypes
<1> QED
  BY <1>6, <1>7

\* Redis's order is a strict total order of the orders in the range.
LEMMA AboveOrders ==
  ASSUME NEW s
  PROVE  /\ \A a \in InRange(s) : a \in Nat /\ ~Above(s, a, a)
         /\ \A a, b \in InRange(s) : a # b => Above(s, a, b) \/ Above(s, b, a)
         /\ \A a, b, c \in InRange(s) : Above(s, a, b) /\ Above(s, b, c) => Above(s, a, c)
<1>1. \A a \in InRange(s) : a \in Nat /\ s[a] \in Nat
  BY RankingAssumption, LoaderAssumption DEF InRange, OrderIDs
<1>2. /\ \A a \in InRange(s) : Place[a] \in Nat
      /\ \A a, b \in InRange(s) : a # b => Place[a] # Place[b]
  BY RankingAssumption DEF InRange, OrderIDs
<1> QED
  BY <1>1, <1>2 DEF Above

\* The orders in the range can be ranked, in one way, and none is left out.
LEMMA RankingExists ==
  ASSUME NEW s
  PROVE  /\ IsFiniteSet(InRange(s)) /\ Cardinality(InRange(s)) \in Nat
         /\ Ranked(s) \in [1 .. Cardinality(InRange(s)) -> InRange(s)]
         /\ \A j, k \in 1 .. Cardinality(InRange(s)) : j < k => Above(s, Ranked(s)[j], Ranked(s)[k])
         /\ \A n \in InRange(s) : \E k \in 1 .. Cardinality(InRange(s)) : Ranked(s)[k] = n
<1> DEFINE S == InRange(s)
           c == Cardinality(S)
           A(n) == {m \in S : Above(s, m, n)}
           r == [n \in S |-> 1 + Cardinality(A(n))]
<1>1. IsFiniteSet(S) /\ c \in Nat
  <2>1. S \subseteq 1 .. N /\ IsFiniteSet(1 .. N)
    BY FS_Interval, LoaderAssumption DEF InRange, OrderIDs
  <2> QED
    BY <2>1, FS_Subset, FS_CardinalityType
<1>2. \A n \in S : IsFiniteSet(A(n)) /\ Cardinality(A(n)) \in Nat /\ Cardinality(A(n)) < c
  <2> SUFFICES ASSUME NEW n \in S PROVE IsFiniteSet(A(n)) /\ Cardinality(A(n)) \in Nat /\ Cardinality(A(n)) < c
    OBVIOUS
  <2>1. A(n) \subseteq S \ {n}
    BY AboveOrders
  <2>2. IsFiniteSet(S \ {n}) /\ Cardinality(S \ {n}) = c - 1
    BY <1>1, FS_RemoveElement
  <2>3. IsFiniteSet(A(n)) /\ Cardinality(A(n)) <= c - 1
    BY <2>1, <2>2, FS_Subset
  <2> QED
    BY <1>1, <2>3, FS_CardinalityType
<1>3. \A m, n \in S : Above(s, m, n) => Cardinality(A(m)) < Cardinality(A(n))
  <2> SUFFICES ASSUME NEW m \in S, NEW n \in S, Above(s, m, n) PROVE Cardinality(A(m)) < Cardinality(A(n))
    OBVIOUS
  <2>1. A(m) \subseteq A(n) /\ m \in A(n) /\ m \notin A(m)
    BY AboveOrders
  <2>2. Cardinality(A(m)) <= Cardinality(A(n)) /\ Cardinality(A(m)) # Cardinality(A(n))
    BY <1>2, <2>1, FS_Subset
  <2> QED
    BY <1>2, <2>2
<1> HIDE DEF c, A
<1>4. r \in [S -> 1 .. c]
  BY <1>1, <1>2
<1>5. \A m, n \in S : Above(s, m, n) => r[m] < r[n]
  BY <1>2, <1>3
<1>6. \A m, n \in S : r[m] = r[n] => m = n
  <2> SUFFICES ASSUME NEW m \in S, NEW n \in S, m # n PROVE r[m] # r[n]
    OBVIOUS
  <2>1. Above(s, m, n) \/ Above(s, n, m)
    BY AboveOrders
  <2> QED
    BY <1>1, <1>4, <1>5, <2>1
<1> HIDE DEF r
<1>7. IsFiniteSet(1 .. c) /\ Cardinality(1 .. c) = c
  BY <1>1, FS_Interval
<1>8. \A k \in 1 .. c : \E n \in S : r[n] = k
  <2>1. r \in Injection(S, 1 .. c)
    BY <1>4, <1>6 DEF Injection, IsInjective
  <2>2. r \in Surjection(S, 1 .. c)
    BY <1>7, <2>1, FS_Injection DEF c
  <2> QED
    BY <2>2 DEF Surjection
<1> DEFINE g == [k \in 1 .. c |-> CHOOSE n \in S : r[n] = k]
<1>9. g \in [1 .. c -> S] /\ \A k \in 1 .. c : r[g[k]] = k
  BY <1>8
<1> HIDE DEF g
<1>10. ASSUME NEW j \in 1 .. c, NEW k \in 1 .. c, j < k PROVE Above(s, g[j], g[k])
  <2>1. g[j] \in S /\ g[k] \in S /\ r[g[j]] = j /\ r[g[k]] = k
    BY <1>9
  <2>2. g[j] # g[k] /\ ~Above(s, g[k], g[j])
    BY <1>5, <1>10, <2>1
  <2> QED
    BY <2>1, <2>2, AboveOrders
<1>11. Ranked(s) \in [1 .. c -> S] /\ \A j, k \in 1 .. c : j < k => Above(s, Ranked(s)[j], Ranked(s)[k])
  <2> DEFINE P(ids) == \A j, k \in DOMAIN ids : j < k => Above(s, ids[j], ids[k])
  <2>1. Ranked(s) = CHOOSE ids \in [1 .. c -> S] : P(ids)
    BY DEF Ranked, c
  <2>2. P(g)
    BY <1>9, <1>10
  <2> HIDE DEF P
  <2>3. Ranked(s) \in [1 .. c -> S] /\ P(Ranked(s))
    BY <1>9, <2>1, <2>2
  <2> QED
    BY <2>3 DEF P
<1>12. \A n \in S : \E k \in 1 .. c : Ranked(s)[k] = n
  <2>1. \A j, k \in 1 .. c : j # k => Ranked(s)[j] # Ranked(s)[k]
    <3> SUFFICES ASSUME NEW j \in 1 .. c, NEW k \in 1 .. c, j < k PROVE Ranked(s)[j] # Ranked(s)[k]
      BY <1>1
    <3>1. Above(s, Ranked(s)[j], Ranked(s)[k]) /\ Ranked(s)[j] \in S
      BY <1>11
    <3> QED
      BY <3>1, AboveOrders
  <2>2. Ranked(s) \in Injection(1 .. c, S)
    BY <1>11, <2>1 DEF Injection, IsInjective
  <2>3. Ranked(s) \in Surjection(1 .. c, S)
    BY <1>1, <1>7, <2>2, FS_Injection DEF c
  <2> QED
    BY <2>3 DEF Surjection
<1> QED
  BY <1>1, <1>11, <1>12 DEF c

\* The first command of the query takes the TopN first of the ranking: whoever is
\* left out has TopN orders ahead.
LEMMA ReadKeepsQuery ==
  ASSUME RankTypes, QueryInv, ReadRange
  PROVE  RankTypes' /\ QueryInv'
<1> DEFINE S == InRange(scores)
           ids == Ranked(scores)
           c == Cardinality(S)
           m == IF c < TopN THEN c ELSE TopN
<1>1. /\ query = "idle" /\ query' = "details" /\ result' = FirstN(ids) /\ orders' = orders /\ orders = <<>>
      /\ snap'.scores = scores /\ snap'.hashed = {n \in OrderIDs : hash[n] # NoOrder}
      /\ UNCHANGED <<hash, scores, missed>>
  BY DEF ReadRange, QueryInv
<1>2. /\ IsFiniteSet(S) /\ c \in Nat /\ ids \in [1 .. c -> S]
      /\ \A j, k \in 1 .. c : j < k => Above(scores, ids[j], ids[k])
      /\ \A n \in S : \E k \in 1 .. c : ids[k] = n
      /\ TopN \in Nat \ {0}
  BY RankingExists, RankingAssumption
<1>3. S \subseteq OrderIDs
  BY DEF InRange
<1> HIDE DEF S, ids, c
<1>4. m \in 0 .. c /\ m <= TopN /\ m \in Nat
  BY <1>2
<1>5. ids \in Seq(OrderIDs) /\ Len(ids) = c
  BY <1>2, <1>3
<1>6. result' \in Seq(OrderIDs) /\ Len(result') = m /\ \A k \in 1 .. m : result'[k] = ids[k]
  <2>1. result' = SubSeq(ids, 1, m)
    BY <1>1, <1>5 DEF FirstN
  <2> HIDE DEF m
  <2>2. \A k \in 1 .. m : k \in 1 .. Len(ids)
    BY <1>2, <1>4, <1>5
  <2>3. SubSeq(ids, 1, m) \in Seq(OrderIDs) /\ Len(SubSeq(ids, 1, m)) = m
        /\ \A k \in 1 .. m : SubSeq(ids, 1, m)[k] = ids[k]
    BY <1>2, <1>4, <1>5, <2>2
  <2> QED
    BY <2>1, <2>3
<1>7. RankTypes'
  <2>1. Len(orders') = 0
    BY <1>1, EmptySeq
  <2> QED
    BY <1>1, <1>4, <1>6, <2>1 DEF RankTypes
<1>8. \A j, k \in 1 .. m : j < k => Above(scores, result'[j], result'[k])
  BY <1>2, <1>4, <1>6
<1>9. ASSUME NEW n \in S
      PROVE  (\E k \in 1 .. m : result'[k] = n) \/ Cardinality(Ahead(scores, n)) >= TopN
  <2>1. PICK k \in 1 .. c : ids[k] = n
    BY <1>2
  <2>2. CASE k <= m
    BY <1>2, <1>6, <2>1, <2>2
  <2>3. CASE ~(k <= m)
    <3> DEFINE f == [j \in 1 .. TopN |-> ids[j]]
    <3>1. m = TopN /\ \A j \in 1 .. TopN : j \in 1 .. c /\ j < k
      BY <1>2, <2>3
    <3>2. f \in [1 .. TopN -> Ahead(scores, n)]
      BY <1>2, <2>1, <3>1 DEF Ahead, S
    <3>3. \A j, l \in 1 .. TopN : j < l => f[j] # f[l]
      <4> SUFFICES ASSUME NEW j \in 1 .. TopN, NEW l \in 1 .. TopN, j < l PROVE ids[j] # ids[l]
        OBVIOUS
      <4>1. Above(scores, ids[j], ids[l]) /\ ids[j] \in S
        BY <1>2, <3>1
      <4> QED
        BY <4>1, AboveOrders DEF S
    <3>4. f \in Injection(1 .. TopN, Ahead(scores, n))
      <4>1. \A j, l \in 1 .. TopN : j # l => f[j] # f[l]
        BY <1>2, <3>3
      <4> HIDE DEF f
      <4> QED
        BY <3>2, <4>1 DEF Injection, IsInjective
    <3>5. IsFiniteSet(Ahead(scores, n)) /\ Cardinality(Ahead(scores, n)) \in Nat
      BY <1>2, FS_Subset, FS_CardinalityType DEF Ahead, S
    <3>6. Cardinality(1 .. TopN) = TopN
      BY <1>2, FS_Interval
    <3>7. Cardinality(1 .. TopN) <= Cardinality(Ahead(scores, n))
      BY <3>4, <3>5, FS_Injection
    <3> QED
      BY <1>2, <3>5, <3>6, <3>7
  <2> QED
    BY <2>2, <2>3
<1>10. QueryInv'
  <2>1. Len(orders') = 0
    BY <1>1, EmptySeq
  <2>2. \A n \in snap'.hashed : hash'[n] # NoOrder
    BY <1>1
  <2>3. \A j, k \in 1 .. Len(result') : j < k => Above(snap'.scores, result'[j], result'[k])
    BY <1>1, <1>6, <1>8
  <2>4. \A n \in InRange(snap'.scores) :
          (\E k \in 1 .. Len(result') : result'[k] = n) \/ Cardinality(Ahead(snap'.scores, n)) >= TopN
    BY <1>1, <1>6, <1>9 DEF S
  <2> HIDE DEF m
  <2> QED
    BY <1>1, <2>1, <2>2, <2>3, <2>4 DEF QueryInv, Ahead
<1> QED
  BY <1>7, <1>10

\* What is left when the first element of a sequence is taken off.
LEMMA FirstOff ==
  ASSUME NEW S, NEW s \in Seq(S), s # <<>>
  PROVE  /\ Tail(s) \in Seq(S) /\ Len(Tail(s)) \in Nat /\ Len(s) = Len(Tail(s)) + 1
         /\ 1 \in 1 .. Len(s) /\ Head(s) = s[1] /\ s[1] \in S
         /\ \A k \in 1 .. Len(Tail(s)) : k + 1 \in 1 .. Len(s) /\ Tail(s)[k] = s[k + 1] /\ 1 < k + 1
         /\ \A k \in 1 .. Len(s) : k = 1 \/ (k - 1 \in 1 .. Len(Tail(s)) /\ Tail(s)[k - 1] = s[k])
<1>1. /\ Tail(s) \in Seq(S) /\ Len(Tail(s)) = Len(s) - 1 /\ Head(s) \in S
      /\ \A k \in 1 .. Len(Tail(s)) : Tail(s)[k] = s[k + 1]
  BY HeadTailProperties
<1>2. PICK n \in Nat : n = Len(Tail(s)) /\ Len(s) = n + 1
  <2>1. Len(s) \in Nat /\ Len(s) # 0
    BY LenProperties
  <2>2. PICK m \in Nat : m = Len(s) /\ m # 0
    BY <2>1
  <2>3. m - 1 \in Nat /\ (m - 1) + 1 = m
    BY <2>2
  <2>4. Len(Tail(s)) = m - 1
    BY <1>1, <2>2
  <2> QED
    BY <2>2, <2>3, <2>4
<1>3. Head(s) = s[1]
  OBVIOUS
<1>4. \A k \in 1 .. n + 1 : k = 1 \/ (k - 1 \in 1 .. n /\ (k - 1) + 1 = k)
  OBVIOUS
<1>5. \A k \in 1 .. n : k + 1 \in 1 .. n + 1 /\ 1 < k + 1
  OBVIOUS
<1>6. 1 \in 1 .. n + 1 /\ Len(s) = Len(Tail(s)) + 1
  BY <1>2
<1> QED
  BY <1>1, <1>2, <1>3, <1>4, <1>5, <1>6

\* A look-up, whatever it finds, keeps the order of what is listed and what is left.
LEMMA DetailKeepsQuery ==
  ASSUME RankTypes, QueryInv, Detail \/ DetailMissing \/ DetailFails
  PROVE  RankTypes' /\ QueryInv'
<1> DEFINE found == [id |-> Head(result), order |-> hash[Head(result)]]
<1>1. /\ query = "details" /\ query' = query /\ result # <<>> /\ result' = Tail(result)
      /\ UNCHANGED <<hash, scores, snap>>
      /\ \/ hash[Head(result)] # NoOrder /\ orders' = Append(orders, found) /\ missed' = missed
         \/ hash[Head(result)] = NoOrder /\ orders' = orders /\ missed' = missed
         \/ orders' = orders /\ missed' = missed \cup {Head(result)}
  BY DEF Detail, DetailMissing, DetailFails
<1>2. /\ result \in Seq(OrderIDs) /\ orders \in Seq([id : OrderIDs, order : Orders])
      /\ Len(orders) + Len(result) <= TopN /\ missed \subseteq OrderIDs
      /\ hash \in [OrderIDs -> Orders \cup {NoOrder}]
  BY DEF RankTypes
<1>3. /\ result' \in Seq(OrderIDs) /\ Len(result') \in Nat /\ Len(result) = Len(result') + 1
      /\ 1 \in 1 .. Len(result) /\ Head(result) = result[1] /\ result[1] \in OrderIDs
      /\ \A k \in 1 .. Len(result') : k + 1 \in 1 .. Len(result) /\ result'[k] = result[k + 1] /\ 1 < k + 1
      /\ \A k \in 1 .. Len(result) : k = 1 \/ (k - 1 \in 1 .. Len(result') /\ result'[k - 1] = result[k])
  BY <1>1, <1>2, FirstOff
<1>4. Len(orders) \in Nat
  BY <1>2, LenProperties
<1>5. TopN \in Nat
  BY RankingAssumption
<1>6. /\ \A j, k \in 1 .. Len(result) : j < k => Above(snap.scores, result[j], result[k])
      /\ \A j, k \in 1 .. Len(orders) : j < k => Above(snap.scores, orders[j].id, orders[k].id)
      /\ \A j \in 1 .. Len(orders), k \in 1 .. Len(result) : Above(snap.scores, orders[j].id, result[k])
      /\ \A n \in snap.hashed : hash[n] # NoOrder
      /\ \A n \in InRange(snap.scores) \cap snap.hashed :
           \/ n \in Listed \cup missed \/ \E k \in 1 .. Len(result) : result[k] = n
           \/ Cardinality(Ahead(snap.scores, n)) >= TopN
  BY <1>1 DEF QueryInv
<1>7. \A j, k \in 1 .. Len(result') : j < k => Above(snap.scores, result'[j], result'[k])
  <2> SUFFICES ASSUME NEW j \in 1 .. Len(result'), NEW k \in 1 .. Len(result'), j < k
               PROVE  Above(snap.scores, result'[j], result'[k])
    OBVIOUS
  <2>1. /\ j + 1 \in 1 .. Len(result) /\ k + 1 \in 1 .. Len(result)
        /\ result'[j] = result[j + 1] /\ result'[k] = result[k + 1]
    BY <1>3
  <2>2. j + 1 < k + 1
    OBVIOUS
  <2> QED
    BY <1>6, <2>1, <2>2
<1>8. CASE orders' = orders
  <2>1. missed' \subseteq OrderIDs
    BY <1>1, <1>2, <1>3
  <2>2. RankTypes'
    <3>1. Len(orders') + Len(result') <= TopN
      BY <1>2, <1>3, <1>4, <1>5, <1>8
    <3> QED
      BY <1>1, <1>2, <1>3, <1>8, <2>1, <3>1 DEF RankTypes
  <2>3. Listed' = Listed
    BY <1>8 DEF Listed
  <2>4. ASSUME NEW n \in InRange(snap.scores) \cap snap.hashed
        PROVE  \/ n \in Listed \cup missed' \/ \E k \in 1 .. Len(result') : result'[k] = n
               \/ Cardinality(Ahead(snap.scores, n)) >= TopN
    <3>1. ASSUME NEW k \in 1 .. Len(result), result[k] = n
          PROVE  n \in missed' \/ \E l \in 1 .. Len(result') : result'[l] = n
      <4>1. CASE k = 1
        <5>1. n = Head(result) /\ hash[n] # NoOrder
          BY <1>3, <1>6, <3>1, <4>1
        <5>2. orders # Append(orders, found)
          <6>1. found.order = hash[Head(result)]
            OBVIOUS
          <6> QED
            BY <1>2, <1>4
        <5> QED
          BY <1>1, <1>8, <5>1, <5>2
      <4>2. CASE k # 1
        BY <1>3, <3>1, <4>2
      <4> QED
        BY <4>1, <4>2
    <3>2. missed \subseteq missed'
      BY <1>1
    <3> QED
      BY <1>6, <3>1, <3>2
  <2>5. \A j \in 1 .. Len(orders), k \in 1 .. Len(result') : Above(snap.scores, orders[j].id, result'[k])
    BY <1>3, <1>6
  <2>6. QueryInv'
    BY <1>1, <1>6, <1>7, <1>8, <2>3, <2>4, <2>5 DEF QueryInv, Ahead
  <2> QED
    BY <2>2, <2>6
<1>9. CASE hash[Head(result)] # NoOrder /\ orders' = Append(orders, found) /\ missed' = missed
  <2>1. found \in [id : OrderIDs, order : Orders] /\ found.id = result[1]
    BY <1>2, <1>3, <1>9
  <2> HIDE DEF found
  <2>2. /\ orders' \in Seq([id : OrderIDs, order : Orders]) /\ Len(orders') = Len(orders) + 1
        /\ \A j \in 1 .. Len(orders) : orders'[j] = orders[j]
        /\ orders'[Len(orders) + 1] = found
    BY <1>2, <1>9, <2>1, AppendProperties
  <2>3. RankTypes'
    <3>1. Len(orders') + Len(result') <= TopN
      BY <1>2, <1>3, <1>4, <1>5, <2>2
    <3> QED
      BY <1>1, <1>2, <1>3, <1>9, <2>2, <3>1 DEF RankTypes
  <2>4. PICK o \in Nat : o = Len(orders) /\ Len(orders') = o + 1
    BY <1>4, <2>2
  <2>5. /\ \A j \in 1 .. o + 1 : (j \in 1 .. o /\ orders'[j] = orders[j]) \/ (j = o + 1 /\ orders'[j] = found)
        /\ \A j \in 1 .. o : j \in 1 .. o + 1
        /\ o + 1 \in 1 .. o + 1
    BY <2>2, <2>4
  <2>6. DOMAIN orders = 1 .. o /\ DOMAIN orders' = 1 .. o + 1
    BY <1>2, <2>2, <2>4, LenProperties
  <2>7. Listed \subseteq Listed' /\ result[1] \in Listed'
    BY <2>1, <2>2, <2>4, <2>5, <2>6 DEF Listed
  <2>8. \A j, k \in 1 .. o + 1 : j < k => Above(snap.scores, orders'[j].id, orders'[k].id)
    <3> SUFFICES ASSUME NEW j \in 1 .. o + 1, NEW k \in 1 .. o + 1, j < k
                 PROVE  Above(snap.scores, orders'[j].id, orders'[k].id)
      OBVIOUS
    <3>1. j \in 1 .. o /\ orders'[j] = orders[j]
      BY <2>5
    <3> QED
      BY <1>3, <1>6, <2>1, <2>4, <2>5, <3>1
  <2>9. \A j \in 1 .. o + 1, k \in 1 .. Len(result') : Above(snap.scores, orders'[j].id, result'[k])
    <3> SUFFICES ASSUME NEW j \in 1 .. o + 1, NEW k \in 1 .. Len(result')
                 PROVE  Above(snap.scores, orders'[j].id, result'[k])
      OBVIOUS
    <3>1. k + 1 \in 1 .. Len(result) /\ result'[k] = result[k + 1] /\ 1 < k + 1 /\ 1 \in 1 .. Len(result)
      BY <1>3
    <3> QED
      BY <1>6, <2>1, <2>4, <2>5, <3>1
  <2>10. \A n \in InRange(snap.scores) \cap snap.hashed :
           \/ n \in Listed' \cup missed \/ \E k \in 1 .. Len(result') : result'[k] = n
           \/ Cardinality(Ahead(snap.scores, n)) >= TopN
    <3> SUFFICES ASSUME NEW n \in InRange(snap.scores) \cap snap.hashed,
                        ~(Cardinality(Ahead(snap.scores, n)) >= TopN), n \notin Listed' \cup missed
                 PROVE  \E k \in 1 .. Len(result') : result'[k] = n
      OBVIOUS
    <3>1. PICK k \in 1 .. Len(result) : result[k] = n
      BY <1>6, <2>7
    <3>2. k # 1
      BY <2>7, <3>1
    <3> QED
      BY <1>3, <3>1, <3>2
  <2>11. QueryInv'
    BY <1>1, <1>6, <1>7, <1>9, <2>4, <2>8, <2>9, <2>10 DEF QueryInv, Ahead
  <2> QED
    BY <2>3, <2>11
<1> QED
  BY <1>1, <1>8, <1>9

\* Every step with the ranking preserves its invariant.
LEMMA RankStep == RankInv /\ Next => RankInv'
<1> SUFFICES ASSUME RankInv, Next PROVE RankInv'
  OBVIOUS
<1>0. LoaderInv /\ RankTypes /\ StoreInv /\ QueryInv
  BY DEF RankInv
<1>1. ASSUME NEW c \in Sent, Store(c) PROVE RankInv'
  <2>1. LoaderNext /\ UNCHANGED top
    BY <1>1 DEF LoaderNext, Store
  <2>2. LoaderInv'
    BY <1>0, <2>1, LoaderStep
  <2>3. /\ StoreInv'
        /\ hash' \in [OrderIDs -> Orders \cup {NoOrder}] /\ scores' \in [OrderIDs -> Amounts \cup {NoAmount}]
        /\ \A n \in OrderIDs : hash[n] # NoOrder => hash'[n] # NoOrder
    BY <1>0, <1>1, StoreKeepsInv
  <2>4. RankTypes'
    BY <1>0, <2>1, <2>3 DEF RankTypes, top
  <2>5. snap.hashed \subseteq OrderIDs
    BY <1>0 DEF RankTypes
  <2>6. QueryInv'
    BY <1>0, <2>1, <2>3, <2>5 DEF QueryInv, Ahead, Listed, top
  <2> QED
    BY <2>2, <2>3, <2>4, <2>6 DEF RankInv
<1>2. ASSUME NEW p \in Programs, (\E o \in Draws[p] : Draw(p, o)) \/ Control(p) PROVE RankInv'
  <2>1. LoaderNext /\ UNCHANGED <<hash, scores, top>>
    BY <1>2 DEF LoaderNext, Moves, Draw, Control
  <2>2. LoaderInv'
    BY <1>0, <2>1, LoaderStep
  <2>3. StoreInv'
    BY <1>0, <1>2, <2>1, LoadersKeep
  <2>4. RankTypes' /\ QueryInv'
    BY <1>0, <2>1 DEF RankTypes, QueryInv, Ahead, Listed, top
  <2> QED
    BY <2>2, <2>3, <2>4 DEF RankInv
<1>3. ASSUME UNCHANGED <<loader, hash, scores, drawn>> PROVE LoaderInv' /\ StoreInv'
  <2>1. LoaderNext
    BY <1>3 DEF LoaderNext
  <2>2. LoaderInv'
    BY <1>0, <2>1, LoaderStep
  <2>3. StoreInv'
    BY <1>0, <1>3 DEF StoreInv, DrawnFor, InStore, Command, Acknowledged, loader
  <2> QED
    BY <2>2, <2>3
<1>4. CASE ReadRange
  BY <1>0, <1>3, <1>4, ReadKeepsQuery DEF ReadRange, RankInv
<1>5. CASE Detail \/ DetailMissing \/ DetailFails
  <2>1. UNCHANGED <<loader, hash, scores, drawn>>
    BY <1>5 DEF Detail, DetailMissing, DetailFails
  <2> QED
    BY <1>0, <1>3, <1>5, <2>1, DetailKeepsQuery DEF RankInv
<1>6. CASE Return
  <2>1. /\ UNCHANGED <<loader, hash, scores, drawn, result, orders, snap, missed>>
        /\ query = "details" /\ query' = "done" /\ result = <<>>
    BY <1>6 DEF Return
  <2>2. RankTypes' /\ QueryInv'
    BY <1>0, <2>1 DEF RankTypes, QueryInv, Ahead, Listed
  <2> QED
    BY <1>3, <2>1, <2>2 DEF RankInv
<1> QED
  BY <1>1, <1>2, <1>4, <1>5, <1>6 DEF Next

\* The properties of the ranking follow.
LEMMA RankHolds == RankInv => TypeOK /\ StoredUnlessLogged /\ InRankOrder /\ NoneLeftOut
<1> SUFFICES ASSUME RankInv PROVE TypeOK /\ StoredUnlessLogged /\ InRankOrder /\ NoneLeftOut
  OBVIOUS
<1>0. LoaderInv /\ RankTypes /\ StoreInv /\ QueryInv
  BY DEF RankInv
<1>1. DOMAIN orders = 1 .. Len(orders)
  BY <1>0, LenProperties DEF RankTypes
<1>2. TypeOK
  <2>1. \A k \in DOMAIN orders : orders[k] \in [id : OrderIDs, order : Orders]
    BY <1>0, <1>1, ElementOfSeq DEF RankTypes
  <2> QED
    BY <1>0, <2>1, LoaderTyped DEF TypeOK, RankTypes
<1>3. StoredUnlessLogged
  BY <1>0 DEF StoredUnlessLogged, StoreInv, InStore
<1>4. InRankOrder
  BY <1>0, <1>1 DEF InRankOrder, QueryInv
<1>5. NoneLeftOut
  <2> SUFFICES ASSUME query = "done", NEW n \in (InRange(snap.scores) \cap snap.hashed) \ (Listed \cup missed)
               PROVE  Cardinality({m \in InRange(snap.scores) : Above(snap.scores, m, n)}) >= TopN
    BY DEF NoneLeftOut
  <2>1. Len(result) = 0
    BY <1>0, EmptySeq DEF QueryInv
  <2>2. ~ \E k \in 1 .. Len(result) : result[k] = n
    BY <2>1
  <2> QED
    BY <1>0, <2>2 DEF QueryInv, Ahead
<1> QED
  BY <1>2, <1>3, <1>4, <1>5

-----------------------------------------------------------------------------
(* The programs together. *)

OrdersInv ==
  /\ keys \in {"ranking", "board", "sets", "log"}
  /\ keys = "ranking" => RankInv
  /\ keys = "board" => BoardInv /\ FewUnanswered
  /\ keys = "sets" => SetsInv
  /\ keys = "log" => LogInv /\ LogCounts

\* The sets' types follow.
LEMMA SetsTyped == SetsInv => Index!TypeOK
<1> SUFFICES ASSUME SetsInv PROVE Index!TypeOK
  OBVIOUS
<1>1. Adder!LoaderInv /\ Members
  BY DEF SetsInv
<1>2. Index!LoaderTypeOK
  BY <1>1, AdderAssumption, Adder!LoaderTyped DEF Adder!LoaderTypeOK, Index!LoaderTypeOK
<1> QED
  BY <1>1, <1>2 DEF Index!TypeOK, Index!OrderIDs, Members

\* The sets' first property, for the program there is.
LEMMA SetsStoredHolds == SetsInv => Index!StoredUnlessLogged
<1> SUFFICES ASSUME SetsInv PROVE Index!StoredUnlessLogged
  OBVIOUS
<1>1. \A n, s : Index!Acknowledged(P2, n, s) <=> Adder!Acknowledged(P2, n, s)
  BY DEF Index!Acknowledged, Adder!Acknowledged
<1>2. \A p \in OnlyOrder2 : p = P2
  BY AdderPrograms
<1>3. Stored2
  BY DEF SetsInv
<1> QED
  BY <1>1, <1>2, <1>3 DEF Index!StoredUnlessLogged, Stored2

\* What is in both sets was drawn with the one key and with the other, and by one
\* run only as the same order, since a run draws each number once.
LEMMA SetsMixed == SetsInv => Index!MixedOnlyAcrossRuns
<1> SUFFICES ASSUME SetsInv, NEW c \in Customers, NEW q \in Products, NEW n \in customerSet[c] \cap productSet[q]
             PROVE  \E d, e \in drawn :
                      /\ d.number = n /\ d.order.customer = c
                      /\ e.number = n /\ e.order.product = q
                      /\ d.order = e.order \/ d.run # e.run
  BY DEF Index!MixedOnlyAcrossRuns, Index!Intersection
<1>1. DrawnOnce /\ Members
  BY DEF SetsInv
<1>2. PICK d \in drawn : d.number = n /\ d.order.customer = c
  BY <1>1 DEF Members
<1>3. PICK e \in drawn : e.number = n /\ e.order.product = q
  BY <1>1 DEF Members
<1>4. d.order = e.order \/ d.run # e.run
  BY <1>1, <1>2, <1>3 DEF DrawnOnce
<1> QED
  BY <1>2, <1>3, <1>4

\* Whichever programs run, their invariant holds.
THEOREM OrdersInvariance == OrdersSpec => []OrdersInv
<1>1. OrdersInit => OrdersInv
  <2>1. keys \in {"ranking", "board"} /\ Board!BoardInit /\ Init /\ OrdersInit => OrdersInv
    BY RankInitInv, BoardInitInv, FS_EmptySet DEF OrdersInv, FewUnanswered, Board!BoardInit
  <2>2. keys = "sets" /\ Index!Init => OrdersInv
    BY SetsInitInv DEF OrdersInv
  <2>3. keys = "log" /\ Log!Init => OrdersInv
    BY LogInitInv, LogInitCounts DEF OrdersInv
  <2> QED
    BY <2>1, <2>2, <2>3 DEF OrdersInit
<1>2. OrdersInv /\ [OrdersNext]_ordersVars => OrdersInv'
  <2> SUFFICES ASSUME OrdersInv, [OrdersNext]_ordersVars PROVE OrdersInv'
    OBVIOUS
  <2>1. CASE keys = "ranking" /\ Next /\ UNCHANGED keys
    BY <2>1, RankStep DEF OrdersInv
  <2>2. CASE keys = "sets" /\ Index!Next /\ UNCHANGED keys
    BY <2>2, SetsStep DEF OrdersInv
  <2>3. CASE keys = "log" /\ Log!Next /\ UNCHANGED keys
    BY <2>3, LogStep, LogCountsStep DEF OrdersInv, LogInv
  <2>4. CASE keys = "board" /\ Board!BoardNext /\ UNCHANGED keys
    BY <2>4, BoardStep, FewStay DEF OrdersInv
  <2>5. CASE UNCHANGED ordersVars
    <3>1. UNCHANGED <<i, step, order, call, tries, failed, runs, late, hash, scores, drawn, query, result, orders,
                      snap, missed>>
      BY <2>5 DEF ordersVars, vars, loader, top
    <3>2. UNCHANGED <<keys, customerSet, productSet, log, shown, amount, stores, applied, board, next, unanswered,
                      topPlayers, beaten>>
      BY <2>5 DEF ordersVars, indexVars, logVars, boardVars
    <3>3. keys = "board" => BoardInv' /\ FewUnanswered'
      BY <3>2 DEF OrdersInv, BoardInv, FewUnanswered, Board!UpdateShown
    <3>4. keys = "ranking" => RankInv'
      <4>1. LoaderInv => LoaderInv'
        BY <3>1, LoaderStep DEF LoaderNext, loader
      <4>2. StoreInv => StoreInv'
        BY <3>1 DEF StoreInv, DrawnFor, InStore, Command, Acknowledged
      <4> QED
        BY <3>1, <4>1, <4>2 DEF OrdersInv, RankInv, RankTypes, QueryInv, Ahead, Listed
    <3>5. keys = "sets" => SetsInv'
      <4>1. Adder!LoaderInv => (Adder!LoaderInv)'
        BY <3>1, AdderAssumption, Adder!LoaderStep DEF Adder!LoaderNext, Adder!loader
      <4>2. Stored2 => Stored2'
        BY <3>1, <3>2 DEF Stored2, Adder!Acknowledged
      <4> QED
        BY <3>1, <3>2, <4>1, <4>2 DEF OrdersInv, SetsInv, DrawnOnce, DrawnBy, SentDrawn, Traced, Members, Adder!Command
    <3>6. keys = "log" => LogInv' /\ LogCounts'
      <4>1. Logger!LoaderInv => (Logger!LoaderInv)'
        BY <3>1, LoggerAssumption, Logger!LoaderStep DEF Logger!LoaderNext, Logger!loader
      <4>2. \A n : Logger!Acknowledged(P3, n, 1)' <=> Logger!Acknowledged(P3, n, 1)
        BY <3>1 DEF Logger!Acknowledged
      <4>3. AmountInv => AmountInv'
        BY <3>2 DEF AmountInv, Log!AmountAccounted
      <4>4. LogCounts => LogCounts'
        BY <3>1, <3>2 DEF LogCounts, Logger!Counted, Logger!LateIn, Logger!Allowance
      <4> QED
        BY <3>1, <3>2, <4>1, <4>2, <4>3, <4>4
           DEF OrdersInv, LogInv, LogSeqs, Reached, Pushed, FirstCopy, CopyIn, ThisRun, ListHolds, Listed3
    <3> QED
      BY <3>2, <3>3, <3>4, <3>5, <3>6 DEF OrdersInv
  <2> QED
    BY <2>1, <2>2, <2>3, <2>4, <2>5 DEF OrdersNext
<1> QED
  BY <1>1, <1>2, PTL DEF OrdersSpec

\* Every variable of the programs on Redis has its type; in particular no list and
\* no amount has grown by more than what all runs may send, retries counted.
THEOREM OrdersTyped == OrdersSpec => []OrdersTypeOK
<1>1. OrdersInv => OrdersTypeOK
  BY RankHolds, BoardTyped, SetsTyped, LogTyped DEF OrdersInv, OrdersTypeOK
<1> QED
  BY <1>1, OrdersInvariance, PTL

\* What order and order1 stored without logging a failure is there, order1's query
\* returns its orders by the ranking it read, none twice, and leaves out none that
\* it could look up, and the leaderboard shows an update that nobody has undone,
\* for any number of orders, runs, retries and late commands.
THEOREM RankingServed == OrdersSpec => []RankingRight
<1>1. OrdersInv => RankingRight
  BY RankHolds DEF OrdersInv, RankingRight, BoardInv
<1> QED
  BY <1>1, OrdersInvariance, PTL

\* An order that order2 stored without logging a failure is in both of its sets,
\* and one in the intersection of two sets was drawn with both keys or got them
\* from two different runs, for any orders and however often the loop is run, killed
\* and run again, with any number of retries and late commands.
THEOREM SetsFilled == OrdersSpec => []SetsRight
<1>1. OrdersInv => SetsRight
  BY SetsStoredHolds, SetsMixed DEF OrdersInv, SetsRight
<1> QED
  BY <1>1, OrdersInvariance, PTL

\* Whatever pushes and scripts of order3 are repeated or late, first copies keep
\* their order, the list printed is complete, and the amount is accounted for.
THEOREM LogRecorded == OrdersSpec => []LogRight
<1>1. OrdersInv => LogRight
  BY LogHolds DEF OrdersInv, LogRight
<1> QED
  BY <1>1, OrdersInvariance, PTL
=============================================================================
