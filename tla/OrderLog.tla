------------------------------ MODULE OrderLog ------------------------------
(***************************************************************************)
(* cmd/redis/order/order3/order3.go: the actions on an order are pushed to  *)
(* the left of a list (calls 1 to N-2 of its main, lines 46-48), the list   *)
(* is read (call N-1), and a script adds to the amount of another order     *)
(* (call N), while order.go may store that order.  Neither LPUSH nor the    *)
(* script is idempotent, and go-redis repeats both when no answer comes.    *)
(***************************************************************************)
EXTENDS RedisLoader, Integers, Sequences

CONSTANTS Program,   \* order3
          Stored,    \* the amount order.go stores, in dollars
          Added,     \* ARGV[1] of the script
          MaxStores, \* bound: how often order.go stores the order
          NoAmount   \* there is no hash

LogAssumption ==
  /\ Programs = {Program} /\ Steps[Program] = 1 /\ N > 2
  /\ Stored \in Nat /\ Added \in Nat \ {0} /\ MaxStores \in Nat

Entry == [run : 1 .. MaxRuns, number : 1 .. N - 2]

VARIABLES log,      \* order:<id>:actions, its left end first
          shown,    \* what LRANGE returned to the program
          amount,   \* the field amount of order:1029977
          stores,   \* how often order.go has stored it
          applied   \* history: how often the script ran since it was stored

data == <<log, shown, amount, stores, applied>>
vars == <<loader, data>>

Executions == (MaxRetries + 1) * MaxRuns  \* of one call

TypeOK ==
  /\ LoaderTypeOK
  /\ log \in Seq(Entry) /\ Len(log) <= Executions * (N - 2)
  /\ shown \in Seq(Entry)
  /\ amount = NoAmount \/ amount \in {Stored + k * Added : k \in 0 .. Executions}
  /\ stores \in 0 .. MaxStores

Init ==
  /\ LoaderInit
  /\ log = <<>>
  /\ shown = <<>>
  /\ amount = NoAmount
  /\ stores = 0
  /\ applied = 0

LogEntry(c) == [run |-> c.run, number |-> c.number]

-----------------------------------------------------------------------------
(* Mutants: the program as a plausible bug would have it. *)

\* RPUSH where LPUSH belongs.
PushRight(c) ==
  /\ c.number < N - 1
  /\ Execute(c)
  /\ log' = Append(log, LogEntry(c))
  /\ UNCHANGED <<shown, amount, stores, applied>>

\* The script sets the amount that it should add.
AddSets(c) ==
  /\ c.number = N
  /\ Execute(c)
  /\ IF amount = NoAmount
       THEN UNCHANGED <<amount, applied>>
       ELSE amount' = Added /\ applied' = applied + 1
  /\ UNCHANGED <<log, shown, stores>>

-----------------------------------------------------------------------------
\* The server executes LPUSH.
Push(c) ==
  /\ c.number < N - 1
  /\ Execute(c)
  /\ log' = <<LogEntry(c)>> \o log
  /\ UNCHANGED <<shown, amount, stores, applied>>

\* LRANGE 0 -1; the answer to an abandoned call reaches nobody.
List(c) ==
  /\ c.number = N - 1
  /\ Execute(c)
  /\ shown' = IF c \in late THEN shown ELSE log
  /\ UNCHANGED <<log, amount, stores, applied>>

\* The script: it changes an amount that is there.
Add(c) ==
  /\ c.number = N
  /\ Execute(c)
  /\ IF amount = NoAmount
       THEN UNCHANGED <<amount, applied>>
       ELSE amount' = amount + Added /\ applied' = applied + 1
  /\ UNCHANGED <<log, shown, stores>>

\* order.go's HSET of the order.
Store ==
  /\ stores < MaxStores
  /\ stores' = stores + 1
  /\ amount' = Stored
  /\ applied' = 0
  /\ UNCHANGED <<loader, log, shown>>

\* A failed push is logged and main goes on; the script's error is ignored; a
\* failed LRANGE ends the program (log.Fatalf).
Fail(p) == IF i[p] = N - 1 THEN tries[p] = MaxRetries /\ call[p] # "none" /\ Kill(p)
                           ELSE GiveUp(p)

Control(p) ==
  /\ \/ Start(p) \/ Answer(p) \/ Retry(p) \/ Fail(p) \/ Kill(p)
     \/ \E o \in Draws[p] : Generate(p, o)
  /\ UNCHANGED data

Next ==
  \/ \E c \in Sent : Push(c) \/ List(c) \/ Add(c)
  \/ Store
  \/ \E p \in Programs : Control(p)

Spec == Init /\ [][Next]_vars

-----------------------------------------------------------------------------
(* Properties *)

Positions(s, e) == {k \in DOMAIN s : s[k] = e}
Recorded == {n \in 1 .. N - 2 : Acknowledged(Program, n, 1)}
Copies(s, n) == Positions(s, [run |-> runs[Program], number |-> n])

\* "The newest action comes first" (order3.go:77) as far as it survives repeated
\* and late pushes: of two actions a run recorded without logging a failure, the
\* earlier one has a copy to the right of every copy of the later one.
FirstCopiesInOrder ==
  \A a, b \in Recorded : a < b =>
    \E k \in Copies(log, a) : \A l \in Copies(log, b) : l < k

\* The list that is printed (order3.go:51-60) holds every action that this run
\* recorded without logging a failure.
ShownComplete ==
  Acknowledged(Program, N - 1, 1) =>
    \A n \in Recorded : Copies(shown, n) # {}

\* The script never brings an order into being (order3.go:21-27), and an amount
\* is what order.go stored plus ARGV[1] for each time the script has run since.
AmountAccounted ==
  amount = (IF stores = 0 THEN NoAmount ELSE Stored + applied * Added)
=============================================================================
