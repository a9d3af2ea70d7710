---------------------------- MODULE RedisLoader ----------------------------
(***************************************************************************)
(* How the order programs under cmd/redis/order send their commands: a loop *)
(* over the numbers 1..N sends one go-redis command after another, logs the *)
(* ones that fail and goes on.  go-redis sends a command again when no      *)
(* answer comes, up to MaxRetries times, and a program may be killed and    *)
(* run again at any time.  The server executes one command at a time; it    *)
(* may still execute one that the client has abandoned.                     *)
(***************************************************************************)
EXTENDS Naturals

CONSTANTS Programs,    \* the programs that load orders
          Steps,       \* Steps[p]: the commands program p sends per order
          Draws,       \* Draws[p]: the orders generateOrder of p may return
          N,           \* the orders are numbered 1..N
          MaxRetries,  \* redis.Options.MaxRetries
          MaxRuns      \* bound: how often each program is run

ASSUME LoaderAssumption ==
  /\ N \in Nat \ {0} /\ MaxRetries \in Nat /\ MaxRuns \in Nat \ {0}
  /\ \A p \in Programs : Steps[p] \in Nat \ {0} /\ Draws[p] # {}

VARIABLES i,       \* i[p]: the order the loop is at, 0 before it
          step,    \* step[p]: the command of that order, 0 before the draw
          order,   \* order[p]: what generateOrder returned
          call,    \* call[p]: none, sent (to the server) or executed (by it)
          tries,   \* tries[p]: how often the command was sent again
          failed,  \* failed[p]: the <<order, step>> this run logged as failed
          runs,    \* runs[p]: how often p was started
          late     \* commands the server has not executed and nobody waits for

loader == <<i, step, order, call, tries, failed, runs, late>>

\* The command p waits for.
Command(p) ==
  [program |-> p, run |-> runs[p], number |-> i[p], step |-> step[p],
   try |-> tries[p], order |-> order[p]]

\* What the server may execute next.
Sent == late \cup {Command(p) : p \in {q \in Programs : call[q] = "sent"}}

LoaderTypeOK ==
  /\ i \in [Programs -> 0 .. N + 1]
  /\ \A p \in Programs : step[p] \in 0 .. Steps[p] /\ order[p] \in Draws[p]
  /\ call \in [Programs -> {"none", "sent", "executed"}]
  /\ tries \in [Programs -> 0 .. MaxRetries]
  /\ \A p \in Programs : failed[p] \subseteq (1 .. N) \X (1 .. Steps[p])
  /\ runs \in [Programs -> 0 .. MaxRuns]
  /\ \A c \in late : c.number \in 1 .. N /\ c.order \in Draws[c.program]

LoaderInit ==
  /\ i = [p \in Programs |-> 0]
  /\ step = [p \in Programs |-> 0]
  /\ order = [p \in Programs |-> CHOOSE o \in Draws[p] : TRUE]
  /\ call = [p \in Programs |-> "none"]
  /\ tries = [p \in Programs |-> 0]
  /\ failed = [p \in Programs |-> {}]
  /\ runs = [p \in Programs |-> 0]
  /\ late = {}

InLoop(p) == i[p] \in 1 .. N

Start(p) ==
  /\ ~InLoop(p)
  /\ runs[p] < MaxRuns
  /\ runs' = [runs EXCEPT ![p] = @ + 1]
  /\ i' = [i EXCEPT ![p] = 1]
  /\ failed' = [failed EXCEPT ![p] = {}]
  /\ UNCHANGED <<step, order, call, tries, late>>

\* generateOrder, and the first command.
Generate(p, o) ==
  /\ InLoop(p)
  /\ step[p] = 0
  /\ order' = [order EXCEPT ![p] = o]
  /\ step' = [step EXCEPT ![p] = 1]
  /\ call' = [call EXCEPT ![p] = "sent"]
  /\ UNCHANGED <<i, tries, failed, runs, late>>

\* The server executes command c; what it does to the data is the program's.
Execute(c) ==
  /\ IF c \in late
       THEN late' = late \ {c} /\ UNCHANGED call
       ELSE call' = [call EXCEPT ![c.program] = "executed"] /\ UNCHANGED late
  /\ UNCHANGED <<i, step, order, tries, failed, runs>>

\* The next command of the order, or the next order.
Continue(p) ==
  /\ tries' = [tries EXCEPT ![p] = 0]
  /\ IF step[p] < Steps[p]
       THEN /\ step' = [step EXCEPT ![p] = @ + 1]
            /\ call' = [call EXCEPT ![p] = "sent"]
            /\ UNCHANGED i
       ELSE /\ step' = [step EXCEPT ![p] = 0]
            /\ call' = [call EXCEPT ![p] = "none"]
            /\ i' = [i EXCEPT ![p] = @ + 1]

Answer(p) ==
  /\ call[p] = "executed"
  /\ Continue(p)
  /\ UNCHANGED <<order, failed, runs, late>>

\* The client stops waiting; what it sent may be lost or be executed late.
Abandon(p) ==
  \/ late' = late
  \/ call[p] = "sent" /\ late' = late \cup {Command(p)}

\* No answer: the command, executed or not, is sent again.
Retry(p) ==
  /\ call[p] # "none"
  /\ tries[p] < MaxRetries
  /\ Abandon(p)
  /\ tries' = [tries EXCEPT ![p] = @ + 1]
  /\ call' = [call EXCEPT ![p] = "sent"]
  /\ UNCHANGED <<i, step, order, failed, runs>>

\* The last try failed too: the error is logged and the loop goes on.
GiveUp(p) ==
  /\ call[p] # "none"
  /\ tries[p] = MaxRetries
  /\ Abandon(p)
  /\ failed' = [failed EXCEPT ![p] = @ \cup {<<i[p], step[p]>>}]
  /\ Continue(p)
  /\ UNCHANGED <<order, runs>>

\* The program is killed.
Kill(p) ==
  /\ InLoop(p)
  /\ Abandon(p)
  /\ i' = [i EXCEPT ![p] = 0]
  /\ step' = [step EXCEPT ![p] = 0]
  /\ call' = [call EXCEPT ![p] = "none"]
  /\ tries' = [tries EXCEPT ![p] = 0]
  /\ UNCHANGED <<order, failed, runs>>

Proceed(p) == Answer(p) \/ Retry(p) \/ GiveUp(p)

\* Command s of order n is behind this run and was not logged as failed.
Acknowledged(p, n, s) ==
  /\ runs[p] > 0
  /\ n < i[p] \/ (n = i[p] /\ s < step[p])
  /\ <<n, s>> \notin failed[p]
=============================================================================
