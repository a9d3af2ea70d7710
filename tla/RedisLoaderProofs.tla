------------------------- MODULE RedisLoaderProofs -------------------------
(***************************************************************************)
(* What holds of the loaders of cmd/redis/order whatever their commands do  *)
(* to the data: proved here once, and cited for each program on Redis by    *)
(* OrdersProofs.                                                            *)
(***************************************************************************)
EXTENDS RedisLoader, Integers, FiniteSetTheorems, TLAPS

\* A step of program p itself; the others are executions of what was sent.
Moves(p) == Start(p) \/ (\E o \in Draws[p] : Generate(p, o)) \/ Proceed(p) \/ Kill(p)

LoaderNext == (\E p \in Programs : Moves(p)) \/ (\E c \in Sent : Execute(c)) \/ UNCHANGED loader

LoaderTypes ==
  /\ i \in [Programs -> 0 .. N + 1] /\ step \in [Programs -> Nat]
  /\ DOMAIN order = Programs /\ DOMAIN failed = Programs
  /\ call \in [Programs -> {"none", "sent", "executed"}]
  /\ tries \in [Programs -> 0 .. MaxRetries] /\ runs \in [Programs -> 0 .. MaxRuns]
  /\ \A p \in Programs :
       /\ step[p] \in 0 .. Steps[p] /\ order[p] \in Draws[p]
       /\ failed[p] \subseteq (1 .. N) \X (1 .. Steps[p])

\* Outside of its loop a program is at no command, and at a command it waits; it
\* is in its loop only when it was started.
InStep ==
  \A p \in Programs :
    /\ ~InLoop(p) => step[p] = 0
    /\ call[p] = "none" <=> step[p] = 0
    /\ i[p] > 0 => runs[p] > 0

\* What a command c says of the program it came from, which may be further on.
WellSent(c) ==
  /\ c.program \in Programs /\ c.run \in Nat \ {0} /\ c.run <= runs[c.program]
  /\ c.number \in 1 .. N /\ c.step \in 1 .. Steps[c.program] /\ c.order \in Draws[c.program]
  /\ c.try \in 0 .. MaxRetries
  /\ (c.run = runs[c.program] /\ i[c.program] > 0) => c.number <= i[c.program]

LoaderInv == LoaderTypes /\ InStep /\ \A c \in late : WellSent(c)

\* Nothing has been started.
LEMMA LoaderInitInv == LoaderInit => LoaderInv
<1> SUFFICES ASSUME LoaderInit PROVE LoaderInv
  OBVIOUS
<1>1. \A p \in Programs : (CHOOSE o \in Draws[p] : TRUE) \in Draws[p]
  BY LoaderAssumption
<1>2. LoaderTypes
  BY <1>1, LoaderAssumption DEF LoaderInit, LoaderTypes
<1> QED
  BY <1>2 DEF LoaderInit, LoaderInv, InStep, InLoop

\* What the server may execute is well sent, and what is not late is waited for.
LEMMA SentWell ==
  ASSUME LoaderInv
  PROVE  /\ \A p \in Programs : call[p] # "none" => InLoop(p) /\ step[p] # 0 /\ WellSent(Command(p))
         /\ \A c \in Sent : WellSent(c)
         /\ \A c \in Sent : c \notin late => call[c.program] = "sent" /\ c = Command(c.program)
<1>1. ASSUME NEW p \in Programs, call[p] # "none"
      PROVE  InLoop(p) /\ step[p] # 0 /\ WellSent(Command(p))
  <2>1. InLoop(p) /\ step[p] # 0
    BY <1>1 DEF LoaderInv, InStep
  <2> QED
    BY <1>1, <2>1, LoaderAssumption DEF LoaderInv, LoaderTypes, InStep, InLoop, WellSent, Command
<1>2. \A c \in Sent : c \in late \/ \E p \in Programs : call[p] = "sent" /\ c = Command(p) /\ c.program = p
  BY DEF Sent, Command
<1> QED
  BY <1>1, <1>2 DEF LoaderInv

\* A step keeps the commands that stay, when no program goes back within a run.
LEMMA StaysSent ==
  ASSUME LoaderInv, NEW c, WellSent(c), runs' \in [Programs -> Nat], i' \in [Programs -> Nat],
         runs'[c.program] = runs[c.program] \/ runs'[c.program] = runs[c.program] + 1,
         runs'[c.program] = runs[c.program] => i'[c.program] = 0 \/ i'[c.program] >= i[c.program],
         i'[c.program] > 0 /\ runs'[c.program] = runs[c.program] => i[c.program] > 0
  PROVE  /\ c.run \in Nat \ {0} /\ c.run <= runs'[c.program]
         /\ (c.run = runs'[c.program] /\ i'[c.program] > 0) => c.number <= i'[c.program]
<1>1. /\ c.program \in Programs /\ c.run \in Nat \ {0} /\ c.run <= runs[c.program] /\ c.number \in Nat
      /\ (c.run = runs[c.program] /\ i[c.program] > 0) => c.number <= i[c.program]
  BY LoaderAssumption DEF WellSent
<1>2. PICK r \in Nat, q \in Nat, j \in Nat, k \in Nat :
        r = runs[c.program] /\ q = runs'[c.program] /\ j = i[c.program] /\ k = i'[c.program]
  BY <1>1, LoaderAssumption DEF LoaderInv, LoaderTypes
<1>3. q = r \/ q = r + 1
  BY <1>2
<1>4. q = r => (k = 0 \/ k >= j) /\ (k > 0 => j > 0)
  BY <1>2
<1>5. c.run <= r /\ (c.run = r /\ j > 0 => c.number <= j)
  BY <1>1, <1>2
<1>6. c.run <= q /\ (c.run = q /\ k > 0 => c.number <= k)
  BY <1>1, <1>3, <1>4, <1>5
<1> QED
  BY <1>1, <1>2, <1>6

\* What any step of p does: it moves p alone, gives up at most the command that p
\* waits for, and never goes back within a run.
LEMMA MoveEffect ==
  ASSUME LoaderInv, NEW p \in Programs, Moves(p)
  PROVE  /\ LoaderTypes'
         /\ \A q \in Programs : q # p =>
              /\ i'[q] = i[q] /\ step'[q] = step[q] /\ order'[q] = order[q] /\ call'[q] = call[q]
              /\ tries'[q] = tries[q] /\ failed'[q] = failed[q] /\ runs'[q] = runs[q]
         /\ late' = late \/ (call[p] # "none" /\ late' = late \cup {Command(p)})
         /\ runs'[p] = runs[p] \/ runs'[p] = runs[p] + 1
         /\ runs'[p] = runs[p] => i'[p] = 0 \/ i'[p] >= i[p]
         /\ i'[p] > 0 /\ runs'[p] = runs[p] => i[p] > 0
         /\ ~InLoop(p)' => step'[p] = 0
         /\ call'[p] = "none" <=> step'[p] = 0
         /\ i'[p] > 0 => runs'[p] > 0
<1>0. LoaderTypes /\ InStep /\ N \in Nat \ {0} /\ MaxRetries \in Nat /\ MaxRuns \in Nat \ {0}
      /\ Steps[p] \in Nat \ {0}
  BY LoaderAssumption DEF LoaderInv
<1>1. CASE Start(p)
  BY <1>0, <1>1 DEF Start, LoaderTypes, InStep, InLoop
<1>2. ASSUME NEW o \in Draws[p], Generate(p, o)
      PROVE  /\ LoaderTypes' /\ late' = late /\ runs' = runs /\ i' = i
             /\ step'[p] = 1 /\ call'[p] = "sent" /\ InLoop(p)
             /\ \A q \in Programs : q # p =>
                  /\ step'[q] = step[q] /\ order'[q] = order[q] /\ call'[q] = call[q]
                  /\ tries'[q] = tries[q] /\ failed'[q] = failed[q]
  BY <1>0, <1>2 DEF Generate, LoaderTypes, InStep, InLoop
<1>3. ASSUME Continue(p), call[p] # "none"
      PROVE  /\ i' \in [Programs -> 0 .. N + 1] /\ step' \in [Programs -> Nat]
             /\ \A q \in Programs : step'[q] \in 0 .. Steps[q]
             /\ call' \in [Programs -> {"none", "sent", "executed"}]
             /\ tries' \in [Programs -> 0 .. MaxRetries]
             /\ \A q \in Programs : q # p =>
                  i'[q] = i[q] /\ step'[q] = step[q] /\ call'[q] = call[q] /\ tries'[q] = tries[q]
             /\ i'[p] >= i[p] /\ i[p] > 0
             /\ ~InLoop(p)' => step'[p] = 0
             /\ call'[p] = "none" <=> step'[p] = 0
  <2>1. InLoop(p) /\ i[p] \in 1 .. N
    BY <1>0, <1>3 DEF InStep, InLoop
  <2>2. step[p] \in 0 .. Steps[p] /\ step[p] # 0
    BY <1>0, <1>3 DEF InStep, LoaderTypes
  <2>3. CASE step[p] < Steps[p]
    <3>1. step[p] + 1 \in 1 .. Steps[p] /\ step[p] + 1 # 0 /\ step[p] + 1 \in Nat
      BY <1>0, <2>2, <2>3
    <3> QED
      BY <1>0, <1>3, <2>1, <2>3, <3>1 DEF Continue, LoaderTypes, InLoop
  <2>4. CASE ~(step[p] < Steps[p])
    <3>1. i[p] + 1 \in 0 .. N + 1 /\ i[p] + 1 >= i[p]
      BY <1>0, <2>1
    <3> QED
      BY <1>0, <1>3, <2>1, <2>4, <3>1 DEF Continue, LoaderTypes, InLoop
  <2> QED
    BY <2>3, <2>4
<1>4. CASE Answer(p)
  <2>1. call[p] # "none" /\ Continue(p) /\ UNCHANGED <<order, failed, runs, late>>
    BY <1>4 DEF Answer
  <2> QED
    BY <1>0, <1>3, <2>1 DEF LoaderTypes, InStep
<1>5. CASE Retry(p)
  <2>1. /\ call[p] # "none" /\ tries[p] < MaxRetries /\ Abandon(p)
        /\ tries' = [tries EXCEPT ![p] = @ + 1] /\ call' = [call EXCEPT ![p] = "sent"]
        /\ UNCHANGED <<i, step, order, failed, runs>>
    BY <1>5 DEF Retry
  <2>2. tries[p] + 1 \in 0 .. MaxRetries
    BY <1>0, <2>1 DEF LoaderTypes
  <2>3. late' = late \/ late' = late \cup {Command(p)}
    BY <2>1 DEF Abandon
  <2> QED
    BY <1>0, <2>1, <2>2, <2>3 DEF LoaderTypes, InStep, InLoop
<1>6. CASE GiveUp(p)
  <2>1. /\ call[p] # "none" /\ Abandon(p) /\ Continue(p) /\ UNCHANGED <<order, runs>>
        /\ failed' = [failed EXCEPT ![p] = @ \cup {<<i[p], step[p]>>}]
    BY <1>6 DEF GiveUp
  <2>2. <<i[p], step[p]>> \in (1 .. N) \X (1 .. Steps[p])
    BY <1>0, <2>1 DEF LoaderTypes, InStep, InLoop
  <2>3. late' = late \/ late' = late \cup {Command(p)}
    BY <2>1 DEF Abandon
  <2>4. DOMAIN failed' = Programs /\ \A q \in Programs : failed'[q] \subseteq (1 .. N) \X (1 .. Steps[q])
    BY <1>0, <2>1, <2>2 DEF LoaderTypes
  <2>5. \A q \in Programs : q # p => failed'[q] = failed[q]
    BY <1>0, <2>1 DEF LoaderTypes
  <2> QED
    BY <1>0, <1>3, <2>1, <2>3, <2>4, <2>5 DEF LoaderTypes, InStep
<1>7. CASE Kill(p)
  <2>1. /\ InLoop(p) /\ Abandon(p)
        /\ i' = [i EXCEPT ![p] = 0] /\ step' = [step EXCEPT ![p] = 0] /\ call' = [call EXCEPT ![p] = "none"]
        /\ tries' = [tries EXCEPT ![p] = 0] /\ UNCHANGED <<order, failed, runs>>
    BY <1>7 DEF Kill
  <2>2. late' = late \/ (call[p] # "none" /\ late' = late \cup {Command(p)})
    BY <2>1 DEF Abandon
  <2> QED
    BY <1>0, <2>1, <2>2 DEF LoaderTypes, InStep, InLoop
<1>8. ASSUME \E o \in Draws[p] : Generate(p, o)
      PROVE  /\ LoaderTypes'
             /\ \A q \in Programs : q # p =>
                  /\ i'[q] = i[q] /\ step'[q] = step[q] /\ order'[q] = order[q] /\ call'[q] = call[q]
                  /\ tries'[q] = tries[q] /\ failed'[q] = failed[q] /\ runs'[q] = runs[q]
             /\ late' = late /\ runs'[p] = runs[p] /\ i'[p] = i[p] /\ step'[p] = 1 /\ call'[p] = "sent"
             /\ InLoop(p)' /\ runs'[p] > 0 /\ i[p] > 0
  <2>1. PICK o \in Draws[p] : Generate(p, o)
    BY <1>8
  <2> QED
    BY <1>0, <1>2, <2>1 DEF InStep, InLoop
<1>9. CASE \E o \in Draws[p] : Generate(p, o)
  <2>1. i[p] \in Nat /\ i[p] >= i[p]
    BY <1>0 DEF LoaderTypes
  <2> QED
    BY <1>8, <1>9, <2>1 DEF InLoop
<1> QED
  BY <1>1, <1>4, <1>5, <1>6, <1>7, <1>9 DEF Moves, Proceed

\* Every step of every program and every execution preserves the invariant.
LEMMA LoaderStep == LoaderInv /\ LoaderNext => LoaderInv'
<1> SUFFICES ASSUME LoaderInv, LoaderNext PROVE LoaderInv'
  OBVIOUS
<1>1. ASSUME NEW p \in Programs, Moves(p) PROVE LoaderInv'
  <2>1. /\ LoaderTypes'
        /\ \A q \in Programs : q # p =>
             /\ i'[q] = i[q] /\ step'[q] = step[q] /\ order'[q] = order[q] /\ call'[q] = call[q]
             /\ tries'[q] = tries[q] /\ failed'[q] = failed[q] /\ runs'[q] = runs[q]
        /\ late' = late \/ (call[p] # "none" /\ late' = late \cup {Command(p)})
        /\ runs'[p] = runs[p] \/ runs'[p] = runs[p] + 1
        /\ runs'[p] = runs[p] => i'[p] = 0 \/ i'[p] >= i[p]
        /\ i'[p] > 0 /\ runs'[p] = runs[p] => i[p] > 0
        /\ ~InLoop(p)' => step'[p] = 0
        /\ call'[p] = "none" <=> step'[p] = 0
        /\ i'[p] > 0 => runs'[p] > 0
    BY <1>1, MoveEffect
  <2>2. InStep'
    BY <2>1 DEF InStep, InLoop, LoaderInv
  <2>3. runs' \in [Programs -> Nat] /\ i' \in [Programs -> Nat] /\ i \in [Programs -> Nat]
    BY <2>1, LoaderAssumption DEF LoaderTypes, LoaderInv
  <2>4. ASSUME NEW c \in late' PROVE WellSent(c)'
    <3>1. WellSent(c)
      BY <2>1, <2>4, <1>1, SentWell DEF LoaderInv
    <3>2. c.program \in Programs
      BY <3>1 DEF WellSent
    <3>3. /\ runs'[c.program] = runs[c.program] \/ runs'[c.program] = runs[c.program] + 1
          /\ runs'[c.program] = runs[c.program] => i'[c.program] = 0 \/ i'[c.program] >= i[c.program]
          /\ i'[c.program] > 0 /\ runs'[c.program] = runs[c.program] => i[c.program] > 0
      BY <2>1, <2>3, <3>2
    <3>4. /\ c.run \in Nat \ {0} /\ c.run <= runs'[c.program]
          /\ (c.run = runs'[c.program] /\ i'[c.program] > 0) => c.number <= i'[c.program]
      BY <2>3, <3>1, <3>3, StaysSent
    <3> QED
      BY <3>1, <3>4 DEF WellSent
  <2> QED
    BY <2>1, <2>2, <2>4 DEF LoaderInv
<1>2. ASSUME NEW c \in Sent, Execute(c) PROVE LoaderInv'
  <2>1. /\ UNCHANGED <<i, step, order, tries, failed, runs>> /\ late' \subseteq late
        /\ call' = call \/ (c \notin late /\ call' = [call EXCEPT ![c.program] = "executed"])
    BY <1>2 DEF Execute
  <2>2. c \notin late => c.program \in Programs /\ call[c.program] = "sent"
    BY <1>2, SentWell DEF WellSent
  <2>3. /\ call' \in [Programs -> {"none", "sent", "executed"}]
        /\ \A q \in Programs : call'[q] = "none" <=> call[q] = "none"
    BY <2>1, <2>2 DEF LoaderInv, LoaderTypes
  <2> QED
    BY <2>1, <2>3 DEF LoaderInv, LoaderTypes, InStep, InLoop, WellSent
<1>3. CASE UNCHANGED loader
  BY <1>3 DEF loader, LoaderInv, LoaderTypes, InStep, InLoop, WellSent
<1> QED
  BY <1>1, <1>2, <1>3 DEF LoaderNext

\* The types that the modules state follow.
LEMMA LoaderTyped == LoaderInv => LoaderTypeOK
BY DEF LoaderInv, LoaderTypes, LoaderTypeOK, WellSent

\* A command becomes acknowledged when its answer comes, and in no other step.
LEMMA Acknowledges ==
  ASSUME LoaderInv, LoaderNext, NEW p \in Programs, NEW n \in 1 .. N, NEW s \in 1 .. Steps[p],
         Acknowledged(p, n, s)'
  PROVE  /\ runs'[p] = runs[p] /\ i[p] > 0
         /\ Acknowledged(p, n, s) \/ (n = i[p] /\ s = step[p] /\ call[p] = "executed" /\ Answer(p))
<1>0. LoaderTypes /\ InStep /\ N \in Nat \ {0} /\ Steps[p] \in Nat \ {0} /\ n \in Nat \ {0} /\ s \in Nat \ {0}
  BY LoaderAssumption DEF LoaderInv
<1>1. /\ runs'[p] > 0 /\ <<n, s>> \notin failed'[p]
      /\ n < i'[p] \/ (n = i'[p] /\ s < step'[p])
  BY DEF Acknowledged
<1>2. ASSUME runs'[p] = runs[p], i'[p] = i[p], step'[p] = step[p], failed'[p] = failed[p]
      PROVE  runs'[p] = runs[p] /\ i[p] > 0 /\ Acknowledged(p, n, s)
  BY <1>0, <1>1, <1>2 DEF Acknowledged, LoaderTypes
<1>3. CASE Moves(p)
  <2>1. CASE Start(p)
    <3>1. i'[p] = 1 /\ step'[p] = 0
      BY <1>0, <2>1 DEF Start, LoaderTypes, InStep
    <3> QED
      BY <1>0, <1>1, <3>1
  <2>2. ASSUME NEW o \in Draws[p], Generate(p, o)
        PROVE  runs'[p] = runs[p] /\ i[p] > 0 /\ Acknowledged(p, n, s)
    <3>1. i'[p] = i[p] /\ step'[p] = 1 /\ runs'[p] = runs[p] /\ failed'[p] = failed[p] /\ i[p] \in Nat
      BY <1>0, <2>2 DEF Generate, LoaderTypes
    <3>2. n < i[p]
      BY <1>0, <1>1, <3>1
    <3> QED
      BY <1>0, <1>1, <3>1, <3>2 DEF Acknowledged
  <2>3. ASSUME Continue(p), call[p] # "none", UNCHANGED runs
        PROVE  i[p] > 0 /\ (n < i[p] \/ (n = i[p] /\ s <= step[p]))
    <3>1. i[p] \in Nat /\ i[p] > 0 /\ step[p] \in 0 .. Steps[p]
      BY <1>0, <2>3 DEF InStep, InLoop, LoaderTypes
    <3>2. CASE step[p] < Steps[p]
      <4>1. i'[p] = i[p] /\ step'[p] = step[p] + 1
        BY <1>0, <2>3, <3>2 DEF Continue, LoaderTypes
      <4> QED
        BY <1>0, <1>1, <3>1, <4>1
    <3>3. CASE ~(step[p] < Steps[p])
      <4>1. i'[p] = i[p] + 1 /\ step'[p] = 0
        BY <1>0, <2>3, <3>3 DEF Continue, LoaderTypes
      <4>2. n < i[p] + 1 \/ (n = i[p] + 1 /\ s < 0)
        BY <1>1, <4>1
      <4> QED
        BY <1>0, <3>1, <3>3, <4>2
    <3> QED
      BY <3>2, <3>3
  <2>4. CASE Answer(p)
    <3>1. call[p] = "executed" /\ Continue(p) /\ failed'[p] = failed[p] /\ UNCHANGED runs
      BY <2>4 DEF Answer
    <3>2. i[p] > 0 /\ (n < i[p] \/ (n = i[p] /\ s <= step[p])) /\ runs[p] > 0 /\ step[p] \in Nat
      BY <1>0, <1>1, <2>3, <3>1 DEF LoaderTypes
    <3> QED
      BY <1>0, <1>1, <2>4, <3>1, <3>2 DEF Acknowledged
  <2>5. CASE GiveUp(p)
    <3>1. /\ call[p] # "none" /\ Continue(p) /\ UNCHANGED runs
          /\ failed'[p] = failed[p] \cup {<<i[p], step[p]>>}
      BY <1>0, <2>5 DEF GiveUp, LoaderTypes
    <3>2. i[p] > 0 /\ (n < i[p] \/ (n = i[p] /\ s <= step[p])) /\ runs[p] > 0 /\ step[p] \in Nat
      BY <1>0, <1>1, <2>3, <3>1 DEF LoaderTypes
    <3>3. ~(n = i[p] /\ s = step[p]) /\ <<n, s>> \notin failed[p]
      BY <1>1, <3>1
    <3> QED
      BY <1>0, <3>1, <3>2, <3>3 DEF Acknowledged
  <2>6. CASE Retry(p)
    BY <1>2, <2>6 DEF Retry
  <2>7. CASE Kill(p)
    <3>1. i'[p] = 0
      BY <1>0, <2>7 DEF Kill, LoaderTypes
    <3> QED
      BY <1>0, <1>1, <3>1
  <2> QED
    BY <1>3, <2>1, <2>2, <2>4, <2>5, <2>6, <2>7 DEF Moves, Proceed
<1>4. ASSUME NEW q \in Programs, Moves(q), q # p
      PROVE  runs'[p] = runs[p] /\ i[p] > 0 /\ Acknowledged(p, n, s)
  BY <1>2, <1>4, MoveEffect
<1>5. ASSUME NEW c \in Sent, Execute(c)
      PROVE  runs'[p] = runs[p] /\ i[p] > 0 /\ Acknowledged(p, n, s)
  BY <1>2, <1>5 DEF Execute
<1>6. CASE UNCHANGED loader
  BY <1>2, <1>6 DEF loader
<1> QED
  BY <1>3, <1>4, <1>5, <1>6 DEF LoaderNext

\* A command that p waits for is executed by the server, and p stays where it is.
LEMMA Executes ==
  ASSUME LoaderInv, LoaderNext, NEW p \in Programs, call'[p] = "executed"
  PROVE  /\ i'[p] = i[p] /\ step'[p] = step[p] /\ order'[p] = order[p] /\ runs'[p] = runs[p]
         /\ call[p] = "executed" \/ \E c \in Sent : Execute(c) /\ c \notin late /\ c = Command(p)
<1>0. LoaderTypes /\ Steps[p] \in Nat \ {0}
  BY LoaderAssumption DEF LoaderInv
<1>1. CASE Moves(p)
  <2>1. call'[p] = call[p] \/ call'[p] \in {"none", "sent"}
    BY <1>0, <1>1 DEF Moves, Start, Generate, Proceed, Answer, Retry, GiveUp, Continue, Kill, LoaderTypes
  <2>2. ~Start(p) => call'[p] \in {"none", "sent"}
    BY <1>0, <1>1 DEF Moves, Generate, Proceed, Answer, Retry, GiveUp, Continue, Kill, LoaderTypes
  <2>3. ASSUME Start(p) PROVE FALSE
    <3>1. call'[p] = call[p] /\ ~InLoop(p)
      BY <2>3 DEF Start
    <3> QED
      BY <3>1, SentWell
  <2> QED
    BY <2>2, <2>3
<1>2. ASSUME NEW q \in Programs, Moves(q), q # p
      PROVE  /\ i'[p] = i[p] /\ step'[p] = step[p] /\ order'[p] = order[p] /\ runs'[p] = runs[p]
             /\ call'[p] = call[p]
  BY <1>2, MoveEffect
<1>3. ASSUME NEW c \in Sent, Execute(c)
      PROVE  /\ i'[p] = i[p] /\ step'[p] = step[p] /\ order'[p] = order[p] /\ runs'[p] = runs[p]
             /\ call[p] = "executed" \/ (c \notin late /\ c = Command(p))
  <2>1. UNCHANGED <<i, step, order, runs>>
    BY <1>3 DEF Execute
  <2>2. CASE c \in late
    BY <1>3, <2>1, <2>2 DEF Execute
  <2>3. CASE c \notin late
    <3>1. c = Command(c.program) /\ c.program \in Programs
      BY <1>3, <2>3, SentWell DEF WellSent
    <3>2. call'[p] = call[p] \/ p = c.program
      BY <1>0, <1>3, <2>3, <3>1 DEF Execute, LoaderTypes
    <3> QED
      BY <2>1, <2>3, <3>1, <3>2
  <2> QED
    BY <2>2, <2>3
<1>4. CASE UNCHANGED loader
  BY <1>4 DEF loader
<1> QED
  BY <1>1, <1>2, <1>3, <1>4 DEF LoaderNext

-----------------------------------------------------------------------------
(* How often the commands of a program with one command per order are sent: *)
(* at most MaxRetries + 1 times each in a run.                              *)

\* Of the orders lo..hi, those that a run at order j has not finished with.
LeftAt(j, lo, hi) ==
  IF j = 0 \/ j > hi THEN 0 ELSE IF j < lo THEN hi - lo + 1 ELSE hi - j + 1

\* How often the command of order j was given up for a repetition or executed.
OpenAt(j, c, t, lo, hi) ==
  IF j < lo \/ j > hi \/ c = "none" THEN 0 ELSE IF c = "sent" THEN t ELSE t + 1

\* The commands lo..hi of p that may have been executed or be late by now.
Allowance(p, lo, hi) ==
  (runs[p] * (hi - lo + 1) - LeftAt(i[p], lo, hi)) * (MaxRetries + 1)
    + OpenAt(i[p], call[p], tries[p], lo, hi)

LateIn(p, lo, hi) == {c \in late : c.program = p /\ lo <= c.number /\ c.number <= hi}

\* An allowance grows by what is open when another order is behind.
LEMMA AllowanceGrows ==
  ASSUME NEW d \in Nat, NEW e \in Nat, NEW K \in Nat, NEW u \in Nat, NEW v \in Nat, NEW x \in Nat,
         (e >= d + 1 /\ u + x <= K) \/ (e = d /\ v >= u + x)
  PROVE  e * K + v >= d * K + u + x
<1>1. CASE e = d /\ v >= u + x
  <2>1. PICK y \in Nat : y = d * K
    OBVIOUS
  <2>2. e * K = y
    BY <1>1, <2>1
  <2> QED
    BY <1>1, <2>1, <2>2
<1>2. CASE e >= d + 1 /\ u + x <= K
  <2>1. PICK m \in Nat : e = d + 1 + m
    <3>1. e - d - 1 \in Nat /\ e = d + 1 + (e - d - 1)
      BY <1>2
    <3> QED
      BY <3>1
  <2>2. e * K = d * K + K + m * K /\ m * K \in Nat /\ d * K \in Nat
    BY <2>1
  <2>3. PICK y \in Nat, z \in Nat : y = d * K /\ z = m * K
    BY <2>2
  <2> QED
    BY <1>2, <2>2, <2>3
<1> QED
  BY <1>1, <1>2

\* What a step of p's loop does to the orders it has left.
LEMMA LeftShrinks ==
  ASSUME NEW n \in Nat, NEW lo \in Nat \ {0}, NEW hi \in Nat, lo <= hi, hi <= n
  PROVE  /\ \A j \in 0 .. n + 1 : LeftAt(j, lo, hi) \in 0 .. hi - lo + 1
         /\ LeftAt(0, lo, hi) = 0 /\ LeftAt(n + 1, lo, hi) = 0 /\ LeftAt(1, lo, hi) = hi - lo + 1
         /\ \A j \in 1 .. n :
              IF lo <= j /\ j <= hi
                THEN LeftAt(j, lo, hi) = LeftAt(j + 1, lo, hi) + 1 /\ LeftAt(j, lo, hi) > 0
                ELSE LeftAt(j, lo, hi) = LeftAt(j + 1, lo, hi)
<1>1. \A j \in 0 .. n + 1 : LeftAt(j, lo, hi) \in 0 .. hi - lo + 1
  BY DEF LeftAt
<1>2. LeftAt(0, lo, hi) = 0 /\ LeftAt(n + 1, lo, hi) = 0 /\ LeftAt(1, lo, hi) = hi - lo + 1
  BY DEF LeftAt
<1>3. ASSUME NEW j \in 1 .. n, lo <= j, j <= hi
      PROVE  LeftAt(j, lo, hi) = LeftAt(j + 1, lo, hi) + 1 /\ LeftAt(j, lo, hi) > 0
  BY <1>3 DEF LeftAt
<1>4. ASSUME NEW j \in 1 .. n, ~(lo <= j /\ j <= hi)
      PROVE  LeftAt(j, lo, hi) = LeftAt(j + 1, lo, hi)
  BY <1>4 DEF LeftAt
<1> QED
  BY <1>1, <1>2, <1>3, <1>4

\* A command is open at most R + 1 times.
LEMMA OpenBound ==
  ASSUME NEW lo, NEW hi, NEW j, NEW c, NEW R \in Nat, NEW t \in 0 .. R
  PROVE  OpenAt(j, c, t, lo, hi) \in 0 .. R + 1 /\ OpenAt(j, c, t, lo, hi) \in Nat
BY DEF OpenAt

\* What a run has not finished with is within what the runs so far do.
LEMMA DoneBound ==
  ASSUME NEW lo \in Nat \ {0}, NEW hi \in Nat, lo <= hi,
         NEW r \in Nat, NEW j \in Nat, j > 0 => r > 0
  PROVE  r * (hi - lo + 1) - LeftAt(j, lo, hi) \in Nat
<1>1. PICK w \in Nat \ {0} : w = hi - lo + 1
  <2>1. hi - lo + 1 \in Nat \ {0}
    OBVIOUS
  <2> QED
    BY <2>1
<1>2. PICK l \in 0 .. w : l = LeftAt(j, lo, hi)
  <2>1. LeftAt(j, lo, hi) \in 0 .. hi - lo + 1
    BY DEF LeftAt
  <2> QED
    BY <1>1, <2>1
<1>3. l > 0 => r > 0
  BY <1>2 DEF LeftAt
<1>4. CASE r = 0
  BY <1>1, <1>2, <1>3, <1>4
<1>5. CASE r > 0
  <2>1. PICK q \in Nat : r = q + 1
    BY <1>5
  <2>2. r * w = q * w + w /\ q * w \in Nat
    BY <2>1
  <2>3. PICK z \in Nat : z = q * w
    BY <2>2
  <2> QED
    BY <1>1, <1>2, <2>2, <2>3
<1> QED
  BY <1>4, <1>5

\* No more of the commands lo..hi than all runs send.
LEMMA BoundAt ==
  ASSUME NEW n \in Nat, NEW lo \in Nat \ {0}, NEW hi \in Nat, lo <= hi, hi <= n,
         NEW r \in Nat, NEW M \in Nat, r <= M, NEW j \in 0 .. n + 1, j > 0 => r > 0,
         NEW c \in {"none", "sent", "executed"}, NEW R \in Nat, NEW t \in 0 .. R
  PROVE  (r * (hi - lo + 1) - LeftAt(j, lo, hi)) * (R + 1) + OpenAt(j, c, t, lo, hi)
           <= M * (hi - lo + 1) * (R + 1)
<1>1. PICK w \in Nat \ {0} : w = hi - lo + 1
  <2>1. hi - lo + 1 \in Nat \ {0}
    OBVIOUS
  <2> QED
    BY <2>1
<1>2. PICK l \in 0 .. w : l = LeftAt(j, lo, hi)
  BY <1>1, LeftShrinks
<1>3. PICK u \in Nat : u = OpenAt(j, c, t, lo, hi) /\ u <= R + 1
  BY DEF OpenAt
<1>4. (l > 0 => r > 0) /\ (u > 0 => l > 0)
  <2>1. l > 0 => j > 0
    BY <1>2 DEF LeftAt
  <2>2. u > 0 => lo <= j /\ j <= hi
    BY <1>3 DEF OpenAt
  <2>3. lo <= j /\ j <= hi => l > 0
    BY <1>2 DEF LeftAt
  <2> QED
    BY <2>1, <2>2, <2>3
<1>5. PICK m \in Nat : M = r + m
  <2>1. M - r \in Nat /\ M = r + (M - r)
    OBVIOUS
  <2> QED
    BY <2>1
<1>6. r * w - l \in Nat
  BY <1>1, <1>2, DoneBound
<1>7. PICK d \in Nat : d = r * w - l
  BY <1>6
<1>8. PICK K \in Nat : K = R + 1
  OBVIOUS
<1>9. PICK E \in Nat : E = M * w
  OBVIOUS
<1>10. E >= d + l
  <2>1. E = r * w + m * w /\ r * w \in Nat /\ m * w \in Nat
    BY <1>5, <1>9
  <2>2. PICK y \in Nat, z \in Nat : y = r * w /\ z = m * w
    BY <2>1
  <2> QED
    BY <1>7, <2>1, <2>2
<1>11. (E >= d + 1 /\ u + 0 <= K) \/ (E = d /\ 0 >= u + 0)
  BY <1>3, <1>4, <1>8, <1>10
<1>12. E * K + 0 >= d * K + u + 0
  BY <1>11, AllowanceGrows
<1>13. d * K + u <= M * w * K
  BY <1>9, <1>12
<1> QED
  BY <1>1, <1>2, <1>3, <1>6, <1>7, <1>8, <1>13

\* So the allowance is bounded by what all runs may send.
LEMMA AllowanceBound ==
  ASSUME LoaderInv, NEW p \in Programs, NEW lo \in Nat \ {0}, NEW hi \in Nat, lo <= hi, hi <= N
  PROVE  Allowance(p, lo, hi) <= MaxRuns * (hi - lo + 1) * (MaxRetries + 1)
<1>1. /\ N \in Nat /\ MaxRetries \in Nat /\ MaxRuns \in Nat /\ i[p] \in 0 .. N + 1
      /\ runs[p] \in Nat /\ runs[p] <= MaxRuns
      /\ tries[p] \in 0 .. MaxRetries /\ call[p] \in {"none", "sent", "executed"}
      /\ i[p] > 0 => runs[p] > 0
  BY LoaderAssumption DEF LoaderInv, LoaderTypes, InStep
<1> QED
  BY <1>1, BoundAt DEF Allowance

\* A step of p gives up at most what it allows for.
LEMMA MoveAllows ==
  ASSUME LoaderInv, LoaderInv', NEW p \in Programs, Steps[p] = 1, Moves(p),
         NEW lo \in Nat \ {0}, NEW hi \in Nat, lo <= hi, hi <= N
  PROVE  \/ late' = late /\ Allowance(p, lo, hi)' >= Allowance(p, lo, hi)
         \/ /\ call[p] = "sent" /\ late' = late \cup {Command(p)}
            /\ IF lo <= i[p] /\ i[p] <= hi
                 THEN Allowance(p, lo, hi)' >= Allowance(p, lo, hi) + 1
                 ELSE Allowance(p, lo, hi)' >= Allowance(p, lo, hi)
<1> DEFINE w == hi - lo + 1
           In == lo <= i[p] /\ i[p] <= hi
           l == LeftAt(i[p], lo, hi)
           d == runs[p] * w - l
           u == OpenAt(i[p], call[p], tries[p], lo, hi)
           K == MaxRetries + 1
<1>0. /\ LoaderTypes /\ InStep /\ N \in Nat \ {0} /\ MaxRetries \in Nat /\ i[p] \in 0 .. N + 1 /\ runs[p] \in Nat
      /\ step[p] \in 0 .. 1 /\ tries[p] \in 0 .. MaxRetries /\ call[p] \in {"none", "sent", "executed"}
      /\ ~InLoop(p) => step[p] = 0
      /\ call[p] = "none" <=> step[p] = 0
  BY LoaderAssumption DEF LoaderInv, LoaderTypes, InStep
<1>1. /\ p \in DOMAIN i /\ p \in DOMAIN step /\ p \in DOMAIN call /\ p \in DOMAIN tries /\ p \in DOMAIN runs
  BY <1>0 DEF LoaderTypes
<1>2. /\ w \in Nat \ {0} /\ l \in Nat /\ d \in Nat /\ u \in 0 .. MaxRetries + 1 /\ u \in Nat /\ K \in Nat
      /\ Allowance(p, lo, hi) = d * K + u
  <2>1. i[p] > 0 => runs[p] > 0
    BY <1>0 DEF InStep
  <2>2. d \in Nat /\ u \in 0 .. MaxRetries + 1
    <3>1. i[p] \in Nat
      BY <1>0
    <3> QED
      BY <1>0, <2>1, <3>1, DoneBound, OpenBound
  <2>3. l \in 0 .. hi - lo + 1
    BY <1>0, LeftShrinks
  <2> QED
    BY <1>0, <2>2, <2>3 DEF Allowance
<1>3. /\ LeftAt(0, lo, hi) = 0 /\ LeftAt(N + 1, lo, hi) = 0 /\ LeftAt(1, lo, hi) = w
      /\ i[p] \in 1 .. N =>
           IF In THEN l = LeftAt(i[p] + 1, lo, hi) + 1 /\ l > 0 ELSE l = LeftAt(i[p] + 1, lo, hi)
  BY <1>0, LeftShrinks
<1> DEFINE e == runs'[p] * w - LeftAt(i'[p], lo, hi)
           v == OpenAt(i'[p], call'[p], tries'[p], lo, hi)
<1>4. e \in Nat /\ v \in Nat /\ Allowance(p, lo, hi)' = e * K + v
  <2>1. /\ i'[p] \in 0 .. N + 1 /\ runs'[p] \in Nat
        /\ tries'[p] \in 0 .. MaxRetries /\ call'[p] \in {"none", "sent", "executed"}
        /\ i'[p] > 0 => runs'[p] > 0
    BY LoaderAssumption DEF LoaderInv, LoaderTypes, InStep
  <2>2. e \in Nat /\ v \in Nat
    <3>1. PICK r \in Nat, j \in 0 .. N + 1, t \in 0 .. MaxRetries, c \in {"none", "sent", "executed"} :
            r = runs'[p] /\ j = i'[p] /\ t = tries'[p] /\ c = call'[p]
      BY <2>1
    <3>2. j > 0 => r > 0
      BY <2>1, <3>1
    <3>3. r * (hi - lo + 1) - LeftAt(j, lo, hi) \in Nat /\ OpenAt(j, c, t, lo, hi) \in Nat
      BY <1>0, <3>2, DoneBound, OpenBound
    <3> QED
      BY <3>1, <3>3
  <2>3. Allowance(p, lo, hi)' = e * K + v
    BY DEF Allowance
  <2> QED
    BY <2>2, <2>3
<1> SUFFICES ASSUME TRUE
             PROVE  \/ late' = late /\ ((e >= d + 1 /\ u <= K) \/ (e = d /\ v >= u))
                    \/ /\ call[p] = "sent" /\ late' = late \cup {Command(p)}
                       /\ IF In THEN (e >= d + 1 /\ u + 1 <= K) \/ (e = d /\ v >= u + 1)
                                ELSE (e >= d + 1 /\ u <= K) \/ (e = d /\ v >= u)
  <2> HIDE DEF e, d, u, v, K, In
  <2>1. (e >= d + 1 /\ u <= K) \/ (e = d /\ v >= u) => e * K + v >= d * K + u
    <3>1. (e >= d + 1 /\ u + 0 <= K) \/ (e = d /\ v >= u + 0) => e * K + v >= d * K + u + 0
      BY <1>2, <1>4, AllowanceGrows
    <3>2. PICK y \in Nat : y = d * K
      BY <1>2
    <3> QED
      BY <1>2, <1>4, <3>1, <3>2
  <2>2. (e >= d + 1 /\ u + 1 <= K) \/ (e = d /\ v >= u + 1) => e * K + v >= d * K + u + 1
    BY <1>2, <1>4, AllowanceGrows
  <2> QED
    BY <1>2, <1>4, <2>1, <2>2 DEF In
<1>5. runs[p] * w \in Nat /\ (call[p] = "none" => u = 0) /\ (~In => u = 0)
      /\ (In => (call[p] = "sent" => u = tries[p]) /\ (call[p] = "executed" => u = tries[p] + 1))
  BY <1>0, <1>2 DEF OpenAt
<1>6. CASE Start(p)
  <2>1. /\ call[p] = "none" /\ runs'[p] = runs[p] + 1 /\ i'[p] = 1 /\ late' = late /\ i[p] \in {0, N + 1}
    BY <1>0, <1>1, <1>6 DEF Start, InLoop
  <2>2. l = 0 /\ LeftAt(i'[p], lo, hi) = w
    BY <1>3, <2>1
  <2>3. PICK y \in Nat : y = runs[p] * w /\ runs'[p] * w = y + w
    <3>1. (runs[p] + 1) * w = runs[p] * w + w
      BY <1>0, <1>2
    <3> QED
      BY <1>5, <2>1, <3>1
  <2>4. e = d
    BY <1>2, <2>2, <2>3
  <2> QED
    BY <1>4, <1>5, <2>1, <2>4
<1>7. ASSUME runs'[p] = runs[p], i'[p] = i[p] PROVE e = d
  BY <1>7
<1>8. ASSUME NEW o \in Draws[p], Generate(p, o) PROVE late' = late /\ e = d /\ u = 0
  <2>1. call[p] = "none" /\ late' = late /\ runs' = runs /\ i' = i
    BY <1>0, <1>8 DEF Generate
  <2> QED
    BY <1>5, <1>7, <2>1
<1>9. ASSUME Continue(p), call[p] # "none", UNCHANGED runs
      PROVE  IF In THEN e = d + 1 ELSE e = d
  <2>1. i[p] \in 1 .. N /\ step[p] = 1
    BY <1>0, <1>9 DEF InLoop
  <2>2. i'[p] = i[p] + 1
    BY <1>0, <1>1, <1>9, <2>1 DEF Continue
  <2>3. PICK y \in Nat : y = runs[p] * w
    BY <1>5
  <2>4. IF In THEN l = LeftAt(i'[p], lo, hi) + 1 ELSE l = LeftAt(i'[p], lo, hi)
    BY <1>3, <2>1, <2>2
  <2>5. e = y - LeftAt(i'[p], lo, hi) /\ d = y - l
    BY <1>9, <2>3
  <2>6. LeftAt(i'[p], lo, hi) \in Nat
    <3>1. i'[p] \in 0 .. N + 1
      BY <1>0, <2>1, <2>2
    <3> QED
      BY <1>0, <3>1, LeftShrinks
  <2> HIDE DEF e, d, l, In
  <2> QED
    BY <1>2, <1>4, <2>4, <2>5, <2>6
<1>10. CASE Answer(p)
  <2>1. Continue(p) /\ call[p] # "none" /\ late' = late /\ UNCHANGED runs
    BY <1>10 DEF Answer
  <2>2. IF In THEN e = d + 1 ELSE e = d
    BY <1>9, <2>1
  <2> HIDE DEF e, d, u, v, In
  <2> QED
    BY <1>2, <1>4, <1>5, <2>1, <2>2
<1>11. CASE Retry(p)
  <2>1. /\ call[p] # "none" /\ Abandon(p) /\ tries'[p] = tries[p] + 1 /\ call'[p] = "sent"
        /\ i'[p] = i[p] /\ runs'[p] = runs[p] /\ tries[p] < MaxRetries
    BY <1>1, <1>11 DEF Retry
  <2>2. e = d
    BY <1>7, <2>1
  <2>3. In => v = tries[p] + 1
    BY <1>0, <2>1 DEF OpenAt
  <2> HIDE DEF e, d, u, v, In
  <2>4. ~In => v >= u
    BY <1>2, <1>4, <1>5
  <2>5. In => v >= u /\ (call[p] = "sent" => v >= u + 1)
    BY <1>0, <1>5, <2>1, <2>3
  <2> QED
    BY <2>1, <2>2, <2>4, <2>5 DEF Abandon
<1>12. CASE GiveUp(p)
  <2>1. Continue(p) /\ call[p] # "none" /\ Abandon(p) /\ UNCHANGED runs
    BY <1>12 DEF GiveUp
  <2>2. IF In THEN e = d + 1 ELSE e = d
    BY <1>9, <2>1
  <2>3. call[p] = "sent" => u + 1 <= K
    BY <1>0, <1>5
  <2> HIDE DEF e, d, u, v, In
  <2> QED
    BY <1>2, <1>4, <1>5, <2>1, <2>2, <2>3 DEF Abandon
<1>13. CASE Kill(p)
  <2>1. Abandon(p) /\ i'[p] = 0 /\ runs'[p] = runs[p] /\ i[p] \in 1 .. N
    BY <1>1, <1>13 DEF Kill, InLoop
  <2>2. PICK y \in Nat : y = runs[p] * w
    BY <1>5
  <2>3. e = y - 0 /\ d = y - l
    BY <1>3, <2>1, <2>2
  <2>4. In => l > 0
    BY <1>3, <2>1
  <2>5. call[p] = "sent" => u + 1 <= K
    BY <1>0, <1>5
  <2> HIDE DEF e, d, u, v, l, In
  <2>6. e >= d /\ (In => e >= d + 1)
    BY <1>2, <1>4, <2>3, <2>4
  <2>7. e = d \/ e >= d + 1
    BY <1>2, <1>4, <2>6
  <2> QED
    BY <1>2, <1>4, <1>5, <2>1, <2>5, <2>6, <2>7 DEF Abandon
<1>14. CASE \E o \in Draws[p] : Generate(p, o)
  <2>1. late' = late /\ e = d /\ u = 0
    BY <1>8, <1>14
  <2> HIDE DEF e, d, u, v, In
  <2> QED
    BY <1>4, <2>1
<1> HIDE DEF e, d, u, v, In, K
<1> QED
  BY <1>6, <1>10, <1>11, <1>12, <1>13, <1>14 DEF Moves, Proceed

\* When e executions are counted: they and the late commands are within the allowance.
Counted(p, lo, hi, e) ==
  IsFiniteSet(LateIn(p, lo, hi)) /\ e + Cardinality(LateIn(p, lo, hi)) <= Allowance(p, lo, hi)

\* An allowance is a number.
LEMMA AllowanceIsNat ==
  ASSUME LoaderInv, NEW p \in Programs, NEW lo \in Nat \ {0}, NEW hi \in Nat, lo <= hi, hi <= N
  PROVE  Allowance(p, lo, hi) \in Nat
<1>1. PICK r \in Nat, j \in 0 .. N + 1, t \in 0 .. MaxRetries, c \in {"none", "sent", "executed"} :
        r = runs[p] /\ j = i[p] /\ t = tries[p] /\ c = call[p]
  BY LoaderAssumption DEF LoaderInv, LoaderTypes
<1>2. j \in Nat /\ (j > 0 => r > 0)
  BY <1>1, LoaderAssumption DEF LoaderInv, InStep
<1>3. PICK d \in Nat, u \in Nat : d = r * (hi - lo + 1) - LeftAt(j, lo, hi) /\ u = OpenAt(j, c, t, lo, hi)
  <2>1. r * (hi - lo + 1) - LeftAt(j, lo, hi) \in Nat
    BY <1>2, DoneBound
  <2>2. OpenAt(j, c, t, lo, hi) \in Nat
    BY OpenBound, LoaderAssumption
  <2> QED
    BY <2>1, <2>2
<1>4. Allowance(p, lo, hi) = d * (MaxRetries + 1) + u
  BY <1>1, <1>3 DEF Allowance
<1> QED
  BY <1>4, LoaderAssumption

\* A program's own steps execute nothing.
LEMMA MoveCounts ==
  ASSUME LoaderInv, LoaderInv', NEW p \in Programs, Steps[p] = 1, NEW q \in Programs, Moves(q),
         NEW lo \in Nat \ {0}, NEW hi \in Nat, lo <= hi, hi <= N,
         NEW e \in Nat, Counted(p, lo, hi, e)
  PROVE  Counted(p, lo, hi, e)'
<1>0. /\ IsFiniteSet(LateIn(p, lo, hi)) /\ e + Cardinality(LateIn(p, lo, hi)) <= Allowance(p, lo, hi)
      /\ Cardinality(LateIn(p, lo, hi)) \in Nat
  BY FS_CardinalityType DEF Counted
<1>1. PICK k \in Nat, a \in Nat, b \in Nat :
        /\ k = Cardinality(LateIn(p, lo, hi)) /\ a = Allowance(p, lo, hi) /\ b = Allowance(p, lo, hi)' /\ e + k <= a
  <2>1. Allowance(p, lo, hi) \in Nat
    BY AllowanceIsNat
  <2>2. Allowance(p, lo, hi)' \in Nat
    <3>1. PICK r \in Nat, j \in 0 .. N + 1, t \in 0 .. MaxRetries, c \in {"none", "sent", "executed"} :
            r = runs'[p] /\ j = i'[p] /\ t = tries'[p] /\ c = call'[p]
      BY LoaderAssumption DEF LoaderInv, LoaderTypes
    <3>2. j \in Nat /\ (j > 0 => r > 0)
      BY <3>1, LoaderAssumption DEF LoaderInv, InStep
    <3>3. PICK d \in Nat, u \in Nat : d = r * (hi - lo + 1) - LeftAt(j, lo, hi) /\ u = OpenAt(j, c, t, lo, hi)
      <4>1. r * (hi - lo + 1) - LeftAt(j, lo, hi) \in Nat
        BY <3>2, DoneBound
      <4>2. OpenAt(j, c, t, lo, hi) \in Nat
        BY OpenBound, LoaderAssumption
      <4> QED
        BY <4>1, <4>2
    <3>4. Allowance(p, lo, hi)' = d * (MaxRetries + 1) + u
      BY <3>1, <3>3 DEF Allowance
    <3> QED
      BY <3>4, LoaderAssumption
  <2> QED
    BY <1>0, <2>1, <2>2
<1>2. CASE q # p
  <2>1. LateIn(p, lo, hi)' = LateIn(p, lo, hi)
    BY <1>2, MoveEffect DEF LateIn, Command
  <2>2. runs'[p] = runs[p] /\ i'[p] = i[p] /\ call'[p] = call[p] /\ tries'[p] = tries[p]
    BY <1>2, MoveEffect
  <2>3. Allowance(p, lo, hi)' = Allowance(p, lo, hi)
    BY <2>2 DEF Allowance
  <2> QED
    BY <1>0, <2>1, <2>3 DEF Counted
<1>3. CASE q = p
  <2>1. CASE late' = late /\ b >= a
    <3>1. LateIn(p, lo, hi)' = LateIn(p, lo, hi)
      BY <2>1 DEF LateIn
    <3>2. e + k <= b
      BY <1>1, <2>1
    <3> QED
      BY <1>0, <1>1, <3>1, <3>2 DEF Counted
  <2>2. CASE /\ late' = late \cup {Command(p)}
             /\ IF lo <= i[p] /\ i[p] <= hi THEN b >= a + 1 ELSE b >= a
    <3>1. CASE lo <= i[p] /\ i[p] <= hi
      <4>1. LateIn(p, lo, hi)' = LateIn(p, lo, hi) \cup {Command(p)}
        BY <2>2, <3>1 DEF LateIn, Command
      <4>2. /\ IsFiniteSet(LateIn(p, lo, hi)')
            /\ Cardinality(LateIn(p, lo, hi)') = k \/ Cardinality(LateIn(p, lo, hi)') = k + 1
        BY <1>0, <1>1, <4>1, FS_AddElement
      <4>3. b >= a + 1
        BY <2>2, <3>1
      <4>4. e + k <= b /\ e + (k + 1) <= b
        BY <1>1, <4>3
      <4> QED
        BY <1>1, <4>2, <4>4 DEF Counted
    <3>2. CASE ~(lo <= i[p] /\ i[p] <= hi)
      <4>1. LateIn(p, lo, hi)' = LateIn(p, lo, hi)
        BY <2>2, <3>2 DEF LateIn, Command
      <4>2. e + k <= b
        BY <1>1, <2>2, <3>2
      <4> QED
        BY <1>0, <1>1, <4>1, <4>2 DEF Counted
    <3> QED
      BY <3>1, <3>2
  <2> QED
    BY <1>1, <1>3, <2>1, <2>2, MoveAllows
<1> QED
  BY <1>2, <1>3

\* Every execution of a command of p is counted once.
LEMMA ExecuteCounts ==
  ASSUME LoaderInv, NEW p \in Programs, Steps[p] = 1, NEW c \in Sent, Execute(c),
         NEW lo \in Nat \ {0}, NEW hi \in Nat, lo <= hi, hi <= N,
         NEW e \in Nat, Counted(p, lo, hi, e),
         NEW x \in {0, 1}, x = 1 => c.program = p /\ lo <= c.number /\ c.number <= hi
  PROVE  Counted(p, lo, hi, e + x)'
<1>0. /\ IsFiniteSet(LateIn(p, lo, hi)) /\ e + Cardinality(LateIn(p, lo, hi)) <= Allowance(p, lo, hi)
      /\ Cardinality(LateIn(p, lo, hi)) \in Nat
      /\ LoaderTypes /\ N \in Nat
  BY FS_CardinalityType, LoaderAssumption DEF Counted, LoaderInv
<1>1. PICK k \in Nat, a \in Nat :
        k = Cardinality(LateIn(p, lo, hi)) /\ a = Allowance(p, lo, hi) /\ e + k <= a
  BY <1>0, AllowanceIsNat
<1>2. CASE c \in late
  <2>1. late' = late \ {c} /\ UNCHANGED <<runs, i, call, tries>>
    BY <1>2 DEF Execute
  <2>2. Allowance(p, lo, hi)' = a
    BY <1>1, <2>1 DEF Allowance
  <2>3. CASE c \in LateIn(p, lo, hi)
    <3>1. LateIn(p, lo, hi)' = LateIn(p, lo, hi) \ {c}
      BY <2>1 DEF LateIn
    <3>2. IsFiniteSet(LateIn(p, lo, hi)') /\ Cardinality(LateIn(p, lo, hi)') = k - 1
      BY <1>0, <1>1, <2>3, <3>1, FS_RemoveElement
    <3>3. e + x + (k - 1) <= a
      BY <1>1
    <3> QED
      BY <2>2, <3>2, <3>3 DEF Counted
  <2>4. CASE c \notin LateIn(p, lo, hi)
    <3>1. LateIn(p, lo, hi)' = LateIn(p, lo, hi) /\ x = 0
      BY <1>2, <2>1, <2>4 DEF LateIn
    <3>2. e + x = e
      BY <3>1
    <3> QED
      BY <1>0, <1>1, <2>2, <3>1, <3>2 DEF Counted
  <2> QED
    BY <2>3, <2>4
<1>3. CASE c \notin late
  <2>1. /\ c = Command(c.program) /\ c.program \in Programs /\ call[c.program] = "sent"
        /\ late' = late /\ call' = [call EXCEPT ![c.program] = "executed"] /\ UNCHANGED <<runs, i, tries>>
    BY <1>3, SentWell DEF Execute, WellSent
  <2>2. LateIn(p, lo, hi)' = LateIn(p, lo, hi)
    BY <2>1 DEF LateIn
  <2>3. CASE c.program # p
    <3>1. call'[p] = call[p] /\ x = 0
      BY <1>0, <2>1, <2>3 DEF LoaderTypes
    <3>2. Allowance(p, lo, hi)' = a
      BY <1>1, <2>1, <3>1 DEF Allowance
    <3>3. e + x = e
      BY <3>1
    <3> QED
      BY <1>0, <1>1, <2>2, <3>2, <3>3 DEF Counted
  <2>4. CASE c.program = p
    <3>1. call[p] = "sent" /\ call'[p] = "executed" /\ c.number = i[p] /\ i[p] \in 0 .. N + 1 /\ tries[p] \in Nat
      BY <1>0, <2>1, <2>4, LoaderAssumption DEF LoaderTypes, Command
    <3>2. OpenAt(i[p], call'[p], tries[p], lo, hi) >= OpenAt(i[p], call[p], tries[p], lo, hi) + x
          /\ OpenAt(i[p], call'[p], tries[p], lo, hi) \in Nat /\ OpenAt(i[p], call[p], tries[p], lo, hi) \in Nat
      BY <3>1 DEF OpenAt
    <3>3. PICK u \in Nat, v \in Nat :
            /\ u = OpenAt(i[p], call[p], tries[p], lo, hi) /\ v = OpenAt(i[p], call'[p], tries[p], lo, hi)
            /\ v >= u + x
      BY <3>2
    <3>4. PICK y \in Int : y = (runs[p] * (hi - lo + 1) - LeftAt(i[p], lo, hi)) * (MaxRetries + 1)
      <4>1. runs[p] \in Nat /\ LeftAt(i[p], lo, hi) \in Nat /\ MaxRetries \in Nat
        BY <1>0, <3>1, LoaderAssumption, LeftShrinks DEF LoaderTypes
      <4> QED
        BY <4>1
    <3>5. a = y + u /\ Allowance(p, lo, hi)' = y + v
      BY <1>1, <2>1, <3>3, <3>4 DEF Allowance
    <3>6. e + x + k <= y + v
      BY <1>1, <3>3, <3>5
    <3> QED
      BY <1>0, <1>1, <2>2, <3>5, <3>6 DEF Counted
  <2> QED
    BY <2>3, <2>4
<1> QED
  BY <1>2, <1>3

=============================================================================
