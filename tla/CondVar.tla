------------------------------ MODULE CondVar ------------------------------
(***************************************************************************)
(* cmd/condx/condx.go: goroutines wait on one condition variable; main      *)
(* signals twice, broadcasts and returns, with only time.Sleep in between.  *)
(* Nothing else orders main after the goroutines: a sleep takes as long as  *)
(* the scheduler lets it.  Wait of sync.Cond joins the list of waiters      *)
(* before it releases the lock, and Signal takes the longest waiter.        *)
(***************************************************************************)
EXTENDS Naturals, Sequences

CONSTANT Goroutines

VARIABLES routine,    \* routine[g]: where goroutine g is
          condLock,   \* cond.L is held
          waiters,    \* the list of waiters, the longest first
          mainAt,     \* main's next call
          signalled,  \* history: those that Signal took from the list, in order
          early       \* history: those in the list before the broadcast, in order

condVars == <<routine, condLock, waiters, mainAt, signalled, early>>

Calls == <<"signal", "signal", "broadcast", "return", "exited">>
Exited == mainAt = Len(Calls)

CondTypeOK ==
  /\ routine \in [Goroutines -> {"start", "locked", "waiting", "woken", "holding", "printed", "done"}]
  /\ condLock \in BOOLEAN
  /\ waiters \in Seq(Goroutines) /\ signalled \in Seq(Goroutines) /\ early \in Seq(Goroutines)
  /\ mainAt \in DOMAIN Calls

CondInit ==
  /\ routine = [g \in Goroutines |-> "start"]
  /\ condLock = FALSE
  /\ waiters = << >> /\ signalled = << >> /\ early = << >>
  /\ mainAt = 1

Become(g, from, to) == ~Exited /\ routine[g] = from /\ routine' = [routine EXCEPT ![g] = to]

Wake(S) == routine' = [g \in Goroutines |-> IF g \in S THEN "woken" ELSE routine[g]]

NextCall(c) == Calls[mainAt] = c /\ mainAt' = mainAt + 1

-----------------------------------------------------------------------------
(* Mutants *)

\* A second Signal where Broadcast belongs.
BroadcastOnce ==
  /\ NextCall("broadcast")
  /\ IF waiters = << >> THEN UNCHANGED <<routine, waiters>>
     ELSE Wake({Head(waiters)}) /\ waiters' = Tail(waiters)
  /\ UNCHANGED <<condLock, signalled, early>>

\* The defer is forgotten: the first goroutine that prints keeps the lock.
UnlockForgotten(g) ==
  /\ Become(g, "printed", "done")
  /\ UNCHANGED <<condLock, waiters, mainAt, signalled, early>>

-----------------------------------------------------------------------------
\* cond.L.Lock(), at first and again when Wait returns.
LockCond(g) ==
  /\ ~condLock
  /\ Become(g, "start", "locked") \/ Become(g, "woken", "holding")
  /\ condLock' = TRUE
  /\ UNCHANGED <<waiters, mainAt, signalled, early>>

\* cond.Wait() up to where it blocks.
Wait(g) ==
  /\ Become(g, "locked", "waiting")
  /\ waiters' = Append(waiters, g)
  /\ condLock' = FALSE
  /\ early' = IF mainAt <= 3 THEN Append(early, g) ELSE early
  /\ UNCHANGED <<mainAt, signalled>>

PrintNumber(g) ==
  /\ Become(g, "holding", "printed")
  /\ UNCHANGED <<condLock, waiters, mainAt, signalled, early>>

\* The deferred Unlock.
UnlockCond(g) ==
  /\ Become(g, "printed", "done")
  /\ condLock' = FALSE
  /\ UNCHANGED <<waiters, mainAt, signalled, early>>

\* Signal without the lock; nobody to signal is no error.
Signal ==
  /\ NextCall("signal")
  /\ IF waiters = << >> THEN UNCHANGED <<routine, waiters, signalled>>
     ELSE /\ Wake({Head(waiters)})
          /\ signalled' = Append(signalled, Head(waiters))
          /\ waiters' = Tail(waiters)
  /\ UNCHANGED <<condLock, early>>

Broadcast ==
  /\ NextCall("broadcast")
  /\ Wake({g \in Goroutines : routine[g] = "waiting"})
  /\ waiters' = << >>
  /\ UNCHANGED <<condLock, signalled, early>>

\* main returns after its last sleep, and every goroutine ends with it.
MainReturns ==
  /\ NextCall("return")
  /\ UNCHANGED <<routine, condLock, waiters, signalled, early>>

CondNext ==
  \/ \E g \in Goroutines : LockCond(g) \/ Wait(g) \/ PrintNumber(g) \/ UnlockCond(g)
  \/ Signal \/ Broadcast \/ MainReturns

\* The goroutines and the calls of main before its return go on; a goroutine
\* gets the lock although others take it in between (sync.Mutex hands over).
CondFairness ==
  /\ \A g \in Goroutines :
       SF_condVars(LockCond(g)) /\ WF_condVars(Wait(g) \/ PrintNumber(g) \/ UnlockCond(g))
  /\ WF_condVars(Signal \/ Broadcast)

-----------------------------------------------------------------------------
(* Properties *)

\* Who is left waiting once main has broadcast began to wait after it, and who
\* the two signals woke are the first that waited before the broadcast, in their
\* order (condx.go:23-29).
OnlyLateWait ==
  /\ mainAt > 3 => \A g \in Goroutines : routine[g] = "waiting" => g \notin {early[k] : k \in DOMAIN early}
  /\ Len(signalled) <= Len(early) /\ signalled = SubSeq(early, 1, Len(signalled))

\* A goroutine that waits before the broadcast prints its number, unless main
\* returns first.
EarlyWaitersPrint ==
  \A g \in Goroutines :
    (routine[g] = "waiting" /\ mainAt <= 3) ~> (routine[g] = "done" \/ Exited)
=============================================================================
