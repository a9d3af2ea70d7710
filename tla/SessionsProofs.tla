--------------------------- MODULE SessionsProofs ---------------------------
(***************************************************************************)
(* What the run sessions checks of safety on small instances, proved for    *)
(* every value of the constants: first each program for itself, and at the  *)
(* end all of them in MCSessions.                                           *)
(***************************************************************************)
EXTENDS MCSessions, SequenceTheorems, TLAPS

-----------------------------------------------------------------------------
(* CondVar *)

\* Until the broadcast, who began to wait was signalled or still waits, in this
\* order; who was taken from the list does not begin to wait again.
CondInv ==
  /\ CondTypeOK
  /\ \A k \in DOMAIN early : routine[early[k]] \notin {"start", "locked"}
  /\ mainAt > 3 => \A k \in DOMAIN early : routine[early[k]] # "waiting"
  /\ Len(signalled) <= Len(early) /\ \A k \in 1 .. Len(signalled) : early[k] = signalled[k]
  /\ mainAt <= 3 =>
       /\ Len(early) = Len(signalled) + Len(waiters)
       /\ \A k \in 1 .. Len(waiters) : early[Len(signalled) + k] = waiters[k]

\* One more number at the end of a range.
LEMMA OneMore ==
  ASSUME NEW n \in Nat
  PROVE  \A k \in 1 .. n + 1 : k \in 1 .. n \/ k = n + 1
OBVIOUS

\* A shorter range lies in the longer one.
LEMMA RangeWithin ==
  ASSUME NEW m \in Nat, NEW n \in Nat, m <= n
  PROVE  m <= n + 1 /\ \A k \in 1 .. m : k \in 1 .. n
OBVIOUS

\* No goroutine waits.
LEMMA CondInitInv == CondInit \/ CondOver => CondInv
<1> SUFFICES ASSUME CondInit \/ CondOver PROVE CondInv
  OBVIOUS
<1>1. /\ routine = [g \in Goroutines |-> "start"] /\ condLock = FALSE
      /\ waiters = << >> /\ signalled = << >> /\ early = << >>
      /\ mainAt \in {1, 5}
  BY DEF CondInit, CondOver, Calls
<1>2. Len(waiters) = 0 /\ Len(signalled) = 0 /\ Len(early) = 0 /\ DOMAIN early = {}
  BY <1>1
<1>3. CondTypeOK
  <2>1. mainAt \in DOMAIN Calls
    BY <1>1 DEF Calls
  <2>2. << >> \in Seq(Goroutines)
    OBVIOUS
  <2>3. routine \in [Goroutines -> {"start", "locked", "waiting", "woken", "holding", "printed", "done"}]
    BY <1>1
  <2> QED
    BY <1>1, <2>1, <2>2, <2>3 DEF CondTypeOK
<1> QED
  BY <1>1, <1>2, <1>3 DEF CondInv

\* main makes its calls by their number.
LEMMA MainCalls ==
  ASSUME CondTypeOK, NEW c, NextCall(c)
  PROVE  /\ mainAt \in 1 .. 5 /\ mainAt' = mainAt + 1
         /\ c = "signal" => mainAt \in {1, 2}
         /\ c = "broadcast" => mainAt = 3
         /\ c = "return" => mainAt = 4
<1>1. mainAt \in 1 .. 5
  BY DEF CondTypeOK, Calls
<1>2. Calls[1] = "signal" /\ Calls[2] = "signal" /\ Calls[3] = "broadcast" /\ Calls[4] = "return"
        /\ Calls[5] = "exited"
  BY DEF Calls
<1>3. mainAt = 1 \/ mainAt = 2 \/ mainAt = 3 \/ mainAt = 4 \/ mainAt = 5
  BY <1>1
<1> QED
  BY <1>1, <1>2, <1>3 DEF NextCall

\* What a step of a goroutine leaves: the others are where they were.
LEMMA OneMoves ==
  ASSUME CondTypeOK, NEW g \in Goroutines, NEW from, NEW to \in {"locked", "waiting", "holding", "printed", "done"},
         Become(g, from, to)
  PROVE  /\ routine[g] = from /\ routine'[g] = to /\ mainAt # 5
         /\ \A h \in Goroutines : h # g => routine'[h] = routine[h]
         /\ routine' \in [Goroutines -> {"start", "locked", "waiting", "woken", "holding", "printed", "done"}]
BY DEF CondTypeOK, Become, Exited, Calls

\* A goroutine that does not come from its start and does not begin to wait
\* leaves the invariant, whatever it does to the lock.
LEMMA LateMove ==
  ASSUME CondInv, NEW g \in Goroutines, NEW from, NEW to \in {"locked", "holding", "printed", "done"},
         Become(g, from, to), to = "locked" => from = "start",
         condLock' \in BOOLEAN, UNCHANGED <<waiters, mainAt, signalled, early>>
  PROVE  CondInv'
<1>1. /\ routine[g] = from /\ routine'[g] = to
      /\ \A h \in Goroutines : h # g => routine'[h] = routine[h]
      /\ routine' \in [Goroutines -> {"start", "locked", "waiting", "woken", "holding", "printed", "done"}]
  BY OneMoves DEF CondInv
<1>2. CondTypeOK'
  BY <1>1 DEF CondInv, CondTypeOK
<1>3. \A k \in DOMAIN early : early[k] \in Goroutines
  BY DEF CondInv, CondTypeOK
<1>4. (\A k \in DOMAIN early : routine[early[k]] \notin {"start", "locked"})'
  BY <1>1, <1>3 DEF CondInv
<1>5. (mainAt > 3 => \A k \in DOMAIN early : routine[early[k]] # "waiting")'
  BY <1>1, <1>3 DEF CondInv
<1> QED
  BY <1>2, <1>4, <1>5 DEF CondInv

\* Every step preserves the invariant of the waiters.
LEMMA CondStep == CondInv /\ [CondNext]_condVars => CondInv'
<1> SUFFICES ASSUME CondInv, [CondNext]_condVars PROVE CondInv'
  OBVIOUS
<1> DEFINE Early == \A k \in DOMAIN early : routine[early[k]] \notin {"start", "locked"}
           Late == mainAt > 3 => \A k \in DOMAIN early : routine[early[k]] # "waiting"
           Prefix == Len(signalled) <= Len(early) /\ \A k \in 1 .. Len(signalled) : early[k] = signalled[k]
           Rest == mainAt <= 3 =>
             /\ Len(early) = Len(signalled) + Len(waiters)
             /\ \A k \in 1 .. Len(waiters) : early[Len(signalled) + k] = waiters[k]
<1>0. CondTypeOK /\ Early /\ Late /\ Prefix /\ Rest
  BY DEF CondInv
<1> SUFFICES (CondTypeOK /\ Early /\ Late /\ Prefix /\ Rest)'
  BY DEF CondInv
<1>1. ASSUME NEW g \in Goroutines, LockCond(g) PROVE (CondTypeOK /\ Early /\ Late /\ Prefix /\ Rest)'
  BY <1>0, <1>1, LateMove DEF LockCond, CondInv
<1>2. ASSUME NEW g \in Goroutines, Wait(g) PROVE (CondTypeOK /\ Early /\ Late /\ Prefix /\ Rest)'
  <2>1. /\ routine[g] = "locked" /\ routine'[g] = "waiting"
        /\ \A h \in Goroutines : h # g => routine'[h] = routine[h]
        /\ routine' \in [Goroutines -> {"start", "locked", "waiting", "woken", "holding", "printed", "done"}]
    BY <1>0, <1>2, OneMoves DEF Wait
  <2>2. /\ waiters' = Append(waiters, g) /\ condLock' = FALSE /\ mainAt' = mainAt /\ signalled' = signalled
        /\ early' = IF mainAt <= 3 THEN Append(early, g) ELSE early
    BY <1>0, <1>2 DEF Wait
  <2>3. CondTypeOK'
    <3>1. waiters' \in Seq(Goroutines) /\ early' \in Seq(Goroutines)
      BY <1>0, <2>2 DEF CondTypeOK
    <3> QED
      BY <1>0, <2>1, <2>2, <3>1 DEF CondTypeOK
  <2>4. mainAt \in 1 .. 5 /\ \A k \in DOMAIN early : early[k] \in Goroutines /\ early[k] # g
    BY <1>0, <2>1 DEF CondTypeOK, Calls
  <2>5. CASE mainAt <= 3
    <3>1. /\ Len(early') = Len(early) + 1 /\ early'[Len(early) + 1] = g /\ DOMAIN early' = 1 .. Len(early) + 1
          /\ \A k \in 1 .. Len(early) : early'[k] = early[k]
      BY <1>0, <2>2, <2>5 DEF CondTypeOK
    <3>2. /\ Len(waiters') = Len(waiters) + 1 /\ waiters'[Len(waiters) + 1] = g
          /\ \A k \in 1 .. Len(waiters) : waiters'[k] = waiters[k]
      BY <1>0, <2>2 DEF CondTypeOK
    <3>3. DOMAIN early = 1 .. Len(early) /\ Len(early) \in Nat /\ Len(waiters) \in Nat /\ Len(signalled) \in Nat
      BY <1>0 DEF CondTypeOK
    <3>4. \A k \in DOMAIN early' : routine'[early'[k]] \notin {"start", "locked"}
      <4> SUFFICES ASSUME NEW k \in DOMAIN early' PROVE routine'[early'[k]] \notin {"start", "locked"}
        OBVIOUS
      <4>1. CASE k \in 1 .. Len(early)
        <5>1. early'[k] = early[k] /\ early[k] # g /\ early[k] \in Goroutines
                /\ routine[early[k]] \notin {"start", "locked"}
          BY <1>0, <4>1, <2>4, <3>1, <3>3
        <5> QED
          BY <1>0, <5>1, <2>1
      <4>2. CASE k = Len(early) + 1
        BY <1>0, <4>2, <2>1, <3>1
      <4> QED
        BY <1>0, <4>1, <4>2, <3>1, <3>3, OneMore
    <3>5. Len(signalled') <= Len(early') /\ \A k \in 1 .. Len(signalled') : early'[k] = signalled'[k]
      <4>1. Len(signalled) <= Len(early) /\ \A k \in 1 .. Len(signalled) : early[k] = signalled[k]
        BY <1>0
      <4>2. Len(signalled) <= Len(early')
        BY <1>0, <4>1, <3>1, <3>3, RangeWithin
      <4>3. \A k \in 1 .. Len(signalled) : early'[k] = signalled[k]
        <5> SUFFICES ASSUME NEW k \in 1 .. Len(signalled) PROVE early'[k] = signalled[k]
          OBVIOUS
        <5>1. k \in 1 .. Len(early)
          BY <1>0, <4>1, <3>3, RangeWithin
        <5> QED
          BY <1>0, <4>1, <5>1, <3>1
      <4> QED
        BY <1>0, <4>2, <4>3, <2>2
    <3>6. Len(early) = Len(signalled) + Len(waiters)
          /\ \A k \in 1 .. Len(waiters) : early[Len(signalled) + k] = waiters[k]
      BY <1>0, <2>5
    <3>7. Len(early') = Len(signalled') + Len(waiters')
      BY <1>0, <2>2, <3>1, <3>2, <3>3, <3>6
    <3>8. \A k \in 1 .. Len(waiters') : early'[Len(signalled') + k] = waiters'[k]
      <4> SUFFICES ASSUME NEW k \in 1 .. Len(waiters') PROVE early'[Len(signalled) + k] = waiters'[k]
        BY <1>0, <2>2
      <4>1. CASE k \in 1 .. Len(waiters)
        <5>1. Len(signalled) + k \in 1 .. Len(early)
          BY <1>0, <4>1, <3>3, <3>6
        <5> QED
          BY <1>0, <4>1, <5>1, <3>1, <3>2, <3>6
      <4>2. CASE k = Len(waiters) + 1
        BY <1>0, <4>2, <3>1, <3>2, <3>3, <3>6
      <4> QED
        BY <1>0, <4>1, <4>2, <3>2, <3>3, OneMore
    <3> QED
      <4>1. mainAt' <= 3 /\ ~(mainAt' > 3)
        BY <2>2, <2>4, <2>5
      <4> HIDE DEF Early, Prefix
      <4> QED
        BY <2>3, <3>4, <3>5, <3>7, <3>8, <4>1 DEF Early, Prefix
  <2>6. CASE mainAt > 3
    BY <1>0, <2>1, <2>2, <2>3, <2>4, <2>6
  <2> QED
    BY <1>0, <2>4, <2>5, <2>6
<1>3. ASSUME NEW g \in Goroutines, PrintNumber(g) PROVE (CondTypeOK /\ Early /\ Late /\ Prefix /\ Rest)'
  <2>1. condLock' \in BOOLEAN
    BY <1>0, <1>3 DEF PrintNumber, CondTypeOK
  <2> QED
    BY <1>0, <1>3, <2>1, LateMove DEF PrintNumber, CondInv
<1>4. ASSUME NEW g \in Goroutines, UnlockCond(g) PROVE (CondTypeOK /\ Early /\ Late /\ Prefix /\ Rest)'
  BY <1>0, <1>4, LateMove DEF UnlockCond, CondInv
<1>5. CASE Signal
  <2>1. mainAt \in {1, 2} /\ mainAt' = mainAt + 1
    BY <1>0, <1>5, MainCalls DEF Signal
  <2>2. mainAt' \in DOMAIN Calls /\ mainAt' \in 2 .. 3 /\ mainAt <= 3
    BY <1>0, <2>1 DEF Calls
  <2>3. condLock' = condLock /\ early' = early
    BY <1>0, <1>5 DEF Signal
  <2>4. CASE waiters = << >>
    <3>1. routine' = routine /\ waiters' = waiters /\ signalled' = signalled
      BY <1>0, <1>5, <2>4 DEF Signal
    <3>2. CondTypeOK'
      BY <1>0, <2>2, <2>3, <3>1 DEF CondTypeOK
    <3> QED
      BY <1>0, <2>2, <2>3, <3>1, <3>2
  <2>5. CASE waiters # << >>
    <3>1. /\ routine' = [h \in Goroutines |-> IF h = Head(waiters) THEN "woken" ELSE routine[h]]
          /\ signalled' = Append(signalled, Head(waiters)) /\ waiters' = Tail(waiters)
      BY <1>0, <1>5, <2>5 DEF Signal, Wake
    <3>2. /\ Head(waiters) \in Goroutines /\ Tail(waiters) \in Seq(Goroutines) /\ Len(Tail(waiters)) = Len(waiters) - 1
          /\ Head(waiters) = waiters[1] /\ Len(waiters) \in Nat \ {0}
          /\ \A k \in 1 .. Len(waiters) - 1 : Tail(waiters)[k] = waiters[k + 1]
      BY <1>0, <2>5 DEF CondTypeOK
    <3>3. CondTypeOK'
      BY <1>0, <2>2, <2>3, <3>1, <3>2 DEF CondTypeOK
    <3>4. (\A k \in DOMAIN early : routine[early[k]] \notin {"start", "locked"})'
      BY <1>0, <2>3, <3>1 DEF CondTypeOK
    <3>5. /\ Len(signalled') = Len(signalled) + 1 /\ signalled'[Len(signalled) + 1] = waiters[1]
          /\ \A k \in 1 .. Len(signalled) : signalled'[k] = signalled[k]
      BY <1>0, <3>1, <3>2 DEF CondTypeOK
    <3>6. /\ Len(early) = Len(signalled) + Len(waiters) /\ Len(signalled) \in Nat
          /\ \A k \in 1 .. Len(waiters) : early[Len(signalled) + k] = waiters[k]
          /\ \A k \in 1 .. Len(signalled) : early[k] = signalled[k]
      BY <1>0, <2>2 DEF CondTypeOK
    <3>7. Len(signalled') <= Len(early')
      BY <1>0, <2>3, <3>2, <3>5, <3>6
    <3>8. \A k \in 1 .. Len(signalled') : early'[k] = signalled'[k]
      <4> SUFFICES ASSUME NEW k \in 1 .. Len(signalled') PROVE early[k] = signalled'[k]
        BY <1>0, <2>3
      <4>1. CASE k \in 1 .. Len(signalled)
        BY <1>0, <4>1, <3>5, <3>6
      <4>2. CASE k = Len(signalled) + 1
        BY <1>0, <4>2, <3>2, <3>5, <3>6
      <4> QED
        BY <1>0, <4>1, <4>2, <3>5, <3>6
    <3>9. Len(early') = Len(signalled') + Len(waiters')
      BY <1>0, <2>3, <3>1, <3>2, <3>5, <3>6
    <3>10. \A k \in 1 .. Len(waiters') : early'[Len(signalled') + k] = waiters'[k]
      <4> SUFFICES ASSUME NEW k \in 1 .. Len(waiters') PROVE early[Len(signalled) + 1 + k] = Tail(waiters)[k]
        BY <1>0, <2>3, <3>1, <3>5
      <4>1. k \in 1 .. Len(waiters) - 1
        BY <1>0, <3>1, <3>2
      <4>2. k + 1 \in 1 .. Len(waiters) /\ Len(signalled) + 1 + k = Len(signalled) + (k + 1)
        BY <1>0, <4>1, <3>2, <3>6
      <4> QED
        BY <1>0, <4>1, <4>2, <3>2, <3>6
    <3> QED
      BY <1>0, <2>2, <3>3, <3>4, <3>7, <3>8, <3>9, <3>10
  <2> QED
    BY <1>0, <2>4, <2>5
<1>6. CASE Broadcast
  <2>1. mainAt = 3 /\ mainAt' = 4
    BY <1>0, <1>6, MainCalls DEF Broadcast
  <2>2. /\ routine' = [h \in Goroutines |-> IF h \in {g \in Goroutines : routine[g] = "waiting"} THEN "woken" ELSE routine[h]]
        /\ waiters' = << >> /\ condLock' = condLock /\ signalled' = signalled /\ early' = early
    BY <1>0, <1>6 DEF Broadcast, Wake
  <2>3. CondTypeOK'
    BY <1>0, <2>1, <2>2 DEF CondTypeOK, Calls
  <2>4. \A k \in DOMAIN early : early[k] \in Goroutines
    BY <1>0 DEF CondTypeOK
  <2> QED
    BY <1>0, <2>1, <2>2, <2>3, <2>4
<1>7. CASE MainReturns
  <2>1. mainAt = 4 /\ mainAt' = 5
    BY <1>0, <1>7, MainCalls DEF MainReturns
  <2>2. 5 \in DOMAIN Calls
    BY <1>0 DEF Calls
  <2> QED
    BY <1>0, <1>7, <2>1, <2>2 DEF MainReturns, CondTypeOK
<1>8. CASE UNCHANGED condVars
  BY <1>0, <1>8 DEF condVars, CondTypeOK
<1> QED
  BY <1>0, <1>1, <1>2, <1>3, <1>4, <1>5, <1>6, <1>7, <1>8 DEF CondNext

\* The signalled are the first of the early, so they are their prefix.
LEMMA CondRight == CondInv => CondTypeOK /\ OnlyLateWait
<1> SUFFICES ASSUME CondInv PROVE OnlyLateWait
  BY DEF CondInv
<1>1. /\ signalled \in Seq(Goroutines) /\ early \in Seq(Goroutines)
      /\ Len(signalled) \in Nat /\ Len(early) \in Nat /\ Len(signalled) <= Len(early)
  BY DEF CondInv, CondTypeOK
<1>2. SubSeq(early, 1, Len(signalled)) \in Seq(Goroutines)
      /\ Len(SubSeq(early, 1, Len(signalled))) = Len(signalled)
      /\ \A k \in 1 .. Len(signalled) : SubSeq(early, 1, Len(signalled))[k] = early[k]
  BY <1>1, SubSeqProperties
<1>3. signalled = SubSeq(early, 1, Len(signalled))
  BY <1>1, <1>2, SeqEqual DEF CondInv
<1> QED
  BY <1>1, <1>3 DEF CondInv, OnlyLateWait

-----------------------------------------------------------------------------
(* Greeter *)

Greeted == {"hello", "badRequest", "notLocalized"}

\* An HTTP call that comes to SayHello has a localizer, so its result is no panic,
\* and "userNotFound" for one name only; that result alone drops a call.
GoodCall(c) ==
  /\ (c.over = "http" /\ c.at = "service") => c.localizer
  /\ (c.over = "http" /\ c.at \in {"unwinding", "encoding"}) =>
       c.result \in Greeted \/ (c.name = "error" /\ c.result = "userNotFound")
  /\ (c.over = "http" /\ c.at = "answered") => c.result \in Greeted
  /\ c.at = "dropped" => c.over = "http" /\ c.name = "error"

GreeterInv ==
  /\ GreeterTypeOK
  /\ app = "starting" => \A t \in Transports : servers[t] = "off"
  /\ CallsContained
  /\ \A r \in Requests : GoodCall(calls[r])

\* Nothing has been called.
LEMMA GreeterInitInv == GreeterInit => GreeterInv
BY DEF GreeterInit, GreeterInv, GreeterTypeOK, CallsContained, GoodCall, Greeted, NoCall, Transports

\* Recovery is among the middlewares of both servers.
LEMMA Recovers == \A t : "recovery" \in Chain(t)
BY DEF Chain, HttpChain, GrpcChain

\* A step that changes one call into a good one, and neither the process nor its
\* servers.
LEMMA OneCall ==
  ASSUME GreeterInv, NEW r \in Requests,
         NEW c \in [over : Transports \cup {"none"}, name : {"none", "error", "other"}, localizer : BOOLEAN,
                    at : {"none", "middlewares", "service", "unwinding", "encoding", "answered", "dropped"},
                    result : {"none", "badRequest", "hello", "userNotFound", "notLocalized", "panic", "internal"}],
         GoodCall(c), calls' = [calls EXCEPT ![r] = c], app' = app, servers' = servers
  PROVE  GreeterInv'
<1>1. /\ calls'[r] = c /\ \A q \in Requests : q # r => calls'[q] = calls[q]
      /\ GreeterTypeOK'
  BY DEF GreeterInv, GreeterTypeOK
<1>2. \A q \in Requests : GoodCall(calls'[q])
  BY <1>1 DEF GreeterInv
<1>3. CallsContained'
  BY DEF GreeterInv, CallsContained
<1> QED
  BY <1>1, <1>2, <1>3 DEF GreeterInv

\* A step that leaves the calls alone.
LEMMA NoCallMoves ==
  ASSUME GreeterInv, calls' = calls, GreeterTypeOK', CallsContained',
         app' = "starting" => \A t \in Transports : servers'[t] = "off"
  PROVE  GreeterInv'
BY DEF GreeterInv

\* Every step preserves the invariant of the service.
LEMMA GreeterStep == GreeterInv /\ [GreeterNext]_greeterVars => GreeterInv'
<1> SUFFICES ASSUME GreeterInv, [GreeterNext]_greeterVars PROVE GreeterInv'
  OBVIOUS
<1>0. /\ app \in {"starting", "running", "stopping", "ended", "panicked"}
      /\ servers \in [Transports -> {"off", "serving", "stopped", "failed"}]
      /\ \A r \in Requests : GoodCall(calls[r])
      /\ \A r \in Requests : calls[r] \in
           [over : Transports \cup {"none"}, name : {"none", "error", "other"}, localizer : BOOLEAN,
            at : {"none", "middlewares", "service", "unwinding", "encoding", "answered", "dropped"},
            result : {"none", "badRequest", "hello", "userNotFound", "notLocalized", "panic", "internal"}]
  BY DEF GreeterInv, GreeterTypeOK
<1>1. CASE StartApp
  BY <1>1, NoCallMoves DEF StartApp, GreeterInv, GreeterTypeOK, CallsContained
<1>2. CASE StopSignal
  BY <1>2, NoCallMoves DEF StopSignal, GreeterInv, GreeterTypeOK, CallsContained
<1>3. CASE RunReturns
  BY <1>3, NoCallMoves DEF RunReturns, GreeterInv, GreeterTypeOK, CallsContained
<1>4. ASSUME NEW t \in Transports, Listen(t) PROVE GreeterInv'
  BY <1>4, NoCallMoves DEF Listen, Up, GreeterInv, GreeterTypeOK, CallsContained
<1>5. ASSUME NEW t \in Transports, StopServer(t) PROVE GreeterInv'
  BY <1>5, NoCallMoves DEF StopServer, GreeterInv, GreeterTypeOK, CallsContained
<1>6. ASSUME NEW r \in Requests, NEW t \in Transports, NEW n \in {"error", "other"}, Arrive(r, t, n)
      PROVE GreeterInv'
  <2>0. PICK at \in {"middlewares", "encoding"} : calls' = [calls EXCEPT ![r] =
              [over |-> t, name |-> n, localizer |-> FALSE, at |-> at,
               result |-> IF at = "encoding" THEN "badRequest" ELSE "none"]]
    BY <1>6 DEF Arrive
  <2> DEFINE c == [over |-> t, name |-> n, localizer |-> FALSE, at |-> at,
                   result |-> IF at = "encoding" THEN "badRequest" ELSE "none"]
  <2>1. GoodCall(c)
    BY DEF GoodCall, Greeted
  <2>2. calls' = [calls EXCEPT ![r] = c] /\ app' = app /\ servers' = servers
    BY <1>6, <2>0 DEF Arrive
  <2> QED
    BY <2>1, <2>2, OneCall
<1>7. ASSUME NEW r \in Requests, EnterMiddlewares(r) PROVE GreeterInv'
  <2> DEFINE put == "localize" \in Chain(calls[r].over)
             c == [calls[r] EXCEPT !.at = "service", !.localizer = put]
  <2>0. put \in BOOLEAN
    OBVIOUS
  <2>1. GoodCall(c)
    BY <1>0 DEF GoodCall, Chain, HttpChain
  <2>2. calls' = [calls EXCEPT ![r] = c] /\ app' = app /\ servers' = servers
    BY <1>7, <1>0 DEF EnterMiddlewares, GreeterInv, GreeterTypeOK
  <2> HIDE DEF put
  <2> QED
    BY <1>0, <2>0, <2>1, <2>2, OneCall
<1>8. ASSUME NEW r \in Requests, SayHello(r) PROVE GreeterInv'
  <2>0. PICK result \in IF calls[r].name = "error" THEN {"userNotFound"} ELSE FromContext(r) :
          calls' = [calls EXCEPT ![r].at = "unwinding", ![r].result = result]
    BY <1>8 DEF SayHello
  <2> DEFINE c == [calls[r] EXCEPT !.at = "unwinding", !.result = result]
  <2>1. GoodCall(c)
    BY <1>0, <1>8, <2>0 DEF GoodCall, Greeted, FromContext, SayHello
  <2>2. calls' = [calls EXCEPT ![r] = c] /\ app' = app /\ servers' = servers
    BY <1>8, <1>0, <2>0 DEF SayHello, GreeterInv, GreeterTypeOK
  <2>3. result \in {"hello", "userNotFound", "notLocalized", "panic"}
    BY <2>0 DEF FromContext
  <2> QED
    BY <1>0, <2>1, <2>2, <2>3, OneCall
<1>9. ASSUME NEW r \in Requests, Unwind(r) PROVE GreeterInv'
  <2>1. CASE calls[r].result # "panic"
    <3> DEFINE c == [calls[r] EXCEPT !.at = "encoding"]
    <3>1. GoodCall(c)
      BY <1>0, <1>9, <2>1 DEF GoodCall, Greeted, Unwind
    <3>2. calls' = [calls EXCEPT ![r] = c] /\ app' = app /\ servers' = servers
      BY <1>9, <1>0, <2>1 DEF Unwind, GreeterInv, GreeterTypeOK
    <3> QED
      BY <1>0, <3>1, <3>2, OneCall
  <2>2. CASE calls[r].result = "panic"
    <3> DEFINE c == [calls[r] EXCEPT !.at = "encoding", !.result = "internal"]
    <3>1. GoodCall(c)
      BY <1>0, <1>9, <2>2 DEF GoodCall, Greeted, Unwind
    <3>2. calls' = [calls EXCEPT ![r] = c] /\ app' = app /\ servers' = servers
      BY <1>9, <1>0, <2>2, Recovers DEF Unwind, GreeterInv, GreeterTypeOK
    <3> QED
      BY <1>0, <3>1, <3>2, OneCall
  <2> QED
    BY <2>1, <2>2
<1>10. ASSUME NEW r \in Requests, EncodeReply(r) PROVE GreeterInv'
  <2> DEFINE c == [calls[r] EXCEPT !.at =
                     IF calls[r].over = "http" /\ calls[r].result = "userNotFound" THEN "dropped" ELSE "answered"]
  <2>1. GoodCall(c)
    BY <1>0, <1>10 DEF GoodCall, Greeted, EncodeReply
  <2>2. calls' = [calls EXCEPT ![r] = c] /\ app' = app /\ servers' = servers
    BY <1>10, <1>0 DEF EncodeReply, GreeterInv, GreeterTypeOK
  <2> QED
    BY <1>0, <2>1, <2>2, OneCall
<1>11. CASE UNCHANGED greeterVars
  BY <1>11, NoCallMoves DEF greeterVars, GreeterInv, GreeterTypeOK, CallsContained
<1> QED
  BY <1>1, <1>2, <1>3, <1>4, <1>5, <1>6, <1>7, <1>8, <1>9, <1>10, <1>11 DEF GreeterNext, HandleCall

\* The invariant has both properties of the service.
LEMMA GreeterRight == GreeterInv => GreeterTypeOK /\ CallsRight
BY DEF GreeterInv, CallsRight, GreetedOverHttp, GoodCall, Greeted

-----------------------------------------------------------------------------
(* Sequences of numbers *)

\* The head of what follows goes to the end of what precedes.
LEMMA HeadMoves ==
  ASSUME NEW a \in Seq(Nat), NEW b \in Seq(Nat), b # << >>
  PROVE  Append(a, Head(b)) \o Tail(b) = a \o b
<1> DEFINE l == Append(a, Head(b)) \o Tail(b)
<1>1. /\ Head(b) \in Nat /\ Tail(b) \in Seq(Nat) /\ Len(Tail(b)) = Len(b) - 1 /\ Len(b) \in Nat \ {0}
      /\ \A i \in 1 .. Len(b) - 1 : Tail(b)[i] = b[i + 1]
      /\ Head(b) = b[1]
  BY HeadTailProperties, EmptySeq
<1>2. /\ Append(a, Head(b)) \in Seq(Nat) /\ Len(Append(a, Head(b))) = Len(a) + 1 /\ Len(a) \in Nat
      /\ \A i \in 1 .. Len(a) : Append(a, Head(b))[i] = a[i]
      /\ Append(a, Head(b))[Len(a) + 1] = b[1]
  BY <1>1
<1>3. /\ l \in Seq(Nat) /\ Len(l) = Len(a) + 1 + (Len(b) - 1)
      /\ \A i \in 1 .. Len(a) + 1 + (Len(b) - 1) :
           l[i] = IF i <= Len(a) + 1 THEN Append(a, Head(b))[i] ELSE Tail(b)[i - (Len(a) + 1)]
  BY <1>1, <1>2, ConcatProperties
<1>4. /\ a \o b \in Seq(Nat) /\ Len(a \o b) = Len(a) + Len(b)
      /\ \A i \in 1 .. Len(a) + Len(b) : (a \o b)[i] = IF i <= Len(a) THEN a[i] ELSE b[i - Len(a)]
  BY ConcatProperties
<1>5. Len(l) = Len(a \o b)
  BY <1>1, <1>2, <1>3, <1>4
<1> HIDE DEF l
<1>6. ASSUME NEW i \in 1 .. Len(l) PROVE l[i] = (a \o b)[i]
  <2>1. i \in Nat /\ i \in 1 .. Len(a) + Len(b) /\ i \in 1 .. Len(a) + 1 + (Len(b) - 1)
    BY <1>1, <1>2, <1>3, <1>6
  <2>2. CASE i \in 1 .. Len(a)
    BY <2>1, <2>2, <1>2, <1>3, <1>4
  <2>3. CASE i = Len(a) + 1
    <3>1. i - Len(a) = 1 /\ ~(i <= Len(a)) /\ i <= Len(a) + 1
      BY <2>3, <1>2
    <3> QED
      BY <2>1, <2>3, <3>1, <1>2, <1>3, <1>4
  <2>4. CASE i > Len(a) + 1
    <3>1. /\ i - (Len(a) + 1) \in 1 .. Len(b) - 1 /\ (i - (Len(a) + 1)) + 1 = i - Len(a)
          /\ ~(i <= Len(a)) /\ ~(i <= Len(a) + 1)
      BY <2>1, <2>4, <1>1, <1>2
    <3> QED
      BY <2>1, <3>1, <1>1, <1>3, <1>4
  <2> QED
    <3>1. PICK m \in Nat : m = Len(a)
      BY <1>2
    <3>2. i \in 1 .. m \/ i = m + 1 \/ i > m + 1
      BY <2>1
    <3> QED
      BY <2>2, <2>3, <2>4, <3>1, <3>2
<1>7. l = a \o b
  BY <1>3, <1>4, <1>5, <1>6, SeqEqual
<1> QED
  BY <1>7 DEF l

\* What is appended to the last part is appended to the whole.
LEMMA LastAppended ==
  ASSUME NEW a \in Seq(Nat), NEW b \in Seq(Nat), NEW x \in Nat
  PROVE  a \o Append(b, x) = Append(a \o b, x)
<1>1. /\ a \o b \in Seq(Nat) /\ Len(a \o b) = Len(a) + Len(b) /\ Len(a) \in Nat /\ Len(b) \in Nat
      /\ \A i \in 1 .. Len(a) + Len(b) : (a \o b)[i] = IF i <= Len(a) THEN a[i] ELSE b[i - Len(a)]
  BY ConcatProperties
<1>2. /\ Append(b, x) \in Seq(Nat) /\ Len(Append(b, x)) = Len(b) + 1
      /\ \A i \in 1 .. Len(b) : Append(b, x)[i] = b[i]
      /\ Append(b, x)[Len(b) + 1] = x
  BY <1>1
<1>3. /\ a \o Append(b, x) \in Seq(Nat) /\ Len(a \o Append(b, x)) = Len(a) + (Len(b) + 1)
      /\ \A i \in 1 .. Len(a) + (Len(b) + 1) :
           (a \o Append(b, x))[i] = IF i <= Len(a) THEN a[i] ELSE Append(b, x)[i - Len(a)]
  <2> DEFINE t == Append(b, x)
  <2>1. t \in Seq(Nat) /\ Len(t) = Len(b) + 1
    BY <1>2
  <2> HIDE DEF t
  <2>2. /\ a \o t \in Seq(Nat) /\ Len(a \o t) = Len(a) + Len(t)
        /\ \A i \in 1 .. Len(a) + Len(t) : (a \o t)[i] = IF i <= Len(a) THEN a[i] ELSE t[i - Len(a)]
    BY <2>1, ConcatProperties
  <2> QED
    BY <2>1, <2>2 DEF t
<1> DEFINE r == Append(a \o b, x)
<1>4. /\ r \in Seq(Nat) /\ Len(r) = Len(a) + Len(b) + 1
      /\ \A i \in 1 .. Len(a) + Len(b) : r[i] = (a \o b)[i]
      /\ r[Len(a) + Len(b) + 1] = x
  BY <1>1
<1> DEFINE l == a \o Append(b, x)
<1>5. Len(l) = Len(r) /\ Len(l) = Len(a) + Len(b) + 1
  BY <1>1, <1>3, <1>4
<1>6. l \in Seq(Nat)
  BY <1>3
<1>7. \A i \in 1 .. Len(a) + (Len(b) + 1) : l[i] = IF i <= Len(a) THEN a[i] ELSE Append(b, x)[i - Len(a)]
  BY <1>3
<1> HIDE DEF l, r
<1>8. ASSUME NEW i \in 1 .. Len(l) PROVE l[i] = r[i]
  <2>1. i \in Nat /\ i \in 1 .. Len(a) + (Len(b) + 1)
    BY <1>1, <1>5, <1>8
  <2>2. CASE i \in 1 .. Len(a)
    <3>1. i \in 1 .. Len(a) + Len(b) /\ i <= Len(a)
      BY <2>2, <1>1
    <3> QED
      BY <2>1, <3>1, <1>1, <1>4, <1>7
  <2>3. CASE i > Len(a) /\ i <= Len(a) + Len(b)
    <3>1. i \in 1 .. Len(a) + Len(b) /\ ~(i <= Len(a)) /\ i - Len(a) \in 1 .. Len(b)
      BY <2>1, <2>3, <1>1
    <3> QED
      BY <2>1, <3>1, <1>1, <1>2, <1>4, <1>7
  <2>4. CASE i = Len(a) + Len(b) + 1
    <3>1. ~(i <= Len(a)) /\ i - Len(a) = Len(b) + 1
      BY <2>4, <1>1
    <3> QED
      BY <2>1, <2>4, <3>1, <1>2, <1>4, <1>7
  <2>5. i \in 1 .. Len(a) \/ (i > Len(a) /\ i <= Len(a) + Len(b)) \/ i = Len(a) + Len(b) + 1
    <3>1. Len(a) \in Nat /\ Len(b) \in Nat
      BY <1>1
    <3> QED
      BY <2>1, <3>1
  <2> QED
    BY <2>2, <2>3, <2>4, <2>5
<1>9. l = r
  BY <1>4, <1>5, <1>6, <1>8, SeqEqual
<1> QED
  BY <1>9 DEF l, r

\* A sequence of one element.
LEMMA Single ==
  ASSUME NEW x \in Nat
  PROVE  Append(<< >>, x) = <<x>> /\ <<x>> \in Seq(Nat)
<1> DEFINE l == Append(<< >>, x)
           r == <<x>>
<1>1. l \in Seq(Nat) /\ Len(l) = 1 /\ l[1] = x
  OBVIOUS
<1>2. r \in Seq(Nat) /\ Len(r) = 1 /\ r[1] = x
  OBVIOUS
<1>3. \A i \in 1 .. 1 : i = 1
  OBVIOUS
<1> HIDE DEF l, r
<1>4. l = r
  BY <1>1, <1>2, <1>3, SeqEqual
<1> QED
  BY <1>2, <1>4 DEF l, r

\* A sequence that is not empty is its head and its tail.
LEMMA HeadFirst ==
  ASSUME NEW b \in Seq(Nat), b # << >>
  PROVE  <<Head(b)>> \o Tail(b) = b
<1>1. Append(<< >>, Head(b)) \o Tail(b) = << >> \o b
  BY HeadMoves, EmptySeq
<1>2. << >> \o b = b
  BY ConcatEmptySeq
<1>3. Append(<< >>, Head(b)) = <<Head(b)>>
  BY Single, HeadTailProperties
<1> QED
  BY <1>1, <1>2, <1>3

\* Parts may be joined in either order.
LEMMA Regroup ==
  \A a \in Seq(Nat), b \in Seq(Nat), c \in Seq(Nat) : (a \o b) \o c = a \o (b \o c)
BY ConcatAssociative

\* An element between two sequences belongs to either.
LEMMA Between ==
  ASSUME NEW a \in Seq(Nat), NEW x \in Nat, NEW b \in Seq(Nat)
  PROVE  Append(a, x) \o b = a \o (<<x>> \o b)
<1>1. a \o Append(<< >>, x) = Append(a \o << >>, x)
  BY LastAppended, EmptySeq
<1>2. a \o << >> = a
  BY ConcatEmptySeq
<1>3. Append(<< >>, x) = <<x>> /\ <<x>> \in Seq(Nat)
  BY Single
<1>4. Append(a, x) = a \o <<x>>
  BY <1>1, <1>2, <1>3
<1>5. (a \o <<x>>) \o b = a \o (<<x>> \o b)
  BY <1>3, ConcatAssociative
<1> QED
  BY <1>4, <1>5

-----------------------------------------------------------------------------
(* EchoSession *)

\* What the handler will still echo, and the way of the messages: what was read,
\* what comes back, and that.
Coming == IF handler = "returned" THEN << >>
          ELSE (IF handler = "write" THEN <<hand>> ELSE << >>) \o toServer
Line == (received \o toClient) \o Coming

\* The numbers from 1 up to n, or their first ones, or all of them and Close.
InLine(s, n) ==
  /\ s \in Seq(Nat) /\ Len(s) <= n + 1
  /\ \A k \in 1 .. Len(s) : s[k] = IF k = n + 1 THEN Close ELSE k

\* The start of a line is one.
LEMMA LineStart ==
  ASSUME NEW a \in Seq(Nat), NEW b \in Seq(Nat), NEW n \in Nat, InLine(a \o b, n)
  PROVE  InLine(a, n)
<1>1. /\ Len(a \o b) = Len(a) + Len(b) /\ Len(a) \in Nat /\ Len(b) \in Nat
      /\ \A i \in 1 .. Len(a) + Len(b) : (a \o b)[i] = IF i <= Len(a) THEN a[i] ELSE b[i - Len(a)]
  BY ConcatProperties
<1>2. Len(a) <= n + 1
  BY <1>1 DEF InLine
<1>3. ASSUME NEW k \in 1 .. Len(a) PROVE a[k] = IF k = n + 1 THEN Close ELSE k
  <2>1. k \in 1 .. Len(a) + Len(b) /\ k <= Len(a)
    BY <1>1
  <2>2. k \in 1 .. Len(a \o b)
    BY <2>1, <1>1
  <2> QED
    BY <1>1, <2>1, <2>2 DEF InLine
<1> QED
  BY <1>2, <1>3 DEF InLine

\* What the place of a frame is worth.
LEMMA FramePlace ==
  ASSUME NEW p \in Nat, NEW q \in Nat \ {0}, NEW n \in Nat, p + q <= n + 1
  PROVE  /\ p + 1 \in 1 .. p + q /\ ~(p + 1 <= p) /\ (p + 1) - p = 1
         /\ p <= n /\ (p = n => q = 1) /\ (p + 1 = n + 1 <=> p = n)
OBVIOUS

\* Where a frame stands in the line says which one it is; nothing follows Close.
LEMMA LineFrame ==
  ASSUME NEW a \in Seq(Nat), NEW b \in Seq(Nat), NEW n \in Nat, InLine(a \o b, n), b # << >>
  PROVE  /\ Len(a) <= n /\ Len(a) \in Nat /\ Len(b) \in Nat
         /\ Head(b) = IF Len(a) = n THEN Close ELSE Len(a) + 1
         /\ Len(a) = n => Len(b) = 1 /\ Tail(b) = << >>
<1>1. /\ Len(a \o b) = Len(a) + Len(b) /\ Len(a) \in Nat /\ Len(b) \in Nat \ {0}
      /\ \A i \in 1 .. Len(a) + Len(b) : (a \o b)[i] = IF i <= Len(a) THEN a[i] ELSE b[i - Len(a)]
  BY ConcatProperties, EmptySeq
<1>2. Len(a) + Len(b) <= n + 1
  BY <1>1 DEF InLine
<1>3. /\ Len(a) + 1 \in 1 .. Len(a) + Len(b) /\ ~(Len(a) + 1 <= Len(a)) /\ (Len(a) + 1) - Len(a) = 1
      /\ Len(a) <= n /\ (Len(a) = n => Len(b) = 1)
      /\ (Len(a) + 1 = n + 1 <=> Len(a) = n)
  BY <1>1, <1>2, FramePlace
<1>4. (a \o b)[Len(a) + 1] = b[1]
  BY <1>1, <1>3
<1>5. Len(a) + 1 \in 1 .. Len(a \o b)
  BY <1>1, <1>3
<1>6. b[1] = IF Len(a) = n THEN Close ELSE Len(a) + 1
  BY <1>3, <1>4, <1>5 DEF InLine
<1>7. Head(b) = b[1] /\ Tail(b) \in Seq(Nat) /\ Len(Tail(b)) = Len(b) - 1
  BY HeadTailProperties
<1>8. ASSUME Len(b) = 1 PROVE Tail(b) = << >>
  <2>1. Len(Tail(b)) = 0
    BY <1>7, <1>8
  <2> QED
    BY <2>1, <1>7, EmptySeq
<1> QED
  BY <1>1, <1>3, <1>6, <1>7, <1>8

\* A line that is complete grows by the next message or by Close.
LEMMA LineGrows ==
  ASSUME NEW s, NEW n \in Nat, InLine(s, n), Len(s) = n
  PROVE  /\ InLine(Append(s, n + 1), n + 1) /\ Len(Append(s, n + 1)) = n + 1
         /\ InLine(Append(s, Close), n) /\ Len(Append(s, Close)) = n + 1
<1>1. s \in Seq(Nat) /\ \A k \in 1 .. n : s[k] = IF k = n + 1 THEN Close ELSE k
  BY DEF InLine
<1>2. \A k \in 1 .. n : s[k] = k
  BY <1>1
<1>3. ASSUME NEW x \in Nat
      PROVE  /\ Append(s, x) \in Seq(Nat) /\ Len(Append(s, x)) = n + 1
             /\ \A k \in 1 .. n : Append(s, x)[k] = k
             /\ Append(s, x)[n + 1] = x
  BY <1>1, <1>2
<1>4. Close \in Nat /\ n + 1 \in Nat
  BY DEF Close
<1>5. \A k \in 1 .. n + 1 : k = n + 1 \/ (k \in 1 .. n /\ k # n + 1 /\ k # n + 2)
  OBVIOUS
<1>6. InLine(Append(s, n + 1), n + 1)
  BY <1>3, <1>4, <1>5 DEF InLine
<1>7. InLine(Append(s, Close), n)
  BY <1>3, <1>4, <1>5 DEF InLine
<1> QED
  BY <1>3, <1>4, <1>6, <1>7

\* A line of messages has no Close.
LEMMA LineOfMessages ==
  ASSUME NEW s, NEW n \in Nat, InLine(s, n), \A k \in 1 .. Len(s) : s[k] # Close
  PROVE  Len(s) <= n /\ \A k \in 1 .. Len(s) : s[k] = k
<1>1. s \in Seq(Nat) /\ Len(s) \in Nat
  BY DEF InLine
<1>2. Len(s) # n + 1
  <2> SUFFICES ASSUME Len(s) = n + 1 PROVE FALSE
    OBVIOUS
  <2>1. n + 1 \in 1 .. Len(s)
    BY <1>1
  <2> QED
    BY <2>1 DEF InLine
<1> QED
  BY <1>1, <1>2 DEF InLine

\* Which sequence a complete line is.
LEMMA LineWhole ==
  ASSUME NEW s, NEW n \in Nat, InLine(s, n)
  PROVE  /\ Len(s) = n => s = FirstN(n)
         /\ Len(s) = n + 1 => s = Append(FirstN(n), Close)
<1>1. /\ s \in Seq(Nat) /\ \A k \in 1 .. Len(s) : s[k] = IF k = n + 1 THEN Close ELSE k
      /\ Close \in Nat
  BY DEF InLine, Close
<1>2. FirstN(n) \in Seq(Nat) /\ Len(FirstN(n)) = n /\ \A k \in 1 .. n : FirstN(n)[k] = k
  BY DEF FirstN
<1>3. /\ Append(FirstN(n), Close) \in Seq(Nat) /\ Len(Append(FirstN(n), Close)) = n + 1
      /\ Append(FirstN(n), Close)[n + 1] = Close
      /\ \A k \in 1 .. n : Append(FirstN(n), Close)[k] = k
  <2> HIDE DEF FirstN
  <2> QED
    BY <1>1, <1>2
<1>4. ASSUME Len(s) = n PROVE s = FirstN(n)
  BY <1>1, <1>2, <1>4, SeqEqual
<1>5. ASSUME Len(s) = n + 1 PROVE s = Append(FirstN(n), Close)
  <2>1. \A k \in 1 .. n + 1 : k = n + 1 \/ (k \in 1 .. n /\ k # n + 1)
    OBVIOUS
  <2>2. \A k \in 1 .. Len(s) : s[k] = Append(FirstN(n), Close)[k]
    BY <1>1, <1>3, <1>5, <2>1
  <2> QED
    BY <1>1, <1>3, <1>5, <2>2, SeqEqual
<1> QED
  BY <1>4, <1>5

Running == handler # "returned"

\* The line never breaks off but at its end.  While the connection holds and the
\* client goes on it is complete: the handler cannot have returned before it read
\* Close, and that is the last frame.
TickBelow == client = "write" => sent < MaxTicks

BeforeDial ==
  /\ client = "dial" => /\ sent = 0 /\ received = << >> /\ toClient = << >> /\ toServer = << >>
                        /\ handler = "upgrade" /\ ~broken
  /\ handler = "upgrade" => client = "dial"

WhileWriting ==
  (~broken /\ client \in {"select", "write", "writeClose"}) => Running /\ reader /\ Len(Line) = sent

WhileAwaiting ==
  (~broken /\ client = "await") =>
    /\ Running => reader /\ Len(Line) = sent + 1 /\ toServer # << >>
    /\ ~Running => toServer = << >> /\ Len(Line) \in {sent, sent + 1}
    /\ ~reader => ~Running /\ Len(received) = sent

AfterClose == (~broken /\ client = "closed") => Len(received) = sent

EchoInv ==
  /\ EchoTypeOK /\ TickBelow /\ InLine(Line, sent)
  /\ BeforeDial /\ WhileWriting /\ WhileAwaiting /\ AfterClose

\* An empty way is an empty line.
LEMMA EmptyLine ==
  ASSUME received = << >>, toClient = << >>, toServer = << >>, handler # "write"
  PROVE  Line = << >> /\ \A n \in Nat : InLine(Line, n)
<1>1. << >> \in Seq(Nat) /\ << >> \o << >> = << >> /\ Len(<< >>) = 0
  BY EmptySeq, ConcatEmptySeq
<1>2. Line = << >>
  BY <1>1 DEF Line, Coming
<1> QED
  BY <1>1, <1>2 DEF InLine

\* Neither end has begun, or both are over.
LEMMA EchoInitInv == EchoInit \/ EchoOver => EchoInv
<1> SUFFICES ASSUME EchoInit \/ EchoOver PROVE EchoInv
  OBVIOUS
<1>1. /\ received = << >> /\ toClient = << >> /\ toServer = << >> /\ sent = 0 /\ hand = 0
      /\ broken = FALSE /\ reader = FALSE /\ interrupted = FALSE
      /\ \/ client = "dial" /\ handler = "upgrade"
         \/ client = "exited" /\ handler = "returned"
  BY DEF EchoInit, EchoOver
<1>2. /\ << >> \in Seq(0 .. MaxTicks) /\ << >> \in Seq(1 .. MaxTicks) /\ Len(<< >>) = 0
      /\ 0 \in 0 .. MaxTicks /\ 0 <= Buffer
  BY EchoAssumption
<1>3. EchoTypeOK
  BY <1>1, <1>2 DEF EchoTypeOK
<1>4. InLine(Line, sent)
  BY <1>1, EmptyLine
<1>5. TickBelow /\ BeforeDial /\ WhileWriting /\ WhileAwaiting /\ AfterClose
  BY <1>1 DEF TickBelow, BeforeDial, WhileWriting, WhileAwaiting, AfterClose
<1> QED
  BY <1>3, <1>4, <1>5 DEF EchoInv

\* The parts of the way are sequences of numbers.
LEMMA LineParts ==
  ASSUME EchoTypeOK
  PROVE  /\ received \in Seq(Nat) /\ toClient \in Seq(Nat) /\ toServer \in Seq(Nat)
         /\ Coming \in Seq(Nat) /\ received \o toClient \in Seq(Nat) /\ Line \in Seq(Nat)
         /\ hand \in Nat /\ sent \in Nat
         /\ Len(received) \in Nat /\ Len(toClient) \in Nat /\ Len(toServer) \in Nat
         /\ Len(Line) = Len(received) + Len(toClient) + Len(Coming)
         /\ handler = "returned" => Coming = << >> /\ Line = received \o toClient
         /\ Running /\ handler # "write" => Coming = toServer
         /\ handler = "write" => Coming = <<hand>> \o toServer
<1>1. 0 .. MaxTicks \subseteq Nat /\ 1 .. MaxTicks \subseteq Nat
  BY EchoAssumption
<1>2. received \in Seq(Nat) /\ toClient \in Seq(Nat) /\ toServer \in Seq(Nat)
  BY <1>1, SeqMonotonic DEF EchoTypeOK
<1>3. hand \in Nat /\ sent \in Nat
  BY <1>1 DEF EchoTypeOK
<1>4. <<hand>> \in Seq(Nat) /\ << >> \in Seq(Nat)
  BY <1>3
<1>5. <<hand>> \o toServer \in Seq(Nat) /\ << >> \o toServer = toServer /\ received \o toClient \in Seq(Nat)
  BY <1>2, <1>4, ConcatProperties, ConcatEmptySeq
<1>6. /\ handler = "returned" => Coming = << >>
      /\ Running /\ handler # "write" => Coming = toServer
      /\ handler = "write" => Coming = <<hand>> \o toServer
  BY <1>5 DEF Coming, Running
<1>7. Coming \in Seq(Nat)
  BY <1>2, <1>4, <1>5, <1>6 DEF Running
<1>8. /\ Line \in Seq(Nat) /\ Len(Line) = Len(received) + Len(toClient) + Len(Coming)
      /\ handler = "returned" => Line = received \o toClient
  <2>1. Len(received \o toClient) = Len(received) + Len(toClient)
    BY <1>2, ConcatProperties
  <2>2. Line \in Seq(Nat) /\ Len(Line) = Len(received \o toClient) + Len(Coming)
    BY <1>5, <1>7, ConcatProperties DEF Line
  <2>3. handler = "returned" => Line = received \o toClient
    BY <1>5, <1>6, ConcatEmptySeq DEF Line
  <2> QED
    BY <2>1, <2>2, <2>3
<1>9. Len(received) \in Nat /\ Len(toClient) \in Nat /\ Len(toServer) \in Nat
  BY <1>2
<1> QED
  BY <1>2, <1>3, <1>5, <1>6, <1>7, <1>8, <1>9

\* Every step preserves the types.
LEMMA EchoTypes == EchoTypeOK /\ TickBelow /\ [EchoNext]_echoVars => EchoTypeOK' /\ TickBelow'
<1> SUFFICES ASSUME EchoTypeOK, TickBelow, [EchoNext]_echoVars PROVE EchoTypeOK' /\ TickBelow'
  OBVIOUS
<1>0. MaxTicks \in Nat /\ Buffer \in Nat
  BY EchoAssumption
<1> USE DEF EchoTypeOK, TickBelow, mainVars, readerVars, handlerVars, Main, Handle
<1>1. CASE Connect
  BY <1>1 DEF Connect
<1>2. CASE Interrupt
  BY <1>2 DEF Interrupt
<1>3. CASE Break
  BY <1>3 DEF Break
<1>4. CASE SelectDone
  BY <1>4 DEF SelectDone
<1>5. CASE SelectTick
  BY <1>5 DEF SelectTick
<1>6. CASE SelectInterrupt
  BY <1>6 DEF SelectInterrupt
<1>7. CASE WriteFrame
  <2>1. /\ UNCHANGED <<interrupted, reader, received, handler, hand, toClient, broken>>
        /\ client' \in {"select", "await"} /\ Len(toServer) < Buffer
    BY <1>7 DEF WriteFrame
  <2>2. sent' \in 0 .. MaxTicks /\ \E x \in 0 .. MaxTicks : toServer' = Append(toServer, x)
    <3>1. CASE toServer' = Append(toServer, Close) /\ sent' = sent
      BY <3>1, <1>0 DEF Close
    <3>2. CASE sent' = sent + 1 /\ toServer' = Append(toServer, sent') /\ client = "write"
      <4>1. sent + 1 \in 0 .. MaxTicks
        BY <3>2, <1>0
      <4> QED
        BY <3>2, <4>1
    <3> QED
      BY <1>7, <3>1, <3>2 DEF WriteFrame
  <2>3. toServer' \in Seq(0 .. MaxTicks) /\ Len(toServer') <= Buffer
    <3>1. PICK x \in 0 .. MaxTicks : toServer' = Append(toServer, x)
      BY <2>2
    <3> QED
      BY <2>1, <3>1, <1>0
  <2> QED
    BY <2>1, <2>2, <2>3
<1>8. CASE WriteFails
  BY <1>8 DEF WriteFails
<1>9. CASE Await
  BY <1>9 DEF Await
<1>11. CASE ReadEchoFails
  BY <1>11 DEF ReadEchoFails
<1>10. CASE ReadEcho
  <2>1. /\ Head(toClient) \in 0 .. MaxTicks /\ Tail(toClient) \in Seq(0 .. MaxTicks)
        /\ Len(Tail(toClient)) <= Buffer
    BY <1>0, <1>10 DEF ReadEcho
  <2>2. /\ UNCHANGED <<client, interrupted, sent, handler, hand, toServer, broken>>
        /\ toClient' = Tail(toClient)
    BY <1>10 DEF ReadEcho
  <2>3. reader' \in BOOLEAN /\ received' \in Seq(1 .. MaxTicks)
    <3>1. CASE Head(toClient) = Close
      BY <1>10, <3>1 DEF ReadEcho
    <3>2. CASE Head(toClient) # Close
      <4>1. Head(toClient) \in 1 .. MaxTicks
        BY <2>1, <3>2, <1>0 DEF Close
      <4>2. received' = Append(received, Head(toClient)) /\ reader' = reader
        BY <1>10, <3>2 DEF ReadEcho
      <4> QED
        BY <4>1, <4>2
    <3> QED
      BY <3>1, <3>2
  <2> QED
    BY <2>1, <2>2, <2>3
<1>12. CASE HandlerReads
  <2>1. /\ Head(toServer) \in 0 .. MaxTicks /\ Tail(toServer) \in Seq(0 .. MaxTicks)
        /\ Len(Tail(toServer)) <= Buffer
    BY <1>0, <1>12 DEF HandlerReads
  <2>2. /\ UNCHANGED <<client, interrupted, sent, reader, received, broken>>
        /\ toServer' = Tail(toServer)
    BY <1>12 DEF HandlerReads
  <2>3. /\ handler' \in {"write", "returned"} /\ hand' \in 0 .. MaxTicks
        /\ toClient' \in Seq(0 .. MaxTicks) /\ Len(toClient') <= Buffer
    <3>1. CASE Head(toServer) # Close
      BY <1>12, <2>1, <3>1 DEF HandlerReads
    <3>2. CASE Head(toServer) = Close
      <4>1. Close \in 0 .. MaxTicks
        BY <1>0 DEF Close
      <4>2. Len(toClient) < Buffer =>
              Append(toClient, Close) \in Seq(0 .. MaxTicks) /\ Len(Append(toClient, Close)) <= Buffer
        BY <4>1, <1>0
      <4> QED
        BY <1>12, <3>2, <4>2 DEF HandlerReads
    <3> QED
      BY <3>1, <3>2
  <2> QED
    BY <2>1, <2>2, <2>3
<1>13. CASE Echo
  <2>1. /\ toClient' = Append(toClient, hand) /\ Len(toClient) < Buffer /\ handler' = "read"
        /\ UNCHANGED <<client, interrupted, sent, reader, received, hand, toServer, broken>>
    BY <1>13 DEF Echo
  <2>2. Append(toClient, hand) \in Seq(0 .. MaxTicks) /\ Len(Append(toClient, hand)) <= Buffer
    BY <1>0, <2>1
  <2> QED
    BY <2>1, <2>2
<1>14. CASE HandlerFails
  BY <1>14 DEF HandlerFails
<1>15. CASE UNCHANGED echoVars
  BY <1>15 DEF echoVars
<1> QED
  BY <1>1, <1>2, <1>3, <1>4, <1>5, <1>6, <1>7, <1>8, <1>9, <1>10, <1>11, <1>12, <1>13, <1>14, <1>15
     DEF EchoNext, MainStep, ReaderStep, HandlerStep

\* A step that changes neither the way nor the handler leaves the line.
LEMMA SameLine ==
  ASSUME EchoInv, UNCHANGED <<handler, hand, toServer, toClient, received, sent>>
  PROVE  Line' = Line /\ InLine(Line, sent)' /\ Running' = Running
<1>1. Line' = Line /\ Running' = Running
  BY DEF Line, Coming, Running
<1> QED
  BY <1>1 DEF EchoInv

\* The client's main, the interrupt and a break of the connection.
LEMMA MainKeeps ==
  ASSUME EchoInv, EchoTypeOK', TickBelow',
         Connect \/ Interrupt \/ Break \/ SelectDone \/ SelectTick \/ SelectInterrupt \/ WriteFails \/ Await
  PROVE  EchoInv'
<1>0. EchoTypeOK /\ InLine(Line, sent) /\ BeforeDial /\ WhileWriting /\ WhileAwaiting /\ AfterClose
  BY DEF EchoInv
<1> USE DEF BeforeDial, WhileWriting, WhileAwaiting, AfterClose
<1> SUFFICES (InLine(Line, sent) /\ BeforeDial /\ WhileWriting /\ WhileAwaiting /\ AfterClose)'
  BY DEF EchoInv
<1>1. CASE Connect
  <2>1. /\ client = "dial" /\ handler = "upgrade"
        /\ \/ client' = "select" /\ handler' = "read" /\ reader' = TRUE
           \/ client' = "exited" /\ handler' = "returned"
        /\ UNCHANGED <<interrupted, hand, toServer, toClient, broken, sent, received>>
    BY <1>1 DEF Connect, Main, Handle
  <2>2. received' = << >> /\ toClient' = << >> /\ toServer' = << >> /\ handler' # "write" /\ sent' = 0
    BY <1>0, <2>1
  <2>3. Line' = << >> /\ InLine(Line, sent)'
    <3>1. << >> \in Seq(Nat) /\ << >> \o << >> = << >> /\ Len(<< >>) = 0
      BY EmptySeq, ConcatEmptySeq
    <3>2. Line' = << >>
      BY <2>2, <3>1 DEF Line, Coming
    <3> QED
      BY <2>2, <3>1, <3>2 DEF InLine
  <2>4. Len(Line') = 0
    BY <2>3
  <2> QED
    BY <2>1, <2>2, <2>3, <2>4 DEF Running
<1>2. CASE Interrupt
  <2>1. UNCHANGED <<client, reader, received, handler, hand, toServer, toClient, broken, sent>>
    BY <1>2 DEF Interrupt, readerVars, handlerVars
  <2>2. Line' = Line /\ InLine(Line, sent)' /\ Running' = Running
    BY <2>1, SameLine
  <2> QED
    BY <1>0, <2>1, <2>2
<1>3. CASE Break
  <2>1. /\ UNCHANGED <<client, reader, received, handler, hand, toServer, toClient, sent>>
        /\ broken' = TRUE /\ client # "dial"
    BY <1>3 DEF Break, mainVars, readerVars, handlerVars
  <2>2. Line' = Line /\ InLine(Line, sent)' /\ Running' = Running
    BY <2>1, SameLine
  <2> QED
    BY <1>0, <2>1, <2>2
<1>4. ASSUME UNCHANGED <<reader, received, handler, hand, toServer, toClient, broken, sent>>,
             \/ client = "select" /\ client' \in {"write", "writeClose", "exited"}
             \/ client \in {"write", "writeClose", "await"} /\ client' = "exited"
             \/ client = "await" /\ client' = "closed" /\ ~reader
      PROVE  (InLine(Line, sent) /\ BeforeDial /\ WhileWriting /\ WhileAwaiting /\ AfterClose)'
  <2>1. Line' = Line /\ InLine(Line, sent)' /\ Running' = Running
    BY <1>4, SameLine
  <2> QED
    BY <1>0, <1>4, <2>1
<1>5. CASE SelectDone
  BY <1>4, <1>5 DEF SelectDone, Main, readerVars, handlerVars
<1>6. CASE SelectTick
  BY <1>4, <1>6 DEF SelectTick, Main, readerVars, handlerVars
<1>7. CASE SelectInterrupt
  BY <1>4, <1>7 DEF SelectInterrupt, Main, readerVars, handlerVars
<1>8. CASE WriteFails
  BY <1>4, <1>8 DEF WriteFails, Main, readerVars, handlerVars
<1>9. CASE Await
  BY <1>4, <1>9 DEF Await, Main, readerVars, handlerVars
<1> QED
  BY <1>1, <1>2, <1>3, <1>5, <1>6, <1>7, <1>8, <1>9

\* A message or Close joins a line that was complete.
LEMMA WriteKeeps ==
  ASSUME EchoInv, EchoTypeOK', TickBelow', WriteFrame
  PROVE  EchoInv'
<1>0. EchoTypeOK /\ InLine(Line, sent) /\ BeforeDial /\ WhileWriting /\ WhileAwaiting /\ AfterClose
  BY DEF EchoInv
<1>1. /\ UNCHANGED <<reader, received, handler, hand, toClient, broken>> /\ ~broken
      /\ client \in {"write", "writeClose"}
      /\ \/ client' = "select" /\ sent' = sent + 1 /\ toServer' = Append(toServer, sent + 1)
         \/ client' = "await" /\ sent' = sent /\ toServer' = Append(toServer, Close)
  BY DEF WriteFrame, Main, readerVars, handlerVars
<1>2. Running /\ reader /\ Len(Line) = sent
  BY <1>0, <1>1 DEF WhileWriting
<1>3. PICK x \in Nat : /\ toServer' = Append(toServer, x)
                       /\ \/ client' = "select" /\ sent' = sent + 1 /\ x = sent + 1
                          \/ client' = "await" /\ sent' = sent /\ x = Close
  <2>1. sent + 1 \in Nat /\ Close \in Nat
    BY <1>0, LineParts DEF Close
  <2> QED
    BY <1>1, <2>1
<1>4. /\ received \in Seq(Nat) /\ toClient \in Seq(Nat) /\ toServer \in Seq(Nat)
      /\ Coming \in Seq(Nat) /\ received \o toClient \in Seq(Nat) /\ Line \in Seq(Nat)
      /\ hand \in Nat /\ sent \in Nat
  BY <1>0, LineParts
<1>5. Coming' = Append(Coming, x)
  <2>1. CASE handler = "write"
    <3>1. <<hand>> \in Seq(Nat)
      BY <1>4, Single
    <3>2. <<hand>> \o Append(toServer, x) = Append(<<hand>> \o toServer, x)
      BY <1>4, <3>1, LastAppended
    <3>3. Coming = <<hand>> \o toServer /\ Coming' = <<hand>> \o Append(toServer, x)
      BY <1>1, <1>3, <2>1 DEF Coming
    <3> QED
      BY <3>2, <3>3
  <2>2. CASE handler # "write"
    <3>1. Append(toServer, x) \in Seq(Nat)
      BY <1>4
    <3>2. << >> \o toServer = toServer /\ << >> \o Append(toServer, x) = Append(toServer, x)
      BY <1>4, <3>1, ConcatEmptySeq
    <3>3. Coming = << >> \o toServer /\ Coming' = << >> \o Append(toServer, x)
      BY <1>1, <1>2, <1>3, <2>2 DEF Coming, Running
    <3> QED
      BY <3>2, <3>3
  <2> QED
    BY <2>1, <2>2
<1>6. Line' = Append(Line, x)
  <2>1. (received \o toClient) \o Append(Coming, x) = Append((received \o toClient) \o Coming, x)
    BY <1>4, LastAppended
  <2> QED
    BY <1>1, <1>5, <2>1 DEF Line
<1>7. /\ InLine(Append(Line, sent + 1), sent + 1) /\ Len(Append(Line, sent + 1)) = sent + 1
      /\ InLine(Append(Line, Close), sent) /\ Len(Append(Line, Close)) = sent + 1
  BY <1>0, <1>2, <1>4, LineGrows
<1>8. InLine(Line', sent') /\ Len(Line') = sent + 1
  BY <1>3, <1>6, <1>7
<1>9. toServer' # << >>
  <2>1. Len(Append(toServer, x)) = Len(toServer) + 1 /\ Len(toServer) \in Nat /\ Len(<< >>) = 0
    BY <1>4
  <2> QED
    BY <1>3, <2>1
<1>10. Running' /\ reader' /\ handler' # "upgrade" /\ client' # "dial" /\ client' # "closed"
  BY <1>0, <1>1, <1>2 DEF Running, BeforeDial
<1>11. WhileWriting' /\ WhileAwaiting'
  BY <1>3, <1>8, <1>9, <1>10 DEF WhileWriting, WhileAwaiting
<1> QED
  BY <1>8, <1>10, <1>11 DEF EchoInv, BeforeDial, AfterClose

\* The reader takes the first frame that comes back; when it is Close nothing is
\* behind it.
LEMMA ReadKeeps ==
  ASSUME EchoInv, EchoTypeOK', TickBelow', ReadEcho
  PROVE  EchoInv'
<1>0. EchoTypeOK /\ InLine(Line, sent) /\ BeforeDial /\ WhileWriting /\ WhileAwaiting /\ AfterClose
  BY DEF EchoInv
<1>1. /\ UNCHANGED <<client, sent, handler, hand, toServer, broken>>
      /\ reader /\ toClient # << >> /\ ~ClientGone /\ toClient' = Tail(toClient)
      /\ IF Head(toClient) = Close THEN reader' = FALSE /\ received' = received
         ELSE received' = Append(received, Head(toClient)) /\ reader' = reader
  BY DEF ReadEcho, mainVars, handlerVars
<1>2. /\ received \in Seq(Nat) /\ toClient \in Seq(Nat) /\ toServer \in Seq(Nat)
      /\ Coming \in Seq(Nat) /\ received \o toClient \in Seq(Nat) /\ Line \in Seq(Nat)
      /\ hand \in Nat /\ sent \in Nat
      /\ Len(received) \in Nat /\ Len(toClient) \in Nat
      /\ Len(Line) = Len(received) + Len(toClient) + Len(Coming)
  BY <1>0, LineParts
<1>3. Coming' = Coming /\ Running' = Running
  BY <1>1 DEF Coming, Running
<1>4. client # "dial" /\ client # "closed"
  BY <1>0, <1>1 DEF BeforeDial, ClientGone
<1>5. BeforeDial' /\ AfterClose'
  BY <1>0, <1>1, <1>4 DEF BeforeDial, AfterClose
<1>6. CASE Head(toClient) # Close
  <2>1. Append(received, Head(toClient)) \o Tail(toClient) = received \o toClient
    BY <1>1, <1>2, HeadMoves
  <2>2. Line' = Line /\ reader' = reader
    BY <1>1, <1>3, <1>6, <2>1 DEF Line
  <2>3. WhileWriting' /\ WhileAwaiting'
    BY <1>0, <1>1, <1>3, <2>2 DEF WhileWriting, WhileAwaiting
  <2> QED
    BY <1>0, <1>1, <1>5, <2>2, <2>3 DEF EchoInv
<1>7. CASE Head(toClient) = Close
  <2>1. InLine(received \o toClient, sent) /\ InLine(received, sent)
    <3>1. InLine(received \o toClient, sent)
      BY <1>0, <1>2, LineStart DEF Line
    <3> QED
      BY <1>2, <3>1, LineStart
  <2>2. /\ Len(received) <= sent
        /\ Close = IF Len(received) = sent THEN Close ELSE Len(received) + 1
        /\ Len(received) = sent => Len(toClient) = 1 /\ Tail(toClient) = << >>
    BY <1>1, <1>2, <1>7, <2>1, LineFrame
  <2>3. Len(received) = sent
    BY <1>2, <2>2 DEF Close
  <2>4. Len(toClient) = 1 /\ Tail(toClient) = << >>
    BY <2>2, <2>3
  <2>5. Len(Coming) = 0 /\ Coming = << >>
    <3>1. Len(Line) <= sent + 1
      BY <1>0 DEF InLine
    <3>2. Len(Coming) \in Nat
      BY <1>2
    <3>3. Len(Coming) = 0
      BY <1>2, <2>3, <2>4, <3>1, <3>2
    <3> QED
      BY <1>2, <3>3, EmptySeq
  <2>6. Len(Line) = sent + 1
    BY <1>2, <2>3, <2>4, <2>5
  <2>7. Line' = received
    <3>1. received \o << >> = received
      BY <1>2, ConcatEmptySeq
    <3>2. Line' = (received' \o toClient') \o Coming'
      BY DEF Line
    <3>3. received' = received /\ toClient' = << >> /\ Coming' = << >>
      BY <1>1, <1>3, <1>7, <2>4, <2>5
    <3> QED
      BY <3>1, <3>2, <3>3
  <2>8. InLine(Line', sent') /\ Len(Line') = sent /\ received' = received /\ reader' = FALSE
    BY <1>1, <1>7, <2>1, <2>3, <2>7
  <2>9. broken \/ client \notin {"select", "write", "writeClose"}
    BY <1>0, <1>2, <2>6 DEF WhileWriting
  <2>10. ASSUME ~broken, client = "await" PROVE ~Running /\ toServer = << >>
    <3>1. ASSUME Running PROVE FALSE
      <4>1. toServer # << >>
        BY <1>0, <2>10, <3>1 DEF WhileAwaiting
      <4>2. Coming = toServer \/ Coming = <<hand>> \o toServer
        BY <1>0, <3>1, LineParts
      <4>3. <<hand>> \in Seq(Nat)
        BY <1>2, Single
      <4>4. <<hand>> \o toServer = << >> => toServer = << >>
        BY <1>2, <4>3, ConcatEqualIffEmpty
      <4> QED
        BY <2>5, <4>1, <4>2, <4>4
    <3> QED
      BY <1>0, <2>10, <3>1 DEF WhileAwaiting
  <2>11. WhileWriting' /\ WhileAwaiting'
    BY <1>1, <1>3, <2>3, <2>8, <2>9, <2>10 DEF WhileWriting, WhileAwaiting
  <2> QED
    BY <1>1, <1>5, <2>8, <2>11 DEF EchoInv
<1> QED
  BY <1>6, <1>7

\* The reader passes no Close on.
LEMMA ReadNoClose ==
  ASSUME EchoTypeOK
  PROVE  \A k \in 1 .. Len(received) : received[k] # Close
<1>1. received \in Seq(1 .. MaxTicks)
  BY DEF EchoTypeOK
<1>2. \A k \in 1 .. Len(received) : received[k] \in 1 .. MaxTicks
  BY <1>1, ElementOfSeq
<1>3. \A x \in 1 .. MaxTicks : x # 0
  BY EchoAssumption
<1> QED
  BY <1>2, <1>3 DEF Close

\* The reader fails of itself only behind a handler that has returned.
LEMMA ReadFailsKeeps ==
  ASSUME EchoInv, EchoTypeOK', TickBelow', ReadEchoFails
  PROVE  EchoInv'
<1>0. EchoTypeOK /\ InLine(Line, sent) /\ BeforeDial /\ WhileWriting /\ WhileAwaiting /\ AfterClose
  BY DEF EchoInv
<1>1. /\ UNCHANGED <<client, sent, handler, hand, toServer, toClient, broken, received>>
      /\ broken \/ (handler = "returned" /\ toClient = << >>)
  BY DEF ReadEchoFails, mainVars, handlerVars
<1>2. Line' = Line /\ InLine(Line, sent)' /\ Running' = Running
  BY <1>1, SameLine
<1>3. WhileWriting'
  BY <1>0, <1>1, <1>2 DEF WhileWriting, Running
<1>4. ASSUME ~broken, client = "await" PROVE ~Running /\ Len(received) = sent
  <2>1. ~Running /\ toClient = << >> /\ Len(Line) \in {sent, sent + 1}
    BY <1>0, <1>1, <1>4 DEF WhileAwaiting, Running
  <2>2. received \in Seq(Nat) /\ sent \in Nat /\ Len(received) \in Nat /\ Line = received \o toClient
    BY <1>0, <1>1, <1>4, LineParts
  <2>3. Line = received
    BY <2>1, <2>2, ConcatEmptySeq
  <2>4. \A k \in 1 .. Len(received) : received[k] # Close
    BY <1>0, ReadNoClose
  <2>5. Len(received) <= sent
    BY <1>0, <2>2, <2>3, <2>4, LineOfMessages
  <2> QED
    BY <2>1, <2>2, <2>3, <2>5
<1>5. WhileAwaiting'
  BY <1>0, <1>1, <1>2, <1>4 DEF WhileAwaiting
<1> QED
  BY <1>0, <1>1, <1>2, <1>3, <1>5 DEF EchoInv, BeforeDial, AfterClose

\* The handler takes the next frame; after Close it returns, and leaves nothing.
LEMMA HandlerReadsKeeps ==
  ASSUME EchoInv, EchoTypeOK', TickBelow', HandlerReads
  PROVE  EchoInv'
<1>0. EchoTypeOK /\ InLine(Line, sent) /\ BeforeDial /\ WhileWriting /\ WhileAwaiting /\ AfterClose
  BY DEF EchoInv
<1>1. /\ UNCHANGED <<client, sent, reader, received, broken>>
      /\ toServer # << >> /\ ~broken /\ toServer' = Tail(toServer) /\ handler = "read"
      /\ IF Head(toServer) # Close
           THEN handler' = "write" /\ hand' = Head(toServer) /\ toClient' = toClient
           ELSE /\ handler' = "returned" /\ hand' = hand
                /\ toClient' = Append(toClient, Close) \/ toClient' = toClient
  BY DEF HandlerReads, mainVars, readerVars, Handle
<1>2. /\ received \in Seq(Nat) /\ toClient \in Seq(Nat) /\ toServer \in Seq(Nat)
      /\ received \o toClient \in Seq(Nat) /\ Line \in Seq(Nat) /\ sent \in Nat
      /\ Coming = toServer /\ Running
  BY <1>0, <1>1, LineParts DEF Running
<1>3. Line = (received \o toClient) \o toServer
  BY <1>2 DEF Line
<1>4. client # "dial" /\ handler' # "upgrade" /\ BeforeDial' /\ AfterClose'
  BY <1>0, <1>1 DEF BeforeDial, AfterClose
<1>5. /\ Head(toServer) = IF Len(received \o toClient) = sent THEN Close ELSE Len(received \o toClient) + 1
      /\ Len(received \o toClient) = sent => Len(toServer) = 1 /\ Tail(toServer) = << >>
      /\ Len(received \o toClient) \in Nat
  BY <1>0, <1>1, <1>2, <1>3, LineFrame
<1>6. CASE Head(toServer) # Close
  <2>1. <<Head(toServer)>> \o Tail(toServer) = toServer
    BY <1>1, <1>2, HeadFirst
  <2>2. Coming' = toServer /\ Running'
    BY <1>1, <1>6, <2>1 DEF Coming, Running
  <2>3. Line' = Line
    BY <1>1, <1>3, <1>6, <2>2 DEF Line
  <2>4. ASSUME client = "await" PROVE toServer' # << >>
    <3>1. Len(Line) = sent + 1
      BY <1>0, <1>1, <1>2, <2>4 DEF WhileAwaiting
    <3>2. Len(received \o toClient) # sent
      BY <1>5, <1>6
    <3>3. Len(Line) = Len(received \o toClient) + Len(toServer) /\ Len(toServer) \in Nat \ {0}
      BY <1>1, <1>2, <1>3, ConcatProperties, EmptySeq
    <3>4. Len(toServer) # 1
      <4>1. PICK p \in Nat : p = Len(received \o toClient)
        BY <1>5
      <4>2. p + Len(toServer) = sent + 1 /\ p # sent
        BY <3>1, <3>2, <3>3, <4>1
      <4>3. \A n \in Nat : p + 1 = n + 1 => p = n
        OBVIOUS
      <4> QED
        BY <1>2, <4>2, <4>3
    <3>5. Len(Tail(toServer)) = Len(toServer) - 1 /\ Len(<< >>) = 0
      BY <1>1, <1>2, HeadTailProperties
    <3>6. Len(Tail(toServer)) # 0
      BY <3>3, <3>4, <3>5
    <3> QED
      BY <1>1, <3>5, <3>6
  <2>5. WhileWriting' /\ WhileAwaiting'
    BY <1>0, <1>1, <1>2, <2>2, <2>3, <2>4 DEF WhileWriting, WhileAwaiting
  <2> QED
    BY <1>0, <1>1, <1>4, <2>3, <2>5 DEF EchoInv
<1>7. CASE Head(toServer) = Close
  <2>1. Len(received \o toClient) = sent /\ Len(toServer) = 1 /\ Tail(toServer) = << >>
    <3>1. Len(received \o toClient) = sent
      BY <1>5, <1>7 DEF Close
    <3> QED
      BY <1>5, <3>1
  <2>2. InLine(received \o toClient, sent)
    BY <1>0, <1>2, <1>3, LineStart
  <2>3. InLine(Append(received \o toClient, Close), sent) /\ Len(Append(received \o toClient, Close)) = sent + 1
    BY <1>2, <2>1, <2>2, LineGrows
  <2>4. Line' = received \o toClient \/ Line' = Append(received \o toClient, Close)
    <3>1. Close \in Nat
      BY DEF Close
    <3>2. received \o Append(toClient, Close) = Append(received \o toClient, Close)
      BY <1>2, <3>1, LastAppended
    <3>3. Append(received \o toClient, Close) \in Seq(Nat)
      BY <1>2, <3>1
    <3>4. (received \o toClient) \o << >> = received \o toClient
          /\ Append(received \o toClient, Close) \o << >> = Append(received \o toClient, Close)
      BY <1>2, <3>3, ConcatEmptySeq
    <3>5. Coming' = << >> /\ received' = received
      BY <1>1, <1>7 DEF Coming
    <3>6. Line' = (received \o toClient') \o << >>
      BY <3>5 DEF Line
    <3>7. toClient' = Append(toClient, Close) \/ toClient' = toClient
      BY <1>1, <1>7
    <3> QED
      BY <3>2, <3>4, <3>6, <3>7
  <2>5. InLine(Line', sent') /\ Len(Line') \in {sent, sent + 1} /\ ~Running' /\ toServer' = << >>
    BY <1>1, <1>7, <2>1, <2>2, <2>3, <2>4 DEF Running
  <2>6. client \notin {"select", "write", "writeClose"}
    <3>1. Len(Line) = Len(received \o toClient) + Len(toServer)
      BY <1>2, <1>3, ConcatProperties
    <3>2. Len(Line) = sent + 1
      BY <2>1, <3>1
    <3>3. sent + 1 # sent
      BY <1>2
    <3> QED
      BY <1>0, <1>1, <3>2, <3>3 DEF WhileWriting
  <2>7. client = "await" => reader
    BY <1>0, <1>1, <1>2 DEF WhileAwaiting
  <2>8. WhileWriting' /\ WhileAwaiting'
    BY <1>1, <2>5, <2>6, <2>7 DEF WhileWriting, WhileAwaiting
  <2> QED
    BY <1>1, <1>4, <2>5, <2>8 DEF EchoInv
<1> QED
  BY <1>6, <1>7

\* The handler puts what it holds on the way back, or drops it when it fails.
LEMMA EchoKeeps ==
  ASSUME EchoInv, EchoTypeOK', TickBelow', Echo \/ HandlerFails
  PROVE  EchoInv'
<1>0. EchoTypeOK /\ InLine(Line, sent) /\ BeforeDial /\ WhileWriting /\ WhileAwaiting /\ AfterClose
  BY DEF EchoInv
<1>1. /\ received \in Seq(Nat) /\ toClient \in Seq(Nat) /\ toServer \in Seq(Nat) /\ Coming \in Seq(Nat)
      /\ received \o toClient \in Seq(Nat) /\ Line \in Seq(Nat) /\ hand \in Nat /\ sent \in Nat
  BY <1>0, LineParts
<1>2. CASE Echo
  <2>1. /\ UNCHANGED <<client, sent, reader, received, hand, toServer, broken>>
        /\ handler = "write" /\ handler' = "read" /\ toClient' = Append(toClient, hand)
    BY <1>2 DEF Echo, mainVars, readerVars, Handle
  <2>2. Coming = <<hand>> \o toServer
    BY <2>1 DEF Coming
  <2>3. Coming' = toServer
    <3>1. << >> \o toServer = toServer
      BY <1>1, ConcatEmptySeq
    <3> QED
      BY <2>1, <3>1 DEF Coming
  <2>4. received \o Append(toClient, hand) = Append(received \o toClient, hand)
    BY <1>1, LastAppended
  <2>5. Append(received \o toClient, hand) \o toServer = (received \o toClient) \o (<<hand>> \o toServer)
    BY <1>1, Between
  <2>6. Line' = Line /\ Running /\ Running'
    BY <2>1, <2>2, <2>3, <2>4, <2>5 DEF Line, Running
  <2>7. BeforeDial' /\ WhileWriting' /\ WhileAwaiting' /\ AfterClose'
    BY <1>0, <2>1, <2>6 DEF BeforeDial, WhileWriting, WhileAwaiting, AfterClose
  <2> QED
    BY <1>0, <2>1, <2>6, <2>7 DEF EchoInv
<1>3. CASE HandlerFails
  <2>1. /\ UNCHANGED <<client, sent, reader, received, hand, toServer, toClient, broken>>
        /\ handler \in {"read", "write"} /\ handler' = "returned"
        /\ broken \/ client \in {"closed", "exited"}
    BY <1>3 DEF HandlerFails, mainVars, readerVars, Handle, ClientGone
  <2>2. Line' = received \o toClient
    <3>1. Coming' = << >>
      BY <2>1 DEF Coming
    <3>2. (received \o toClient) \o << >> = received \o toClient
      BY <1>1, ConcatEmptySeq
    <3> QED
      BY <2>1, <3>1, <3>2 DEF Line
  <2>3. InLine(received \o toClient, sent)
    BY <1>0, <1>1, LineStart DEF Line
  <2>4. BeforeDial' /\ WhileWriting' /\ WhileAwaiting' /\ AfterClose'
    BY <1>0, <2>1 DEF BeforeDial, WhileWriting, WhileAwaiting, AfterClose
  <2> QED
    BY <2>1, <2>2, <2>3, <2>4 DEF EchoInv
<1> QED
  BY <1>2, <1>3

\* Every step preserves the invariant of the echo session.
LEMMA EchoStep == EchoInv /\ [EchoNext]_echoVars => EchoInv'
<1> SUFFICES ASSUME EchoInv, [EchoNext]_echoVars PROVE EchoInv'
  OBVIOUS
<1>1. EchoTypeOK' /\ TickBelow'
  BY EchoTypes DEF EchoInv
<1>2. CASE UNCHANGED echoVars
  <2>1. UNCHANGED <<client, reader, received, handler, hand, toServer, toClient, broken, sent>>
    BY <1>2 DEF echoVars
  <2>2. Line' = Line /\ InLine(Line, sent)' /\ Running' = Running
    BY <2>1, SameLine
  <2> QED
    BY <1>1, <2>1, <2>2 DEF EchoInv, BeforeDial, WhileWriting, WhileAwaiting, AfterClose
<1> QED
  BY <1>1, <1>2, MainKeeps, WriteKeeps, ReadKeeps, ReadFailsKeeps, HandlerReadsKeeps, EchoKeeps
     DEF EchoNext, MainStep, ReaderStep, HandlerStep

\* A line of messages and at most one Close is what the properties ask for.
LEMMA EchoIsRight == EchoInv => EchoTypeOK /\ EchoRight
<1> SUFFICES ASSUME EchoInv PROVE EchoRight
  BY DEF EchoInv
<1>0. EchoTypeOK /\ InLine(Line, sent) /\ BeforeDial /\ WhileWriting /\ WhileAwaiting /\ AfterClose
  BY DEF EchoInv
<1>1. /\ received \in Seq(Nat) /\ toClient \in Seq(Nat) /\ toServer \in Seq(Nat) /\ Coming \in Seq(Nat)
      /\ received \o toClient \in Seq(Nat) /\ Line \in Seq(Nat) /\ hand \in Nat /\ sent \in Nat
      /\ Len(received) \in Nat
  BY <1>0, LineParts
<1>2. Len(received) <= sent /\ \A k \in 1 .. Len(received) : received[k] = k
  <2>1. InLine(received \o toClient, sent)
    BY <1>0, <1>1, LineStart DEF Line
  <2>2. InLine(received, sent)
    BY <1>1, <2>1, LineStart
  <2> QED
    BY <1>0, <1>1, <2>2, ReadNoClose, LineOfMessages
<1>3. FirstN(sent) \in Seq(Nat) /\ Len(FirstN(sent)) = sent /\ \A k \in 1 .. sent : FirstN(sent)[k] = k
  BY <1>1 DEF FirstN
<1>4. IsPrefix(received, FirstN(sent))
  <2> DEFINE l == SubSeq(received, 1, Len(received))
             r == SubSeq(FirstN(sent), 1, Len(received))
  <2>1. \A k \in 1 .. Len(received) : k \in 1 .. sent /\ k \in Nat /\ 1 + k - 1 = k /\ 1 - 1 + k = k
    BY <1>1, <1>2
  <2>2. \A k \in 1 .. Len(received) : received[k] \in Nat /\ FirstN(sent)[k] \in Nat
    BY <1>2, <1>3, <2>1
  <2>3. Len(received) \in Int /\ 1 \in Int /\ Len(received) - 1 + 1 = Len(received)
        /\ (1 <= Len(received) \/ Len(received) = 0)
    BY <1>1
  <2>4. l \in Seq(Nat) /\ Len(l) = Len(received) /\ \A k \in 1 .. Len(received) : l[k] = received[k]
    BY <2>1, <2>2, <2>3, SubSeqProperties
  <2>5. r \in Seq(Nat) /\ Len(r) = Len(received) /\ \A k \in 1 .. Len(received) : r[k] = FirstN(sent)[k]
    BY <2>1, <2>2, <2>3, SubSeqProperties
  <2> HIDE DEF l, r
  <2>6. \A k \in 1 .. Len(l) : l[k] = r[k]
    BY <1>2, <1>3, <2>1, <2>4, <2>5
  <2>7. l = r
    BY <2>4, <2>5, <2>6, SeqEqual
  <2> QED
    BY <1>2, <1>3, <2>7 DEF l, r, IsPrefix
<1>5. ASSUME ~broken, ~ClientGone
      PROVE  received \o toClient \o (IF handler = "write" THEN <<hand>> ELSE << >>) \o toServer
               \in {FirstN(sent), Append(FirstN(sent), Close)}
  <2>1. Line \in {FirstN(sent), Append(FirstN(sent), Close)}
    <3>1. Len(Line) = sent \/ Len(Line) = sent + 1
      <4>1. client \in {"dial", "select", "write", "writeClose", "await"}
        BY <1>0, <1>5 DEF EchoTypeOK, ClientGone
      <4>2. ASSUME client = "dial" PROVE Len(Line) = sent
        <5>1. /\ received = << >> /\ toClient = << >> /\ toServer = << >> /\ handler # "write" /\ sent = 0
          BY <1>0, <4>2 DEF BeforeDial
        <5>2. Line = << >>
          BY <5>1, EmptyLine
        <5> QED
          BY <5>1, <5>2
      <4> QED
        BY <1>0, <1>5, <4>1, <4>2 DEF WhileWriting, WhileAwaiting
    <3> QED
      BY <1>0, <1>1, <3>1, LineWhole
  <2> DEFINE h == IF handler = "write" THEN <<hand>> ELSE << >>
  <2>2. h \in Seq(Nat)
    BY <1>1, Single, EmptySeq
  <2>3. ((received \o toClient) \o h) \o toServer = (received \o toClient) \o (h \o toServer)
    <3> DEFINE a == received \o toClient
    <3>1. a \in Seq(Nat)
      BY <1>1
    <3> HIDE DEF a, h
    <3>2. toServer \in Seq(Nat) /\ h \in Seq(Nat)
      BY <1>1, <2>2
    <3>3. (a \o h) \o toServer = a \o (h \o toServer)
      BY <3>1, <3>2, Regroup
    <3> QED
      BY <3>3 DEF a
  <2>4. Coming = h \o toServer
    <3>1. CASE Running
      BY <3>1 DEF Coming, Running
    <3>2. CASE ~Running
      <4>1. toServer = << >> /\ h = << >>
        BY <1>0, <1>5, <3>2 DEF EchoTypeOK, Running, ClientGone, BeforeDial, WhileWriting, WhileAwaiting
      <4>2. << >> \o << >> = << >>
        BY EmptySeq, ConcatEmptySeq
      <4> QED
        BY <3>2, <4>1, <4>2 DEF Coming, Running
    <3> QED
      BY <3>1, <3>2
  <2> QED
    BY <2>1, <2>3, <2>4 DEF Line
<1>6. ASSUME client = "closed", ~broken PROVE received = FirstN(sent)
  <2>1. Len(received) = sent
    BY <1>0, <1>6 DEF AfterClose
  <2> QED
    BY <1>1, <1>2, <1>3, <2>1, SeqEqual
<1> QED
  BY <1>4, <1>5, <1>6 DEF EchoRight, EchoInOrder, CleanCloseComplete

-----------------------------------------------------------------------------
(* MCSessions *)

SessionsInv == CondInv /\ EchoInv /\ GreeterInv

\* One program runs, and the others stand still.
THEOREM SessionsInvariance == SessionsSpec => []SessionsInv
<1>1. SessionsInit => SessionsInv
  BY CondInitInv, EchoInitInv, GreeterInitInv DEF SessionsInit, SessionsInv
<1>2. SessionsInv /\ [SessionsNext]_sessionsVars => SessionsInv'
  <2> SUFFICES ASSUME SessionsInv, [SessionsNext]_sessionsVars PROVE SessionsInv'
    OBVIOUS
  <2>1. [CondNext]_condVars /\ [EchoNext]_echoVars /\ [GreeterNext]_greeterVars
    BY DEF SessionsNext, sessionsVars
  <2> QED
    BY <2>1, CondStep, EchoStep, GreeterStep DEF SessionsInv
<1> QED
  BY <1>1, <1>2, PTL DEF SessionsSpec

\* Every variable of the condition variable demo, the echo session and the
\* service has its type in every reachable state.
THEOREM SessionsTyped == SessionsSpec => []SessionsTypeOK
<1>1. SessionsInv => SessionsTypeOK
  BY CondRight, EchoIsRight, GreeterRight DEF SessionsInv, SessionsTypeOK
<1> QED
  BY <1>1, SessionsInvariance, PTL

\* However the goroutines and main interleave, only who began to wait after the
\* broadcast is left waiting, and the signals went to the longest waiters
\* (condx.go:12-29).
THEOREM WaitersWoken == SessionsSpec => []OnlyLateWait
<1>1. SessionsInv => OnlyLateWait
  BY CondRight DEF SessionsInv
<1> QED
  BY <1>1, SessionsInvariance, PTL

\* With buffers of every size and every number of messages the echo loses,
\* repeats and reorders nothing while nothing has failed, and a clean close loses
\* nothing at all (ws.go:22-31, ws_client.go:26-73).
THEOREM EchoesInOrder == SessionsSpec => []EchoRight
<1>1. SessionsInv => EchoRight
  BY EchoIsRight DEF SessionsInv
<1> QED
  BY <1>1, SessionsInvariance, PTL

\* No call ends the process, and over HTTP none panics or is dropped but for one
\* name, however many calls run at once (main.go:68-86, greeter.go:29-46).
THEOREM CallsServed == SessionsSpec => []CallsRight
<1>1. SessionsInv => CallsRight
  BY GreeterRight DEF SessionsInv
<1> QED
  BY <1>1, SessionsInvariance, PTL
=============================================================================
