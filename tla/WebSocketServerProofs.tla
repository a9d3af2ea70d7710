----------------------- MODULE WebSocketServerProofs -----------------------
(***************************************************************************)
(* What the runs of MCWebSocketServer check on small instances, proved for  *)
(* every set of connections, every number of messages and every buffer      *)
(* size: mutual exclusion, gap-free ordered delivery, the order of every    *)
(* sender's messages, and that the goroutines implement FanOut.             *)
(***************************************************************************)
EXTENDS WebSocketServer, TLAPS

\* The mutex is locked exactly while some goroutine is in a critical section.
LockInv ==
  /\ locked <=> (bpc = "range" \/ \E c \in Conns : Critical(c))
  /\ MutualExclusion

\* Outside its range Broadcast has no client left to visit; inside it the rest
\* is registered and the message at hand is the last of the log.
RangeInv ==
  /\ writing \subseteq todo
  /\ todo \subseteq clients
  /\ bpc # "range" => todo = {}
  /\ bpc # "recv" => cur \in Messages
  /\ bpc = "range" => log # << >> /\ cur = log[Len(log)]

\* A connection on its way to registration is not in the map, and unserved.
FreshInv ==
  \A c \in Conns :
    hpc[c] \in {"idle", "lock", "register"} => c \notin clients /\ written[c] = << >>

\* A handler reads only what was sent, and sends only what it read.
ReadInv ==
  \A c \in Conns :
    /\ got[c] <= sent[c]
    /\ sent[c] <= MaxMsgs[c]
    /\ hpc[c] = "send" => got[c] >= 1

\* The inductive invariant.
IndInv ==
  /\ TypeOK
  /\ ReadInv
  /\ LockInv
  /\ RangeInv
  /\ FreshInv
  /\ UpToDate
  /\ OrderedDelivery

\* The last element of a sequence after Append is what was appended.
LEMMA AppendLast ==
  ASSUME NEW S, NEW s \in Seq(S), NEW m \in S
  PROVE  Append(s, m) # << >> /\ Append(s, m)[Len(Append(s, m))] = m
OBVIOUS

\* Every step keeps the types of the variables.
LEMMA TypeStep == IndInv /\ [Next]_vars => TypeOK'
<1> SUFFICES ASSUME IndInv, [Next]_vars PROVE TypeOK'
  OBVIOUS
<1> USE ConstantsAssumption DEF IndInv, TypeOK, HandlerState, RangeInv, vars, server, net, history
<1>1. CASE BroadcastLock
  BY <1>1 DEF BroadcastLock
<1>2. CASE BroadcastUnlock
  BY <1>2 DEF BroadcastUnlock
<1>3. ASSUME NEW c \in Conns, Handler(c) \/ NextClient(c) \/ Write(c) \/ Peer(c)
      PROVE  TypeOK'
  <2>1. CASE RegisterLock(c)
    BY <2>1 DEF RegisterLock, Goto
  <2>2. CASE Register(c)
  <3>1. Len(log) \in Nat
      OBVIOUS
    <3>2. start' \in [Conns -> Nat] /\ hpc' \in [Conns -> HandlerState]
      BY <2>2, <3>1 DEF Register, Goto
    <3> QED
      BY <2>2, <3>2 DEF Register, Goto
  <2>3. CASE HandlerRead(c)
    BY <2>3 DEF HandlerRead, Goto
  <2>4. CASE HandlerReadErr(c)
    BY <2>4 DEF HandlerReadErr, Goto
  <2>5. CASE HandlerSend(c)
  <3>1. <<c, got[c]>> \in Messages
      BY <2>5 DEF HandlerSend, Goto, ReadInv, Messages
    <3> QED
      BY <2>5, <3>1 DEF HandlerSend, Goto
  <2>6. CASE Accept(c)
    BY <2>6 DEF Accept, Goto
  <2>7. CASE WriteOk(c)
    BY <2>7 DEF WriteOk, WriteReturns, Goto
  <2>8. CASE WriteErr(c)
    BY <2>8 DEF WriteErr, WriteReturns, Goto
  <2>9. CASE PeerSend(c)
    BY <2>9 DEF PeerSend, Goto
  <2>10. CASE PeerRead(c)
    BY <2>10 DEF PeerRead, Goto
  <2>11. CASE PeerLeave(c)
    BY <2>11 DEF PeerLeave, Goto
  <2>12. CASE NextClient(c)
    BY <2>12 DEF NextClient
  <2> QED
    BY <1>3, <2>1, <2>2, <2>3, <2>4, <2>5, <2>6, <2>7, <2>8, <2>9, <2>10, <2>11, <2>12 DEF Handler, Write, Peer
<1>4. CASE UNCHANGED vars
  BY <1>4
<1> QED
  BY <1>1, <1>2, <1>3, <1>4 DEF Next

\* Every step keeps what HandleClient has read within what the peer sent.
LEMMA ReadStep == IndInv /\ [Next]_vars => ReadInv'
<1> SUFFICES ASSUME IndInv, [Next]_vars PROVE ReadInv'
  OBVIOUS
<1> USE ConstantsAssumption DEF IndInv, TypeOK, ReadInv, vars, server, net, history
<1>1. CASE BroadcastLock
  BY <1>1 DEF BroadcastLock
<1>2. CASE BroadcastUnlock
  BY <1>2 DEF BroadcastUnlock
<1>3. ASSUME NEW c \in Conns, Handler(c) \/ NextClient(c) \/ Write(c) \/ Peer(c)
      PROVE  ReadInv'
  <2>1. CASE RegisterLock(c)
    BY <2>1 DEF RegisterLock, Goto
  <2>2. CASE Register(c)
    BY <2>2 DEF Register, Goto
  <2>3. CASE HandlerRead(c)
    BY <2>3 DEF HandlerRead, Goto
  <2>4. CASE HandlerReadErr(c)
    BY <2>4 DEF HandlerReadErr, Goto
  <2>5. CASE HandlerSend(c)
    BY <2>5 DEF HandlerSend, Goto
  <2>6. CASE Accept(c)
    BY <2>6 DEF Accept, Goto
  <2>7. CASE WriteOk(c)
    BY <2>7 DEF WriteOk, WriteReturns, Goto
  <2>8. CASE WriteErr(c)
    BY <2>8 DEF WriteErr, WriteReturns, Goto
  <2>9. CASE PeerSend(c)
    BY <2>9 DEF PeerSend, Goto
  <2>10. CASE PeerRead(c)
    BY <2>10 DEF PeerRead, Goto
  <2>11. CASE PeerLeave(c)
    BY <2>11 DEF PeerLeave, Goto
  <2>12. CASE NextClient(c)
    BY <2>12 DEF NextClient
  <2> QED
    BY <1>3, <2>1, <2>2, <2>3, <2>4, <2>5, <2>6, <2>7, <2>8, <2>9, <2>10, <2>11, <2>12 DEF Handler, Write, Peer
<1>4. CASE UNCHANGED vars
  BY <1>4
<1> QED
  BY <1>1, <1>2, <1>3, <1>4 DEF Next

\* Every step keeps the mutex held by exactly one goroutine or free.
LEMMA LockStep == IndInv /\ [Next]_vars => LockInv'
<1> SUFFICES ASSUME IndInv, [Next]_vars PROVE LockInv'
  OBVIOUS
<1> USE ConstantsAssumption DEF IndInv, TypeOK, LockInv, MutualExclusion, Critical, vars, server, net, history
<1>1. CASE BroadcastLock
  BY <1>1 DEF BroadcastLock
<1>2. CASE BroadcastUnlock
  BY <1>2 DEF BroadcastUnlock
<1>3. ASSUME NEW c \in Conns, Handler(c) \/ NextClient(c) \/ Write(c) \/ Peer(c)
      PROVE  LockInv'
  <2>1. CASE RegisterLock(c)
    BY <2>1 DEF RegisterLock, Goto
  <2>2. CASE Register(c)
    BY <2>2 DEF Register, Goto
  <2>3. CASE HandlerRead(c)
    BY <2>3 DEF HandlerRead, Goto
  <2>4. CASE HandlerReadErr(c)
    BY <2>4 DEF HandlerReadErr, Goto
  <2>5. CASE HandlerSend(c)
    BY <2>5 DEF HandlerSend, Goto
  <2>6. CASE Accept(c)
    BY <2>6 DEF Accept, Goto
  <2>7. CASE WriteOk(c)
    BY <2>7 DEF WriteOk, WriteReturns, Goto
  <2>8. CASE WriteErr(c)
    BY <2>8 DEF WriteErr, WriteReturns, Goto
  <2>9. CASE PeerSend(c)
    BY <2>9 DEF PeerSend, Goto
  <2>10. CASE PeerRead(c)
    BY <2>10 DEF PeerRead, Goto
  <2>11. CASE PeerLeave(c)
    BY <2>11 DEF PeerLeave, Goto
  <2>12. CASE NextClient(c)
    BY <2>12 DEF NextClient
  <2> QED
    BY <1>3, <2>1, <2>2, <2>3, <2>4, <2>5, <2>6, <2>7, <2>8, <2>9, <2>10, <2>11, <2>12 DEF Handler, Write, Peer
<1>4. CASE UNCHANGED vars
  BY <1>4
<1> QED
  BY <1>1, <1>2, <1>3, <1>4 DEF Next

\* Every step keeps the range of Broadcast inside the map and its message
\* the last of the log.
LEMMA RangeStep == IndInv /\ [Next]_vars => RangeInv'
<1> SUFFICES ASSUME IndInv, [Next]_vars PROVE RangeInv'
  OBVIOUS
<1> USE ConstantsAssumption DEF IndInv, RangeInv, LockInv, MutualExclusion, Critical, TypeOK, vars, server, net, history
<1>1. CASE BroadcastLock
  <2>1. cur \in Messages /\ log \in Seq(Messages) /\ log' = Append(log, cur)
    BY <1>1 DEF BroadcastLock
  <2>2. Append(log, cur) # << >> /\ Append(log, cur)[Len(Append(log, cur))] = cur
    <3> HIDE DEF IndInv, TypeOK, RangeInv, LockInv, MutualExclusion, vars
    <3> QED
      BY <2>1, AppendLast
  <2> QED
    BY <1>1, <2>1, <2>2 DEF BroadcastLock
<1>2. CASE BroadcastUnlock
  BY <1>2 DEF BroadcastUnlock
<1>3. ASSUME NEW c \in Conns, Handler(c) \/ NextClient(c) \/ Write(c) \/ Peer(c)
      PROVE  RangeInv'
  <2>1. CASE RegisterLock(c)
    BY <2>1 DEF RegisterLock, Goto
  <2>2. CASE Register(c)
    BY <2>2 DEF Register, Goto
  <2>3. CASE HandlerRead(c)
    BY <2>3 DEF HandlerRead, Goto
  <2>4. CASE HandlerReadErr(c)
    BY <2>4 DEF HandlerReadErr, Goto
  <2>5. CASE HandlerSend(c)
  <3>1. <<c, got[c]>> \in Messages
      BY <2>5 DEF HandlerSend, Goto, ReadInv, Messages, HandlerState
    <3> QED
      BY <2>5, <3>1 DEF HandlerSend, Goto
  <2>6. CASE Accept(c)
    BY <2>6 DEF Accept, Goto
  <2>7. CASE WriteOk(c)
    BY <2>7 DEF WriteOk, WriteReturns, Goto
  <2>8. CASE WriteErr(c)
    BY <2>8 DEF WriteErr, WriteReturns, Goto
  <2>9. CASE PeerSend(c)
    BY <2>9 DEF PeerSend, Goto
  <2>10. CASE PeerRead(c)
    BY <2>10 DEF PeerRead, Goto
  <2>11. CASE PeerLeave(c)
    BY <2>11 DEF PeerLeave, Goto
  <2>12. CASE NextClient(c)
    BY <2>12 DEF NextClient
  <2> QED
    BY <1>3, <2>1, <2>2, <2>3, <2>4, <2>5, <2>6, <2>7, <2>8, <2>9, <2>10, <2>11, <2>12 DEF Handler, Write, Peer
<1>4. CASE UNCHANGED vars
  BY <1>4
<1> QED
  BY <1>1, <1>2, <1>3, <1>4 DEF Next

\* Every step keeps a connection that is not registered yet unserved.
LEMMA FreshStep == IndInv /\ [Next]_vars => FreshInv'
<1> SUFFICES ASSUME IndInv, [Next]_vars PROVE FreshInv'
  OBVIOUS
<1> USE ConstantsAssumption DEF IndInv, RangeInv, FreshInv, TypeOK, vars, server, net, history
<1>1. CASE BroadcastLock
  BY <1>1 DEF BroadcastLock
<1>2. CASE BroadcastUnlock
  BY <1>2 DEF BroadcastUnlock
<1>3. ASSUME NEW c \in Conns, Handler(c) \/ NextClient(c) \/ Write(c) \/ Peer(c)
      PROVE  FreshInv'
  <2>1. CASE RegisterLock(c)
    BY <2>1 DEF RegisterLock, Goto
  <2>2. CASE Register(c)
    BY <2>2 DEF Register, Goto
  <2>3. CASE HandlerRead(c)
    BY <2>3 DEF HandlerRead, Goto
  <2>4. CASE HandlerReadErr(c)
    BY <2>4 DEF HandlerReadErr, Goto
  <2>5. CASE HandlerSend(c)
    BY <2>5 DEF HandlerSend, Goto
  <2>6. CASE Accept(c)
    BY <2>6 DEF Accept, Goto
  <2>7. CASE WriteOk(c)
    BY <2>7 DEF WriteOk, WriteReturns, Goto
  <2>8. CASE WriteErr(c)
    BY <2>8 DEF WriteErr, WriteReturns, Goto
  <2>9. CASE PeerSend(c)
    BY <2>9 DEF PeerSend, Goto
  <2>10. CASE PeerRead(c)
    BY <2>10 DEF PeerRead, Goto
  <2>11. CASE PeerLeave(c)
    BY <2>11 DEF PeerLeave, Goto
  <2>12. CASE NextClient(c)
    BY <2>12 DEF NextClient
  <2> QED
    BY <1>3, <2>1, <2>2, <2>3, <2>4, <2>5, <2>6, <2>7, <2>8, <2>9, <2>10, <2>11, <2>12 DEF Handler, Write, Peer
<1>4. CASE UNCHANGED vars
  BY <1>4
<1> QED
  BY <1>1, <1>2, <1>3, <1>4 DEF Next

\* Every step keeps the clients up to date.
LEMMA UpToDateStep == IndInv /\ [Next]_vars => UpToDate'
<1> SUFFICES ASSUME IndInv, [Next]_vars PROVE UpToDate'
  OBVIOUS
<1> USE ConstantsAssumption DEF IndInv, UpToDate, RangeInv, FreshInv, LockInv, MutualExclusion, Critical, TypeOK, vars, server, net, history
<1>1. CASE BroadcastLock
  BY <1>1 DEF BroadcastLock
<1>2. CASE BroadcastUnlock
  BY <1>2 DEF BroadcastUnlock
<1>3. ASSUME NEW c \in Conns, Handler(c) \/ NextClient(c) \/ Write(c) \/ Peer(c)
      PROVE  UpToDate'
  <2>1. CASE RegisterLock(c)
    BY <2>1 DEF RegisterLock, Goto
  <2>2. CASE Register(c)
    BY <2>2 DEF Register, Goto
  <2>3. CASE HandlerRead(c)
    BY <2>3 DEF HandlerRead, Goto
  <2>4. CASE HandlerReadErr(c)
    BY <2>4 DEF HandlerReadErr, Goto
  <2>5. CASE HandlerSend(c)
    BY <2>5 DEF HandlerSend, Goto
  <2>6. CASE Accept(c)
    BY <2>6 DEF Accept, Goto
  <2>7. CASE WriteOk(c)
    <3>1. /\ c \in clients /\ todo' = todo \ {c} /\ written' = [written EXCEPT ![c] = Append(@, cur)]
          /\ clients' = clients /\ start' = start /\ log' = log
          /\ cur \in Messages
      BY <2>7 DEF WriteOk, WriteReturns
    <3>2. start[c] + Len(written[c]) = Len(log) - 1
      BY <2>7 DEF WriteOk, WriteReturns
    <3>3. written'[c] = Append(written[c], cur) /\ \A d \in Conns \ {c} : written'[d] = written[d]
      BY <3>1
    <3>4. /\ Len(written[c]) \in Nat /\ Len(written'[c]) = Len(written[c]) + 1
          /\ start[c] \in Nat /\ Len(log) \in Nat
      BY <3>1, <3>3
    <3>5. \A d \in clients :
            d \in Conns /\ start[d] + Len(written[d]) = Len(log) - (IF d \in todo THEN 1 ELSE 0)
      OBVIOUS
    <3> HIDE DEF IndInv, UpToDate, RangeInv, FreshInv, LockInv, MutualExclusion, Critical, TypeOK, Messages
    <3>6. start'[c] + Len(written'[c]) = Len(log') - (IF c \in todo' THEN 1 ELSE 0)
      BY <3>1, <3>2, <3>4
    <3>7. \A d \in clients' \ {c} :
            start'[d] + Len(written'[d]) = Len(log') - (IF d \in todo' THEN 1 ELSE 0)
      BY <3>1, <3>3, <3>5
    <3> QED
      BY <3>6, <3>7 DEF UpToDate
  <2>8. CASE WriteErr(c)
    BY <2>8 DEF WriteErr, WriteReturns, Goto
  <2>9. CASE PeerSend(c)
    BY <2>9 DEF PeerSend, Goto
  <2>10. CASE PeerRead(c)
    BY <2>10 DEF PeerRead, Goto
  <2>11. CASE PeerLeave(c)
    BY <2>11 DEF PeerLeave, Goto
  <2>12. CASE NextClient(c)
    BY <2>12 DEF NextClient
  <2> QED
    BY <1>3, <2>1, <2>2, <2>3, <2>4, <2>5, <2>6, <2>7, <2>8, <2>9, <2>10, <2>11, <2>12 DEF Handler, Write, Peer
<1>4. CASE UNCHANGED vars
  BY <1>4
<1> QED
  BY <1>1, <1>2, <1>3, <1>4 DEF Next

\* Every step keeps what was written to each client a run of the log.
LEMMA OrderStep == IndInv /\ [Next]_vars => OrderedDelivery'
<1> SUFFICES ASSUME IndInv, [Next]_vars PROVE OrderedDelivery'
  OBVIOUS
<1> USE ConstantsAssumption DEF IndInv, OrderedDelivery, UpToDate, RangeInv, FreshInv, LockInv, MutualExclusion, Critical, TypeOK, vars, server, net, history
<1>1. CASE BroadcastLock
  BY <1>1 DEF BroadcastLock
<1>2. CASE BroadcastUnlock
  BY <1>2 DEF BroadcastUnlock
<1>3. ASSUME NEW c \in Conns, Handler(c) \/ NextClient(c) \/ Write(c) \/ Peer(c)
      PROVE  OrderedDelivery'
  <2>1. CASE RegisterLock(c)
    BY <2>1 DEF RegisterLock, Goto
  <2>2. CASE Register(c)
    <3>1. /\ start' = [start EXCEPT ![c] = Len(log)] /\ log' = log /\ written' = written
          /\ written[c] = << >>
      BY <2>2 DEF Register, Goto
    <3>2. start'[c] = Len(log) /\ Len(log) \in Nat /\ Len(written[c]) = 0
      BY <3>1
    <3>3. \A d \in Conns \ {c} : start'[d] = start[d]
      BY <3>1
    <3>4. \A d \in Conns :
            /\ start[d] + Len(written[d]) <= Len(log)
            /\ \A i \in 1 .. Len(written[d]) : written[d][i] = log[start[d] + i]
      OBVIOUS
    <3> HIDE DEF IndInv, OrderedDelivery, UpToDate, RangeInv, FreshInv, LockInv, MutualExclusion, Critical, TypeOK
    <3>5. start'[c] + Len(written'[c]) <= Len(log') /\ Len(written'[c]) = 0
      BY <3>1, <3>2
    <3>6. \A d \in Conns \ {c} :
            /\ start'[d] + Len(written'[d]) <= Len(log')
            /\ \A i \in 1 .. Len(written'[d]) : written'[d][i] = log'[start'[d] + i]
      BY <3>1, <3>3, <3>4
    <3>7. \A i \in 1 .. Len(written'[c]) : written'[c][i] = log'[start'[c] + i]
      BY <3>5
    <3> QED
      BY <3>5, <3>6, <3>7 DEF OrderedDelivery
  <2>3. CASE HandlerRead(c)
    BY <2>3 DEF HandlerRead, Goto
  <2>4. CASE HandlerReadErr(c)
    BY <2>4 DEF HandlerReadErr, Goto
  <2>5. CASE HandlerSend(c)
    BY <2>5 DEF HandlerSend, Goto
  <2>6. CASE Accept(c)
    BY <2>6 DEF Accept, Goto
  <2>7. CASE WriteOk(c)
    <3>1. bpc = "range" /\ c \in clients /\ log # << >> /\ cur = log[Len(log)]
      BY <2>7 DEF WriteOk, WriteReturns
    <3>2. start[c] + Len(written[c]) + 1 = Len(log)
      BY <2>7, <3>1 DEF WriteOk, WriteReturns
    <3>3. written'[c] = Append(written[c], cur)
      BY <2>7 DEF WriteOk, WriteReturns
    <3>4. \A d \in Conns \ {c} : written'[d] = written[d]
      BY <2>7 DEF WriteOk, WriteReturns
    <3>5. start' = start /\ log' = log
      BY <2>7 DEF WriteOk, WriteReturns
    <3>6. cur \in Messages
      BY <3>1
    <3>7. Len(written'[c]) = Len(written[c]) + 1
      BY <3>3, <3>6
    <3>8. \A i \in 1 .. Len(written[c]) : written'[c][i] = log[start[c] + i]
      BY <3>3, <3>6
    <3>9. written'[c][Len(written[c]) + 1] = log[start[c] + Len(written[c]) + 1]
      BY <3>1, <3>2, <3>3, <3>6
    <3>10. \A i \in 1 .. Len(written'[c]) : written'[c][i] = log[start[c] + i]
      BY <3>7, <3>8, <3>9
    <3> HIDE DEF IndInv, OrderedDelivery, UpToDate, RangeInv, FreshInv, LockInv, MutualExclusion, Critical, TypeOK
    <3>11. ASSUME NEW d \in Conns
           PROVE  /\ start'[d] + Len(written'[d]) <= Len(log')
                  /\ \A i \in 1 .. Len(written'[d]) : written'[d][i] = log'[start'[d] + i]
      <4>1. CASE d = c
        <5>1. /\ start[c] \in Nat /\ Len(written[c]) \in Nat /\ Len(log) \in Nat
          BY DEF IndInv, TypeOK
        <5>2. start'[c] + Len(written'[c]) <= Len(log')
          BY <3>2, <3>5, <3>7, <5>1
        <5> QED
          BY <3>5, <3>10, <5>2, <4>1
      <4>2. CASE d # c
        <5>1. written'[d] = written[d] /\ start'[d] = start[d] /\ log' = log
          BY <3>4, <3>5, <4>2
        <5>2. /\ start[d] + Len(written[d]) <= Len(log)
              /\ \A i \in 1 .. Len(written[d]) : written[d][i] = log[start[d] + i]
          BY DEF IndInv, OrderedDelivery
        <5> QED
          BY <5>1, <5>2
      <4> QED
        BY <4>1, <4>2
    <3> QED
      BY <3>11 DEF OrderedDelivery
  <2>8. CASE WriteErr(c)
    BY <2>8 DEF WriteErr, WriteReturns, Goto
  <2>9. CASE PeerSend(c)
    BY <2>9 DEF PeerSend, Goto
  <2>10. CASE PeerRead(c)
    BY <2>10 DEF PeerRead, Goto
  <2>11. CASE PeerLeave(c)
    BY <2>11 DEF PeerLeave, Goto
  <2>12. CASE NextClient(c)
    BY <2>12 DEF NextClient
  <2> QED
    BY <1>3, <2>1, <2>2, <2>3, <2>4, <2>5, <2>6, <2>7, <2>8, <2>9, <2>10, <2>11, <2>12 DEF Handler, Write, Peer
<1>4. CASE UNCHANGED vars
  BY <1>4
<1> QED
  BY <1>1, <1>2, <1>3, <1>4 DEF Next

-----------------------------------------------------------------------------
\* The state NewWebSocketServer builds satisfies the inductive invariant.
LEMMA InitInd == Init => IndInv
<1> SUFFICES ASSUME Init PROVE IndInv
  OBVIOUS
<1> USE ConstantsAssumption DEF Init
<1>1. TypeOK
  <2>1. << >> \in Seq(Messages)
    OBVIOUS
  <2> QED
    BY <2>1 DEF TypeOK, HandlerState
<1>2. ReadInv
  BY DEF ReadInv
<1>3. LockInv
  BY DEF LockInv, MutualExclusion, Critical
<1>4. RangeInv /\ FreshInv
  BY DEF RangeInv, FreshInv
<1>5. UpToDate /\ OrderedDelivery
  BY DEF UpToDate, OrderedDelivery
<1> QED
  BY <1>1, <1>2, <1>3, <1>4, <1>5 DEF IndInv

\* The inductive invariant holds in every reachable state.
THEOREM Invariance == Spec => []IndInv
<1>1. IndInv /\ [Next]_vars => IndInv'
  BY TypeStep, ReadStep, LockStep, RangeStep, FreshStep, UpToDateStep, OrderStep
     DEF IndInv
<1> QED
  BY InitInd, <1>1, PTL DEF Spec

\* Type correctness: every variable keeps its type, so in particular cur is a
\* message a peer really sent, and nil never goes out.
THEOREM TypeCorrect == Spec => []TypeOK
<1>1. IndInv => TypeOK
  BY DEF IndInv
<1> QED
  BY Invariance, <1>1, PTL

\* HandleClient never writes the clients map (line 30) while another goroutine
\* writes it or Broadcast ranges over it, whatever the number of clients.
THEOREM MutexSafe == Spec => []MutualExclusion
<1>1. IndInv => MutualExclusion
  BY DEF IndInv, LockInv
<1> QED
  BY Invariance, <1>1, PTL

\* No registered client ever lags by more than the message being handed round.
THEOREM NeverBehind == Spec => []UpToDate
<1>1. IndInv => UpToDate
  BY DEF IndInv
<1> QED
  BY Invariance, <1>1, PTL

\* Every client sees a gap-free run of one common order of the messages.
THEOREM Ordered == Spec => []OrderedDelivery
<1>1. IndInv => OrderedDelivery
  BY DEF IndInv
<1> QED
  BY Invariance, <1>1, PTL

-----------------------------------------------------------------------------
\* The initial state of the server is an initial state of the contract.
LEMMA ContractInit == Init => Contract!Init
BY DEF Init, Contract!Init

\* Every step of the server is a step of the contract, or none: taking the
\* mutex for a broadcast publishes, a write delivers or drops, a registration
\* joins, and the rest is not seen.
LEMMA ContractStep == IndInv /\ [Next]_vars => [Contract!Next]_(Contract!vars)
<1> SUFFICES ASSUME IndInv, [Next]_vars PROVE [Contract!Next]_(Contract!vars)
  OBVIOUS
<1> USE DEF Contract!vars, Contract!Next
<1>1. CASE BroadcastLock
  <2>1. cur \in Messages
    BY <1>1 DEF BroadcastLock, IndInv, RangeInv
  <2>2. \A d \in clients : Contract!CaughtUp(d)
    <3>1. todo = {}
      BY <1>1 DEF BroadcastLock, IndInv, RangeInv
    <3> QED
      BY <3>1 DEF IndInv, TypeOK, UpToDate, Contract!CaughtUp, Contract!Position
  <2>3. Contract!Publish(cur)
    BY <1>1, <2>2 DEF BroadcastLock, Contract!Publish
  <2> QED
    BY <2>1, <2>3
<1>2. CASE BroadcastUnlock
  BY <1>2 DEF BroadcastUnlock, history
<1>3. ASSUME NEW c \in Conns, Handler(c) \/ NextClient(c) \/ Write(c) \/ Peer(c)
      PROVE  [Contract!Next]_(Contract!vars)
  <2>1. CASE Register(c)
    <3>1. c \notin clients /\ written[c] = << >>
      BY <2>1 DEF Register, Goto, IndInv, FreshInv
    <3>2. Contract!Join(c)
      BY <2>1, <3>1 DEF Register, Contract!Join
    <3> QED
      BY <3>2
  <2>2. CASE WriteOk(c)
    <3>1. bpc = "range" /\ c \in clients /\ cur = log[Len(log)]
      BY <2>2 DEF WriteOk, WriteReturns, IndInv, RangeInv
    <3>2. Contract!Position(c) + 1 = Len(log)
      BY <2>2, <3>1 DEF WriteOk, WriteReturns, IndInv, RangeInv, TypeOK, UpToDate, Contract!Position
    <3>3. ~Contract!CaughtUp(c)
      BY <3>1, <3>2 DEF IndInv, TypeOK, Contract!CaughtUp, Contract!Position
    <3>4. Contract!Deliver(c)
      BY <2>2, <3>1, <3>2, <3>3 DEF WriteOk, WriteReturns, Contract!Deliver
    <3> QED
      BY <3>4
  <2>3. CASE WriteErr(c)
    <3>1. c \in clients
      BY <2>3 DEF WriteErr, WriteReturns, IndInv, RangeInv
    <3>2. ~Contract!CaughtUp(c)
      BY <2>3, <3>1 DEF WriteErr, WriteReturns, IndInv, RangeInv, TypeOK, UpToDate, Contract!CaughtUp, Contract!Position
    <3>3. Contract!Drop(c)
      BY <2>3, <3>1, <3>2 DEF WriteErr, WriteReturns, history, Contract!Drop
    <3> QED
      BY <3>3
  <2>4. CASE Accept(c) \/ RegisterLock(c) \/ HandlerRead(c) \/ HandlerReadErr(c) \/ HandlerSend(c)
    BY <2>4 DEF Accept, RegisterLock, HandlerRead, HandlerReadErr, HandlerSend, history
  <2>5. CASE Peer(c)
    BY <2>5 DEF Peer, PeerSend, PeerRead, PeerLeave, server, history
  <2>6. CASE NextClient(c)
    BY <2>6 DEF NextClient, history
  <2> QED
    BY <1>3, <2>1, <2>2, <2>3, <2>4, <2>5, <2>6 DEF Handler, Write
<1>4. CASE UNCHANGED vars
  BY <1>4 DEF vars, server, history
<1> QED
  BY <1>1, <1>2, <1>3, <1>4 DEF Next

\* The goroutines of timeline.go implement the ordered fan-out of FanOut.
THEOREM ImplementsFanOut == Spec => ContractSpec
<1> QED
  BY Invariance, ContractInit, ContractStep, PTL DEF Spec, ContractSpec, Contract!Spec
-----------------------------------------------------------------------------
(* The order of what each client sent. *)

\* The message at hand before its broadcast is the last one its sender's handler
\* has read, or the last but one if the handler already waits with another.
CurInv ==
  bpc = "lock" => cur[2] = got[cur[1]] - (IF hpc[cur[1]] = "send" THEN 1 ELSE 0)

\* The messages of c that HandleClient has read and the log does not show yet.
Waiting(c) ==
  (IF hpc[c] = "send" THEN 1 ELSE 0) + (IF bpc = "lock" /\ cur[1] = c THEN 1 ELSE 0)

\* The numbers of c's messages in a log, and that they rise along it.
Numbers(l, c) == {l[i][2] : i \in {i \in DOMAIN l : l[i][1] = c}}
Rising(l, c) ==
  \A i, j \in {i \in DOMAIN l : l[i][1] = c} : i < j => l[i][2] < l[j][2]

\* SenderOrder for one connection.
InOrder(c) == Numbers(log, c) = 1 .. got[c] - Waiting(c) /\ Rising(log, c)

\* A step of a handler or of Broadcast keeps the message at hand up to date.
LEMMA CurStep == IndInv /\ CurInv /\ [Next]_vars => CurInv'
<1> SUFFICES ASSUME IndInv, CurInv, [Next]_vars PROVE CurInv'
  OBVIOUS
<1> USE DEF IndInv, TypeOK, RangeInv, CurInv, Messages
<1>1. CASE BroadcastLock \/ BroadcastUnlock
  BY <1>1 DEF BroadcastLock, BroadcastUnlock
<1>2. ASSUME NEW c \in Conns, Handler(c)
      PROVE  CurInv'
  <2>1. CASE Accept(c) \/ RegisterLock(c) \/ Register(c)
    <3>1. /\ bpc' = bpc /\ cur' = cur /\ got' = got
          /\ \A x \in Conns : hpc'[x] = "send" <=> hpc[x] = "send"
      BY <2>1 DEF Accept, RegisterLock, Register, Goto, net
    <3> QED
      BY <3>1
  <2>2. CASE HandlerRead(c)
    BY <2>2 DEF HandlerRead, Goto
  <2>3. CASE HandlerReadErr(c)
    BY <2>3 DEF HandlerReadErr, Goto
  <2>4. CASE HandlerSend(c)
    BY <2>4 DEF HandlerSend, Goto, net
  <2> QED
    BY <1>2, <2>1, <2>2, <2>3, <2>4 DEF Handler
<1>3. ASSUME NEW c \in Conns, NextClient(c) \/ Write(c) \/ Peer(c)
      PROVE  CurInv'
  BY <1>3 DEF NextClient, Write, WriteOk, WriteErr, WriteReturns, Peer, PeerSend, PeerRead, PeerLeave, net, server
<1>4. CASE UNCHANGED vars
  BY <1>4 DEF vars, server, net
<1> QED
  BY <1>1, <1>2, <1>3, <1>4 DEF Next

\* A message appended to a log keeps a sender's order when it is that sender's
\* next one, or another's.
LEMMA AppendOrder ==
  ASSUME NEW c \in Conns, NEW l \in Seq(Messages), NEW m \in Messages, NEW k \in Nat,
         Numbers(l, c) = 1 .. k, Rising(l, c),
         m[1] = c => m[2] = k + 1
  PROVE  /\ Numbers(Append(l, m), c) = 1 .. (IF m[1] = c THEN k + 1 ELSE k)
         /\ Rising(Append(l, m), c)
<1> DEFINE new == Append(l, m)
           old == {i \in DOMAIN l : l[i][1] = c}
           mine == {i \in DOMAIN new : new[i][1] = c}
<1>1. /\ DOMAIN l = 1 .. Len(l) /\ DOMAIN new = 1 .. Len(l) + 1 /\ Len(l) \in Nat
      /\ new[Len(l) + 1] = m /\ \A i \in 1 .. Len(l) : new[i] = l[i]
  OBVIOUS
<1>2. mine = old \cup (IF m[1] = c THEN {Len(l) + 1} ELSE {})
  BY <1>1
<1>3. {new[i][2] : i \in old} = 1 .. k
  BY <1>1 DEF Numbers
<1>4. \A i \in old : i < Len(l) + 1 /\ new[i] = l[i] /\ l[i][2] \in 1 .. k
  BY <1>1 DEF Numbers
<1>5. CASE m[1] = c
  <2>1. {new[i][2] : i \in mine} = {new[i][2] : i \in old} \cup {m[2]}
    BY <1>1, <1>2, <1>5
  <2>2. {new[i][2] : i \in mine} = 1 .. k + 1
    <3>1. 1 .. k + 1 = (1 .. k) \cup {k + 1}
      OBVIOUS
    <3>2. m[2] = k + 1
      BY <1>5
    <3> HIDE DEF mine, old, new
    <3> QED
      BY <1>3, <2>1, <3>1, <3>2
  <2>3. \A i, j \in mine : i < j => new[i][2] < new[j][2]
    BY <1>1, <1>2, <1>4, <1>5 DEF Rising
  <2> QED
    BY <1>5, <2>2, <2>3 DEF Numbers, Rising
<1>6. CASE m[1] # c
  <2>1. mine = old
    BY <1>2, <1>6
  <2> QED
    BY <1>3, <1>4, <1>6, <2>1 DEF Numbers, Rising
<1> QED
  BY <1>5, <1>6

\* Every step keeps each sender's order: a message leaves the channel for the
\* log only when it is its sender's next.
LEMMA SenderStep == IndInv /\ CurInv /\ SenderOrder /\ [Next]_vars => SenderOrder'
<1> SUFFICES ASSUME IndInv, CurInv, SenderOrder, [Next]_vars, NEW d \in Conns
             PROVE  InOrder(d)'
  BY DEF SenderOrder, InOrder, Numbers, Rising, Waiting
<1>0. InOrder(d) /\ got[d] \in Nat /\ (hpc[d] = "send" => got[d] >= 1)
  BY DEF SenderOrder, InOrder, Numbers, Rising, Waiting, IndInv, TypeOK, ReadInv
<1>1. CASE log' = log /\ got'[d] - Waiting(d)' = got[d] - Waiting(d)
  BY <1>0, <1>1 DEF InOrder
<1>2. CASE BroadcastLock
  <2>1. /\ cur \in Messages /\ log \in Seq(Messages) /\ log' = Append(log, cur)
        /\ got' = got /\ hpc' = hpc /\ bpc = "lock" /\ bpc' = "range" /\ cur' = cur
    BY <1>2 DEF BroadcastLock, IndInv, TypeOK, RangeInv, net
  <2> DEFINE k == got[d] - Waiting(d)
  <2>2. /\ k \in Nat
        /\ cur[1] = d => cur[2] = k + 1
        /\ got'[d] - Waiting(d)' = IF cur[1] = d THEN k + 1 ELSE k
    BY <1>0, <2>1 DEF Waiting, CurInv, Messages
  <2> HIDE DEF k
  <2>3. Numbers(log, d) = 1 .. k /\ Rising(log, d)
    BY <1>0 DEF InOrder, k
  <2>4. Numbers(log', d) = 1 .. (IF cur[1] = d THEN k + 1 ELSE k) /\ Rising(log', d)
    BY <2>1, <2>2, <2>3, AppendOrder
  <2> QED
    BY <2>2, <2>4 DEF InOrder
<1>3. CASE BroadcastUnlock
  BY <1>1, <1>3 DEF BroadcastUnlock, Waiting, net, history
<1>4. ASSUME NEW c \in Conns, Handler(c)
      PROVE  InOrder(d)'
  <2>1. CASE Accept(c) \/ RegisterLock(c) \/ Register(c)
    BY <1>1, <2>1 DEF Accept, RegisterLock, Register, Goto, Waiting, net, history, IndInv, TypeOK
  <2>2. CASE HandlerRead(c)
    <3>1. /\ log' = log /\ bpc' = bpc /\ cur' = cur /\ hpc[c] = "read"
          /\ hpc' = [hpc EXCEPT ![c] = "send"] /\ got' = [got EXCEPT ![c] = @ + 1]
          /\ hpc \in [Conns -> HandlerState] /\ got \in [Conns -> Nat]
      BY <2>2 DEF HandlerRead, Goto, history, IndInv, TypeOK
    <3>2. CASE d = c
      <4>1. hpc[d] = "read" /\ hpc'[d] = "send" /\ got'[d] = got[d] + 1
        BY <3>1, <3>2
      <4> QED
        BY <1>0, <1>1, <3>1, <4>1 DEF Waiting
    <3>3. CASE d # c
      <4>1. hpc'[d] = hpc[d] /\ got'[d] = got[d]
        BY <3>1, <3>3
      <4> QED
        BY <1>1, <3>1, <4>1 DEF Waiting
    <3> QED
      BY <3>2, <3>3
  <2>3. CASE HandlerReadErr(c)
    BY <1>1, <2>3 DEF HandlerReadErr, Goto, Waiting, history, IndInv, TypeOK
  <2>4. CASE HandlerSend(c)
    BY <1>0, <1>1, <2>4 DEF HandlerSend, Goto, Waiting, net, history, IndInv, TypeOK
  <2> QED
    BY <1>4, <2>1, <2>2, <2>3, <2>4 DEF Handler
<1>5. ASSUME NEW c \in Conns, NextClient(c) \/ Write(c) \/ Peer(c)
      PROVE  InOrder(d)'
  BY <1>1, <1>5 DEF NextClient, Write, WriteOk, WriteErr, WriteReturns, Peer, PeerSend, PeerRead, PeerLeave, Waiting,
                    net, server, history
<1>6. CASE UNCHANGED vars
  BY <1>1, <1>6 DEF vars, server, net, history, Waiting
<1> QED
  BY <1>2, <1>3, <1>4, <1>5, <1>6 DEF Next

\* Every message that HandleClient reads is broadcast once, in the order its
\* client sent it, whatever the other goroutines do (timeline.go:38-45).
THEOREM SenderOrdered == Spec => []SenderOrder
<1>1. Init => CurInv /\ SenderOrder
  BY DEF Init, CurInv, SenderOrder
<1>2. IndInv /\ CurInv /\ SenderOrder /\ [Next]_vars => CurInv' /\ SenderOrder'
  BY CurStep, SenderStep
<1> QED
  BY Invariance, <1>1, <1>2, PTL DEF Spec
=============================================================================
