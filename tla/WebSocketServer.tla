--------------------------- MODULE WebSocketServer ---------------------------
(***************************************************************************)
(* cmd/design/lottery/timeline/timeline.go: one HandleClient goroutine per  *)
(* connection and one Broadcast goroutine share the clients map (under a    *)
(* sync.Mutex) and an unbuffered channel.  The peers and the sockets are    *)
(* the environment: a peer sends, reads what was written to it, or leaves.  *)
(* A message is the pair <<sender, n>>: the n-th one its sender sent.       *)
(***************************************************************************)
EXTENDS Naturals, Sequences, FiniteSets

CONSTANTS Conns,    \* the connections that may be accepted
          Readers,  \* the peers that keep reading while connected
          MaxMsgs,  \* bound: MaxMsgs[c] messages are sent by peer c
          SendBuf   \* messages a socket takes before a write to it blocks

ASSUME ConstantsAssumption ==
  /\ Readers \subseteq Conns
  /\ MaxMsgs \in [Conns -> Nat]
  /\ SendBuf \in Nat \ {0}

VARIABLES
  clients,   \* WebSocketServer.clients
  locked,    \* WebSocketServer.mutex: a sync.Mutex knows no owner
  hpc,       \* hpc[c]: where HandleClient(c) is
  bpc,       \* where Broadcast is
  cur,       \* Broadcast's msg
  todo,      \* the part of clients its range has yet to serve
  writing,   \* the client whose WriteMessage is under way: none or one
  sock,      \* sock[c]: open, gone (the peer left) or closed (by this server)
  sent,      \* sent[c]: how many messages peer c has sent
  got,       \* got[c]: how many of them HandleClient(c) has read
  consumed,  \* consumed[c]: how many of the messages written to c it has read
  log,       \* history: the messages in the order they were broadcast
  start,     \* history: start[c] is the length of log when c registered
  written    \* history: written[c] is what was written to c

server == <<clients, locked, hpc, bpc, cur, todo, writing>>
net == <<sock, sent, got, consumed>>
history == <<log, start, written>>
vars == <<server, net, history>>

Messages == UNION {{c} \X (1 .. MaxMsgs[c]) : c \in Conns}

HandlerState == {"idle", "lock", "register", "read", "send", "done"}

TypeOK ==
  /\ clients \subseteq Conns
  /\ locked \in BOOLEAN
  /\ hpc \in [Conns -> HandlerState]
  /\ bpc \in {"recv", "lock", "range"}
  /\ cur \in Messages \cup {<< >>}
  /\ todo \subseteq Conns
  /\ writing \subseteq Conns
  /\ sock \in [Conns -> {"open", "gone", "closed"}]
  /\ sent \in [Conns -> Nat]
  /\ got \in [Conns -> Nat]
  /\ consumed \in [Conns -> Nat]
  /\ log \in Seq(Messages)
  /\ start \in [Conns -> Nat]
  /\ written \in [Conns -> Seq(Messages)]

\* NewWebSocketServer, then "go server.Broadcast()".
Init ==
  /\ clients = {}
  /\ locked = FALSE
  /\ hpc = [c \in Conns |-> "idle"]
  /\ bpc = "recv"
  /\ cur = << >>
  /\ todo = {}
  /\ writing = {}
  /\ sock = [c \in Conns |-> "open"]
  /\ sent = [c \in Conns |-> 0]
  /\ got = [c \in Conns |-> 0]
  /\ consumed = [c \in Conns |-> 0]
  /\ log = << >>
  /\ start = [c \in Conns |-> 0]
  /\ written = [c \in Conns |-> << >>]

-----------------------------------------------------------------------------
\* The WriteMessage to c returns, and the range is done with c.
WriteReturns(c) ==
  /\ c \in writing
  /\ writing' = {}
  /\ todo' = todo \ {c}

(* Mutants: each is one of the actions below as a plausible bug would have it. *)

\* HandleClient writes the map without taking the mutex.
RegisterLockUnguarded(c) ==
  /\ hpc[c] = "lock"
  /\ hpc' = [hpc EXCEPT ![c] = "register"]
  /\ locked' = TRUE
  /\ UNCHANGED <<clients, bpc, cur, todo, writing, net, history>>

\* HandleClient returns from the registration without Unlock.
RegisterNoUnlock(c) ==
  /\ hpc[c] = "register"
  /\ hpc' = [hpc EXCEPT ![c] = "read"]
  /\ clients' = clients \cup {c}
  /\ start' = [start EXCEPT ![c] = Len(log)]
  /\ UNCHANGED <<locked, bpc, cur, todo, writing, net, log, written>>

\* "continue" where a read error should "break".
HandlerReadErrContinue(c) ==
  /\ sock[c] # "open"
  /\ hpc[c] = "read"
  /\ UNCHANGED vars

\* The message sent is the one after the one that was read.
HandlerSendStale(c) ==
  /\ bpc = "recv"
  /\ hpc[c] = "send"
  /\ hpc' = [hpc EXCEPT ![c] = "read"]
  /\ bpc' = "lock"
  /\ cur' = <<c, got[c] + 1>>
  /\ UNCHANGED <<clients, locked, todo, writing, net, history>>

\* select { case ws.broadcast <- msg: default: }
HandlerSendOrDrop(c) ==
  /\ hpc[c] = "send"
  /\ hpc' = [hpc EXCEPT ![c] = "read"]
  /\ IF bpc = "recv"
       THEN bpc' = "lock" /\ cur' = <<c, got[c]>>
       ELSE UNCHANGED <<bpc, cur>>
  /\ UNCHANGED <<clients, locked, todo, writing, net, history>>

\* A failed write is logged and nothing else.
WriteErrOnlyLogged(c) ==
  /\ WriteReturns(c)
  /\ sock[c] # "open"
  /\ UNCHANGED <<clients, locked, hpc, bpc, cur, net, history>>

\* A failed write leaves the range.
WriteErrBreak(c) ==
  /\ c \in writing
  /\ sock[c] # "open"
  /\ todo' = {}
  /\ writing' = {}
  /\ clients' = clients \ {c}
  /\ sock' = [sock EXCEPT ![c] = "closed"]
  /\ UNCHANGED <<locked, hpc, bpc, cur, sent, got, consumed, history>>

\* The next message is taken before the range is over.
BroadcastUnlockEarly ==
  /\ bpc = "range"
  /\ bpc' = "recv"
  /\ locked' = FALSE
  /\ UNCHANGED <<clients, hpc, cur, todo, writing, net, history>>

-----------------------------------------------------------------------------
(* HandleClient *)

Goto(c, from, to) ==
  /\ hpc[c] = from
  /\ hpc' = [hpc EXCEPT ![c] = to]

Accept(c) ==
  /\ Goto(c, "idle", "lock")
  /\ UNCHANGED <<clients, locked, bpc, cur, todo, writing, net, history>>

RegisterLock(c) ==
  /\ ~locked
  /\ Goto(c, "lock", "register")
  /\ locked' = TRUE
  /\ UNCHANGED <<clients, bpc, cur, todo, writing, net, history>>

\* clients[conn] = true, then Unlock.
Register(c) ==
  /\ Goto(c, "register", "read")
  /\ clients' = clients \cup {c}
  /\ locked' = FALSE
  /\ start' = [start EXCEPT ![c] = Len(log)]
  /\ UNCHANGED <<bpc, cur, todo, writing, net, log, written>>

\* What arrived before the socket died may still be read.
HandlerRead(c) ==
  /\ got[c] < sent[c]
  /\ Goto(c, "read", "send")
  /\ got' = [got EXCEPT ![c] = @ + 1]
  /\ UNCHANGED <<clients, locked, bpc, cur, todo, writing, sock, sent, consumed, history>>

\* A read error ends the loop; the deferred Close runs; clients keeps the entry.
HandlerReadErr(c) ==
  /\ sock[c] # "open"
  /\ Goto(c, "read", "done")
  /\ sock' = [sock EXCEPT ![c] = "closed"]
  /\ UNCHANGED <<clients, locked, bpc, cur, todo, writing, sent, got, consumed, history>>

\* The channel is unbuffered: a send happens when Broadcast receives.
HandlerSend(c) ==
  /\ bpc = "recv"
  /\ Goto(c, "send", "read")
  /\ bpc' = "lock"
  /\ cur' = <<c, got[c]>>
  /\ UNCHANGED <<clients, locked, todo, writing, net, history>>

-----------------------------------------------------------------------------
(* Broadcast *)

BroadcastLock ==
  /\ bpc = "lock"
  /\ ~locked
  /\ bpc' = "range"
  /\ locked' = TRUE
  /\ todo' = clients
  /\ log' = Append(log, cur)
  /\ UNCHANGED <<clients, writing, hpc, cur, net, start, written>>

\* The range goes to one more client, in the order Go picks, and stays with it
\* until its WriteMessage returns.
NextClient(c) ==
  /\ bpc = "range"
  /\ writing = {}
  /\ c \in todo
  /\ writing' = {c}
  /\ UNCHANGED <<clients, locked, hpc, bpc, cur, todo, net, history>>

\* A write returns once the socket has taken the message: on a connection that
\* is still open, when its buffer has room.  One to a peer that left may pass.
WriteOk(c) ==
  /\ WriteReturns(c)
  /\ sock[c] # "closed"
  /\ Len(written[c]) - consumed[c] < SendBuf
  /\ written' = [written EXCEPT ![c] = Append(@, cur)]
  /\ UNCHANGED <<clients, locked, hpc, bpc, cur, net, log, start>>

\* client.Close() and delete(ws.clients, client).
WriteErr(c) ==
  /\ WriteReturns(c)
  /\ sock[c] # "open"
  /\ clients' = clients \ {c}
  /\ sock' = [sock EXCEPT ![c] = "closed"]
  /\ UNCHANGED <<locked, hpc, bpc, cur, sent, got, consumed, history>>

BroadcastUnlock ==
  /\ bpc = "range"
  /\ todo = {}
  /\ bpc' = "recv"
  /\ locked' = FALSE
  /\ UNCHANGED <<clients, hpc, cur, todo, writing, net, history>>

-----------------------------------------------------------------------------
(* The peers *)

PeerSend(c) ==
  /\ hpc[c] # "idle"
  /\ sock[c] = "open"
  /\ sent[c] < MaxMsgs[c]
  /\ sent' = [sent EXCEPT ![c] = @ + 1]
  /\ UNCHANGED <<server, sock, got, consumed, history>>

PeerRead(c) ==
  /\ sock[c] = "open"
  /\ consumed[c] < Len(written[c])
  /\ consumed' = [consumed EXCEPT ![c] = @ + 1]
  /\ UNCHANGED <<server, sock, sent, got, history>>

PeerLeave(c) ==
  /\ hpc[c] # "idle"
  /\ sock[c] = "open"
  /\ sock' = [sock EXCEPT ![c] = "gone"]
  /\ UNCHANGED <<server, sent, got, consumed, history>>

-----------------------------------------------------------------------------
Handler(c) ==
  \/ Accept(c) \/ RegisterLock(c) \/ Register(c)
  \/ HandlerRead(c) \/ HandlerReadErr(c) \/ HandlerSend(c)

Write(c) == WriteOk(c) \/ WriteErr(c)

Peer(c) == PeerSend(c) \/ PeerRead(c) \/ PeerLeave(c)

Next ==
  \/ BroadcastLock \/ BroadcastUnlock
  \/ \E c \in Conns : Handler(c) \/ NextClient(c) \/ Write(c) \/ Peer(c)

Spec == Init /\ [][Next]_vars

(***************************************************************************)
(* A goroutine that can run is run (WF).  A goroutine waiting on the mutex  *)
(* or on the channel is served in the end although others take it in        *)
(* between: both queue their waiters first-in first-out (SF).  A peer owes  *)
(* the server nothing, except that Readers read.  The range goes on to some  *)
(* client; which one is next is never promised.                             *)
(***************************************************************************)
Fairness ==
  /\ SF_vars(BroadcastLock) /\ WF_vars(BroadcastUnlock)
  /\ WF_vars(\E c \in Conns : NextClient(c))
  /\ \A c \in Conns :
       /\ SF_vars(RegisterLock(c)) /\ WF_vars(Register(c))
       /\ WF_vars(HandlerRead(c) \/ HandlerReadErr(c))
       /\ SF_vars(HandlerSend(c))
       /\ WF_vars(Write(c))
  /\ \A c \in Readers : WF_vars(PeerRead(c))

FairSpec == Spec /\ Fairness

-----------------------------------------------------------------------------
(* Properties *)

Critical(c) == hpc[c] = "register"

\* At most one goroutine is ever inside a critical section, so the clients map
\* is never written by HandleClient (line 30) while another writes it or while
\* Broadcast ranges over it (lines 50-57).
MutualExclusion ==
  /\ \A c, d \in Conns : Critical(c) /\ Critical(d) => c = d
  /\ \A c \in Conns : Critical(c) => bpc # "range"

\* What Broadcast has written to a connection is a run, with no gap, repetition
\* or reordering, of the messages broadcast since HandleClient registered it:
\* all clients see the same messages in the same order.
OrderedDelivery ==
  \A c \in Conns :
    /\ start[c] + Len(written[c]) <= Len(log)
    /\ \A i \in 1 .. Len(written[c]) : written[c][i] = log[start[c] + i]

\* A registered client never lags: it has been written every message since it
\* joined, but for the one Broadcast is still handing round (line 50), whatever
\* errors the writes to other clients meet.
UpToDate ==
  \A c \in clients :
    start[c] + Len(written[c]) = Len(log) - (IF c \in todo THEN 1 ELSE 0)

\* Every message HandleClient reads from a client is broadcast exactly once, in
\* the order the client sent them, also after the client's connection died.
SenderOrder ==
  \A c \in Conns :
    LET mine == {i \in DOMAIN log : log[i][1] = c}
        waiting == (IF hpc[c] = "send" THEN 1 ELSE 0)
                     + (IF bpc = "lock" /\ cur[1] = c THEN 1 ELSE 0)
    IN  /\ {log[i][2] : i \in mine} = 1 .. got[c] - waiting
        /\ \A i, j \in mine : i < j => log[i][2] < log[j][2]

\* The goroutines implement the ordered fan-out that FanOut specifies.
Contract == INSTANCE FanOut WITH members <- clients, view <- written
ContractSpec == Contract!Spec

\* A message read from any client is in the end written to every client that
\* was registered by then, reads its connection, and does not lose it (the
\* comment on line 45: Broadcast sends to all clients).
EveryReaderServed ==
  \A c \in Conns, d \in Readers : \A n \in 1 .. MaxMsgs[c] :
    (d \in clients /\ hpc[c] = "send" /\ got[c] = n)
      ~> (sock[d] # "open" \/ \E i \in DOMAIN written[d] : written[d][i] = <<c, n>>)

\* A connection that is closed when a broadcast begins is out of the map by the
\* end of it: entries of dead clients do not outlive the next message.
DeadClientForgotten ==
  \A c \in Conns :
    (c \in clients /\ sock[c] = "closed" /\ bpc = "lock") ~> (c \notin clients)

\* The goroutine of a peer that left does not leak: it drains what it had read
\* and returns.
HandlerEnds ==
  \A c \in Conns : (sock[c] # "open") ~> (hpc[c] = "done")
=============================================================================
