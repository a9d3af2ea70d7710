---------------------------- MODULE EchoSession ----------------------------
(***************************************************************************)
(* cmd/client/ws_client.go against the echo handler of pkg/ws/ws.go.  The   *)
(* client's main writes a message per tick and starts the close handshake   *)
(* on an interrupt, its reader goroutine reads until an error; the handler  *)
(* writes back each message it reads.  A direction of the connection holds  *)
(* Buffer frames: a write blocks while it is full.  A frame is the number   *)
(* of its message or the close frame.                                       *)
(***************************************************************************)
EXTENDS Integers, Sequences, SequencesExt

CONSTANTS MaxTicks,  \* bound: messages written
          Buffer     \* frames in flight per direction

ASSUME EchoAssumption == MaxTicks \in Nat /\ Buffer \in Nat

Close == 0

VARIABLES client,       \* where the client's main is
          reader,       \* its reader goroutine runs; FALSE: it has closed done
          interrupted,  \* the interrupt has arrived
          handler,      \* where the handler is
          hand,         \* the message it holds
          toServer, toClient,  \* the frames in flight
          broken,       \* the connection broke
          sent,         \* how many messages the client wrote
          received      \* history: what the reader read

echoVars == <<client, reader, interrupted, handler, hand, toServer, toClient, broken, sent, received>>
handlerVars == <<handler, hand>>
mainVars == <<client, interrupted, sent>>
readerVars == <<reader, received>>

EchoTypeOK ==
  /\ client \in {"dial", "select", "write", "writeClose", "await", "closed", "exited"}
  /\ reader \in BOOLEAN /\ interrupted \in BOOLEAN /\ broken \in BOOLEAN
  /\ handler \in {"upgrade", "read", "write", "returned"}
  /\ hand \in 0 .. MaxTicks /\ sent \in 0 .. MaxTicks
  /\ \A c \in {toServer, toClient} : c \in Seq(0 .. MaxTicks) /\ Len(c) <= Buffer
  /\ received \in Seq(1 .. MaxTicks)

EchoInit ==
  /\ client = "dial" /\ reader = FALSE /\ interrupted = FALSE
  /\ handler = "upgrade" /\ hand = 0 /\ broken = FALSE
  /\ toServer = << >> /\ toClient = << >> /\ sent = 0 /\ received = << >>

\* main is over: after the handshake ("closed") or without it.
ClientGone == client \in {"closed", "exited"}
Main(from, to) == client = from /\ client' = to
Handle(from, to) == handler = from /\ handler' = to

-----------------------------------------------------------------------------
(* Mutants *)

\* The handler skips the echo where it would have to wait.
EchoOrSkip ==
  /\ ~broken
  /\ Handle("write", "read")
  /\ toClient' = IF Len(toClient) < Buffer THEN Append(toClient, hand) ELSE toClient
  /\ UNCHANGED <<mainVars, readerVars, hand, toServer, broken>>

\* A write never waits.
EchoUnbounded ==
  /\ ~broken
  /\ Handle("write", "read")
  /\ toClient' = Append(toClient, hand)
  /\ UNCHANGED <<mainVars, readerVars, hand, toServer, broken>>

\* The case of the interrupt ends in a break, which leaves only the select.
SelectInterruptBreaks ==
  /\ interrupted /\ Main("select", "select") /\ interrupted' = FALSE
  /\ UNCHANGED <<sent, readerVars, handlerVars, toServer, toClient, broken>>

-----------------------------------------------------------------------------
\* Dial and Upgrade; an error of either ends both.
Connect ==
  /\ \/ Main("dial", "select") /\ Handle("upgrade", "read") /\ reader' = TRUE
     \/ Main("dial", "exited") /\ Handle("upgrade", "returned") /\ UNCHANGED reader
  /\ UNCHANGED <<interrupted, hand, toServer, toClient, broken, sent, received>>

Interrupt ==
  /\ ~interrupted /\ interrupted' = TRUE
  /\ UNCHANGED <<client, readerVars, handlerVars, toServer, toClient, broken, sent>>

Break ==
  /\ ~broken /\ client # "dial" /\ broken' = TRUE
  /\ UNCHANGED <<mainVars, readerVars, handlerVars, toServer, toClient>>

\* The select of main: it has closed done, a tick, or the interrupt.
SelectDone ==
  /\ ~reader /\ Main("select", "exited")
  /\ UNCHANGED <<interrupted, readerVars, handlerVars, toServer, toClient, broken, sent>>

SelectTick ==
  /\ sent < MaxTicks /\ Main("select", "write")
  /\ UNCHANGED <<interrupted, readerVars, handlerVars, toServer, toClient, broken, sent>>

SelectInterrupt ==
  /\ interrupted /\ Main("select", "writeClose")
  /\ UNCHANGED <<interrupted, readerVars, handlerVars, toServer, toClient, broken, sent>>

\* WriteMessage of a tick or of the close frame: it returns when the frame is
\* in flight, or with an error once the handler is gone or the connection is.
WriteFrame ==
  /\ Len(toServer) < Buffer /\ ~broken
  /\ \/ Main("write", "select") /\ sent' = sent + 1 /\ toServer' = Append(toServer, sent')
     \/ Main("writeClose", "await") /\ toServer' = Append(toServer, Close) /\ UNCHANGED sent
  /\ UNCHANGED <<interrupted, readerVars, handlerVars, toClient, broken>>

WriteFails ==
  /\ broken \/ handler = "returned"
  /\ Main("write", "exited") \/ Main("writeClose", "exited")
  /\ UNCHANGED <<interrupted, readerVars, handlerVars, toServer, toClient, broken, sent>>

\* The second select: done, or one second.
Await ==
  /\ \/ ~reader /\ Main("await", "closed")
     \/ Main("await", "exited")
  /\ UNCHANGED <<interrupted, readerVars, handlerVars, toServer, toClient, broken, sent>>

\* The reader goroutine.
ReadEcho ==
  /\ reader /\ toClient # << >> /\ ~ClientGone
  /\ toClient' = Tail(toClient)
  /\ IF Head(toClient) = Close THEN reader' = FALSE /\ UNCHANGED received
     ELSE received' = Append(received, Head(toClient)) /\ UNCHANGED reader
  /\ UNCHANGED <<mainVars, handlerVars, toServer, broken>>

ReadEchoFails ==
  /\ reader /\ (broken \/ (handler = "returned" /\ toClient = << >>))
  /\ reader' = FALSE
  /\ UNCHANGED <<mainVars, handlerVars, toServer, toClient, broken, received>>

\* ReadMessage of the handler; at the close frame the library answers with one
\* (unless the way back stays full) and ReadMessage returns an error.
HandlerReads ==
  /\ toServer # << >> /\ ~broken
  /\ toServer' = Tail(toServer)
  /\ IF Head(toServer) # Close
       THEN Handle("read", "write") /\ hand' = Head(toServer) /\ UNCHANGED toClient
       ELSE /\ Handle("read", "returned") /\ UNCHANGED hand
            /\ toClient' = IF Len(toClient) < Buffer THEN Append(toClient, Close) ELSE toClient
  /\ UNCHANGED <<mainVars, readerVars, broken>>

Echo ==
  /\ Len(toClient) < Buffer /\ ~broken
  /\ Handle("write", "read")
  /\ toClient' = Append(toClient, hand)
  /\ UNCHANGED <<mainVars, readerVars, hand, toServer, broken>>

\* Either call fails, and the handler breaks out of its loop.
HandlerFails ==
  /\ \/ broken \/ (ClientGone /\ (handler = "write" \/ toServer = << >>))
  /\ Handle("read", "returned") \/ Handle("write", "returned")
  /\ UNCHANGED <<mainVars, readerVars, hand, toServer, toClient, broken>>

MainStep == SelectDone \/ SelectTick \/ WriteFrame \/ WriteFails \/ Await
ReaderStep == ReadEcho \/ ReadEchoFails
HandlerStep == HandlerReads \/ Echo \/ HandlerFails

EchoNext ==
  \/ Connect \/ Interrupt \/ Break
  \/ MainStep \/ SelectInterrupt \/ ReaderStep \/ HandlerStep

\* Each goroutine goes on; a select that is ready again and again for the
\* interrupt takes it some time, as Go picks among the ready cases at random.
EchoFairness ==
  /\ WF_echoVars(Connect) /\ WF_echoVars(MainStep) /\ SF_echoVars(SelectInterrupt)
  /\ WF_echoVars(ReaderStep) /\ WF_echoVars(HandlerStep)

-----------------------------------------------------------------------------
(* Properties *)

FirstN(n) == [k \in 1 .. n |-> k]

\* While nothing has failed, what was read, what is in flight and what the
\* handler holds are the messages written, each once and in order, and behind
\* them at most one close frame.
EchoInOrder ==
  /\ IsPrefix(received, FirstN(sent))
  /\ (~broken /\ ~ClientGone) =>
       received \o toClient \o (IF handler = "write" THEN <<hand>> ELSE << >>) \o toServer
         \in {FirstN(sent), Append(FirstN(sent), Close)}

\* The clean close (ws_client.go:62-73) loses nothing: when the client saw done
\* after its close frame and the connection held, every message was echoed.
CleanCloseComplete == (client = "closed" /\ ~broken) => received = FirstN(sent)

\* An interrupt ends the client, with full buffers and broken connections too:
\* neither end waits for the other for ever.
InterruptEnds == interrupted ~> ClientGone

\* When the client is gone the handler returns (ws.go:22-31).
EchoHandlerReturns == ClientGone ~> (handler = "returned")
=============================================================================
