----------------------------- MODULE MCSessions -----------------------------
(* Instances for TLC of the programs whose liveness is checked too.  They    *)
(* have nothing in common: which of them runs is fixed at first, and the     *)
(* others have not begun, or are over, so that fairness asks nothing of them.*)
EXTENDS CondVar, EchoSession, Greeter

VARIABLE program

sessionsVars == <<program, condVars, echoVars, greeterVars>>

\* main of condx has returned without a goroutine; the echo client has gone.
CondOver ==
  /\ routine = [g \in Goroutines |-> "start"] /\ condLock = FALSE
  /\ waiters = << >> /\ signalled = << >> /\ early = << >> /\ mainAt = Len(Calls)

EchoOver ==
  /\ client = "exited" /\ reader = FALSE /\ interrupted = FALSE
  /\ handler = "returned" /\ hand = 0 /\ broken = FALSE
  /\ toServer = << >> /\ toClient = << >> /\ sent = 0 /\ received = << >>

SessionsInit ==
  \/ program = "cond" /\ CondInit /\ EchoOver /\ GreeterInit
  \/ program = "echo" /\ CondOver /\ EchoInit /\ GreeterInit
  \/ program = "greeter" /\ CondOver /\ EchoOver /\ GreeterInit

SessionsNext ==
  \/ program = "cond" /\ CondNext /\ UNCHANGED <<program, echoVars, greeterVars>>
  \/ program = "echo" /\ EchoNext /\ UNCHANGED <<program, condVars, greeterVars>>
  \/ program = "greeter" /\ GreeterNext /\ UNCHANGED <<program, condVars, echoVars>>

SessionsSpec ==
  SessionsInit /\ [][SessionsNext]_sessionsVars /\ CondFairness /\ EchoFairness /\ GreeterFairness

\* Every variable of every program has its type.
SessionsTypeOK == CondTypeOK /\ EchoTypeOK /\ GreeterTypeOK

\* The echo session (ws.go, ws_client.go): while nothing has failed every message
\* written is echoed, in flight or in the handler's hand, once and in order, and a
\* clean close loses none.
EchoRight == EchoInOrder /\ CleanCloseComplete

\* The service (main.go, greeter.go): no call ends the process, though SayHello
\* panics at every gRPC call (localize.go:34); none but of the name "error" panics
\* or is dropped over HTTP.
CallsRight == CallsContained /\ GreetedOverHttp

\* The echo session ends: an interrupt ends the client, with full buffers and
\* broken connections too, and when the client is gone the handler returns.
EchoEnds == InterruptEnds /\ EchoHandlerReturns

\* The service ends: every call is answered or dropped, and a signal or a server
\* that fails stops both servers, with the calls in progress answered first.
ServiceEnds == CallsEnd /\ ServiceStops
=============================================================================
