------------------------------ MODULE Greeter ------------------------------
(***************************************************************************)
(* The demosvc service: cmd/demosvc starts a gRPC and an HTTP server over   *)
(* one GreeterService.  A call runs through the middlewares of its server,  *)
(* SayHello, the middlewares again and the server's encoder.  The kratos    *)
(* library is external: Run starts both servers, stops both when one fails  *)
(* or a signal comes, and waits for the calls in progress; net/http closes  *)
(* the connection of a handler that panics, gRPC lets the panic end the     *)
(* process.                                                                 *)
(***************************************************************************)
EXTENDS Naturals

CONSTANT Requests

Transports == {"http", "grpc"}

VARIABLES app,       \* where cmd/demosvc is
          servers,   \* servers[t]: "off", "serving", "stopped" or "failed"
          calls      \* calls[r]: transport, name, localizer in the context, progress, result

greeterVars == <<app, servers, calls>>

NoCall == [over |-> "none", name |-> "none", localizer |-> FALSE, at |-> "none", result |-> "none"]

GreeterTypeOK ==
  /\ app \in {"starting", "running", "stopping", "ended", "panicked"}
  /\ servers \in [Transports -> {"off", "serving", "stopped", "failed"}]
  /\ calls \in [Requests ->
       [over : Transports \cup {"none"}, name : {"none", "error", "other"}, localizer : BOOLEAN,
        at : {"none", "middlewares", "service", "unwinding", "encoding", "answered", "dropped"},
        result : {"none", "badRequest", "hello", "userNotFound", "notLocalized", "panic", "internal"}]]

GreeterInit ==
  /\ app = "starting" /\ servers = [t \in Transports |-> "off"]
  /\ calls = [r \in Requests |-> NoCall]

\* The process is there to run a handler.
Up == app \in {"running", "stopping"}
InCallOf(t) == {r \in Requests : calls[r].over = t /\ calls[r].at \notin {"answered", "dropped"}}

-----------------------------------------------------------------------------
(* Mutants *)

\* recovery.Recovery is left out of the gRPC server.
GrpcChainBare == {"tracing", "logging", "metrics", "validate"}

-----------------------------------------------------------------------------
\* The middlewares of either server.
HttpChain == {"recovery", "tracing", "logging", "metrics", "localize", "validate"}

GrpcChain == {"recovery", "tracing", "logging", "metrics", "validate"}

Chain(t) == IF t = "http" THEN HttpChain ELSE GrpcChain

\* Load, Scan, wireApp (with the message file of localize.I18N): any may panic.
StartApp ==
  /\ app = "starting" /\ app' \in {"running", "panicked"}
  /\ UNCHANGED <<servers, calls>>

\* A server listens, or fails and takes the other one along.
Listen(t) ==
  /\ Up /\ servers[t] = "off"
  /\ \/ servers' = [servers EXCEPT ![t] = "serving"] /\ UNCHANGED app
     \/ servers' = [servers EXCEPT ![t] = "failed"] /\ app' = "stopping"
  /\ UNCHANGED calls

StopSignal == app = "running" /\ app' = "stopping" /\ UNCHANGED <<servers, calls>>

StopServer(t) ==
  /\ app = "stopping" /\ servers[t] = "serving" /\ InCallOf(t) = {}
  /\ servers' = [servers EXCEPT ![t] = "stopped"] /\ UNCHANGED <<app, calls>>

\* app.Run returns once no server runs; main panics on its error.
RunReturns ==
  /\ app = "stopping" /\ \A t \in Transports : servers[t] \in {"stopped", "failed"}
  /\ app' = IF \E t \in Transports : servers[t] = "failed" THEN "panicked" ELSE "ended"
  /\ UNCHANGED <<servers, calls>>

\* The generated handlers decode the request; one that cannot be decoded is
\* answered without the middlewares.
Arrive(r, t, name) ==
  /\ app = "running" /\ servers[t] = "serving" /\ calls[r] = NoCall
  /\ \E at \in {"middlewares", "encoding"} : calls' = [calls EXCEPT ![r] =
       [over |-> t, name |-> name, localizer |-> FALSE, at |-> at,
        result |-> IF at = "encoding" THEN "badRequest" ELSE "none"]]
  /\ UNCHANGED <<app, servers>>

\* The way in through the middlewares: I18N puts a localizer in the context.
EnterMiddlewares(r) ==
  /\ Up /\ calls[r].at = "middlewares"
  /\ calls' = [calls EXCEPT ![r].at = "service", ![r].localizer = "localize" \in Chain(calls[r].over)]
  /\ UNCHANGED <<app, servers>>

\* FromContext asserts that there is a localizer, and panics where there is none;
\* Localize makes the message or returns an error.
FromContext(r) == IF calls[r].localizer THEN {"hello", "notLocalized"} ELSE {"panic"}

SayHello(r) ==
  /\ Up /\ calls[r].at = "service"
  /\ \E result \in IF calls[r].name = "error" THEN {"userNotFound"} ELSE FromContext(r) :
       calls' = [calls EXCEPT ![r].at = "unwinding", ![r].result = result]
  /\ UNCHANGED <<app, servers>>

\* The way out: Recovery turns a panic into an error; one that gets past it is
\* caught by net/http or ends the process.
Unwind(r) ==
  /\ Up /\ calls[r].at = "unwinding"
  /\ IF calls[r].result # "panic" THEN calls' = [calls EXCEPT ![r].at = "encoding"] /\ UNCHANGED app
     ELSE IF "recovery" \in Chain(calls[r].over)
       THEN calls' = [calls EXCEPT ![r].at = "encoding", ![r].result = "internal"] /\ UNCHANGED app
     ELSE /\ calls' = [calls EXCEPT ![r].at = "dropped"]
          /\ app' = IF calls[r].over = "grpc" THEN "panicked" ELSE app
  /\ UNCHANGED servers

\* The error of SayHello has the number of an enum, 1, for its status code:
\* net/http panics at it outside of Recovery, gRPC calls it unknown.
EncodeReply(r) ==
  /\ Up /\ calls[r].at = "encoding"
  /\ calls' = [calls EXCEPT ![r].at =
       IF calls[r].over = "http" /\ calls[r].result = "userNotFound" THEN "dropped" ELSE "answered"]
  /\ UNCHANGED <<app, servers>>

HandleCall(r) == EnterMiddlewares(r) \/ SayHello(r) \/ Unwind(r) \/ EncodeReply(r)

GreeterNext ==
  \/ StartApp \/ StopSignal \/ RunReturns
  \/ \E t \in Transports : Listen(t) \/ StopServer(t)
  \/ \E r \in Requests : HandleCall(r) \/ \E t \in Transports, n \in {"error", "other"} : Arrive(r, t, n)

GreeterFairness ==
  /\ \A r \in Requests : WF_greeterVars(HandleCall(r))
  /\ \A t \in Transports : WF_greeterVars(Listen(t)) /\ WF_greeterVars(StopServer(t))
  /\ WF_greeterVars(RunReturns)

-----------------------------------------------------------------------------
(* Properties *)

\* No call ends the process: it panics only where a server failed to start
\* (main.go:68-86), although SayHello panics at every gRPC call (localize.go:34).
CallsContained ==
  app = "panicked" =>
    \/ \A t \in Transports : servers[t] = "off"
    \/ \E t \in Transports : servers[t] = "failed"

\* Over HTTP a call that is answered was greeted, unless it could not be decoded
\* or the message not made: no call of a name but "error" panics there.  A call is
\* dropped only for that name, and never over gRPC (greeter.go:29-46).
GreetedOverHttp ==
  \A r \in Requests :
    /\ (calls[r].at = "answered" /\ calls[r].over = "http") =>
         calls[r].result \in {"hello", "badRequest", "notLocalized"}
    /\ calls[r].at = "dropped" => calls[r].over = "http" /\ calls[r].name = "error"

\* A call ends, and a signal or a server that fails ends the service, with the
\* calls in progress answered first.
CallsEnd == \A r \in Requests : (calls[r].over # "none") ~> (calls[r].at \in {"answered", "dropped"})
ServiceStops ==
  (app = "stopping") ~> (app \in {"ended", "panicked"} /\ \A t \in Transports : InCallOf(t) = {})

\* SayHello "Sends a greeting" (greeter.proto:14) to every name but "error",
\* whichever way it is called, if it can be decoded and the message be made.
SendsGreeting ==
  \A r \in Requests : (calls[r].at = "answered" /\ calls[r].name = "other") =>
    calls[r].result \in {"hello", "badRequest", "notLocalized"}
=============================================================================
