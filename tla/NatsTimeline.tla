---------------------------- MODULE NatsTimeline ----------------------------
(***************************************************************************)
(* cmd/design/lottery/timeline/nats.go, several instances of it: each       *)
(* connects, publishes one event, subscribes, and then only listens.  The   *)
(* NATS server takes the commands of one connection in order and hands an   *)
(* event to those subscribed at that moment; it keeps nothing for others.   *)
(* The client library connects again when the connection breaks: it sends   *)
(* the subscriptions first, then the events it still holds.                 *)
(***************************************************************************)
EXTENDS Naturals, Sequences, SequencesExt

CONSTANTS Users,      \* the instances; each publishes the event named after it
          MaxBreaks   \* bound: connections that break

ASSUME NatsAssumption == MaxBreaks \in Nat

VARIABLES natsStep,     \* natsStep[u]: the next call of u's main
          connected,    \* who has a connection
          outgoing,     \* outgoing[u]: commands the server has not taken yet
          subscribers,  \* the server: who is subscribed to "timeline"
          delivery,     \* delivery[u]: events on their way to u
          printed,      \* printed[u]: the events u's callback has printed
          resent,       \* history: who subscribed again before their event was sent
          breaks        \* connections that broke

natsVars == <<natsStep, connected, outgoing, subscribers, delivery, printed, resent, breaks>>
natsServer == <<subscribers, delivery, printed>>
natsPast == <<resent, breaks>>

NatsTypeOK ==
  /\ natsStep \in [Users -> {"connect", "publish", "subscribe", "listen", "deaf", "fatal"}]
  /\ connected \subseteq Users /\ subscribers \subseteq connected /\ resent \subseteq Users
  /\ breaks \in 0 .. MaxBreaks
  /\ \A u \in Users :
       /\ outgoing[u] \in {<< >>, <<"PUB">>, <<"SUB">>, <<"PUB", "SUB">>, <<"SUB", "PUB">>}
       /\ delivery[u] \in Seq(Users) /\ printed[u] \in Seq(Users)

NatsInit ==
  /\ natsStep = [u \in Users |-> "connect"]
  /\ connected = {} /\ subscribers = {} /\ resent = {} /\ breaks = 0
  /\ outgoing = [u \in Users |-> << >>]
  /\ delivery = [u \in Users |-> << >>]
  /\ printed = [u \in Users |-> << >>]

NatsCall(u, from, to) == natsStep[u] = from /\ natsStep' = [natsStep EXCEPT ![u] = to]
Send(u, command) == outgoing' = [outgoing EXCEPT ![u] = Append(@, command)]

-----------------------------------------------------------------------------
\* nats.Connect; an error ends the program.
NatsConnect(u) ==
  /\ \/ NatsCall(u, "connect", "publish") /\ connected' = connected \cup {u}
     \/ NatsCall(u, "connect", "fatal") /\ UNCHANGED connected
  /\ UNCHANGED <<outgoing, natsServer, natsPast>>

\* Publish only puts the event into the buffer of the connection, broken or not;
\* an error (the buffer is full) ends the program.
Publish(u) ==
  /\ \/ NatsCall(u, "publish", "subscribe") /\ Send(u, "PUB")
     \/ NatsCall(u, "publish", "fatal") /\ UNCHANGED outgoing
  /\ UNCHANGED <<connected, natsServer, natsPast>>

\* While the connection is broken a subscription is only noted.  An error is
\* ignored, and main waits without a subscription.
Subscribe(u) ==
  /\ \/ NatsCall(u, "subscribe", "listen") /\ (u \in connected => Send(u, "SUB"))
                                           /\ (u \notin connected => UNCHANGED outgoing)
     \/ NatsCall(u, "subscribe", "deaf") /\ UNCHANGED outgoing
  /\ UNCHANGED <<connected, natsServer, natsPast>>

\* The server takes the next command of u's connection.
ServerTakes(u) ==
  /\ u \in connected /\ outgoing[u] # << >>
  /\ outgoing' = [outgoing EXCEPT ![u] = Tail(@)]
  /\ IF Head(outgoing[u]) = "SUB"
       THEN subscribers' = subscribers \cup {u} /\ UNCHANGED delivery
       ELSE /\ delivery' = [v \in Users |-> IF v \in subscribers THEN Append(delivery[v], u)
                                                                 ELSE delivery[v]]
            /\ UNCHANGED subscribers
  /\ UNCHANGED <<natsStep, connected, printed, natsPast>>

\* The callback of the subscription.
Receive(u) ==
  /\ delivery[u] # << >>
  /\ printed' = [printed EXCEPT ![u] = Append(@, Head(delivery[u]))]
  /\ delivery' = [delivery EXCEPT ![u] = Tail(@)]
  /\ UNCHANGED <<natsStep, connected, outgoing, subscribers, natsPast>>

\* The server forgets u, who keeps what had arrived; an event that was not sent
\* may be kept.
ConnectionBreaks(u) ==
  /\ u \in connected /\ breaks < MaxBreaks
  /\ breaks' = breaks + 1 /\ connected' = connected \ {u} /\ subscribers' = subscribers \ {u}
  /\ \/ outgoing' = [outgoing EXCEPT ![u] = << >>]
     \/ Contains(outgoing[u], "PUB") /\ outgoing' = [outgoing EXCEPT ![u] = <<"PUB">>]
  /\ \E n \in 0 .. Len(delivery[u]) : delivery' = [delivery EXCEPT ![u] = SubSeq(@, 1, n)]
  /\ UNCHANGED <<natsStep, printed, resent>>

Reconnect(u) ==
  /\ u \notin connected /\ natsStep[u] \notin {"connect", "fatal"}
  /\ connected' = connected \cup {u}
  /\ IF natsStep[u] = "listen"
       THEN /\ outgoing' = [outgoing EXCEPT ![u] = <<"SUB">> \o @]
            /\ resent' = IF outgoing[u] = << >> THEN resent ELSE resent \cup {u}
       ELSE UNCHANGED <<outgoing, resent>>
  /\ UNCHANGED <<natsStep, natsServer, breaks>>

NatsNext ==
  \E u \in Users :
    \/ NatsConnect(u) \/ Publish(u) \/ Subscribe(u) \/ ServerTakes(u) \/ Receive(u)
    \/ ConnectionBreaks(u) \/ Reconnect(u)

-----------------------------------------------------------------------------
\* As each program publishes first and subscribes after (nats.go:44, 52), nobody
\* prints their own event, and of two users at most one prints the other's: the
\* one that was there before.  Otherwise one of them lost the connection and
\* subscribed again ahead of an event that was still to be sent.
OnlyLaterEvents ==
  \A u, v \in Users :
    (Contains(printed[u], v) /\ Contains(printed[v], u)) => u \in resent \/ v \in resent
=============================================================================
