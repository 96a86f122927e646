------------------------------ MODULE Processes ------------------------------
(***************************************************************************)
(* The life of any one of the four processes of the platform on its         *)
(* connection to the broker: what starts, stops, crashes and lost           *)
(* connections do to the messages, calls and requests it is busy with.      *)
(***************************************************************************)
EXTENDS ServiceProcess, GatewayProcess

ASSUME QueuesAssumption ==
    Notices \in Queues /\ \A s \in Services : Consumes(s) \subseteq Queues

\* The events of calls and requests are not answers to messages.
ASSUME EventsAssumption == (Calls \cup Requests) \cap Answers = {}

vars == <<connection, process, serviceVars, gatewayVars>>

Init ==
    /\ service \in Services \cup {"gateway"}
    /\ ConnectionInit /\ ProcessInit /\ ServiceInit /\ GatewayInit
    /\ service # "gateway" => webhookKey /\ target

ServiceStep == service \in Services /\ ServiceNext /\ UNCHANGED gatewayVars
GatewayStep == service = "gateway" /\ GatewayNext /\ UNCHANGED serviceVars

Next == ServiceStep \/ GatewayStep

Spec == Init /\ [][Next]_vars

\* Goroutines and the network go on, and Kubernetes starts what ended. Nobody
\* has to call, to leave, to send a signal, to answer the gateway's RPCs or, as
\* OSRM, to answer trip-service.
Fairness ==
    LET Here(A) == service \in Services /\ A /\ UNCHANGED gatewayVars
        There(A) == service = "gateway" /\ A /\ UNCHANGED serviceVars
    IN  /\ WF_vars(Here(Main)) /\ WF_vars(Here(Serve))
        /\ \A q \in Queues : WF_vars(Here(Consumer(q)))
        /\ \A c \in Calls : WF_vars(Here(CallHandler(c)))
        /\ WF_vars(There(GatewayMain))
        /\ WF_vars(There(Push))
        /\ WF_vars(Network /\ UNCHANGED <<serviceVars, gatewayVars>>)

FairSpec == Spec /\ Fairness

-----------------------------------------------------------------------------
\* Every variable holds a value its Go counterpart can hold.
TypeOK ==
    /\ link \in {"none", "up", "closed", "lost"}
    /\ channel \in {"none", "open", "closed"}
    /\ main \in {"down", "listen", "mongo", "dial", "consume", "wait", "drain",
                 "shutdown", "close", "closing", "closed", "exit"}
    /\ starts \in 0..MaxStarts /\ faults \in 0..MaxFaults
    /\ \A q \in Queues : Len(unacked[q]) <= 1 /\ Len(held[q]) <= 1
    /\ \A q \in Queues : held[q] # <<>> <=> consumer[q] \in {"working", "stored", "assigned", "answered", "failed"}
    /\ rpc \in [Calls -> {"none", "running", "stored", "ok",
                         "routing", "saving", "quoted", "error"}]
    /\ \A r \in Requests : request[r].code \in {0, 200, 201, 400, 500}
    /\ registered \subseteq Visitors

-----------------------------------------------------------------------------
WithBroker(q) == Members(waiting[q]) \cup Members(unacked[q])

\* A message is dealt with when all that its handler owes has reached the
\* exchange, or the trip is marked payed; a cancellation also when it found that
\* no driver had been asked.
Settled(q, m) ==
    IF q = "payment_success" THEN m \in stored
    ELSE m \in unowed \/ Owes(q, m) \subseteq arrived

\* What an earlier process has begun and its successor cannot make good: a trip
\* that was updated for the message, which UpdateTrip then refuses; a pending
\* driver who was withdrawn, or forgotten with the process, before he was told.
CutShort(q, m) ==
    /\ starts > 1
    /\ \/ service = "trip" /\ m \in stored
       \/ q = "trip_cancelled_driver" /\ (m \in stored \/ TripOf[m] \in forgotten)

\* A stop, crash or lost connection at any moment loses no message of a
\* manual-ack queue, and no answer a handler owes, but in these cases:
\*  - MongoDB or Stripe fails the handler, before or (reading the accepted trip
\*    back) after its update: the message is nacked and discarded;
\*  - trip-service ends between a trip's update and the last message about it:
\*    the message comes again, UpdateTrip refuses it, it is discarded;
\*  - driver-service ends while a driver is pending, or between withdrawing him
\*    and telling him: the cancellation comes again and finds nobody.
\* (That a cancellation handled before its search finds nobody is the matter of
\* RideSharing's CancelledRequestsAreRecalled; here nobody was asked then.)
NothingIsLost ==
    \A q \in Consumes(service) : \A m \in Members(Inbox[q]) :
        m \in WithBroker(q) \cup failed \/ Settled(q, m) \/ CutShort(q, m)

\* Nobody asks the broker for a confirmation; still an event that was reported
\* as published - to the caller of CreateTrip, or with a 200 to a browser or to
\* Stripe - is lost with a broken connection only, never by a stop or a crash;
\* or by a gateway whose listener failed: it does not wait for its handlers.
ConfirmedIsPublished ==
    LET confirmed ==
            {c \in Calls : service = "trip" /\ rpc[c] = "ok"}
            \cup {r \in Requests : request[r].pc = "done" /\ request[r].code = 200}
    IN  confirmed \subseteq arrived \cup UnderWay \cup dropped
            \cup (IF faults > 0 THEN Requests ELSE {})

\* As long as nothing fails, every call a service has accepted succeeds, also
\* while it is being stopped.
StopsAreGraceful == faults = 0 => \A c \in Calls : rpc[c] # "error"

\* ... and every request the gateway has accepted is answered, unless it is one
\* that took longer than a stop may take or the configuration is broken.
RequestsAreAnswered ==
    [][\A r \in Requests :
        Handled(r) /\ request'[r].pc = "done" /\ request'[r].code = 0
            => faults' > 0 \/ cut \/ ~target]_vars

\* The gateway hands each notice to the connection manager at most once, in the
\* order of its queue, over any number of stops and lost connections.
NoticesInOrder ==
    \A i, j \in DOMAIN pushed :
        i < j => \E k, l \in DOMAIN Inbox[Notices] :
            k < l /\ pushed[i] = Inbox[Notices][k] /\ pushed[j] = Inbox[Notices][l]

\* Until the gateway ends for the first time, and unless an RPC fails, no driver
\* stays registered when his handler is done. Afterwards he does: a stop does
\* not wait for websockets, and their deferred calls are never made.
LeaversAreUnregistered ==
    faults = 0 /\ starts <= 1 /\ main # "down" =>
        \A d \in registered : driving[d] # "out"

\* A process that is told to stop does (it is told until it is down), whatever
\* else is going on in it, as long as OSRM answers: GracefulStop has no limit and
\* PreviewTrip's request to OSRM no timeout, so that one request can keep
\* trip-service from ending.
StopsWhenTold == (\A c \in Calls : []<>(rpc[c] # "routing")) => []<>~told

\* The process goes on without the consumer of this queue; with a request OSRM
\* does not answer, even when it has been told to stop.
Zombie(q) == main \in {"wait", "drain"} /\ consumer[q] = "over"

\* Every message is dealt with in the end, with the exceptions of NothingIsLost,
\* and except by a process that has lost its connection and goes on waiting
\* without its consumers.
MessagesAreHandled ==
    []<>(\A q \in Consumes(service) : \A m \in Members(Inbox[q]) :
            \/ Settled(q, m) \/ m \in failed \/ CutShort(q, m)
            \/ Zombie(q)
            \/ main = "down" /\ starts = MaxStarts)

-----------------------------------------------------------------------------
\* ARCHITECTURE.md on trip-service: "on accept updates the trip's status and
\* driver fields in MongoDB and publishes trip.event.driver_assigned +
\* payment.cmd.create_session" - as long as nothing fails, what an answer has
\* changed in the database is published or will be.
AcceptedIsPublished ==
    LET q == "driver_cmd_trip_response"
    IN  faults = 0 /\ service = "trip" =>
            \A m \in Members(Inbox[q]) \cap stored :
                m \in WithBroker(q) \/ Settled(q, m)

=============================================================================
