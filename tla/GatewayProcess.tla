--------------------------- MODULE GatewayProcess ----------------------------
(***************************************************************************)
(* The main function of api-gateway with its HTTP server, its handlers and   *)
(* its queue consumers. A request's body is what decoding and validation     *)
(* tell apart: whether it decodes, whether it has an unknown key, and the    *)
(* fields it has; for a Stripe event, whether its signature is good, whether *)
(* it is a completed checkout, and whether it has its session.              *)
(***************************************************************************)
EXTENDS Process

CONSTANTS
    Requests,       \* the HTTP requests that are made
    Bodies,         \* the bodies they may have
    Visitors        \* drivers who open a websocket

VARIABLES
    webhookKey,     \* whether STRIPE_WEBHOOK_KEY is set; never changes
    target,         \* whether the gRPC addresses can be parsed; never changes
    http,           \* the HTTP server's goroutine
    cut,            \* whether server.Close has cut the clients' connections
    request,        \* request -> where its handler is, its endpoint, body, answer
    pushing,        \* whether the queue consumer's goroutine runs
    buffer,         \* deliveries the broker has sent ahead of it
    pushed,         \* what it has given to the connection manager
    driving,        \* driver -> where his websocket handler is
    registered      \* the drivers driver-service has in its registry

environment == <<webhookKey, target>>
requesting == <<http, cut, request>>
notifying == <<pushing, buffer, pushed>>
drivers == <<driving, registered>>
gatewayVars == <<environment, requesting, notifying, drivers>>

Notices == "notify"     \* stands for each of the seven queues

NoBody == [decodes |-> FALSE, unknown |-> FALSE, has |-> {}]
NewRequest == [pc |-> "new", endpoint |-> "none", body |-> NoBody, code |-> 0]

GatewayInit ==
    /\ webhookKey \in BOOLEAN /\ target \in BOOLEAN
    /\ http = "off" /\ cut = FALSE
    /\ request = [r \in Requests |-> NewRequest]
    /\ pushing = FALSE /\ buffer = <<>> /\ pushed = <<>>
    /\ driving = [d \in Visitors |-> "out"]
    /\ registered = {}

Handled(r) == request[r].pc \in {"call", "publish"}

\* The process ends: handlers vanish, their deferred calls are never made.
GatewayEnds ==
    /\ Ends
    /\ http' = "off" /\ cut' = FALSE
    /\ request' = [r \in Requests |->
            IF Handled(r) THEN [NewRequest EXCEPT !.pc = "done"] ELSE request[r]]
    /\ pushing' = FALSE /\ buffer' = <<>> /\ UNCHANGED pushed
    /\ driving' = [d \in Visitors |-> "out"] /\ UNCHANGED registered
    /\ UNCHANGED environment

KillGateway == GatewayEnds /\ Fault

-----------------------------------------------------------------------------
\* main: broker, consumers, server.
StartGateway ==
    /\ Begin("dial")
    /\ UNCHANGED gatewayVars

ConnectGateway ==
    /\ DialBroker("consume")
    /\ UNCHANGED gatewayVars

DialGatewayFails == main = "dial" /\ Fault /\ GatewayEnds

\* startConsumers: without a channel it is log.Fatalf.
StartConsumers ==
    /\ main = "consume"
    /\ \/ /\ Reachable
          /\ main' = "wait"
          /\ pushing' = TRUE
          /\ http' = "starting"
          /\ UNCHANGED <<environment, cut, request, buffer, pushed, drivers>>
          /\ UNCHANGED <<service, starts, told, brokerSide, link, wire, channel>>
       \/ channel = "closed" /\ GatewayEnds
    /\ UNCHANGED faults

\* ListenAndServe; when it fails main returns without a Shutdown.
ListenAndServe ==
    /\ http = "starting"
    /\ http' = IF main = "wait" THEN "serving" ELSE "stopped"
    /\ UNCHANGED <<environment, cut, request, notifying, drivers, process, connection>>

ListenAndServeFails ==
    /\ http \in {"starting", "serving"}
    /\ Goto("wait", "close")
    /\ Fault
    /\ http' = "stopped"
    /\ UNCHANGED <<environment, cut, request, notifying, drivers, service, starts, told>>
    /\ UNCHANGED <<brokerSide, link, wire, channel>>

\* signal.Notify is called late: before, the signal kills.
SignalGateway ==
    /\ ~told
    /\ \/ main \in {"dial", "consume"} /\ GatewayEnds
       \/ /\ main \notin {"down", "dial", "consume"}
          /\ told' = TRUE
          /\ UNCHANGED <<service, main, starts, gatewayVars, brokerSide, link, wire, channel>>
    /\ UNCHANGED faults

\* Mutant: main goes straight to its deferred calls.
ShutdownSkipped ==
    /\ told /\ Goto("wait", "close")
    /\ UNCHANGED <<gatewayVars, service, starts, told, connection>>

\* server.Shutdown takes no more requests and waits for those that run ...
Shutdown ==
    /\ told /\ Goto("wait", "shutdown")
    /\ http' = "stopped"
    /\ UNCHANGED <<environment, cut, request, notifying, drivers, service, starts, told, connection>>

\* Mutant: the stop has no time limit.
ShutdownUnlimited ==
    /\ Goto("shutdown", "close")
    /\ \A r \in Requests : ~Handled(r)
    /\ UNCHANGED <<gatewayVars, service, starts, told, connection>>

\* ... but not for websockets; after 10 s server.Close cuts the connections.
ShutdownEnds ==
    /\ Goto("shutdown", "close")
    /\ cut' = \E r \in Requests : Handled(r)
    /\ UNCHANGED <<environment, http, request, notifying, drivers, service, starts, told, connection>>

CloseGateway ==
    /\ CloseBroker \/ BrokerClosed
    /\ UNCHANGED gatewayVars

ExitGateway == main = "closed" /\ GatewayEnds /\ UNCHANGED faults

-----------------------------------------------------------------------------
\* The checks of the handlers. ReadJSON refuses what the plain decoder takes.
ReadJSON(b) == b.decodes /\ ~b.unknown

\* Validator: one error per key, and none is valid.
Check(ok, key) == IF ok THEN {} ELSE {key}
Valid(errors) == errors = {}

\* Mutant: the destination is not checked.
PreviewErrorsWithoutDestination(b) ==
    UNION {Check(f \in b.has, f) : f \in {"userID", "pickup"}}

ValidateTripPreview(b) ==
    UNION {Check(f \in b.has, f) : f \in {"userID", "pickup", "destination"}}

\* What each handler answers before it calls anybody; 0 when it goes on.
PreviewVerdict(b) == IF ReadJSON(b) /\ Valid(ValidateTripPreview(b)) THEN 0 ELSE 400

StartVerdict(b) == IF b.decodes THEN 0 ELSE 400

CancelVerdict(b) == IF b.decodes /\ {"userID", "tripID"} \subseteq b.has THEN 0 ELSE 400

\* Without a key the event is logged and Stripe is told that all is well.
WebhookVerdict(b) ==
    CASE ~b.decodes -> 500                          \* the body cannot be read
      [] b.decodes /\ ~webhookKey -> 200
      [] b.decodes /\ webhookKey /\ "signature" \notin b.has -> 400
      [] b.decodes /\ webhookKey /\ "signature" \in b.has ->
            IF "completed" \notin b.has THEN 200
            ELSE IF "session" \notin b.has THEN 400 ELSE 0

Verdict(e, b) ==
    CASE e = "preview" -> PreviewVerdict(b)
      [] e = "start" -> StartVerdict(b)
      [] e = "cancel" -> CancelVerdict(b)
      [] e = "webhook" -> WebhookVerdict(b)

\* What is left of a request that has its answer; 0 is none.
Answered(code, pc) == [pc |-> pc, endpoint |-> "none", body |-> NoBody, code |-> code]

\* A request comes in and passes the checks, or is refused on the spot. What the
\* body says is looked at again in a preview only.
Arrive(r) ==
    /\ http = "serving"
    /\ request[r].pc = "new"
    /\ \E e \in {"preview", "start", "cancel", "webhook"}, b \in Bodies :
        request' = [request EXCEPT ![r] =
            IF Verdict(e, b) # 0 THEN Answered(Verdict(e, b), "refused")
            ELSE [pc |-> IF e \in {"preview", "start"} THEN "call" ELSE "publish",
                  endpoint |-> e, body |-> IF e = "preview" THEN b ELSE NoBody, code |-> 0]]
    /\ UNCHANGED <<environment, http, cut, notifying, drivers, process, connection>>

\* The answer, if the client is still connected.
Reply(r, code) ==
    request' = [request EXCEPT ![r] = Answered(IF cut THEN 0 ELSE code, "done")]

\* handleTripPreview goes on without a client when the address does not parse,
\* and toProto dereferences both coordinates: net/http cuts the connection.
Panics(r) ==
    /\ request[r].endpoint = "preview"
    /\ ~target \/ ~({"pickup", "destination"} \subseteq request[r].body.has)

\* A client for this request only, and the RPC. In handleTripStart an address
\* that does not parse is fatal.
Call(r) ==
    /\ request[r].pc = "call"
    /\ \/ target /\ ~Panics(r) /\ \E code \in {201, 500} : Reply(r, code)
       \/ Panics(r) /\ Reply(r, 0)
    /\ UNCHANGED <<environment, http, cut, notifying, drivers, process, connection>>

CallIsFatal(r) ==
    /\ request[r].pc = "call" /\ request[r].endpoint = "start"
    /\ ~target
    /\ GatewayEnds
    /\ UNCHANGED faults

\* trip.event.cancelled or payment.event.success.
PublishRequest(r) ==
    /\ request[r].pc = "publish"
    /\ \/ PublishMessage(r) /\ Reply(r, 200)
       \/ /\ channel # "open" /\ Reply(r, 500)
          /\ UNCHANGED <<brokerSide, link, wire, channel>>
    /\ UNCHANGED <<environment, http, cut, notifying, drivers, process, faults>>

-----------------------------------------------------------------------------
\* Mutant: the delivery stays with the broker as well.
TakeCopy ==
    /\ pushing /\ channel = "open" /\ link = "up"
    /\ waiting[Notices] # <<>>
    /\ buffer' = Append(buffer, Head(waiting[Notices]))
    /\ UNCHANGED <<waiting, pushing, pushed>>
    /\ UNCHANGED <<environment, requesting, drivers, process>>
    /\ UNCHANGED <<unacked, arrived, dropped, link, wire, channel, faults>>

\* Automatic acknowledgement and no prefetch: what the broker sends is gone.
Take ==
    /\ pushing /\ channel = "open" /\ link = "up"
    /\ waiting[Notices] # <<>>
    /\ buffer' = Append(buffer, Head(waiting[Notices]))
    /\ waiting' = [waiting EXCEPT ![Notices] = Tail(@)]
    /\ UNCHANGED <<pushing, pushed, environment, requesting, drivers, process>>
    /\ UNCHANGED <<unacked, arrived, dropped, link, wire, channel, faults>>

Push ==
    /\ pushing /\ buffer # <<>>
    /\ pushed' = Append(pushed, Head(buffer))
    /\ buffer' = Tail(buffer)
    /\ UNCHANGED <<pushing, environment, requesting, drivers, process, connection>>

\* appCancel, or the channel of deliveries is closed.
PushingEnds ==
    /\ pushing
    /\ channel = "closed" \/ main \in {"close", "closing", "closed"}
    /\ pushing' = FALSE
    /\ buffer' = <<>>
    /\ UNCHANGED <<pushed, environment, requesting, drivers, process, connection>>

-----------------------------------------------------------------------------
\* handleDriverWebSocket: Add, then RegisterDriver, then the read loop.
OpenSocket(d) ==
    /\ http = "serving"
    /\ driving[d] = "out"
    /\ driving' = [driving EXCEPT ![d] = "added"]
    /\ UNCHANGED <<environment, requesting, notifying, registered, process, connection>>

RegisterVisitor(d) ==
    /\ driving[d] = "added" /\ target
    /\ \/ /\ driving' = [driving EXCEPT ![d] = "open"]
          /\ registered' = registered \cup {d}
          /\ UNCHANGED faults
       \/ /\ driving' = [driving EXCEPT ![d] = "leaving"]
          /\ registered' \in {registered, registered \cup {d}}
          /\ Fault
    /\ UNCHANGED <<environment, requesting, notifying, process>>
    /\ UNCHANGED <<brokerSide, link, wire, channel>>

RegisterIsFatal(d) ==
    /\ driving[d] = "added" /\ ~target
    /\ GatewayEnds
    /\ UNCHANGED faults

\* The browser leaves, or the first frame cannot be written.
LeaveSocket(d) ==
    /\ driving[d] = "open"
    /\ driving' = [driving EXCEPT ![d] = "leaving"]
    /\ UNCHANGED <<environment, requesting, notifying, registered, process, connection>>

\* Mutant: the connection is removed and the registry is not told.
ForgetVisitor(d) ==
    /\ driving[d] = "leaving"
    /\ driving' = [driving EXCEPT ![d] = "out"]
    /\ UNCHANGED <<environment, requesting, notifying, registered, process, connection>>

\* The deferred Remove and UnRegisterDriver, which has 5 s.
UnregisterVisitor(d) ==
    /\ driving[d] = "leaving"
    /\ driving' = [driving EXCEPT ![d] = "out"]
    /\ \/ registered' = registered \ {d} /\ UNCHANGED faults
       \/ Fault /\ UNCHANGED registered
    /\ UNCHANGED <<environment, requesting, notifying, process>>
    /\ UNCHANGED <<brokerSide, link, wire, channel>>

-----------------------------------------------------------------------------
GatewayMain ==
    \/ StartGateway \/ ConnectGateway \/ StartConsumers \/ ListenAndServe
    \/ Shutdown \/ ShutdownEnds \/ CloseGateway \/ ExitGateway

Notifier == Take \/ Push \/ PushingEnds

RequestHandler(r) == PublishRequest(r) \/ CallIsFatal(r)

SocketHandler(d) == RegisterVisitor(d) \/ RegisterIsFatal(d) \/ UnregisterVisitor(d)

GatewayNext ==
    \/ GatewayMain \/ SignalGateway
    \/ DialGatewayFails \/ ListenAndServeFails \/ KillGateway
    \/ Notifier
    \/ \E r \in Requests : Arrive(r) \/ RequestHandler(r) \/ Call(r)
    \/ \E d \in Visitors : OpenSocket(d) \/ LeaveSocket(d) \/ SocketHandler(d)
    \/ Network /\ UNCHANGED gatewayVars

=============================================================================
