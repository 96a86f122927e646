--------------------------- MODULE ServiceProcess ----------------------------
(***************************************************************************)
(* The main functions of trip-service, driver-service and payment-service    *)
(* with the goroutines they start: the gRPC server, which serves calls, and  *)
(* one consumer per queue. What a handler does is its one effect (MongoDB,   *)
(* Stripe, the pending drivers), then what it publishes, then its ack.       *)
(***************************************************************************)
EXTENDS Process

CONSTANTS
    Calls,      \* the RPCs that callers make
    Declines,   \* the driver's answers that decline, not accept
    TripOf      \* message -> the trip it is about

VARIABLES
    lis,        \* the gRPC listener: "none", "open", or the "nil" of a failed Listen
    server,     \* the gRPC server's goroutine
    mongo,      \* the MongoDB client
    consumer,   \* queue -> where its consumer's goroutine is
    held,       \* queue -> <<>> or the delivery its handler works on
    rpc,        \* call -> where its handler is, or its outcome
    stored,     \* messages whose effect was made: a trip updated, a session
                \* created, a pending driver withdrawn
    failed,     \* history: messages MongoDB or Stripe would not work for
    pending,    \* service.pendingTrips: trips with a driver who was asked
    forgotten,  \* history: pending trips that a process ended with
    unowed      \* history: cancellations of trips nobody was asked for

inside == <<lis, server, mongo>>
work == <<consumer, held>>
recalls == <<pending, forgotten, unowed>>
effects == <<rpc, stored, failed, recalls>>
serviceVars == <<inside, work, effects>>

Services == {"trip", "driver", "payment"}

Consumes(s) ==
    CASE s = "trip" -> {"driver_cmd_trip_response", "payment_success"}
      [] s = "driver" -> {"find_available_drivers", "trip_cancelled_driver"}
      [] s = "payment" -> {"payment_trip_response"}
      [] OTHER -> {}

Accepts(q, m) == q = "driver_cmd_trip_response" /\ m \notin Declines
\* What a handler publishes about its message: handleTripAccepted the assigned
\* driver, then (as the others but for the one that marks a trip payed) one
\* message more, named like the one it answers.
Owes(q, m) ==
    CASE q = "payment_success" -> {}
      [] Accepts(q, m) -> {Assigned(m), m}
      [] OTHER -> {m}

\* A search, which only remembers whom it asks, and a decline change nothing that
\* outlives the process.
Lasts(q, m) ==
    q # "find_available_drivers" /\ (q = "driver_cmd_trip_response" => Accepts(q, m))

ServiceInit ==
    /\ lis = "none" /\ server = "off" /\ mongo = "none"
    /\ consumer = [q \in Queues |-> "off"]
    /\ held = [q \in Queues |-> <<>>]
    /\ rpc = [c \in Calls |-> "none"]
    /\ stored = {} /\ failed = {}
    /\ pending = {} /\ forgotten = {} /\ unowed = {}

Running(c) == rpc[c] \in {"running", "stored", "routing", "saving"}

\* A panic, log.Fatalf, a kill or the end of main: every goroutine is gone, and
\* the callers of running RPCs get an error.
ServiceEnds ==
    /\ Ends
    /\ lis' = "none" /\ server' = "off" /\ mongo' = "none"
    /\ consumer' = [q \in Queues |-> "off"]
    /\ held' = [q \in Queues |-> <<>>]
    /\ rpc' = [c \in Calls |-> IF Running(c) THEN "error" ELSE rpc[c]]
    /\ pending' = {} /\ forgotten' = forgotten \cup pending
    /\ UNCHANGED <<stored, failed, unowed>>

Kill == ServiceEnds /\ Fault

-----------------------------------------------------------------------------
\* The main functions. Only payment-service does not listen, only trip-service
\* has a database. The context is not looked at before main waits for it.
Start ==
    /\ Begin(IF service = "payment" THEN "dial" ELSE "listen")
    /\ UNCHANGED serviceVars

Listen ==
    /\ Goto("listen", IF service = "trip" THEN "mongo" ELSE "dial")
    /\ lis' = "open"
    /\ UNCHANGED <<server, mongo, work, effects, service, starts, told, connection>>

\* trip-service gives up; driver-service prints the error and goes on with nil.
ListenFails ==
    /\ main = "listen"
    /\ Fault
    /\ \/ service = "trip" /\ ServiceEnds
       \/ /\ service = "driver"
          /\ main' = "dial"
          /\ lis' = "nil"
          /\ UNCHANGED <<server, mongo, work, effects, service, starts, told>>
          /\ UNCHANGED <<brokerSide, link, wire, channel>>

\* NewMongoClient: connect and ping, with a timeout of its own.
ConnectMongo ==
    /\ Goto("mongo", "dial")
    /\ mongo' = "up"
    /\ UNCHANGED <<lis, server, work, effects, service, starts, told, connection>>

\* MongoDB or the broker cannot be reached, or Stripe's key is not set: log.Fatal.
ConnectFails == main \in {"mongo", "dial"} /\ Fault /\ ServiceEnds

\* The last part of main: consumers and server get their goroutines.
ConnectBroker ==
    /\ DialBroker("wait")
    /\ consumer' = [q \in Queues |-> IF q \in Consumes(service) THEN "starting" ELSE "off"]
    /\ server' = IF service = "payment" THEN "off" ELSE "starting"
    /\ UNCHANGED <<lis, mongo, held, effects>>

Signal ==
    /\ main # "down" /\ ~told
    /\ told' = TRUE
    /\ UNCHANGED <<service, main, starts, connection, serviceVars>>

\* GracefulStop takes no more calls ...
Stop ==
    /\ told
    /\ Goto("wait", IF service = "payment" THEN "close" ELSE "drain")
    /\ server' = IF server = "serving" THEN "stopped" ELSE server
    /\ UNCHANGED <<lis, mongo, work, effects, service, starts, told, connection>>

\* Mutant: Stop in place of GracefulStop.
DrainNothing ==
    /\ Goto("drain", "close")
    /\ UNCHANGED <<serviceVars, service, starts, told, connection>>

\* Mutant: the deferred calls are in the other order, the database first.
DisconnectFirst ==
    /\ Goto("drain", "close")
    /\ \A c \in Calls : ~Running(c)
    /\ mongo' = IF mongo = "up" THEN "gone" ELSE mongo
    /\ UNCHANGED <<lis, server, work, effects, service, starts, told, connection>>

\* ... and returns when the running ones have been answered.
Drain ==
    /\ Goto("drain", "close")
    /\ \A c \in Calls : ~Running(c)
    /\ UNCHANGED <<serviceVars, service, starts, told, connection>>

\* The deferred calls: the broker first, the database after it. Nobody waits for
\* the consumers.
Close ==
    /\ CloseBroker \/ BrokerClosed
    /\ UNCHANGED serviceVars

Disconnect ==
    /\ Goto("closed", "exit")
    /\ mongo' = IF mongo = "up" THEN "gone" ELSE mongo
    /\ UNCHANGED <<lis, server, work, effects, service, starts, told, connection>>

Exit == main = "exit" /\ ServiceEnds /\ UNCHANGED faults

-----------------------------------------------------------------------------
\* grpcServer.Serve: on a nil listener it panics, after GracefulStop it returns.
Serve ==
    /\ server = "starting"
    /\ \/ lis = "nil" /\ ServiceEnds
       \/ /\ lis = "open"
          /\ server' = IF main = "wait" THEN "serving" ELSE "stopped"
          /\ UNCHANGED <<lis, mongo, work, effects, process>>
          /\ UNCHANGED <<brokerSide, link, wire, channel>>
    /\ UNCHANGED faults

\* Serve returns an error: main's context is cancelled as by a signal.
ServeFails ==
    /\ server = "serving"
    /\ Fault
    /\ server' = "stopped"
    /\ told' = TRUE
    /\ UNCHANGED <<lis, mongo, work, effects, service, main, starts>>
    /\ UNCHANGED <<brokerSide, link, wire, channel>>

AcceptCall(c) ==
    /\ server = "serving"
    /\ rpc[c] = "none"
    /\ \/ rpc' = [rpc EXCEPT ![c] = "running"]
       \/ service = "trip" /\ rpc' = [rpc EXCEPT ![c] = "routing"]
    /\ UNCHANGED <<inside, work, stored, failed, recalls, process, connection>>

\* PreviewTrip asks OSRM for the route, with no timeout and no context.
RouteArrives(c) ==
    /\ rpc[c] = "routing"
    /\ rpc' = [rpc EXCEPT ![c] = "saving"]
    /\ UNCHANGED <<inside, work, stored, failed, recalls, process, connection>>

\* No answer that can be read; or one without routes: estimateFareRoute panics.
RouteFails(c) ==
    /\ rpc[c] = "routing"
    /\ Fault
    /\ \/ ServiceEnds
       \/ /\ rpc' = [rpc EXCEPT ![c] = "error"]
          /\ UNCHANGED <<inside, work, stored, failed, recalls, process>>
          /\ UNCHANGED <<brokerSide, link, wire, channel>>

\* CreateTrip inserts the trip, PreviewTrip its fares; RegisterDriver and
\* UnRegisterDriver are done then.
StoreCall(c) ==
    /\ rpc[c] \in {"running", "saving"}
    /\ \/ /\ service = "driver" \/ mongo = "up"
          /\ rpc' = [rpc EXCEPT ![c] =
                CASE @ = "saving" -> "quoted"
                  [] service = "driver" -> "ok"
                  [] OTHER -> "stored"]
          /\ UNCHANGED faults
       \/ /\ service = "trip"
          /\ (mongo = "gone" /\ UNCHANGED faults) \/ Fault
          /\ rpc' = [rpc EXCEPT ![c] = "error"]
    /\ UNCHANGED <<inside, work, stored, failed, recalls, process, brokerSide, link, wire, channel>>

PublishCall(c) ==
    /\ rpc[c] = "stored"
    /\ \/ PublishMessage(c) /\ rpc' = [rpc EXCEPT ![c] = "ok"]
       \/ /\ channel # "open"
          /\ rpc' = [rpc EXCEPT ![c] = "error"]
          /\ UNCHANGED <<brokerSide, link, wire, channel>>
    /\ UNCHANGED <<inside, work, stored, failed, recalls, process, faults>>

-----------------------------------------------------------------------------
\* driver-service starts its second consumer after its first.
MayStart(q) == q = "trip_cancelled_driver" => consumer["find_available_drivers"] # "starting"

\* ConsumeMessages: prefetch 1, then consume. Its error ends trip-service and
\* driver-service; payment-service does not look at it.
StartConsumer(q) ==
    /\ consumer[q] = "starting" /\ MayStart(q)
    /\ \/ /\ Reachable
          /\ consumer' = [consumer EXCEPT ![q] = "idle"]
          /\ UNCHANGED <<inside, held, effects, process>>
          /\ UNCHANGED <<brokerSide, link, wire, channel>>
       \/ channel = "closed" /\ service # "payment" /\ ServiceEnds
       \/ /\ channel = "closed" /\ service = "payment"
          /\ consumer' = [consumer EXCEPT ![q] = "over"]
          /\ UNCHANGED <<inside, held, effects, process>>
          /\ UNCHANGED <<brokerSide, link, wire, channel>>
    /\ UNCHANGED faults

To(q, from, pc) == consumer[q] = from /\ consumer' = [consumer EXCEPT ![q] = pc]

Receive(q) ==
    /\ To(q, "idle", "working")
    /\ channel = "open" /\ link = "up"
    /\ unacked[q] = <<>> /\ waiting[q] # <<>>
    /\ held' = [held EXCEPT ![q] = <<Head(waiting[q])>>]
    /\ unacked' = [unacked EXCEPT ![q] = <<Head(waiting[q])>>]
    /\ waiting' = [waiting EXCEPT ![q] = Tail(@)]
    /\ UNCHANGED <<inside, effects, process>>
    /\ UNCHANGED <<arrived, dropped, link, wire, channel, faults>>

Delivery(q) == Head(held[q])

\* UpdateTrip fails when it modifies nothing: a trip that was updated for this
\* very message before is an error. A decline only reads the trip.
Refuses(q) ==
    service = "trip" /\ (mongo = "gone" \/ Delivery(q) \in stored)

\* MongoDB or Stripe does its part; a search records the driver it has found, if
\* it has found one.
Store(q) ==
    /\ To(q, "working", "stored") /\ q # "trip_cancelled_driver"
    /\ ~Refuses(q)
    /\ stored' = IF Lasts(q, Delivery(q)) THEN stored \cup {Delivery(q)} ELSE stored
    /\ \/ UNCHANGED pending
       \/ q = "find_available_drivers" /\ pending' = pending \cup {TripOf[Delivery(q)]}
    /\ UNCHANGED <<inside, held, rpc, failed, forgotten, unowed, process, connection>>

\* GetAndRemovePendingDriver: the driver who was asked is to be told; or there
\* is none, and the cancellation is done with.
Withdraw(q) ==
    /\ q = "trip_cancelled_driver"
    /\ LET m == Delivery(q)
       IN  \/ /\ To(q, "working", "stored")
              /\ TripOf[m] \in pending
              /\ pending' = pending \ {TripOf[m]}
              /\ stored' = stored \cup {m}
              /\ UNCHANGED unowed
           \/ /\ To(q, "working", "answered")
              /\ TripOf[m] \notin pending
              /\ unowed' = IF m \in stored \/ TripOf[m] \in forgotten
                           THEN unowed ELSE unowed \cup {m}
              /\ UNCHANGED <<pending, stored>>
    /\ UNCHANGED <<inside, held, rpc, failed, forgotten, process, connection>>

\* MongoDB or Stripe refuses; or, after the update, the trip cannot be read.
StoreFails(q) ==
    /\ \/ To(q, "working", "failed") /\ Refuses(q) /\ UNCHANGED <<faults, failed>>
       \/ /\ To(q, "working", "failed") /\ service # "driver"
          /\ Fault /\ failed' = failed \cup {Delivery(q)}
       \/ /\ To(q, "stored", "failed") /\ Accepts(q, Delivery(q))
          /\ \/ mongo = "gone" /\ UNCHANGED <<faults, failed>>
             \/ Fault /\ failed' = failed \cup {Delivery(q)}
    /\ UNCHANGED <<inside, held, rpc, stored, recalls, process>>
    /\ UNCHANGED <<brokerSide, link, wire, channel>>

\* The first of the two messages about an accepted trip.
PublishAssigned(q) ==
    /\ To(q, "stored", "assigned") /\ Accepts(q, Delivery(q))
    /\ PublishMessage(Assigned(Delivery(q)))
    /\ UNCHANGED <<inside, held, effects, process, faults>>

\* The answer, where there is one to give.
Answer(q) ==
    /\ \/ To(q, "assigned", "answered") /\ PublishMessage(Delivery(q))
       \/ /\ To(q, "stored", "answered")
          /\ ~Accepts(q, Delivery(q))
          /\ \/ Owes(q, Delivery(q)) # {} /\ PublishMessage(Delivery(q))
             \/ Owes(q, Delivery(q)) = {} /\ UNCHANGED <<brokerSide, link, wire, channel>>
    /\ UNCHANGED <<inside, held, effects, process, faults>>

\* A publish fails. The search that has found nobody ignores it.
AnswerFails(q) ==
    /\ channel # "open"
    /\ \/ To(q, "stored", "failed") /\ Owes(q, Delivery(q)) # {}
       \/ To(q, "stored", "answered") /\ q = "find_available_drivers"
       \/ To(q, "assigned", "failed")
    /\ UNCHANGED <<inside, held, effects, process, connection>>

\* Mutant: a handler's error is logged and that is all.
NackForgotten(q) ==
    /\ \/ To(q, "answered", "idle") /\ Acknowledge("ack", q)
       \/ To(q, "failed", "idle") /\ UNCHANGED <<brokerSide, link, wire, channel>>
    /\ held' = [held EXCEPT ![q] = <<>>]
    /\ UNCHANGED <<inside, effects, process, faults>>

\* The handler returned: ack, or nack without requeue.
Settle(q) ==
    /\ \/ To(q, "answered", "idle") /\ Acknowledge("ack", q)
       \/ To(q, "failed", "idle") /\ Acknowledge("nack", q)
    /\ held' = [held EXCEPT ![q] = <<>>]
    /\ UNCHANGED <<inside, effects, process, faults>>

\* Mutant: the loop is left in the middle of a handler.
LoopEndsAtOnce(q) ==
    /\ consumer[q] \in {"idle", "working"}
    /\ consumer' = [consumer EXCEPT ![q] = "over"]
    /\ channel = "closed"
    /\ UNCHANGED <<inside, held, effects, process, connection>>

\* The channel of deliveries is closed: the loop is over, and nothing else is.
LoopEnds(q) ==
    /\ To(q, "idle", "over")
    /\ channel = "closed"
    /\ UNCHANGED <<inside, held, effects, process, connection>>

-----------------------------------------------------------------------------
Main ==
    \/ Start \/ Listen \/ ConnectMongo \/ ConnectBroker
    \/ Stop \/ Drain \/ Close \/ Disconnect \/ Exit

Consumer(q) ==
    \/ StartConsumer(q) \/ Receive(q) \/ Store(q) \/ Withdraw(q) \/ StoreFails(q)
    \/ PublishAssigned(q) \/ Answer(q) \/ AnswerFails(q) \/ Settle(q) \/ LoopEnds(q)

CallHandler(c) == StoreCall(c) \/ PublishCall(c)

ServiceNext ==
    \/ Main \/ Signal \/ Serve
    \/ \E q \in Queues : Consumer(q)
    \/ \E c \in Calls : AcceptCall(c) \/ RouteArrives(c) \/ RouteFails(c) \/ CallHandler(c)
    \/ Kill \/ ListenFails \/ ConnectFails \/ ServeFails
    \/ Network /\ UNCHANGED serviceVars

=============================================================================
