------------------------------- MODULE Broker -------------------------------
(***************************************************************************)
(* The RabbitMQ topology every service shares (shared/messaging): one topic *)
(* exchange, twelve durable queues with one consumer each, and the two ways *)
(* of consuming: manual acknowledgement with prefetch 1 (ConsumeMessages)   *)
(* and automatic acknowledgement (QueueConsumer).                           *)
(***************************************************************************)
EXTENDS Naturals, Sequences

CONSTANTS
    TripIds,        \* ObjectIDs; each CreateTrip call allocates one
    Riders,         \* user ids of riders
    Drivers,        \* user ids of drivers
    NoTrip, NoDriver,
    MaxFaults       \* bound on the crashes and failing calls of a behaviour

ASSUME MaxFaultsAssumption == MaxFaults \in Nat
ASSUME NamesAssumption == NoTrip \notin TripIds /\ NoDriver \notin Drivers

VARIABLES
    queues,     \* queue -> messages waiting in the broker, oldest first
    unacked,    \* queue -> <<>> or the one message its consumer is handling
    faults      \* crashes and failed calls so far

brokerVars == <<queues, unacked, faults>>

-----------------------------------------------------------------------------
\* Every queue and the routing keys it is bound to on the exchange.
Bindings ==
    [find_available_drivers |->
        {"trip.event.created", "trip.event.driver_not_interested"},
     notify_trip_created |-> {"trip.event.created"},
     trip_cancelled_driver |-> {"trip.event.cancelled"},
     driver_cmd_trip_cancelled |-> {"driver.cmd.trip_cancelled"},
     driver_cmd_trip_request |-> {"driver.cmd.trip_request"},
     driver_cmd_trip_response |->
        {"driver.cmd.trip_accept", "driver.cmd.trip_decline"},
     notify_no_drivers_found |-> {"trip.event.no_drivers_found"},
     notify_driver_assigned |-> {"trip.event.driver_assigned"},
     payment_trip_response |-> {"payment.cmd.create_session"},
     notify_payment_session_created |-> {"payment.event.session_created"},
     payment_success |-> {"payment.event.success"},
     notify_payment_success_gateway |-> {"payment.event.success"}]

Queues == DOMAIN Bindings

\* AmqpMessage with its routing key: whom it is for and the decoded payload.
Message(key, owner, body) == [key |-> key, owner |-> owner, body |-> body]

NoData == [data |-> "null"]

BrokerInit ==
    /\ queues = [q \in Queues |-> <<>>]
    /\ unacked = [q \in Queues |-> <<>>]
    /\ faults = 0

-----------------------------------------------------------------------------
\* The exchange copies a message to every queue bound to its key.
Publish(m) ==
    queues' = [q \in Queues |->
                IF m.key \in Bindings[q] THEN Append(queues[q], m) ELSE queues[q]]

\* A manual-ack consumer may be handed the head of its queue: prefetch is 1.
Ready(q) == unacked[q] = <<>> /\ queues[q] # <<>>

Pop(q) == queues' = [queues EXCEPT ![q] = Tail(@)]

\* The delivery that starts a handler.
Deliver(q) ==
    /\ Pop(q)
    /\ unacked' = [unacked EXCEPT ![q] = <<Head(queues[q])>>]

\* The message a handler is working on.
Handling(q) == Head(unacked[q])

\* The handler returned: ack, or nack without requeue. There is no dead-letter
\* exchange, so for the broker both mean that the message is gone.
Settle(q) == unacked' = [unacked EXCEPT ![q] = <<>>]

\* A process died with its channel: what it had not acknowledged goes back to
\* the front of its queues.
Requeue(Q) ==
    /\ queues' = [q \in Queues |->
                    IF q \in Q THEN unacked[q] \o queues[q] ELSE queues[q]]
    /\ unacked' = [q \in Queues |-> IF q \in Q THEN <<>> ELSE unacked[q]]

\* Some call fails or some process dies.
Fault == faults < MaxFaults /\ faults' = faults + 1

\* A handler fails before its first effect; its message is nacked and lost.
Reject(q) ==
    /\ Ready(q)
    /\ Fault
    /\ Pop(q)
    /\ UNCHANGED unacked

-----------------------------------------------------------------------------
\* The queues qs and the deliveries un carry messages of S, each for its queue.
Carried(S, qs, un) ==
    /\ DOMAIN qs = Queues
    /\ DOMAIN un = Queues
    /\ \A q \in Queues :
        LET bound == {m \in S : m.key \in Bindings[q]}
        IN  qs[q] \in Seq(bound) /\ un[q] \in Seq(bound) /\ Len(un[q]) <= 1

=============================================================================
