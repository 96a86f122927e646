---------------------------- MODULE TripService -----------------------------
(***************************************************************************)
(* services/trip-service: the CreateTrip RPC, the MongoDB trips collection  *)
(* and the two consumers that change a trip's status.                       *)
(***************************************************************************)
EXTENDS Broker

CONSTANTS
    Fares,          \* ids of the fares PreviewTrip has stored
    FareOwner,      \* fare -> the rider it was quoted to
    FarePackage,    \* fare -> package slug
    FarePrice       \* fare -> TotalPriceInCents, a float64, in tenths of a cent

ASSUME FareAssumption ==
    /\ FareOwner \in [Fares -> Riders]
    /\ FarePrice \in [Fares -> Nat]

VARIABLES
    trips,      \* the collection: trip id -> TripModel
    calls,      \* where each CreateTrip call is
    answer,     \* pc of the driver_cmd_trip_response handler
    settling    \* pc of the payment_success handler

tripVars == <<trips, calls, answer, settling>>

TripInit ==
    /\ trips = [t \in {} |-> NoDriver]
    /\ calls = [t \in TripIds |-> "none"]
    /\ answer = "idle"
    /\ settling = "idle"

\* TripEventData: the trip as the events about it carry it.
TripData(t) ==
    [trip |-> t, user |-> trips[t].user, pkg |-> FarePackage[trips[t].fare]]

-----------------------------------------------------------------------------
\* CreateTrip up to the insert: the fare must belong to the caller.
CreateTrip(t, u, f) ==
    /\ calls[t] = "none"
    /\ FareOwner[f] = u
    /\ trips' = [x \in DOMAIN trips \cup {t} |->
                    IF x = t
                    THEN [user |-> FareOwner[f], fare |-> f,
                          status |-> "pending", driver |-> NoDriver]
                    ELSE trips[x]]
    /\ calls' = [calls EXCEPT ![t] = "inserted"]
    /\ UNCHANGED <<answer, settling, brokerVars>>

PublishTripCreated(t) ==
    /\ calls[t] = "inserted"
    /\ Publish(Message("trip.event.created", trips[t].user, TripData(t)))
    /\ calls' = [calls EXCEPT ![t] = "created"]
    /\ UNCHANGED <<trips, answer, settling, unacked, faults>>

\* The publish fails: the caller gets an error, the pending trip stays.
PublishTripCreatedFails(t) ==
    /\ calls[t] = "inserted"
    /\ Fault
    /\ calls' = [calls EXCEPT ![t] = "failed"]
    /\ UNCHANGED <<trips, answer, settling, queues, unacked>>

\* The RPC returns the new id to the gateway.
ReturnTrip(t) ==
    /\ calls[t] = "created"
    /\ calls' = [calls EXCEPT ![t] = "returned"]
    /\ UNCHANGED <<trips, answer, settling, brokerVars>>

-----------------------------------------------------------------------------
\* UpdateTrip is a $set that fails unless it modified a document: on an unknown
\* trip, and on one that already holds exactly these values.
Modifies(t, new) == t \in DOMAIN trips /\ trips[t] # new

\* Mutants: the status a design document names; the driver set, the status not.
AcceptedAsAssigned(t, d) == [trips[t] EXCEPT !.status = "assigned", !.driver = d]
AcceptedStillPending(t, d) == [trips[t] EXCEPT !.driver = d]

Accepted(t, d) == [trips[t] EXCEPT !.status = "accepted", !.driver = d]

\* Mutant: the update of a payed trip sets no status.
PayedUnchanged(t) == trips[t]

Payed(t) == [trips[t] EXCEPT !.status = "payed"]

\* handleTripAccepted up to UpdateTrip. No status is checked. The first
\* GetTripByID only asks whether the trip exists, which UpdateTrip asks again.
Accept ==
    LET q == "driver_cmd_trip_response"
        m == Head(queues[q])
    IN  /\ Ready(q)
        /\ m.key = "driver.cmd.trip_accept"
        /\ LET new == Accepted(m.body.trip, m.body.driver)
           IN  \/ /\ Modifies(m.body.trip, new)
                  /\ trips' = [trips EXCEPT ![m.body.trip] = new]
                  /\ answer' = "updated"
                  /\ Deliver(q)
               \/ /\ ~Modifies(m.body.trip, new)
                  /\ Pop(q)                          \* error: nacked
                  /\ UNCHANGED <<trips, answer, unacked>>
    /\ UNCHANGED <<calls, settling, faults>>

\* The rider's notice, with the trip as it is read back from the database.
PublishAssigned ==
    LET t == Handling("driver_cmd_trip_response").body.trip
    IN  /\ answer = "updated"
        /\ Publish(Message("trip.event.driver_assigned", trips[t].user,
                           [trip |-> t, driver |-> trips[t].driver]))
        /\ answer' = "assigned"
        /\ UNCHANGED <<trips, calls, settling, unacked, faults>>

\* Mutant: the driver is assigned and nobody asks for the payment.
PublishCreateSessionForgotten ==
    /\ answer = "assigned"
    /\ answer' = "done"
    /\ UNCHANGED <<trips, calls, settling, queues, unacked, faults>>

\* The payment command: rider and price from the trip, driver from the message.
PublishCreateSession ==
    LET m == Handling("driver_cmd_trip_response")
        t == m.body.trip
    IN  /\ answer = "assigned"
        /\ Publish(Message("payment.cmd.create_session", trips[t].user,
                           [trip |-> t, user |-> trips[t].user,
                            driver |-> m.body.driver,
                            amount |-> FarePrice[trips[t].fare]]))
        /\ answer' = "done"
        /\ UNCHANGED <<trips, calls, settling, unacked, faults>>

\* handleTripDeclined: ask for another search.
Decline ==
    LET q == "driver_cmd_trip_response"
    IN  /\ Ready(q)
        /\ Head(queues[q]).key = "driver.cmd.trip_decline"
        /\ Deliver(q)
        /\ answer' = "declining"
        /\ UNCHANGED <<trips, calls, settling, faults>>

\* Mutant: the search is asked for in the name of the driver who declined.
PublishNotInterestedForDriver ==
    LET m == Handling("driver_cmd_trip_response")
    IN  /\ answer = "declining"
        /\ Publish(Message("trip.event.driver_not_interested", m.owner,
                           TripData(m.body.trip)))
        /\ answer' = "done"
        /\ UNCHANGED <<trips, calls, settling, unacked, faults>>

PublishNotInterested ==
    LET m == Handling("driver_cmd_trip_response")
    IN  /\ answer = "declining"
        /\ Publish(Message("trip.event.driver_not_interested", m.body.user,
                           TripData(m.body.trip)))
        /\ answer' = "done"
        /\ UNCHANGED <<trips, calls, settling, unacked, faults>>

\* Mutant: an answer that was handled goes back to its queue.
AckAnswerRequeues ==
    /\ answer = "done"
    /\ Requeue({"driver_cmd_trip_response"})
    /\ answer' = "idle"
    /\ UNCHANGED <<trips, calls, settling, faults>>

AckAnswer ==
    /\ answer = "done"
    /\ Settle("driver_cmd_trip_response")
    /\ answer' = "idle"
    /\ UNCHANGED <<trips, calls, settling, queues, faults>>

\* A read or a publish fails half-way: what was done stays, the message is lost.
AnswerFails ==
    /\ answer \in {"updated", "assigned", "declining"}
    /\ Fault
    /\ Settle("driver_cmd_trip_response")
    /\ answer' = "idle"
    /\ UNCHANGED <<trips, calls, settling, queues>>

-----------------------------------------------------------------------------
\* paymentConsumer: the trip is payed, whatever it was.
MarkPayed ==
    LET q == "payment_success"
        t == Head(queues[q]).body.trip
    IN  /\ Ready(q)
        /\ \/ /\ Modifies(t, Payed(t))
              /\ trips' = [trips EXCEPT ![t] = Payed(t)]
              /\ settling' = "done"
              /\ Deliver(q)
           \/ /\ ~Modifies(t, Payed(t))
              /\ Pop(q)                              \* error: nacked
              /\ UNCHANGED <<trips, settling, unacked>>
        /\ UNCHANGED <<calls, answer, faults>>

AckPayed ==
    /\ settling = "done"
    /\ Settle("payment_success")
    /\ settling' = "idle"
    /\ UNCHANGED <<trips, calls, answer, queues, faults>>

-----------------------------------------------------------------------------
TripQueues == {"driver_cmd_trip_response", "payment_success"}

RejectTripMessage ==
    /\ \E q \in TripQueues : Reject(q)
    /\ UNCHANGED tripVars

\* The process dies and is started again; MongoDB keeps the collection.
TripServiceCrash ==
    /\ Fault
    /\ Requeue(TripQueues)
    /\ calls' = [t \in TripIds |->
                    IF calls[t] \in {"inserted", "created"} THEN "failed" ELSE calls[t]]
    /\ answer' = "idle"
    /\ settling' = "idle"
    /\ UNCHANGED trips

\* The goroutines of the two consumers, each on one message at a time.
AnswerHandler ==
    \/ Accept \/ PublishAssigned \/ PublishCreateSession
    \/ Decline \/ PublishNotInterested \/ AckAnswer

SettleHandler == MarkPayed \/ AckPayed

TripServiceFailure ==
    \/ \E t \in TripIds : PublishTripCreatedFails(t)
    \/ AnswerFails \/ RejectTripMessage \/ TripServiceCrash

=============================================================================
