------------------------ MODULE RideSharingLifeCycle -------------------------
(***************************************************************************)
(* The platform without failures implements the life cycle of a trip. Where *)
(* a trip is follows from the queues, the handlers, the pages, the database *)
(* and Stripe together: no process knows it.                                *)
(***************************************************************************)
EXTENDS RideSharingOffers

CONSTANT Dispatch       \* stands for a search, where a driver could stand

ASSUME DispatchAssumption == Dispatch \notin Drivers

\* The trip's event is to be published, waits for the driver-service, or is
\* being handled there; or a decline is being turned into another event.
Searching(t) == t \in Created \cup Searched \cup Chosen \cup Refused

\* A request to him waits for the gateway or is on his page, or his answer
\* waits for the trip-service.
OwnersIn(q, t) ==
    {queues[q][i].owner : i \in {i \in 1..Len(queues[q]) : queues[q][i].body.trip = t}}
WithDriver(t) ==
    OwnersIn("driver_cmd_trip_request", t) \cup ShownRequests(t)
        \cup OwnersIn("driver_cmd_trip_response", t)

BearersOf(t) == WithDriver(t) \cup {b \in {Dispatch} : Searching(t)}

PhaseOf(t) ==
    CASE t \notin DOMAIN trips -> "unknown"
      [] t \in DOMAIN trips /\ trips[t].status = "pending" -> "waiting"
      [] t \in DOMAIN trips /\ trips[t].status = "accepted" ->
            IF t \in Charged THEN "charged" ELSE "taken"
      [] t \in DOMAIN trips /\ trips[t].status = "payed" -> "payed"

LifeOf(t) ==
    [phase |-> PhaseOf(t), bearers |-> BearersOf(t),
     taker |-> IF t \in DOMAIN trips THEN trips[t].driver ELSE NoDriver]

life == [t \in TripIds |-> LifeOf(t)]

LifeCycle ==
    INSTANCE TripLifeCycle WITH
        Trips <- TripIds, People <- Drivers, Nobody <- NoDriver

\* Whatever four services and the pages do, in whatever order: a trip goes
\* through its life cycle, its offer in one place at a time, each stage once.
\* (As long as nothing fails: a message that is handled twice leaves it.)
FollowsLifeCycle == LifeCycle!LifeSpec

=============================================================================
