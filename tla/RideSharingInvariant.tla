------------------------ MODULE RideSharingInvariant ------------------------
(***************************************************************************)
(* The inductive invariant behind the safety theorems of RideSharing: what  *)
(* is in the database and at Stripe, what the messages say, what a handler  *)
(* that is half-way may rely on, and what the pages show.                   *)
(***************************************************************************)
EXTENDS RideSharing

\* The trips, with a driver of the right package once they are not pending, and
\* charged once they are payed. A CreateTrip call has its trip.
TripsInv ==
    /\ trips = [t \in DOMAIN trips |-> trips[t]]
    /\ DOMAIN trips \subseteq TripIds
    /\ \A t \in DOMAIN trips :
        /\ trips[t] \in Trip
        /\ trips[t].status # "pending" => <<trips[t].driver, t>> \in Fits
    /\ calls \in [TripIds -> {"none", "inserted", "created", "returned", "failed"}]
    /\ \A t \in TripIds : calls[t] # "none" <=> t \in DOMAIN trips
    /\ PaidTripsWereCharged

Session == [trip : TripIds, user : Riders, driver : Drivers, amount : Nat,
            state : {"open", "paid"}, webhooks : Nat]

SessionsInv ==
    /\ sessions \in Seq(Session)
    /\ Len(sessions) <= MaxSessions
    /\ SessionsMatchTrips

BrokerInv ==
    /\ faults \in 0..MaxFaults
    /\ MessagesStayTrue

\* Between its first write and its last publish a handler works on a message of
\* the keys it must be of, and what it wrote is there.
Holds(q, keys) == unacked[q] # <<>> /\ Handling(q).key \in keys

AnswerInv ==
    /\ answer \in {"idle", "updated", "assigned", "declining", "done"}
    /\ answer \in {"updated", "assigned"} =>
        /\ Holds("driver_cmd_trip_response", {"driver.cmd.trip_accept"})
        /\ trips[Handling("driver_cmd_trip_response").body.trip].status # "pending"
    /\ answer = "declining" =>
        Holds("driver_cmd_trip_response", {"driver.cmd.trip_decline"})

FindInv ==
    /\ drivers \in Seq(Drivers)
    /\ pendingTrips \in [TripIds -> Drivers \cup {NoDriver}]
    /\ finding \in [pc : {"idle", "found", "done"}, driver : Drivers \cup {NoDriver}]
    /\ finding.pc = "found" =>
        /\ Holds("find_available_drivers", Bindings["find_available_drivers"])
        /\ finding.driver # NoDriver =>
            DriverPackage[finding.driver] = Handling("find_available_drivers").body.pkg

WithdrawInv ==
    /\ withdrawing \in [pc : {"idle", "found", "done"}, driver : Drivers \cup {NoDriver}]
    /\ withdrawing.pc = "found" => withdrawing.driver \in Drivers

ChargeInv ==
    /\ charging \in {"idle", "created", "done"}
    /\ charging = "created" =>
        /\ Holds("payment_trip_response", {"payment.cmd.create_session"})
        /\ sessions # <<>>
        /\ sessions[Len(sessions)].trip = Handling("payment_trip_response").body.trip
        /\ sessions[Len(sessions)].user = Handling("payment_trip_response").body.user

\* What a driver can answer and a rider can pay is what the services know.
DriverPagesInv ==
    /\ socket \in [Drivers -> {"new", "added", "open", "removed", "gone"}]
    /\ DOMAIN offer = Drivers
    /\ \A d \in Drivers : offer[d].status = "request" =>
        /\ offer[d] \in [trip : TripIds, user : Riders, status : {"request"}]
        /\ <<d, offer[d].trip>> \in Fits
        /\ offer[d].user = trips[offer[d].trip].user
    /\ declined \subseteq TripIds \X Drivers

RiderPagesInv ==
    /\ current \in [Riders -> DOMAIN trips \cup {NoTrip}]
    /\ DOMAIN screen = Riders
    /\ RidersPayTheirOwn
    /\ cancelled \subseteq DOMAIN trips

IInv ==
    /\ TripsInv /\ SessionsInv /\ BrokerInv
    /\ AnswerInv /\ FindInv /\ WithdrawInv /\ ChargeInv
    /\ DriverPagesInv /\ RiderPagesInv

=============================================================================
