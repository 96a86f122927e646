------------------------- MODULE RideSharingOffers -------------------------
(***************************************************************************)
(* The inductive invariant behind the claims that a trip is with one driver *)
(* at a time, is charged once and can be recalled: as long as nothing       *)
(* fails, what is to be done about a trip is written in one place.          *)
(***************************************************************************)
EXTENDS RideSharingInvariant

TripsIn(q) == {queues[q][i].body.trip : i \in 1..Len(queues[q])}
InHand(q, busy) == IF busy THEN {Handling(q).body.trip} ELSE {}

\* The trips about which there is something to be done, by where that is known:
\* CreateTrip has to publish; a search waits, or has chosen whom to ask; a
\* request waits, or is on a page; an answer waits, or is turned into another
\* search or into a charge; the charge waits, or has become a session.
Created == {t \in TripIds : calls[t] = "inserted"}
Searched == TripsIn("find_available_drivers")
Chosen == InHand("find_available_drivers", finding.pc = "found")
Requested == TripsIn("driver_cmd_trip_request")
Shown == {offer[d].trip : d \in {d \in Drivers : offer[d].status = "request"}}
Replied == TripsIn("driver_cmd_trip_response")
Refused == InHand("driver_cmd_trip_response", answer = "declining")
Granted == InHand("driver_cmd_trip_response", answer \in {"updated", "assigned"})
Due == TripsIn("payment_trip_response")
Charged == {sessions[i].trip : i \in 1..Len(sessions)}

Places == <<Created, Searched, Chosen, Requested, Shown, Replied, Refused,
            Granted, Due, Charged>>

\* No trip is in two of these places,
Apart ==
    LET at == Places
    IN  \A i, j \in 1..10 : i < j => at[i] \cap at[j] = {}

\* nor twice in one of them.
Once(q) ==
    \A i, j \in 1..Len(queues[q]) :
        queues[q][i].body.trip = queues[q][j].body.trip => i = j
OnePage ==
    \A d, e \in Drivers :
        offer[d].status = "request" /\ offer[e].status = "request"
            /\ offer[d].trip = offer[e].trip => d = e
OneSession ==
    \A i, j \in 1..Len(sessions) : sessions[i].trip = sessions[j].trip => i = j
Alone ==
    /\ Once("find_available_drivers") /\ Once("driver_cmd_trip_request")
    /\ Once("driver_cmd_trip_response") /\ Once("payment_trip_response")
    /\ OnePage /\ OneSession

\* What is in one of the first seven has not been taken.
StillPending ==
    LET at == Places
    IN  \A i \in 1..7 : \A t \in at[i] : trips[t].status = "pending"

\* Whoever is asked, or about to be, is the pending driver.
CancelledKnown == TripsIn("trip_cancelled_driver") \subseteq cancelled
AskedRecalled ==
    LET asked == queues["driver_cmd_trip_request"]
    IN  \A i \in 1..Len(asked) : asked[i].body.trip \notin cancelled =>
            pendingTrips[asked[i].body.trip] = asked[i].owner
ShownRecalled ==
    \A d \in Drivers : offer[d].status = "request" /\ offer[d].trip \notin cancelled =>
        pendingTrips[offer[d].trip] = d
ChosenRecalled == \A t \in Chosen \ cancelled : finding.driver \in {pendingTrips[t], NoDriver}
Recallable == CancelledKnown /\ AskedRecalled /\ ShownRecalled /\ ChosenRecalled

InOnePlace == Apart /\ Alone /\ StillPending /\ Recallable

OffersInv == faults = 0 => InOnePlace

=============================================================================
