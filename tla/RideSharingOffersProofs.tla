---------------------- MODULE RideSharingOffersProofs ----------------------
(***************************************************************************)
(* As long as nothing fails, a trip is offered to one driver at a time, is  *)
(* charged once, stays payed, and whoever is asked can be recalled: for     *)
(* every number of trips, riders, drivers, fares and sessions. Each step    *)
(* takes what is to be done about a trip from one place to another (Moves). *)
(***************************************************************************)
EXTENDS RideSharingOffers, RideSharingProofs, FiniteSetTheorems

-----------------------------------------------------------------------------
\* What operations on a queue do to the trips it speaks of.

LEMMA Popped ==
    ASSUME NEW S, NEW q \in Queues, DOMAIN queues = Queues, queues[q] \in Seq(S),
           queues[q] # <<>>, Pop(q)
    PROVE  /\ Head(queues[q]) = queues[q][1] /\ 1 \in 1..Len(queues[q])
           /\ \A i \in 1..Len(queues'[q]) :
                i + 1 \in 1..Len(queues[q]) /\ queues'[q][i] = queues[q][i + 1]
           /\ Head(queues[q]).body.trip \in TripsIn(q)
           /\ TripsIn(q)' \subseteq TripsIn(q)
           /\ Once(q) => Once(q)' /\ Head(queues[q]).body.trip \notin TripsIn(q)'
           /\ \A p \in Queues : p # q => queues'[p] = queues[p]
<1>1. /\ Head(queues[q]) = queues[q][1] /\ 1 \in 1..Len(queues[q])
      /\ queues'[q] = Tail(queues[q])
      /\ \A p \in Queues : p # q => queues'[p] = queues[p]
    BY EmptySeq DEF Pop
<1>2. \A i \in 1..Len(queues'[q]) :
        i \in Nat /\ i >= 1 /\ i + 1 \in 1..Len(queues[q]) /\ queues'[q][i] = queues[q][i + 1]
    BY <1>1
<1>3. TripsIn(q)' \subseteq TripsIn(q)
    BY <1>2 DEF TripsIn
<1>4. ASSUME Once(q) PROVE Once(q)' /\ Head(queues[q]).body.trip \notin TripsIn(q)'
    <2>1. ASSUME NEW i \in 1..Len(queues'[q]), NEW j \in 1..Len(queues'[q]),
                 queues'[q][i].body.trip = queues'[q][j].body.trip
          PROVE  i = j
        <3>1. queues[q][i + 1].body.trip = queues[q][j + 1].body.trip
            BY <1>2, <2>1
        <3>2. i + 1 = j + 1
            BY <1>2, <1>4, <3>1 DEF Once
        <3> QED
            BY <1>2, <3>2
    <2>2. Once(q)'
        BY <2>1 DEF Once
    <2>3. \A i \in 1..Len(queues'[q]) : queues'[q][i].body.trip # queues[q][1].body.trip
        BY <1>1, <1>2, <1>4 DEF Once
    <2> QED
        BY <1>1, <2>2, <2>3 DEF TripsIn
<1> QED
    BY <1>1, <1>2, <1>3, <1>4 DEF TripsIn

LEMMA Sent ==
    ASSUME NEW S, NEW q \in Queues, queues[q] \in Seq(S), NEW m \in S, Publish(m)
    PROVE  /\ m.key \notin Bindings[q] => queues'[q] = queues[q]
           /\ m.key \in Bindings[q] =>
                /\ queues'[q] = Append(queues[q], m)
                /\ TripsIn(q)' = TripsIn(q) \cup {m.body.trip}
                /\ Once(q) /\ m.body.trip \notin TripsIn(q) => Once(q)'
<1> SUFFICES ASSUME m.key \in Bindings[q]
             PROVE  /\ queues'[q] = Append(queues[q], m)
                    /\ TripsIn(q)' = TripsIn(q) \cup {m.body.trip}
                    /\ Once(q) /\ m.body.trip \notin TripsIn(q) => Once(q)'
    BY DEF Publish
<1> DEFINE n == Len(queues[q])
<1>1. queues'[q] = Append(queues[q], m)
    BY DEF Publish
<1>2. /\ n \in Nat /\ 1..Len(queues'[q]) = 1..n \cup {n + 1}
      /\ \A i \in 1..n : queues'[q][i] = queues[q][i]
      /\ queues'[q][n + 1] = m
    BY <1>1
<1>3. TripsIn(q)' = TripsIn(q) \cup {m.body.trip}
    BY <1>2 DEF TripsIn
<1>4. ASSUME Once(q), m.body.trip \notin TripsIn(q) PROVE Once(q)'
    <2>1. ASSUME NEW i \in 1..n \cup {n + 1}, NEW j \in 1..n \cup {n + 1},
                 queues'[q][i].body.trip = queues'[q][j].body.trip
          PROVE  i = j
        <3>1. \A k \in 1..n : queues'[q][k].body.trip # m.body.trip
            BY <1>2, <1>4 DEF TripsIn
        <3>2. CASE i \in 1..n /\ j \in 1..n
            BY <1>2, <1>4, <2>1, <3>2 DEF Once
        <3> QED
            BY <1>2, <2>1, <3>1, <3>2
    <2> QED
        BY <1>2, <2>1 DEF Once
<1> QED
    BY <1>1, <1>3, <1>4

\* A queue that is left alone.
LEMMA Untouched ==
    ASSUME NEW q, queues'[q] = queues[q]
    PROVE  TripsIn(q)' = TripsIn(q) /\ (Once(q)' <=> Once(q))
    BY DEF TripsIn, Once

\* Every queue is a sequence of true messages of the keys it is bound to.
LEMMA QueuesHoldMessages ==
    ASSUME IInv, NEW q \in Queues
    PROVE  /\ DOMAIN queues = Queues
           /\ queues[q] \in Seq(TrueMessages)
           /\ \A i \in 1..Len(queues[q]) :
                queues[q][i] \in TrueMessages /\ queues[q][i].key \in Bindings[q]
<1>1. DOMAIN queues = Queues /\ queues[q] \in Seq(Of(TrueMessages, q))
    BY CarriedNow DEF Carried, Of
<1>2. Of(TrueMessages, q) \subseteq TrueMessages
    BY DEF Of
<1>3. queues[q] \in Seq(TrueMessages)
    BY <1>1, <1>2, SeqMonotonic
<1>4. \A i \in 1..Len(queues[q]) : queues[q][i] \in Of(TrueMessages, q)
    BY <1>1
<1> QED
    BY <1>1, <1>3, <1>4 DEF Of

\* What the messages about searches, requests, answers and charges speak of.
LEMMA MessagesKnowTrips ==
    ASSUME NEW m \in TrueMessages
    PROVE  /\ m.key \in {"trip.event.created", "trip.event.driver_not_interested",
                         "driver.cmd.trip_request", "driver.cmd.trip_accept",
                         "driver.cmd.trip_decline", "payment.cmd.create_session"}
                => m.body.trip \in DOMAIN trips
           /\ m.key = "driver.cmd.trip_request" =>
                m.owner \in Drivers /\ m.body = TripData(m.body.trip)
           /\ m.key \in {"driver.cmd.trip_accept", "driver.cmd.trip_decline"}
                => m.body.driver \in Drivers
<1>1. m \in Searches => m.body.trip \in DOMAIN trips
    BY DEF Searches, Message, TripData
<1>2. m \in Requests =>
        m.body.trip \in DOMAIN trips /\ m.owner \in Drivers /\ m.body = TripData(m.body.trip)
    BY DEF Requests, Message, TripData, Fits
<1>3. m \in Answers => m.body.trip \in DOMAIN trips /\ m.body.driver \in Drivers
    BY DEF Answers, Message, Fits
<1>4. m \in Charges => m.body.trip \in DOMAIN trips
    BY DEF Charges, Message, Taken, Fits
<1> QED
    BY <1>1, <1>2, <1>3, <1>4, TrueMessagesByKey

\* The trip a busy handler works on is in the database.
LEMMA InHandKnown ==
    ASSUME IInv
    PROVE  /\ Chosen \subseteq DOMAIN trips
           /\ Refused \subseteq DOMAIN trips /\ Granted \subseteq DOMAIN trips
<1>1. Refused \subseteq DOMAIN trips /\ Granted \subseteq DOMAIN trips
    BY AnswerInHand DEF Refused, Granted, InHand
<1>2. CASE finding.pc = "found"
    <2>1. /\ Handling("find_available_drivers") \in TrueMessages
          /\ Handling("find_available_drivers").key \in Bindings["find_available_drivers"]
        BY <1>2, CarriedNow, HandledIsCarried, QueueKeys DEF IInv, FindInv, Holds
    <2> QED
        BY <1>1, <2>1, QueueKeys, MessagesKnowTrips DEF Chosen, InHand
<1> QED
    BY <1>1, <1>2 DEF Chosen, InHand

LEMMA QueuesKnowTrips ==
    ASSUME IInv
    PROVE  /\ Searched \subseteq DOMAIN trips /\ Requested \subseteq DOMAIN trips
           /\ Replied \subseteq DOMAIN trips /\ Due \subseteq DOMAIN trips
<1>1. ASSUME NEW q \in {"find_available_drivers", "driver_cmd_trip_request",
                       "driver_cmd_trip_response", "payment_trip_response"},
             NEW i \in 1..Len(queues[q])
      PROVE  queues[q][i].body.trip \in DOMAIN trips
    <2>1. q \in Queues
        BY QueueKeys
    <2>2. queues[q][i] \in TrueMessages /\ queues[q][i].key \in Bindings[q]
        BY <2>1, QueuesHoldMessages
    <2> QED
        BY <2>2, QueueKeys, MessagesKnowTrips
<1> QED
    BY <1>1 DEF Searched, Requested, Replied, Due, TripsIn

\* Only trips of the database are anywhere.
LEMMA PlacesKnowTrips ==
    ASSUME IInv, NEW i \in 1..10
    PROVE  Places[i] \subseteq DOMAIN trips
<1>1. Created \subseteq DOMAIN trips
    BY DEF Created, IInv, TripsInv
<1>2. Shown \subseteq DOMAIN trips
    <2>1. \A d \in Drivers : offer[d].status = "request" => <<d, offer[d].trip>> \in Fits
        BY DEF IInv, DriverPagesInv
    <2>2. \A d \in Drivers : offer[d].status = "request" => offer[d].trip \in DOMAIN trips
        BY <2>1 DEF Fits
    <2> QED
        BY <2>2 DEF Shown
<1>3. Charged \subseteq DOMAIN trips
    BY DEF Charged, IInv, SessionsInv, SessionsMatchTrips
<1>4. Places[i] \in {Created, Searched, Chosen, Requested, Shown, Replied, Refused,
                     Granted, Due, Charged}
    BY DEF Places
<1> QED
    BY <1>1, <1>2, <1>3, <1>4, InHandKnown, QueuesKnowTrips

-----------------------------------------------------------------------------
\* A step that takes trip t from place a, or from nowhere, to place b, or to
\* nowhere, and may make others disappear.
Moves(a, b, t) ==
    /\ \A i \in 1..10 : Places'[i] \subseteq Places[i] \cup {x \in {t} : i = b}
    /\ \A i \in 1..10 : t \in Places[i] => i = a
    /\ a # b /\ a \in 1..10 => t \notin Places'[a]

\* Trips that are not taken stay so, and t is not, where it is offered.
KeepsPending(b, t) ==
    /\ \A x \in DOMAIN trips :
        x # t /\ trips[x].status = "pending" => trips'[x].status = "pending"
    /\ b \in 1..7 => trips'[t].status = "pending"

LEMMA MovesKeepApart ==
    ASSUME Apart, NEW a, NEW b, NEW t, Moves(a, b, t)
    PROVE  Apart'
<1>1. \A i, j \in 1..10 : i < j => Places[i] \cap Places[j] = {}
    BY DEF Apart
<1>2. ASSUME NEW i \in 1..10, NEW j \in 1..10, i < j, NEW x \in Places'[i] \cap Places'[j]
      PROVE  FALSE
    <2>1. CASE x # t
        BY <1>1, <1>2, <2>1 DEF Moves
    <2>2. CASE x = t
        BY <1>2, <2>2 DEF Moves
    <2> QED
        BY <2>1, <2>2
<1> QED
    BY <1>2 DEF Apart

LEMMA MovesKeepPending ==
    ASSUME IInv, StillPending, NEW a, NEW b, NEW t, Moves(a, b, t), KeepsPending(b, t),
           a \in 1..7 /\ b \notin 1..7 => t \notin Places'[a]
    PROVE  StillPending'
<1>1. \A i \in 1..7 : \A x \in Places[i] : x \in DOMAIN trips /\ trips[x].status = "pending"
    BY PlacesKnowTrips DEF StillPending
<1>2. ASSUME NEW i \in 1..7, NEW x \in Places'[i] PROVE trips'[x].status = "pending"
    <2>1. CASE x # t
        BY <1>1, <1>2, <2>1 DEF Moves, KeepsPending
    <2>2. CASE x = t
        BY <1>1, <1>2, <2>2 DEF Moves, KeepsPending
    <2> QED
        BY <2>1, <2>2
<1> QED
    BY <1>2 DEF StillPending

-----------------------------------------------------------------------------
\* A step that takes nothing from one place to another, and that makes pendingTrips
\* forget nobody but who was pending for a cancelled trip.
StandsStill ==
    /\ \A i \in 1..10 : Places'[i] = Places[i]
    /\ \A q \in {"find_available_drivers", "driver_cmd_trip_request",
                 "driver_cmd_trip_response", "payment_trip_response"} :
            queues'[q] = queues[q]
    /\ UNCHANGED offer
    /\ OneSession => OneSession'
    /\ \A x \in DOMAIN trips \ Charged :
            trips[x].status = "pending" => trips'[x].status = "pending"
    /\ cancelled \subseteq cancelled'
    /\ CancelledKnown => CancelledKnown'
    /\ \A t \in TripIds \ cancelled' : pendingTrips'[t] = pendingTrips[t]
    /\ finding.pc = "found" => UNCHANGED finding

LEMMA NothingMoves ==
    ASSUME IInv, InOnePlace, StandsStill
    PROVE  InOnePlace'
<1> USE DEF StandsStill
<1>1. Apart'
    BY DEF InOnePlace, Apart
<1>2. Alone'
    BY Untouched DEF InOnePlace, Alone, OnePage
<1>3. StillPending'
    <2>1. ASSUME NEW i \in 1..7, NEW x \in Places'[i] PROVE trips'[x].status = "pending"
        <3>1. x \in DOMAIN trips /\ trips[x].status = "pending"
            BY <2>1, PlacesKnowTrips DEF InOnePlace, StillPending
        <3>2. Places[10] = Charged /\ Places[i] \cap Places[10] = {}
            BY DEF InOnePlace, Apart, Places
        <3> QED
            BY <2>1, <3>1, <3>2
    <2> QED
        BY <2>1 DEF StillPending
<1>4. DOMAIN trips \subseteq TripIds
    BY DEF IInv, TripsInv
<1>5. AskedRecalled'
    <2> DEFINE asked == queues["driver_cmd_trip_request"]
    <2>1. \A i \in 1..Len(asked) : asked[i].body.trip \in TripIds
        BY <1>4, QueuesKnowTrips DEF Requested, TripsIn
    <2> QED
        BY <2>1 DEF InOnePlace, Recallable, AskedRecalled
<1>6. ShownRecalled'
    BY DEF InOnePlace, Recallable, ShownRecalled, IInv, DriverPagesInv
<1>7. ChosenRecalled'
    <2>1. Chosen' = Chosen /\ Chosen \subseteq TripIds
        BY <1>4, InHandKnown DEF Places
    <2>2. Chosen # {} => finding.pc = "found"
        BY DEF Chosen, InHand
    <2> QED
        BY <2>1, <2>2 DEF InOnePlace, Recallable, ChosenRecalled
<1> QED
    BY <1>1, <1>2, <1>3, <1>5, <1>6, <1>7 DEF InOnePlace, Recallable

\* The places whose variables a step leaves alone.
LEMMA PlacesStay ==
    /\ UNCHANGED calls => Created' = Created
    /\ /\ UNCHANGED finding
       /\ unacked'["find_available_drivers"] = unacked["find_available_drivers"]
       => Chosen' = Chosen
    /\ UNCHANGED offer => Shown' = Shown
    /\ /\ UNCHANGED answer
       /\ unacked'["driver_cmd_trip_response"] = unacked["driver_cmd_trip_response"]
       => Refused' = Refused /\ Granted' = Granted
    /\ UNCHANGED sessions => Charged' = Charged /\ (OneSession' <=> OneSession)
    /\ queues'["find_available_drivers"] = queues["find_available_drivers"] =>
        Searched' = Searched
    /\ queues'["driver_cmd_trip_request"] = queues["driver_cmd_trip_request"] =>
        Requested' = Requested
    /\ queues'["driver_cmd_trip_response"] = queues["driver_cmd_trip_response"] =>
        Replied' = Replied
    /\ queues'["payment_trip_response"] = queues["payment_trip_response"] =>
        Due' = Due
    /\ queues'["trip_cancelled_driver"] = queues["trip_cancelled_driver"]
            /\ UNCHANGED cancelled => (CancelledKnown' <=> CancelledKnown)
    BY DEF Created, Chosen, InHand, Handling, Shown, Refused, Granted, Charged, OneSession,
        Searched, Requested, Replied, Due, TripsIn, CancelledKnown

\* The same in terms of the numbers of the places.
LEMMA PlacesEqual ==
    ASSUME Created' = Created, Searched' = Searched, Chosen' = Chosen,
           Requested' = Requested, Shown' = Shown, Replied' = Replied,
           Refused' = Refused, Granted' = Granted, Due' = Due, Charged' = Charged
    PROVE  \A i \in 1..10 : Places'[i] = Places[i]
    BY DEF Places

\* What a publish does to each of the queues.
LEMMA Published ==
    ASSUME IInv, NEW q \in Queues, NEW m, Publish(m)
    PROVE  /\ m.key \notin Bindings[q] => queues'[q] = queues[q]
           /\ m.key \in Bindings[q] =>
                /\ queues'[q] = Append(queues[q], m)
                /\ TripsIn(q)' = TripsIn(q) \cup {m.body.trip}
                /\ Once(q) /\ m.body.trip \notin TripsIn(q) => Once(q)'
<1> DEFINE S == TrueMessages \cup {m}
<1>1. queues[q] \in Seq(S)
    BY QueuesHoldMessages, SeqMonotonic
<1> QED
    BY <1>1, Sent

\* The queues that hold places, and that of the cancellations.
LEMMA KeysApart ==
    ASSUME IInv, NEW m, Publish(m)
    PROVE  /\ m.key \notin Bindings["find_available_drivers"] =>
                queues'["find_available_drivers"] = queues["find_available_drivers"]
           /\ m.key \notin Bindings["driver_cmd_trip_request"] =>
                queues'["driver_cmd_trip_request"] = queues["driver_cmd_trip_request"]
           /\ m.key \notin Bindings["driver_cmd_trip_response"] =>
                queues'["driver_cmd_trip_response"] = queues["driver_cmd_trip_response"]
           /\ m.key \notin Bindings["payment_trip_response"] =>
                queues'["payment_trip_response"] = queues["payment_trip_response"]
           /\ m.key \notin Bindings["trip_cancelled_driver"] =>
                queues'["trip_cancelled_driver"] = queues["trip_cancelled_driver"]
    BY Published, QueueKeys

\* A step that publishes nothing of these keys, or nothing at all, and takes no
\* message from these queues.
Aside == \A q \in {"find_available_drivers", "driver_cmd_trip_request",
                   "driver_cmd_trip_response", "payment_trip_response",
                   "trip_cancelled_driver"} : queues'[q] = queues[q]

LEMMA NoticesAreAside ==
    ASSUME IInv, NEW m, Publish(m),
           m.key \notin {"trip.event.created", "trip.event.driver_not_interested",
                        "driver.cmd.trip_request", "driver.cmd.trip_accept",
                        "driver.cmd.trip_decline", "payment.cmd.create_session",
                        "trip.event.cancelled"}
    PROVE  Aside
    BY KeysApart, QueueKeys DEF Aside

\* Such a step, with the handlers where they were or done.
LEMMA AsideStandsStill ==
    ASSUME Aside, Created' = Created, UNCHANGED <<offer, pendingTrips>>,
           Chosen' = Chosen, finding.pc = "found" => UNCHANGED finding,
           Refused' = Refused, Granted' = Granted,
           Charged' = Charged, OneSession => OneSession',
           \A x \in DOMAIN trips \ Charged :
                trips[x].status = "pending" => trips'[x].status = "pending",
           UNCHANGED cancelled
    PROVE  StandsStill
<1>1. /\ Searched' = Searched /\ Requested' = Requested /\ Replied' = Replied
      /\ Due' = Due /\ Shown' = Shown /\ (CancelledKnown' <=> CancelledKnown)
    BY PlacesStay DEF Aside
<1>2. \A i \in 1..10 : Places'[i] = Places[i]
    BY <1>1, PlacesEqual
<1> QED
    BY <1>1, <1>2 DEF Aside, StandsStill

-----------------------------------------------------------------------------
\* The steps that leave every trip where it is.

\* Those of the services.
LEMMA ServicesAside ==
    ASSUME IInv,
           \/ AckFound /\ UNCHANGED <<tripVars, paymentVars, gatewayVars>>
           \/ (PublishWithdrawn \/ AckWithdrawn)
                /\ UNCHANGED <<tripVars, paymentVars, gatewayVars>>
           \/ (PublishAssigned \/ AckAnswer \/ AckPayed)
                /\ UNCHANGED <<driverVars, paymentVars, gatewayVars>>
           \/ (PublishSessionCreated \/ AckCharged)
                /\ UNCHANGED <<tripVars, driverVars, gatewayVars>>
    PROVE  StandsStill
<1> USE DEF tripVars, paymentVars, gatewayVars, driverVars
<1>1. CASE AckFound /\ UNCHANGED <<tripVars, paymentVars, gatewayVars>>
    <2>1. Chosen = {} /\ Chosen' = {} /\ finding.pc # "found"
        BY <1>1 DEF AckFound, Chosen, InHand, Idle
    <2>2. unacked'["driver_cmd_trip_response"] = unacked["driver_cmd_trip_response"]
        BY <1>1, QueueKeys, CarriedNow DEF AckFound, Settle, Carried
    <2> QED
        BY <1>1, <2>1, <2>2, PlacesStay, AsideStandsStill
        DEF AckFound, Aside
<1>2. CASE PublishWithdrawn /\ UNCHANGED <<tripVars, paymentVars, gatewayVars>>
    <2>1. Aside
        BY <1>2, NoticesAreAside DEF PublishWithdrawn, Message
    <2> QED
        BY <1>2, <2>1, PlacesStay, AsideStandsStill
        DEF PublishWithdrawn
<1>3. CASE AckWithdrawn /\ UNCHANGED <<tripVars, paymentVars, gatewayVars>>
    <2>1. /\ unacked'["driver_cmd_trip_response"] = unacked["driver_cmd_trip_response"]
          /\ unacked'["find_available_drivers"] = unacked["find_available_drivers"]
        BY <1>3, QueueKeys, CarriedNow DEF AckWithdrawn, Settle, Carried
    <2> QED
        BY <1>3, <2>1, PlacesStay, AsideStandsStill
        DEF AckWithdrawn, Aside
<1>4. CASE PublishAssigned /\ UNCHANGED <<driverVars, paymentVars, gatewayVars>>
    <2>1. Aside
        BY <1>4, NoticesAreAside DEF PublishAssigned, Message
    <2>2. Refused' = Refused /\ Granted' = Granted
        BY <1>4 DEF PublishAssigned, Refused, Granted, InHand, Handling
    <2> QED
        BY <1>4, <2>1, <2>2, PlacesStay, AsideStandsStill
        DEF PublishAssigned
<1>5. CASE AckAnswer /\ UNCHANGED <<driverVars, paymentVars, gatewayVars>>
    <2>1. Refused' = Refused /\ Granted' = Granted
        BY <1>5 DEF AckAnswer, Refused, Granted, InHand
    <2>2. unacked'["find_available_drivers"] = unacked["find_available_drivers"]
        BY <1>5, QueueKeys, CarriedNow DEF AckAnswer, Settle, Carried
    <2> QED
        BY <1>5, <2>1, <2>2, PlacesStay, AsideStandsStill
        DEF AckAnswer, Aside
<1>6. CASE AckPayed /\ UNCHANGED <<driverVars, paymentVars, gatewayVars>>
    <2>1. /\ unacked'["driver_cmd_trip_response"] = unacked["driver_cmd_trip_response"]
          /\ unacked'["find_available_drivers"] = unacked["find_available_drivers"]
        BY <1>6, QueueKeys, CarriedNow DEF AckPayed, Settle, Carried
    <2> QED
        BY <1>6, <2>1, PlacesStay, AsideStandsStill
        DEF AckPayed, Aside
<1>7. CASE PublishSessionCreated /\ UNCHANGED <<tripVars, driverVars, gatewayVars>>
    <2>1. Aside
        BY <1>7, NoticesAreAside DEF PublishSessionCreated, Message
    <2> QED
        BY <1>7, <2>1, PlacesStay, AsideStandsStill
        DEF PublishSessionCreated
<1>8. CASE AckCharged /\ UNCHANGED <<tripVars, driverVars, gatewayVars>>
    <2>1. /\ unacked'["driver_cmd_trip_response"] = unacked["driver_cmd_trip_response"]
          /\ unacked'["find_available_drivers"] = unacked["find_available_drivers"]
        BY <1>8, QueueKeys, CarriedNow DEF AckCharged, Settle, Carried
    <2> QED
        BY <1>8, <2>1, PlacesStay, AsideStandsStill
        DEF AckCharged, Aside
<1> QED
    BY <1>1, <1>2, <1>3, <1>4, <1>5, <1>6, <1>7, <1>8

\* Those of people and of the gateway. A rider's queues are not the ones above.
LEMMA PeopleAside ==
    ASSUME IInv,
           \/ \E d \in Drivers : ConnectDriver(d) \/ Disconnect(d) \/ Register(d)
           \/ \E u \in Riders : CancelUnknown(u) /\ UNCHANGED <<tripVars, driverVars, paymentVars>>
           \/ \E q \in RiderQueues : PushRider(q)
           \/ \E t \in TripIds : AnswerStart(t)
    PROVE  StandsStill
<1> USE DEF tripVars, paymentVars, driverVars, brokerVars, riderPages, driverPages
<1>1. ASSUME NEW d \in Drivers, ConnectDriver(d) \/ Disconnect(d) \/ Register(d)
      PROVE  StandsStill
    <2>1. UNCHANGED <<offer, cancelled, brokerVars, tripVars, paymentVars, finding, pendingTrips>>
        BY <1>1 DEF ConnectDriver, Disconnect, Register, AddDriver, RemoveDriver, DriverRegistered
    <2> QED
        BY <2>1, PlacesStay, AsideStandsStill DEF Aside
<1>2. ASSUME NEW u \in Riders, CancelUnknown(u), UNCHANGED <<tripVars, driverVars, paymentVars>>
      PROVE  StandsStill
    BY <1>2, PlacesStay, AsideStandsStill DEF CancelUnknown, Aside
<1>3. ASSUME NEW q \in RiderQueues, PushRider(q) PROVE StandsStill
    <2>1. Aside
        BY <1>3, QueueKeys, CarriedNow
        DEF PushRider, ShowRider, Pop, Aside, RiderQueues, Carried
    <2> QED
        BY <1>3, <2>1, PlacesStay, AsideStandsStill
        DEF PushRider, ShowRider
<1>4. ASSUME NEW t \in TripIds, AnswerStart(t) PROVE StandsStill
    <2>1. Created' = Created
        BY <1>4 DEF AnswerStart, ReturnTrip, Created, IInv, TripsInv
    <2> QED
        BY <1>4, <2>1, PlacesStay, AsideStandsStill
        DEF AnswerStart, ReturnTrip, LearnTrip, Aside
<1> QED
    BY <1>1, <1>2, <1>3, <1>4

\* A payment changes the state of a session, and the status of its trip.
LEMMA PayTripAside ==
    ASSUME IInv, NEW u \in Riders, PayTrip(u)
    PROVE  StandsStill
<1> DEFINE i == screen[u].session
<1>1. i \in 1..Len(sessions)
    BY DEF PayTrip, IInv, RiderPagesInv, RidersPayTheirOwn
<1>2. sessions' = [sessions EXCEPT ![i].state = "paid"]
    BY DEF PayTrip, CompleteCheckout
<1>3. Len(sessions') = Len(sessions) /\ \A j \in 1..Len(sessions) : sessions'[j].trip = sessions[j].trip
    BY <1>1, <1>2 DEF IInv, SessionsInv, Session
<1>4. Charged' = Charged /\ (OneSession => OneSession')
    BY <1>3 DEF Charged, OneSession
<1> QED
    BY <1>4, PlacesStay, AsideStandsStill
    DEF PayTrip, ReturnFromCheckout, CompleteCheckout, Aside, tripVars, driverVars, brokerVars,
        driverPages

LEMMA WebhookAside ==
    ASSUME IInv, NEW i \in 1..Len(sessions), Webhook(i)
    PROVE  StandsStill
<1>1. sessions' = [sessions EXCEPT ![i].webhooks = @ + 1]
    BY DEF Webhook, StripeWebhook
<1>2. Len(sessions') = Len(sessions) /\ \A j \in 1..Len(sessions) : sessions'[j].trip = sessions[j].trip
    BY <1>1 DEF IInv, SessionsInv, Session
<1>3. Charged' = Charged /\ (OneSession => OneSession')
    BY <1>2 DEF Charged, OneSession
<1>4. Aside
    BY NoticesAreAside DEF Webhook, StripeWebhook, Message
<1> QED
    BY <1>3, <1>4, PlacesStay, AsideStandsStill
    DEF Webhook, StripeWebhook, tripVars, driverVars, gatewayVars

LEMMA MarkPayedAside ==
    ASSUME IInv, MarkPayed, UNCHANGED <<driverVars, paymentVars, gatewayVars>>
    PROVE  StandsStill
<1> DEFINE q == "payment_success"
           m == Head(queues[q])
           t == m.body.trip
<1>1. Ready(q) /\ Pop(q) /\ UNCHANGED <<calls, answer>>
    BY DEF MarkPayed, Deliver
<1>2. m \in Payments
    BY <1>1, CarriedNow, HeadIsCarried, QueueKeys, TrueMessagesByKey DEF Ready
<1>3. t \in Charged
    BY <1>2 DEF Payments, Message, Charged
<1>4. \A x \in DOMAIN trips \ Charged : trips'[x] = trips[x]
    BY <1>3 DEF MarkPayed
<1>5. Aside
    BY <1>1, QueueKeys, CarriedNow DEF Pop, Aside, Carried
<1>6. /\ unacked'["driver_cmd_trip_response"] = unacked["driver_cmd_trip_response"]
      /\ unacked'["find_available_drivers"] = unacked["find_available_drivers"]
    BY QueueKeys, CarriedNow DEF MarkPayed, Deliver, Carried
<1> QED
    BY <1>1, <1>4, <1>5, <1>6, PlacesStay, AsideStandsStill
    DEF driverVars, paymentVars, gatewayVars

-----------------------------------------------------------------------------
\* Cancellations: who is pending for a trip is forgotten only after it was
\* cancelled.

LEMMA WithdrawStandsStill ==
    ASSUME IInv, CancelledKnown, Withdraw, UNCHANGED <<tripVars, paymentVars, gatewayVars>>
    PROVE  StandsStill
<1> DEFINE q == "trip_cancelled_driver"
           t == Head(queues[q]).body.trip
<1>1. Ready(q) /\ Pop(q) /\ UNCHANGED <<drivers, finding, faults>>
    BY DEF Withdraw, Deliver
<1>2. q \in Queues /\ queues[q] \in Seq(TrueMessages) /\ DOMAIN queues = Queues
    BY QueueKeys, QueuesHoldMessages
<1>3. t \in TripsIn(q) /\ TripsIn(q)' \subseteq TripsIn(q)
      /\ \A p \in Queues : p # q => queues'[p] = queues[p]
    BY <1>1, <1>2, Popped DEF Ready
<1>4. t \in cancelled /\ CancelledKnown'
    BY <1>3 DEF CancelledKnown, gatewayVars
<1>5. \A x \in TripIds \ cancelled' : pendingTrips'[x] = pendingTrips[x]
    BY <1>4 DEF Withdraw, gatewayVars, IInv, FindInv
<1>6. \A p \in {"find_available_drivers", "driver_cmd_trip_request",
                "driver_cmd_trip_response", "payment_trip_response"} :
        queues'[p] = queues[p]
    BY <1>3, QueueKeys
<1>7. /\ unacked'["driver_cmd_trip_response"] = unacked["driver_cmd_trip_response"]
      /\ unacked'["find_available_drivers"] = unacked["find_available_drivers"]
    BY QueueKeys, CarriedNow DEF Withdraw, Deliver, Carried
<1>8. \A i \in 1..10 : Places'[i] = Places[i]
    BY <1>1, <1>6, <1>7, PlacesStay, PlacesEqual DEF tripVars, paymentVars, gatewayVars
<1> QED
    BY <1>1, <1>4, <1>5, <1>6, <1>8, PlacesStay
    DEF tripVars, paymentVars, gatewayVars, StandsStill

LEMMA CancelTripStandsStill ==
    ASSUME IInv, NEW u \in Riders, CancelTrip(u),
           UNCHANGED <<tripVars, driverVars, paymentVars>>
    PROVE  StandsStill
<1> DEFINE q == "trip_cancelled_driver"
           t == current[u]
           m == Message("trip.event.cancelled", u, [trip |-> t, user |-> u])
<1>1. /\ Publish(m) /\ m.key = "trip.event.cancelled" /\ m.body.trip = t
      /\ cancelled' = cancelled \cup {t} /\ UNCHANGED <<offer, unacked, finding, pendingTrips>>
    BY DEF CancelTrip, Message, driverPages, driverVars
<1>2. TripsIn(q)' = TripsIn(q) \cup {t}
    BY <1>1, Published, QueueKeys
<1>3. CancelledKnown => CancelledKnown'
    BY <1>1, <1>2 DEF CancelledKnown
<1>4. \A p \in {"find_available_drivers", "driver_cmd_trip_request",
                "driver_cmd_trip_response", "payment_trip_response"} :
        queues'[p] = queues[p]
    BY <1>1, KeysApart, QueueKeys
<1>5. \A i \in 1..10 : Places'[i] = Places[i]
    BY <1>1, <1>4, PlacesStay, PlacesEqual DEF tripVars, paymentVars
<1> QED
    BY <1>1, <1>3, <1>4, <1>5, PlacesStay
    DEF tripVars, paymentVars, driverVars, StandsStill

-----------------------------------------------------------------------------
\* The steps that take a trip from one place to another.

\* The places by their numbers, before and after a step.
LEMMA PlaceNames ==
    /\ Places[1] = Created /\ Places[2] = Searched /\ Places[3] = Chosen
    /\ Places[4] = Requested /\ Places[5] = Shown /\ Places[6] = Replied
    /\ Places[7] = Refused /\ Places[8] = Granted /\ Places[9] = Due
    /\ Places[10] = Charged
    /\ Places'[1] = Created' /\ Places'[2] = Searched' /\ Places'[3] = Chosen'
    /\ Places'[4] = Requested' /\ Places'[5] = Shown' /\ Places'[6] = Replied'
    /\ Places'[7] = Refused' /\ Places'[8] = Granted' /\ Places'[9] = Due'
    /\ Places'[10] = Charged'
    BY DEF Places

\* A trip that leaves the one place it is in.
LEMMA MovesFrom ==
    ASSUME Apart, NEW a \in 1..10, NEW b \in 0..10, a # b, NEW t \in Places[a],
           t \notin Places'[a],
           \A i \in 1..10 \ {b} : Places'[i] \subseteq Places[i],
           b # 0 => Places'[b] \subseteq Places[b] \cup {t}
    PROVE  Moves(a, b, t)
<1>1. \A i \in 1..10 : t \in Places[i] => i = a
    BY DEF Apart
<1> QED
    BY <1>1 DEF Moves

\* What is left to show of a step that moves a trip.
LEMMA Moved ==
    ASSUME IInv, InOnePlace, NEW a, NEW b, NEW t, Moves(a, b, t), KeepsPending(b, t),
           a \in 1..7 /\ b \notin 1..7 => t \notin Places'[a], Alone', Recallable'
    PROVE  InOnePlace'
    BY MovesKeepApart, MovesKeepPending DEF InOnePlace

LEMMA PendingStays ==
    ASSUME IInv, InOnePlace, UNCHANGED trips, NEW a \in 1..7, NEW t \in Places[a], NEW b
    PROVE  KeepsPending(b, t)
    BY DEF KeepsPending, InOnePlace, StillPending

\* The parts of Alone and Recallable whose variables a step leaves alone.
LEMMA AloneParts ==
    ASSUME Alone
    PROVE  /\ queues'["find_available_drivers"] = queues["find_available_drivers"] =>
                Once("find_available_drivers")'
           /\ queues'["driver_cmd_trip_request"] = queues["driver_cmd_trip_request"] =>
                Once("driver_cmd_trip_request")'
           /\ queues'["driver_cmd_trip_response"] = queues["driver_cmd_trip_response"] =>
                Once("driver_cmd_trip_response")'
           /\ queues'["payment_trip_response"] = queues["payment_trip_response"] =>
                Once("payment_trip_response")'
           /\ UNCHANGED offer => OnePage'
           /\ UNCHANGED sessions => OneSession'
    BY Untouched DEF Alone, OnePage, OneSession

LEMMA RecallableParts ==
    ASSUME Recallable, UNCHANGED <<cancelled, pendingTrips>>
    PROVE  /\ queues'["trip_cancelled_driver"] = queues["trip_cancelled_driver"] =>
                CancelledKnown'
           /\ queues'["driver_cmd_trip_request"] = queues["driver_cmd_trip_request"] =>
                AskedRecalled'
           /\ UNCHANGED offer => ShownRecalled'
           /\ Chosen' = {} \/ (Chosen' = Chosen /\ UNCHANGED finding) => ChosenRecalled'
    BY DEF Recallable, CancelledKnown, AskedRecalled, ShownRecalled, ChosenRecalled, TripsIn

LEMMA StartTripMoves ==
    ASSUME IInv, InOnePlace, NEW t \in TripIds, NEW u \in Riders, NEW f \in Fares,
           StartTrip(t, u, f)
    PROVE  InOnePlace'
<1> USE DEF StartTrip, CreateTrip, brokerVars, driverVars, paymentVars, gatewayVars
<1>1. t \notin DOMAIN trips
    BY DEF IInv, TripsInv
<1>2. \A i \in 1..10 : t \notin Places[i]
    BY <1>1, PlacesKnowTrips
<1>3. Created' \subseteq Created \cup {t}
    BY DEF Created, IInv, TripsInv
<1>4. /\ Searched' = Searched /\ Chosen' = Chosen /\ Requested' = Requested
      /\ Shown' = Shown /\ Replied' = Replied /\ Refused' = Refused
      /\ Granted' = Granted /\ Due' = Due /\ Charged' = Charged
    BY PlacesStay
<1>5. Moves(0, 1, t)
    <2>1. \A i \in 2..10 : Places'[i] = Places[i]
        BY <1>4 DEF Places
    <2>2. Places'[1] \subseteq Places[1] \cup {t}
        BY <1>3, PlaceNames
    <2> QED
        BY <1>2, <2>1, <2>2 DEF Moves
<1>6. KeepsPending(1, t)
    BY <1>1 DEF KeepsPending
<1>7. Alone'
    BY AloneParts DEF InOnePlace, Alone
<1>8. Recallable'
    BY <1>4, RecallableParts DEF InOnePlace, Recallable
<1> QED
    BY <1>5, <1>6, <1>7, <1>8, Moved

LEMMA CreateWorkMoves ==
    ASSUME IInv, InOnePlace, NEW t \in TripIds, CreateWork(t)
    PROVE  InOnePlace'
<1> USE DEF CreateWork, PublishTripCreated, driverVars, paymentVars, gatewayVars
<1> DEFINE m == Message("trip.event.created", trips[t].user, TripData(t))
           q == "find_available_drivers"
<1>1. Publish(m) /\ m.key = "trip.event.created" /\ m.body.trip = t
    BY DEF Message, TripData
<1>2. t \in Created /\ Created' \subseteq Created \ {t}
    BY DEF Created, IInv, TripsInv
<1>3. t \notin Searched
    BY <1>2, PlaceNames DEF InOnePlace, Apart
<1>4. Searched' = Searched \cup {t} /\ Once(q)'
    BY <1>1, <1>3, Published, QueueKeys DEF Searched, InOnePlace, Alone
<1>5. \A p \in {"driver_cmd_trip_request", "driver_cmd_trip_response",
                "payment_trip_response", "trip_cancelled_driver"} : queues'[p] = queues[p]
    BY <1>1, KeysApart, QueueKeys
<1>6. /\ Chosen' = Chosen /\ Requested' = Requested
      /\ Shown' = Shown /\ Replied' = Replied /\ Refused' = Refused
      /\ Granted' = Granted /\ Due' = Due /\ Charged' = Charged
    BY <1>5, PlacesStay
<1>7. Moves(1, 2, t)
    <2>1. \A i \in 3..10 : Places'[i] = Places[i]
        BY <1>6 DEF Places
    <2> QED
        BY <1>2, <1>4, <2>1, PlaceNames, MovesFrom DEF InOnePlace
<1>8. KeepsPending(2, t)
    BY <1>2, PlaceNames, PendingStays
<1>9. Alone'
    BY <1>4, <1>5, AloneParts DEF InOnePlace, Alone
<1>10. Recallable'
    BY <1>5, <1>6, RecallableParts DEF InOnePlace, Recallable
<1> QED
    BY <1>2, <1>7, <1>8, <1>9, <1>10, Moved

\* The first message of a queue that is handed to its handler, or dropped.
LEMMA Taking ==
    ASSUME IInv, NEW q \in Queues, Ready(q), Pop(q)
    PROVE  LET m == Head(queues[q])
           IN  /\ m = queues[q][1] /\ 1 \in 1..Len(queues[q])
               /\ m \in TrueMessages /\ m.key \in Bindings[q]
               /\ m.body.trip \in TripsIn(q) /\ TripsIn(q)' \subseteq TripsIn(q)
               /\ Once(q) => Once(q)' /\ m.body.trip \notin TripsIn(q)'
               /\ \A p \in Queues : p # q => queues'[p] = queues[p]
<1>1. /\ DOMAIN queues = Queues /\ queues[q] \in Seq(TrueMessages) /\ queues[q] # <<>>
      /\ \A i \in 1..Len(queues[q]) :
            queues[q][i] \in TrueMessages /\ queues[q][i].key \in Bindings[q]
    BY QueuesHoldMessages DEF Ready
<1> QED
    BY <1>1, Popped

\* ... and the other handlers keep what they have.
LEMMA Delivered ==
    ASSUME IInv, NEW q \in Queues, Ready(q), Deliver(q)
    PROVE  /\ Handling(q)' = Head(queues[q])
           /\ \A p \in Queues : p # q => unacked'[p] = unacked[p]
    BY CarriedNow DEF Deliver, Handling, Carried

\* A handler that may take a message is not half-way through another.
LEMMA ReadyIsIdle ==
    ASSUME IInv
    PROVE  /\ Ready("find_available_drivers") => finding.pc # "found" /\ Chosen = {}
           /\ Ready("driver_cmd_trip_response") =>
                /\ answer \notin {"updated", "assigned", "declining"}
                /\ Refused = {} /\ Granted = {}
    BY DEF IInv, FindInv, AnswerInv, Holds, Ready, Chosen, Refused, Granted, InHand

LEMMA SearchMoves ==
    ASSUME IInv, InOnePlace, NEW scan, Search(scan),
           UNCHANGED <<tripVars, paymentVars, offer, cancelled>>
    PROVE  InOnePlace'
<1> USE DEF tripVars, paymentVars
<1> DEFINE q == "find_available_drivers"
           m == Head(queues[q])
           t == m.body.trip
<1>1. Ready(q) /\ Pop(q) /\ Deliver(q) /\ q \in Queues
    BY QueueKeys DEF Search, Deliver
<1>2. PICK d \in Drivers \cup {NoDriver} :
        /\ finding' = [pc |-> "found", driver |-> d]
        /\ pendingTrips' = IF d = NoDriver THEN pendingTrips
                           ELSE [pendingTrips EXCEPT ![t] = d]
    BY DEF Search
<1>3. Once(q)
    BY DEF InOnePlace, Alone
<1>4. /\ t \in Searched /\ Searched' \subseteq Searched /\ Once(q)' /\ t \notin Searched'
      /\ \A p \in Queues : p # q => queues'[p] = queues[p]
    BY <1>1, <1>3, Taking DEF Searched
<1>5. Chosen = {} /\ Chosen' = {t}
    BY <1>1, <1>2, ReadyIsIdle, Delivered DEF Chosen, InHand
<1>6. \A p \in {"driver_cmd_trip_request", "driver_cmd_trip_response",
                "payment_trip_response", "trip_cancelled_driver"} : queues'[p] = queues[p]
    BY <1>4, QueueKeys
<1>7. /\ Created' = Created /\ Requested' = Requested
      /\ Shown' = Shown /\ Replied' = Replied /\ Refused' = Refused
      /\ Granted' = Granted /\ Due' = Due /\ Charged' = Charged
    <2>1. unacked'["driver_cmd_trip_response"] = unacked["driver_cmd_trip_response"]
        BY <1>1, Delivered, QueueKeys
    <2> QED
        BY <1>6, <2>1, PlacesStay
<1>8. Moves(2, 3, t)
    <2>1. \A i \in 1..10 \ {2, 3} : Places'[i] = Places[i]
        BY <1>7 DEF Places
    <2>2. Places'[2] \subseteq Places[2] /\ Places'[3] \subseteq Places[3] \cup {t}
          /\ t \in Places[2] /\ t \notin Places'[2]
        BY <1>4, <1>5, PlaceNames
    <2> QED
        BY <2>1, <2>2, MovesFrom DEF InOnePlace
<1>9. KeepsPending(3, t)
    BY <1>4, PlaceNames, PendingStays
<1>10. Alone'
    BY <1>4, <1>6, AloneParts DEF InOnePlace, Alone
<1>11. t \notin Requested /\ t \notin Shown
    BY <1>4, PlaceNames DEF InOnePlace, Apart
<1>12. pendingTrips \in [TripIds -> Drivers \cup {NoDriver}] /\ t \in TripIds
    BY <1>4, QueuesKnowTrips DEF IInv, FindInv, TripsInv
<1>13. pendingTrips'[t] = d \/ d = NoDriver
    BY <1>2, <1>12
<1>14. \A x \in DOMAIN trips : x # t => pendingTrips'[x] = pendingTrips[x]
    BY <1>2, <1>12 DEF IInv, TripsInv
<1>15. AskedRecalled'
    <2> DEFINE asked == queues["driver_cmd_trip_request"]
    <2>1. \A i \in 1..Len(asked) : asked[i].body.trip \in Requested
        BY DEF Requested, TripsIn
    <2>2. \A i \in 1..Len(asked) :
            pendingTrips'[asked[i].body.trip] = pendingTrips[asked[i].body.trip]
        BY <1>11, <1>14, <2>1, QueuesKnowTrips
    <2> QED
        BY <1>6, <2>2 DEF InOnePlace, Recallable, AskedRecalled
<1>16. ShownRecalled'
    <2>1. \A e \in Drivers : offer[e].status = "request" => offer[e].trip \in Shown
        BY DEF Shown
    <2>2. Shown \subseteq DOMAIN trips
        BY PlacesKnowTrips, PlaceNames
    <2> QED
        BY <1>11, <1>14, <2>1, <2>2 DEF InOnePlace, Recallable, ShownRecalled
<1>17. ChosenRecalled'
    BY <1>2, <1>5, <1>13 DEF ChosenRecalled
<1>18. CancelledKnown'
    BY <1>6 DEF InOnePlace, Recallable, CancelledKnown, TripsIn
<1> QED
    BY <1>4, <1>8, <1>9, <1>10, <1>15, <1>16, <1>17, <1>18, PlaceNames, Moved DEF Recallable

LEMMA PublishFoundMoves ==
    ASSUME IInv, InOnePlace, PublishFound, UNCHANGED <<tripVars, paymentVars, gatewayVars>>
    PROVE  InOnePlace'
<1> USE DEF tripVars, paymentVars, gatewayVars
<1> DEFINE h == Handling("find_available_drivers")
           t == h.body.trip
           q == "driver_cmd_trip_request"
<1>1. /\ finding.pc = "found" /\ finding' = [finding EXCEPT !.pc = "done"]
      /\ UNCHANGED <<pendingTrips, unacked>>
    BY DEF PublishFound
<1>2. Chosen = {t} /\ Chosen' = {}
    BY <1>1 DEF Chosen, InHand, IInv, FindInv
<1>3. KeepsPending(0, t) /\ KeepsPending(4, t)
    BY <1>2, PlaceNames, PendingStays
<1>4. CASE finding.driver = NoDriver
    <2>1. Aside
        BY <1>4, NoticesAreAside DEF PublishFound, Message
    <2>2. /\ Created' = Created /\ Searched' = Searched /\ Requested' = Requested
          /\ Shown' = Shown /\ Replied' = Replied /\ Refused' = Refused
          /\ Granted' = Granted /\ Due' = Due /\ Charged' = Charged
        BY <1>1, <2>1, PlacesStay DEF Aside
    <2>3. Moves(3, 0, t)
        <3>1. \A i \in 1..10 \ {3} : Places'[i] = Places[i]
            BY <2>2 DEF Places
        <3> QED
            BY <1>2, <3>1, PlaceNames, MovesFrom DEF InOnePlace
    <2>4. Alone'
        BY <2>1, AloneParts DEF InOnePlace, Alone, Aside
    <2>5. Recallable'
        BY <1>1, <1>2, <2>1, RecallableParts DEF InOnePlace, Recallable, Aside
    <2> QED
        BY <1>2, <1>3, <2>3, <2>4, <2>5, PlaceNames, Moved
<1>5. CASE finding.driver # NoDriver
    <2> DEFINE m == Message("driver.cmd.trip_request", finding.driver, h.body)
    <2>1. Publish(m) /\ m.key = "driver.cmd.trip_request" /\ m.body.trip = t
          /\ m.owner = finding.driver
        BY <1>5 DEF PublishFound, Message
    <2>2. t \notin Requested
        BY <1>2, PlaceNames DEF InOnePlace, Apart
    <2>3. Requested' = Requested \cup {t} /\ Once(q)' /\ queues'[q] = Append(queues[q], m)
        BY <2>1, <2>2, Published, QueueKeys DEF Requested, InOnePlace, Alone
    <2>4. \A p \in {"find_available_drivers", "driver_cmd_trip_response",
                    "payment_trip_response", "trip_cancelled_driver"} : queues'[p] = queues[p]
        BY <2>1, KeysApart, QueueKeys
    <2>5. /\ Created' = Created /\ Searched' = Searched
          /\ Shown' = Shown /\ Replied' = Replied /\ Refused' = Refused
          /\ Granted' = Granted /\ Due' = Due /\ Charged' = Charged
        BY <1>1, <2>4, PlacesStay
    <2>6. Moves(3, 4, t)
        <3>1. \A i \in 1..10 \ {3, 4} : Places'[i] = Places[i]
            BY <2>5 DEF Places
        <3> QED
            BY <1>2, <2>3, <3>1, PlaceNames, MovesFrom DEF InOnePlace
    <2>7. Alone'
        BY <2>3, <2>4, AloneParts DEF InOnePlace, Alone
    <2>8. t \in cancelled \/ pendingTrips[t] = finding.driver
        BY <1>2, <1>5 DEF InOnePlace, Recallable, ChosenRecalled
    <2>9. AskedRecalled'
        <3>1. /\ Len(queues[q]) \in Nat
              /\ 1..Len(queues'[q]) = 1..Len(queues[q]) \cup {Len(queues[q]) + 1}
              /\ \A i \in 1..Len(queues[q]) : queues'[q][i] = queues[q][i]
              /\ queues'[q][Len(queues[q]) + 1] = m
            BY <2>3, QueuesHoldMessages, QueueKeys
        <3> QED
            BY <1>1, <2>1, <2>8, <3>1 DEF InOnePlace, Recallable, AskedRecalled
    <2>10. Recallable'
        BY <1>1, <1>2, <2>4, <2>9, RecallableParts DEF InOnePlace, Recallable
    <2> QED
        BY <1>2, <1>3, <2>6, <2>7, <2>10, PlaceNames, Moved
<1> QED
    BY <1>4, <1>5

-----------------------------------------------------------------------------
\* An answer is taken up.

LEMMA AcceptMoves ==
    ASSUME IInv, InOnePlace, Accept, UNCHANGED <<driverVars, paymentVars, gatewayVars>>
    PROVE  InOnePlace'
<1> USE DEF driverVars, paymentVars, gatewayVars
<1> DEFINE q == "driver_cmd_trip_response"
           m == Head(queues[q])
           t == m.body.trip
<1>1. Ready(q) /\ Pop(q) /\ q \in Queues /\ UNCHANGED calls
    BY QueueKeys DEF Accept, Deliver
<1>2. Once(q)
    BY DEF InOnePlace, Alone
<1>3. /\ t \in Replied /\ Replied' \subseteq Replied /\ Once(q)' /\ t \notin Replied'
      /\ \A p \in Queues : p # q => queues'[p] = queues[p]
    BY <1>1, <1>2, Taking DEF Replied
<1>4. Refused = {} /\ Granted = {} /\ answer # "declining"
    BY <1>1, ReadyIsIdle
<1>5. Refused' = {} /\ Granted' \subseteq {t}
    <2>1. CASE answer' = "updated" /\ Deliver(q)
        BY <1>1, <2>1, Delivered DEF Refused, Granted, InHand
    <2>2. CASE UNCHANGED <<answer, unacked>>
        BY <1>4, <2>2, PlacesStay
    <2> QED
        BY <2>1, <2>2 DEF Accept
<1>6. \A p \in {"find_available_drivers", "driver_cmd_trip_request",
                "payment_trip_response", "trip_cancelled_driver"} : queues'[p] = queues[p]
    BY <1>3, QueueKeys
<1>7. unacked'["find_available_drivers"] = unacked["find_available_drivers"]
    BY <1>1, Delivered, QueueKeys DEF Accept
<1>8. /\ Created' = Created /\ Searched' = Searched /\ Chosen' = Chosen
      /\ Requested' = Requested /\ Shown' = Shown /\ Due' = Due /\ Charged' = Charged
    BY <1>1, <1>6, <1>7, PlacesStay
<1>9. Moves(6, 8, t)
    <2>1. \A i \in 1..10 \ {6, 7, 8} : Places'[i] = Places[i]
        BY <1>8 DEF Places
    <2>2. /\ Places'[6] \subseteq Places[6] /\ Places'[7] \subseteq Places[7]
          /\ Places'[8] \subseteq Places[8] \cup {t}
          /\ t \in Places[6] /\ t \notin Places'[6]
        BY <1>3, <1>5, PlaceNames
    <2> QED
        BY <2>1, <2>2, MovesFrom DEF InOnePlace
<1>10. KeepsPending(8, t)
    BY DEF KeepsPending, Accept
<1>11. Alone'
    BY <1>3, <1>6, AloneParts DEF InOnePlace, Alone
<1>12. Recallable'
    BY <1>6, <1>8, RecallableParts DEF InOnePlace, Recallable
<1> QED
    BY <1>3, <1>9, <1>10, <1>11, <1>12, PlaceNames, Moved

LEMMA DeclineMoves ==
    ASSUME IInv, InOnePlace, Decline, UNCHANGED <<driverVars, paymentVars, gatewayVars>>
    PROVE  InOnePlace'
<1> USE DEF driverVars, paymentVars, gatewayVars
<1> DEFINE q == "driver_cmd_trip_response"
           m == Head(queues[q])
           t == m.body.trip
<1>1. /\ Ready(q) /\ Pop(q) /\ Deliver(q) /\ q \in Queues
      /\ answer' = "declining" /\ UNCHANGED <<calls, trips>>
    BY QueueKeys DEF Decline, Deliver
<1>2. Once(q)
    BY DEF InOnePlace, Alone
<1>3. /\ t \in Replied /\ Replied' \subseteq Replied /\ Once(q)' /\ t \notin Replied'
      /\ \A p \in Queues : p # q => queues'[p] = queues[p]
    BY <1>1, <1>2, Taking DEF Replied
<1>4. Refused = {} /\ Granted = {} /\ Refused' = {t} /\ Granted' = {}
    BY <1>1, ReadyIsIdle, Delivered DEF Refused, Granted, InHand
<1>5. \A p \in {"find_available_drivers", "driver_cmd_trip_request",
                "payment_trip_response", "trip_cancelled_driver"} : queues'[p] = queues[p]
    BY <1>3, QueueKeys
<1>6. unacked'["find_available_drivers"] = unacked["find_available_drivers"]
    BY <1>1, Delivered, QueueKeys
<1>7. /\ Created' = Created /\ Searched' = Searched /\ Chosen' = Chosen
      /\ Requested' = Requested /\ Shown' = Shown /\ Due' = Due /\ Charged' = Charged
    BY <1>1, <1>5, <1>6, PlacesStay
<1>8. Moves(6, 7, t)
    <2>1. \A i \in 1..10 \ {6, 7, 8} : Places'[i] = Places[i]
        BY <1>7 DEF Places
    <2>2. /\ Places'[6] \subseteq Places[6] /\ Places'[8] = Places[8]
          /\ Places'[7] \subseteq Places[7] \cup {t}
          /\ t \in Places[6] /\ t \notin Places'[6]
        BY <1>3, <1>4, PlaceNames
    <2> QED
        BY <2>1, <2>2, MovesFrom DEF InOnePlace
<1>9. KeepsPending(7, t)
    BY <1>1, <1>3, PlaceNames, PendingStays
<1>10. Alone'
    BY <1>3, <1>5, AloneParts DEF InOnePlace, Alone
<1>11. Recallable'
    BY <1>5, <1>7, RecallableParts DEF InOnePlace, Recallable
<1> QED
    BY <1>3, <1>8, <1>9, <1>10, <1>11, PlaceNames, Moved

LEMMA PublishNotInterestedMoves ==
    ASSUME IInv, InOnePlace, PublishNotInterested,
           UNCHANGED <<driverVars, paymentVars, gatewayVars>>
    PROVE  InOnePlace'
<1> USE DEF driverVars, paymentVars, gatewayVars
<1> DEFINE h == Handling("driver_cmd_trip_response")
           t == h.body.trip
           m == Message("trip.event.driver_not_interested", h.body.user, TripData(t))
           q == "find_available_drivers"
<1>1. /\ answer = "declining" /\ answer' = "done" /\ Publish(m)
      /\ m.key = "trip.event.driver_not_interested" /\ m.body.trip = t
      /\ UNCHANGED <<trips, calls, unacked>>
    BY DEF PublishNotInterested, Message, TripData
<1>2. Refused = {t} /\ Refused' = {} /\ Granted = {} /\ Granted' = {}
    BY <1>1 DEF Refused, Granted, InHand
<1>3. t \notin Searched
    BY <1>2, PlaceNames DEF InOnePlace, Apart
<1>4. Searched' = Searched \cup {t} /\ Once(q)'
    BY <1>1, <1>3, Published, QueueKeys DEF Searched, InOnePlace, Alone
<1>5. \A p \in {"driver_cmd_trip_request", "driver_cmd_trip_response",
                "payment_trip_response", "trip_cancelled_driver"} : queues'[p] = queues[p]
    BY <1>1, KeysApart, QueueKeys
<1>6. /\ Created' = Created /\ Chosen' = Chosen /\ Requested' = Requested
      /\ Shown' = Shown /\ Replied' = Replied /\ Due' = Due /\ Charged' = Charged
    BY <1>1, <1>5, PlacesStay
<1>7. Moves(7, 2, t)
    <2>1. \A i \in 1..10 \ {2, 7, 8} : Places'[i] = Places[i]
        BY <1>6 DEF Places
    <2>2. /\ Places'[7] = {} /\ Places'[8] = Places[8]
          /\ Places'[2] = Places[2] \cup {t} /\ Places[7] = {t}
        BY <1>2, <1>4, PlaceNames
    <2> QED
        BY <2>1, <2>2, MovesFrom DEF InOnePlace
<1>8. KeepsPending(2, t)
    BY <1>1, <1>2, PlaceNames, PendingStays
<1>9. Alone'
    BY <1>4, <1>5, AloneParts DEF InOnePlace, Alone
<1>10. Recallable'
    BY <1>5, <1>6, RecallableParts DEF InOnePlace, Recallable
<1> QED
    BY <1>2, <1>7, <1>8, <1>9, <1>10, PlaceNames, Moved

-----------------------------------------------------------------------------
\* A trip is charged.

LEMMA PublishCreateSessionMoves ==
    ASSUME IInv, InOnePlace, PublishCreateSession,
           UNCHANGED <<driverVars, paymentVars, gatewayVars>>
    PROVE  InOnePlace'
<1> USE DEF driverVars, paymentVars, gatewayVars
<1> DEFINE h == Handling("driver_cmd_trip_response")
           t == h.body.trip
           m == Message("payment.cmd.create_session", trips[t].user,
                        [trip |-> t, user |-> trips[t].user, driver |-> h.body.driver,
                         amount |-> FarePrice[trips[t].fare]])
           q == "payment_trip_response"
<1>1. /\ answer = "assigned" /\ answer' = "done" /\ Publish(m)
      /\ m.key = "payment.cmd.create_session" /\ m.body.trip = t
      /\ UNCHANGED <<trips, calls, unacked>>
    BY DEF PublishCreateSession, Message
<1>2. Granted = {t} /\ Granted' = {} /\ Refused = {} /\ Refused' = {}
    BY <1>1 DEF Refused, Granted, InHand
<1>3. t \notin Due
    BY <1>2, PlaceNames DEF InOnePlace, Apart
<1>4. Due' = Due \cup {t} /\ Once(q)'
    BY <1>1, <1>3, Published, QueueKeys DEF Due, InOnePlace, Alone
<1>5. \A p \in {"driver_cmd_trip_request", "driver_cmd_trip_response",
                "find_available_drivers", "trip_cancelled_driver"} : queues'[p] = queues[p]
    BY <1>1, KeysApart, QueueKeys
<1>6. /\ Created' = Created /\ Searched' = Searched /\ Chosen' = Chosen
      /\ Requested' = Requested /\ Shown' = Shown /\ Replied' = Replied /\ Charged' = Charged
    BY <1>1, <1>5, PlacesStay
<1>7. Moves(8, 9, t)
    <2>1. \A i \in 1..10 \ {7, 8, 9} : Places'[i] = Places[i]
        BY <1>6 DEF Places
    <2>2. /\ Places'[8] = {} /\ Places'[7] = Places[7]
          /\ Places'[9] = Places[9] \cup {t} /\ Places[8] = {t}
        BY <1>2, <1>4, PlaceNames
    <2> QED
        BY <2>1, <2>2, MovesFrom DEF InOnePlace
<1>8. KeepsPending(9, t)
    BY <1>1 DEF KeepsPending
<1>9. Alone'
    BY <1>4, <1>5, AloneParts DEF InOnePlace, Alone
<1>10. Recallable'
    BY <1>5, <1>6, RecallableParts DEF InOnePlace, Recallable
<1> QED
    BY <1>7, <1>8, <1>9, <1>10, Moved

LEMMA CreateSessionMoves ==
    ASSUME IInv, InOnePlace, CreateSession, UNCHANGED <<tripVars, driverVars, gatewayVars>>
    PROVE  InOnePlace'
<1> USE DEF tripVars, driverVars, gatewayVars
<1> DEFINE q == "payment_trip_response"
           m == Head(queues[q])
           t == m.body.trip
           n == Len(sessions)
<1>1. Ready(q) /\ Pop(q) /\ Deliver(q) /\ q \in Queues
    BY QueueKeys DEF CreateSession, Deliver
<1>2. Once(q) /\ OneSession
    BY DEF InOnePlace, Alone
<1>3. /\ t \in Due /\ Due' \subseteq Due /\ Once(q)' /\ t \notin Due'
      /\ \A p \in Queues : p # q => queues'[p] = queues[p]
    BY <1>1, <1>2, Taking DEF Due
<1>4. t \notin Charged
    BY <1>3, PlaceNames DEF InOnePlace, Apart
<1>5. /\ n \in Nat /\ 1..Len(sessions') = 1..n \cup {n + 1}
      /\ \A i \in 1..n : sessions'[i] = sessions[i]
      /\ sessions'[n + 1].trip = t
    BY DEF CreateSession, IInv, SessionsInv
<1>6. Charged' = Charged \cup {t}
    BY <1>5 DEF Charged
<1>7. OneSession'
    <2>1. \A i \in 1..n : sessions[i].trip # t
        BY <1>4 DEF Charged
    <2> QED
        BY <1>2, <1>5, <2>1 DEF OneSession
<1>8. \A p \in {"find_available_drivers", "driver_cmd_trip_request",
                "driver_cmd_trip_response", "trip_cancelled_driver"} : queues'[p] = queues[p]
    BY <1>3, QueueKeys
<1>9. /\ unacked'["find_available_drivers"] = unacked["find_available_drivers"]
      /\ unacked'["driver_cmd_trip_response"] = unacked["driver_cmd_trip_response"]
    BY <1>1, Delivered, QueueKeys
<1>10. /\ Created' = Created /\ Searched' = Searched /\ Chosen' = Chosen
       /\ Requested' = Requested /\ Shown' = Shown /\ Replied' = Replied
       /\ Refused' = Refused /\ Granted' = Granted
    BY <1>8, <1>9, PlacesStay
<1>11. Moves(9, 10, t)
    <2>1. \A i \in 1..8 : Places'[i] = Places[i]
        BY <1>10 DEF Places
    <2> QED
        BY <1>3, <1>6, <2>1, PlaceNames, MovesFrom DEF InOnePlace
<1>12. KeepsPending(10, t)
    BY DEF KeepsPending
<1>13. Alone'
    BY <1>3, <1>7, <1>8, AloneParts DEF InOnePlace, Alone
<1>14. Recallable'
    BY <1>8, <1>10, RecallableParts DEF InOnePlace, Recallable
<1> QED
    BY <1>11, <1>12, <1>13, <1>14, Moved

-----------------------------------------------------------------------------
\* A request reaches a page, is withdrawn from it, or is answered.

LEMMA ShowRequestMoves ==
    ASSUME IInv, InOnePlace, PushRequest
    PROVE  InOnePlace'
<1> USE DEF PushRequest, ShowRequest, tripVars, driverVars, paymentVars, riderPages
<1> DEFINE q == "driver_cmd_trip_request"
           m == Head(queues[q])
           t == m.body.trip
<1>1. /\ DOMAIN queues = Queues /\ queues[q] \in Seq(TrueMessages) /\ q \in Queues
      /\ \A i \in 1..Len(queues[q]) :
            queues[q][i] \in TrueMessages /\ queues[q][i].key \in Bindings[q]
    BY QueuesHoldMessages, QueueKeys
<1>2. Once(q) /\ Pop(q) /\ queues[q] # <<>>
    BY DEF InOnePlace, Alone
<1>3. /\ m = queues[q][1] /\ 1 \in 1..Len(queues[q])
      /\ \A i \in 1..Len(queues'[q]) :
            i + 1 \in 1..Len(queues[q]) /\ queues'[q][i] = queues[q][i + 1]
      /\ t \in Requested /\ Requested' \subseteq Requested /\ Once(q)' /\ t \notin Requested'
      /\ \A p \in Queues : p # q => queues'[p] = queues[p]
    BY <1>1, <1>2, Popped DEF Requested
<1>4. t \notin Shown
    BY <1>3, PlaceNames DEF InOnePlace, Apart
<1>5. m.owner \in Drivers /\ DOMAIN offer = Drivers
    BY <1>1, <1>3, MessagesKnowTrips, QueueKeys DEF IInv, DriverPagesInv
<1>6. \A d \in Drivers :
        offer'[d] = offer[d] \/ (d = m.owner /\ offer'[d].trip = t)
    BY <1>5
<1>7. Shown' \subseteq Shown \cup {t}
    BY <1>6 DEF Shown
<1>8. OnePage'
    <2>1. \A d \in Drivers : offer[d].status = "request" => offer[d].trip # t
        BY <1>4 DEF Shown
    <2> QED
        BY <1>6, <2>1 DEF OnePage, InOnePlace, Alone
<1>9. \A p \in {"find_available_drivers", "payment_trip_response",
                "driver_cmd_trip_response", "trip_cancelled_driver"} : queues'[p] = queues[p]
    BY <1>3, QueueKeys
<1>10. /\ Created' = Created /\ Searched' = Searched /\ Chosen' = Chosen
       /\ Replied' = Replied /\ Refused' = Refused /\ Granted' = Granted
       /\ Due' = Due /\ Charged' = Charged
    BY <1>9, PlacesStay
<1>11. Moves(4, 5, t)
    <2>1. \A i \in 1..10 \ {4, 5} : Places'[i] = Places[i]
        BY <1>10 DEF Places
    <2> QED
        BY <1>3, <1>7, <2>1, PlaceNames, MovesFrom DEF InOnePlace
<1>12. KeepsPending(5, t)
    BY <1>3, PlaceNames, PendingStays
<1>13. Alone'
    BY <1>3, <1>8, <1>9, AloneParts DEF InOnePlace, Alone
<1>14. t \in cancelled \/ pendingTrips[t] = m.owner
    BY <1>3 DEF InOnePlace, Recallable, AskedRecalled
<1>15. ShownRecalled'
    BY <1>6, <1>14 DEF InOnePlace, Recallable, ShownRecalled
<1>16. AskedRecalled'
    BY <1>3 DEF InOnePlace, Recallable, AskedRecalled
<1>17. Recallable'
    BY <1>9, <1>10, <1>15, <1>16, RecallableParts DEF InOnePlace, Recallable
<1> QED
    BY <1>3, <1>11, <1>12, <1>13, <1>17, PlaceNames, Moved

LEMMA ShowWithdrawnMoves ==
    ASSUME IInv, InOnePlace, PushWithdrawn
    PROVE  InOnePlace'
<1> USE DEF PushWithdrawn, ShowWithdrawn, tripVars, driverVars, paymentVars, riderPages
<1> DEFINE q == "driver_cmd_trip_cancelled"
<1>1. Aside
    BY QueueKeys, CarriedNow DEF Pop, Aside, Carried
<1>2. \A d \in Drivers : offer'[d] = offer[d] \/ offer'[d].status = "cancelled"
    BY DEF IInv, DriverPagesInv
<1>3. Shown' \subseteq Shown /\ OnePage' /\ ShownRecalled'
    BY <1>2 DEF Shown, OnePage, ShownRecalled, InOnePlace, Alone, Recallable
<1>4. /\ Created' = Created /\ Searched' = Searched /\ Chosen' = Chosen
      /\ Requested' = Requested /\ Replied' = Replied /\ Refused' = Refused
      /\ Granted' = Granted /\ Due' = Due /\ Charged' = Charged
    BY <1>1, PlacesStay DEF Aside
<1>5. Moves(0, 0, NoTrip)
    <2>1. \A i \in 1..10 \ {5} : Places'[i] = Places[i]
        BY <1>4 DEF Places
    <2>2. \A i \in 1..10 : NoTrip \notin Places[i]
        BY PlacesKnowTrips, NamesAssumption DEF IInv, TripsInv
    <2> QED
        BY <1>3, <2>1, <2>2, PlaceNames DEF Moves
<1>6. KeepsPending(0, NoTrip)
    BY DEF KeepsPending
<1>7. Alone'
    BY <1>1, <1>3, AloneParts DEF InOnePlace, Alone, Aside
<1>8. Recallable'
    BY <1>1, <1>3, <1>4, RecallableParts DEF InOnePlace, Recallable, Aside
<1> QED
    BY <1>5, <1>6, <1>7, <1>8, Moved

LEMMA SendAnswerMoves ==
    ASSUME IInv, InOnePlace, NEW d \in Drivers, SendAccept(d) \/ SendDecline(d),
           UNCHANGED <<tripVars, driverVars, paymentVars>>
    PROVE  InOnePlace'
<1> USE DEF tripVars, driverVars, paymentVars, riderPages
<1> DEFINE q == "driver_cmd_trip_response"
           t == offer[d].trip
<1>1. PICK k \in {"driver.cmd.trip_accept", "driver.cmd.trip_decline"} :
        Publish(Answer(d, k))
    BY DEF SendAccept, SendDecline
<1>2. offer[d].status = "request" /\ UNCHANGED <<cancelled, unacked>>
    BY DEF SendAccept, SendDecline, MayAnswer
<1>3. Answer(d, k).key = k /\ Answer(d, k).body.trip = t
    BY DEF Answer, Message
<1>4. /\ offer'[d].status # "request"
      /\ \A e \in Drivers \ {d} : offer'[e] = offer[e]
    <2>1. DOMAIN offer = Drivers /\ offer[d] \in [trip : TripIds, user : Riders, status : {"request"}]
        BY <1>2 DEF IInv, DriverPagesInv
    <2> QED
        BY <2>1 DEF SendAccept, SendDecline, NoOffer
<1>5. t \in Shown /\ t \notin Shown' /\ Shown' \subseteq Shown
    BY <1>2, <1>4 DEF Shown, InOnePlace, Alone, OnePage
<1>6. OnePage' /\ ShownRecalled'
    BY <1>2, <1>4 DEF OnePage, ShownRecalled, InOnePlace, Alone, Recallable
<1>7. t \notin Replied
    BY <1>5, PlaceNames DEF InOnePlace, Apart
<1>8. Replied' = Replied \cup {t} /\ Once(q)'
    BY <1>1, <1>3, <1>7, Published, QueueKeys DEF Replied, InOnePlace, Alone
<1>9. \A p \in {"find_available_drivers", "driver_cmd_trip_request",
                "payment_trip_response", "trip_cancelled_driver"} : queues'[p] = queues[p]
    BY <1>1, <1>3, KeysApart, QueueKeys
<1>10. /\ Created' = Created /\ Searched' = Searched /\ Chosen' = Chosen
       /\ Requested' = Requested /\ Refused' = Refused /\ Granted' = Granted
       /\ Due' = Due /\ Charged' = Charged
    BY <1>2, <1>9, PlacesStay
<1>11. Moves(5, 6, t)
    <2>1. \A i \in 1..10 \ {5, 6} : Places'[i] = Places[i]
        BY <1>10 DEF Places
    <2> QED
        BY <1>5, <1>8, <2>1, PlaceNames, MovesFrom DEF InOnePlace
<1>12. KeepsPending(6, t)
    BY <1>5, PlaceNames, PendingStays
<1>13. Alone'
    BY <1>6, <1>8, <1>9, AloneParts DEF InOnePlace, Alone
<1>14. Recallable'
    BY <1>2, <1>6, <1>9, <1>10, RecallableParts DEF InOnePlace, Recallable
<1> QED
    BY <1>5, <1>11, <1>12, <1>13, <1>14, PlaceNames, Moved

-----------------------------------------------------------------------------
\* All steps together.

\* A failure is counted.
LEMMA FailureCounts ==
    ASSUME IInv,
           \/ Failures
           \/ \E d \in Drivers : AnswerLost(d)
           \/ \E u \in Riders : CancelFails(u)
    PROVE  faults' # 0
<1>1. Fault => faults' # 0
    BY CarriedNow, MaxFaultsAssumption DEF Fault
<1>2. Failures => Fault
    BY DEF Failures, TripServiceFailure, PublishTripCreatedFails, AnswerFails,
        RejectTripMessage, TripServiceCrash, DriverServiceFailure, FindFails, WithdrawFails,
        RejectDriverMessage, DriverServiceCrash, PaymentServiceFailure, ChargeFails,
        RejectPaymentMessage, PaymentServiceCrash, RegisterLost, UnregisterLost, Reject
<1> QED
    BY <1>1, <1>2 DEF AnswerLost, CancelFails

\* The steps without failure that leave every trip where it is: those of the
\* services, of people and of the gateway.
StillStep ==
    \/ /\ AckFound \/ Withdraw \/ PublishWithdrawn \/ AckWithdrawn
       /\ UNCHANGED <<tripVars, paymentVars, gatewayVars>>
    \/ /\ PublishAssigned \/ AckAnswer \/ AckPayed
       /\ UNCHANGED <<driverVars, paymentVars, gatewayVars>>
    \/ /\ PublishSessionCreated \/ AckCharged
       /\ UNCHANGED <<tripVars, driverVars, gatewayVars>>
    \/ \E d \in Drivers : ConnectDriver(d) \/ Disconnect(d) \/ Register(d)
    \/ \E d \in Drivers :
        Unregister(d) /\ UNCHANGED <<pendingTrips, finding, withdrawing, brokerVars>>
    \/ /\ \E u \in Riders : CancelTrip(u) \/ CancelUnknown(u)
       /\ UNCHANGED <<tripVars, driverVars, paymentVars>>
    \/ \E u \in Riders : PayTrip(u)
    \/ \E i \in 1..Len(sessions) : Webhook(i)
    \/ \E q \in RiderQueues : PushRider(q)
    \/ \E t \in TripIds : AnswerStart(t)
    \/ UNCHANGED vars

\* ... and those that take one to its next place.
MovingStep ==
    \/ \E t \in TripIds, u \in Riders, f \in Fares : StartTrip(t, u, f)
    \/ \E t \in TripIds : CreateWork(t)
    \/ (FindDriver \/ PublishFound) /\ UNCHANGED <<tripVars, paymentVars, gatewayVars>>
    \/ \E d \in Drivers : Unregister(d) /\ FindWhileUnregistering(d)
    \/ PushRequest \/ PushWithdrawn
    \/ /\ \E d \in Drivers : SendAccept(d) \/ SendDecline(d)
       /\ UNCHANGED <<tripVars, driverVars, paymentVars>>
    \/ /\ Accept \/ Decline \/ PublishNotInterested \/ PublishCreateSession
       /\ UNCHANGED <<driverVars, paymentVars, gatewayVars>>
    \/ CreateSession /\ UNCHANGED <<tripVars, driverVars, gatewayVars>>

PayStep == MarkPayed /\ UNCHANGED <<driverVars, paymentVars, gatewayVars>>

LEMMA StepsWithoutFailure ==
    ASSUME IInv, [Next]_vars, faults' = 0
    PROVE  StillStep \/ MovingStep \/ PayStep
<1>1. CASE People
    BY <1>1, FailureCounts DEF People, StillStep, MovingStep
<1>2. CASE Failures
    BY <1>2, FailureCounts
<1>3. CASE AnswerWork \/ SettleWork \/ FindWork
    BY <1>3 DEF AnswerWork, AnswerHandler, SettleWork, SettleHandler, FindWork, FindHandler,
        StillStep, MovingStep, PayStep
<1>4. CASE WithdrawWork \/ ChargeWork
    BY <1>4 DEF WithdrawWork, WithdrawHandler, ChargeWork, ChargeHandler, StillStep, MovingStep
<1>5. CASE \E d \in Drivers : Register(d) \/ Unregister(d)
    BY <1>5 DEF Unregister, StillStep, MovingStep
<1>6. CASE PushRequest \/ PushWithdrawn \/ \E q \in RiderQueues : PushRider(q)
    BY <1>6 DEF StillStep, MovingStep
<1>7. CASE \E t \in TripIds : CreateWork(t) \/ AnswerStart(t)
    BY <1>7 DEF StillStep, MovingStep
<1>8. CASE \E i \in 1..Len(sessions) : Webhook(i)
    BY <1>8 DEF StillStep
<1> QED
    BY <1>1, <1>2, <1>3, <1>4, <1>5, <1>6, <1>7, <1>8 DEF Next, StillStep

LEMMA FaultsStay ==
    ASSUME StillStep \/ MovingStep \/ PayStep
    PROVE  faults' = faults
<1> USE DEF brokerVars
<1>1. CASE StillStep
    BY <1>1 DEF StillStep, AckFound, Withdraw, PublishWithdrawn, AckWithdrawn,
        PublishAssigned, AckAnswer, AckPayed, PublishSessionCreated, AckCharged,
        ConnectDriver, Disconnect, Register, CancelTrip, CancelUnknown, PayTrip, Webhook,
        StripeWebhook, PushRider, ShowRider, AnswerStart, ReturnTrip, vars
<1>2. CASE MovingStep
    BY <1>2 DEF MovingStep, StartTrip, CreateTrip, CreateWork, PublishTripCreated, FindDriver,
        Search, PublishFound, FindWhileUnregistering, PushRequest, ShowRequest, PushWithdrawn,
        ShowWithdrawn, SendAccept, SendDecline, Accept, Decline, PublishNotInterested,
        PublishCreateSession, CreateSession
<1> QED
    BY <1>1, <1>2 DEF PayStep, MarkPayed

LEMMA StillStepsStandStill ==
    ASSUME IInv, CancelledKnown, StillStep
    PROVE  StandsStill /\ UNCHANGED trips
<1>1. CASE \E d \in Drivers :
            Unregister(d) /\ UNCHANGED <<pendingTrips, finding, withdrawing, brokerVars>>
    BY <1>1, PlacesStay, AsideStandsStill
    DEF Unregister, DriverGone, riderPages, Aside, tripVars, paymentVars, brokerVars
<1>2. CASE UNCHANGED vars
    BY <1>2, PlacesStay, AsideStandsStill
    DEF vars, brokerVars, tripVars, driverVars, paymentVars, gatewayVars, Aside
<1>3. UNCHANGED trips
    BY DEF StillStep, PublishAssigned, AckAnswer, AckPayed, ConnectDriver, Disconnect,
        Register, Unregister, PayTrip, Webhook, PushRider, AnswerStart, ReturnTrip, vars, tripVars
<1> QED
    BY <1>1, <1>2, <1>3, ServicesAside, PeopleAside, PayTripAside, WebhookAside,
       WithdrawStandsStill, CancelTripStandsStill DEF StillStep

LEMMA OffersStart == Init => OffersInv
<1> SUFFICES ASSUME Init PROVE InOnePlace
    BY DEF OffersInv
<1> USE DEF Init, BrokerInit, TripInit, DriverInit, PaymentInit, GatewayInit
<1>1. \A q \in Queues : TripsIn(q) = {} /\ Len(queues[q]) = 0 /\ Once(q)
    BY EmptySeq DEF TripsIn, Once
<1>2. \A i \in 1..10 : Places[i] = {}
    <2>1. Created = {} /\ Shown = {} /\ Chosen = {} /\ Refused = {} /\ Granted = {}
        BY DEF Created, Shown, Chosen, Refused, Granted, InHand, Idle, NoOffer
    <2>2. Searched = {} /\ Requested = {} /\ Replied = {} /\ Due = {}
        BY <1>1, QueueKeys DEF Searched, Requested, Replied, Due
    <2>3. Charged = {}
        BY EmptySeq DEF Charged
    <2> QED
        BY <2>1, <2>2, <2>3 DEF Places
<1>3. Apart /\ StillPending
    BY <1>2 DEF Apart, StillPending
<1>4. Alone
    BY <1>1, QueueKeys, EmptySeq DEF Alone, OnePage, OneSession, NoOffer
<1>5. Recallable
    BY <1>1, <1>2, QueueKeys, PlaceNames
    DEF Recallable, CancelledKnown, AskedRecalled, ShownRecalled, ChosenRecalled, NoOffer
<1> QED
    BY <1>3, <1>4, <1>5 DEF InOnePlace

LEMMA OffersNext == IInv /\ OffersInv /\ [Next]_vars => OffersInv'
<1> SUFFICES ASSUME IInv, OffersInv, [Next]_vars, faults' = 0
             PROVE  InOnePlace'
    BY DEF OffersInv
<1>1. StillStep \/ MovingStep \/ PayStep
    BY StepsWithoutFailure
<1>2. InOnePlace
    BY <1>1, FaultsStay DEF OffersInv
<1>3. CASE StillStep
    BY <1>2, <1>3, StillStepsStandStill, NothingMoves DEF InOnePlace, Recallable
<1>4. CASE MovingStep
    <2>1. CASE FindDriver /\ UNCHANGED <<tripVars, paymentVars, gatewayVars>>
        BY <1>2, <2>1, SearchMoves DEF FindDriver, gatewayVars
    <2>2. ASSUME NEW d \in Drivers, Unregister(d), FindWhileUnregistering(d)
          PROVE  InOnePlace'
        BY <1>2, <2>2, SearchMoves
        DEF FindWhileUnregistering, Unregister, DriverGone, riderPages
    <2> QED
        BY <1>2, <1>4, <2>1, <2>2, StartTripMoves, CreateWorkMoves, PublishFoundMoves,
           ShowRequestMoves, ShowWithdrawnMoves, SendAnswerMoves, AcceptMoves, DeclineMoves,
           PublishNotInterestedMoves, PublishCreateSessionMoves, CreateSessionMoves
        DEF MovingStep
<1>5. CASE PayStep
    BY <1>2, <1>5, MarkPayedAside, NothingMoves DEF PayStep
<1> QED
    BY <1>1, <1>3, <1>4, <1>5

\* As long as nothing fails, what is to be done about a trip is written in one
\* place, once, and the driver it is with is the one pendingTrips names.
THEOREM OnePlacePerTrip == Spec => []OffersInv
    BY Invariance, OffersStart, OffersNext, PTL DEF Spec

\* As long as nothing fails, at most one driver has, or is about to get, the
\* request of a trip.
THEOREM OneDriverAtATime == Spec => []OneOfferAtATime
<1> SUFFICES ASSUME IInv, OffersInv PROVE OneOfferAtATime
    BY Invariance, OnePlacePerTrip, PTL
<1> SUFFICES ASSUME faults = 0, NEW t \in TripIds
             PROVE  Cardinality(QueuedRequests(t)) + Cardinality(ShownRequests(t)) <= 1
    BY DEF OneOfferAtATime
<1>1. InOnePlace
    BY DEF OffersInv
<1>2. \A i, j \in QueuedRequests(t) : i = j
    BY <1>1 DEF QueuedRequests, InOnePlace, Alone, Once
<1>3. \A d, e \in ShownRequests(t) : d = e
    BY <1>1 DEF ShownRequests, InOnePlace, Alone, OnePage
<1>4. QueuedRequests(t) = {} \/ ShownRequests(t) = {}
    <2>1. QueuedRequests(t) # {} => t \in Requested
        BY DEF QueuedRequests, Requested, TripsIn
    <2>2. ShownRequests(t) # {} => t \in Shown
        BY DEF ShownRequests, Shown
    <2> QED
        BY <1>1, <2>1, <2>2, PlaceNames DEF InOnePlace, Apart
<1>5. \A S : (\A x, y \in S : x = y) => S = {} \/ \E x : S = {x}
    OBVIOUS
<1>6. /\ Cardinality(QueuedRequests(t)) \in {0, 1} /\ Cardinality(ShownRequests(t)) \in {0, 1}
      /\ Cardinality(QueuedRequests(t)) = 0 \/ Cardinality(ShownRequests(t)) = 0
    BY <1>2, <1>3, <1>4, <1>5, FS_EmptySet, FS_Singleton
<1> QED
    BY <1>6

\* As long as nothing fails, no trip gets a second checkout session.
THEOREM ChargedOnce == Spec => []OneSessionPerTrip
<1> SUFFICES ASSUME OffersInv PROVE OneSessionPerTrip
    BY OnePlacePerTrip, PTL
<1> QED
    BY DEF OffersInv, InOnePlace, Alone, OneSession, OneSessionPerTrip

\* As long as nothing fails, a cancellation that comes next is passed on to the
\* driver who has, or is about to get, the trip's request.
THEOREM CancellationsFindTheirDriver == Spec => []RequestsAreRecalled
<1> SUFFICES ASSUME OffersInv PROVE RequestsAreRecalled
    BY OnePlacePerTrip, PTL
<1> QED
    BY DEF OffersInv, InOnePlace, Recallable, AskedRecalled, ShownRecalled,
        RequestsAreRecalled, QueuedRequests, ShownRequests

\* As long as nothing fails, no late answer and no second payment changes a trip
\* that was payed: its charge is the last that was to be done about it.
THEOREM PayedForGood == Spec => PayedIsFinal
<1>1. IInv /\ OffersInv /\ [Next]_vars =>
        (faults' = 0 => \A t \in DOMAIN trips :
            trips[t].status = "payed" => trips'[t] = trips[t])
    <2> SUFFICES ASSUME IInv, OffersInv, [Next]_vars, faults' = 0,
                        NEW t \in DOMAIN trips, trips[t].status = "payed"
                 PROVE  trips'[t] = trips[t]
        OBVIOUS
    <2>1. StillStep \/ MovingStep \/ PayStep
        BY StepsWithoutFailure
    <2>2. InOnePlace
        BY <2>1, FaultsStay DEF OffersInv
    <2>3. t \in Charged
        BY DEF IInv, TripsInv, PaidTripsWereCharged, ChargesFor, Charged
    <2>4. trips = [x \in DOMAIN trips |-> trips[x]] /\ trips[t] \in Trip
        BY DEF IInv, TripsInv
    <2>5. CASE Accept
        <3> DEFINE q == "driver_cmd_trip_response"
                   x == Head(queues[q]).body.trip
        <3>1. x \in Replied
            BY <2>5, Taking, QueueKeys DEF Accept, Deliver, Replied
        <3>2. x # t
            BY <2>2, <2>3, <3>1, PlaceNames DEF InOnePlace, Apart
        <3> QED
            BY <2>4, <2>5, <3>2 DEF Accept
    <2>6. CASE PayStep
        BY <2>4, <2>6 DEF PayStep, MarkPayed, Payed, Modifies, Trip
    <2>7. CASE \E x \in TripIds, u \in Riders, f \in Fares : StartTrip(x, u, f)
        BY <2>7 DEF StartTrip, CreateTrip, IInv, TripsInv
    <2>8. CASE StillStep
        BY <2>2, <2>8, StillStepsStandStill DEF InOnePlace, Recallable
    <2>9. CASE MovingStep /\ ~Accept
               /\ ~(\E x \in TripIds, u \in Riders, f \in Fares : StartTrip(x, u, f))
        BY <2>9 DEF MovingStep, CreateWork, PublishTripCreated, Unregister, PushRequest,
            PushWithdrawn, Decline, PublishNotInterested, PublishCreateSession, tripVars
    <2> QED
        BY <2>1, <2>5, <2>6, <2>7, <2>8, <2>9
<1> QED
    BY <1>1, Invariance, OnePlacePerTrip, PTL DEF Spec, PayedIsFinal

=============================================================================
