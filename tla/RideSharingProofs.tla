-------------------------- MODULE RideSharingProofs -------------------------
(***************************************************************************)
(* The safety theorems of RideSharing for every number of trips, riders,    *)
(* drivers, fares, sessions, webhooks and faults: every step only adds to   *)
(* what the database and Stripe know (Grows), so that messages stay true    *)
(* however long they wait, and IInv is inductive.                           *)
(***************************************************************************)
EXTENDS RideSharingInvariant, BrokerProofs

USE FareAssumption, NamesAssumption

-----------------------------------------------------------------------------
\* The queues the handlers read, with the keys that reach them.
LEMMA QueueKeys ==
    /\ {"find_available_drivers", "trip_cancelled_driver", "driver_cmd_trip_request",
        "driver_cmd_trip_cancelled", "driver_cmd_trip_response", "payment_success",
        "payment_trip_response"} \subseteq Queues
    /\ RiderQueues \subseteq Queues
    /\ Bindings["find_available_drivers"] =
        {"trip.event.created", "trip.event.driver_not_interested"}
    /\ Bindings["trip_cancelled_driver"] = {"trip.event.cancelled"}
    /\ Bindings["driver_cmd_trip_request"] = {"driver.cmd.trip_request"}
    /\ Bindings["driver_cmd_trip_cancelled"] = {"driver.cmd.trip_cancelled"}
    /\ Bindings["driver_cmd_trip_response"] =
        {"driver.cmd.trip_accept", "driver.cmd.trip_decline"}
    /\ Bindings["payment_success"] = {"payment.event.success"}
    /\ Bindings["payment_trip_response"] = {"payment.cmd.create_session"}
    BY DEF Queues, Bindings, RiderQueues

\* A true message of a key is one of those its publisher sends.
LEMMA TrueMessagesByKey ==
    ASSUME NEW m \in TrueMessages
    PROVE  /\ m.key \in {"trip.event.created", "trip.event.driver_not_interested"} =>
                m \in Searches
           /\ m.key = "driver.cmd.trip_request" => m \in Requests
           /\ m.key \in {"driver.cmd.trip_accept", "driver.cmd.trip_decline"} =>
                m \in Answers
           /\ m.key = "payment.cmd.create_session" => m \in Charges
           /\ m.key = "payment.event.session_created" => m \in SessionNews
           /\ m.key = "payment.event.success" => m \in Payments
           /\ m.key = "trip.event.cancelled" => m \in Cancellations
<1> DEFINE Keys(S, K) == \A x \in S : x.key \in K
<1>1. Keys(Searches, {"trip.event.created", "trip.event.driver_not_interested"})
    BY DEF Searches, Message
<1>2. Keys(Requests, {"driver.cmd.trip_request"})
    BY DEF Requests, Message
<1>3. Keys(Answers, {"driver.cmd.trip_accept", "driver.cmd.trip_decline"})
    BY DEF Answers, Message
<1>4. Keys(Assignments, {"trip.event.driver_assigned"})
    BY DEF Assignments, Message
<1>5. Keys(Charges, {"payment.cmd.create_session"})
    BY DEF Charges, Message
<1>6. Keys(SessionNews, {"payment.event.session_created"})
    BY DEF SessionNews, Message
<1>7. Keys(Payments, {"payment.event.success"})
    BY DEF Payments, Message
<1>8. Keys(Cancellations, {"trip.event.cancelled"})
    BY DEF Cancellations, Message
<1>9. Keys(Notices, {"trip.event.no_drivers_found", "driver.cmd.trip_cancelled"})
    BY DEF Notices, Message
<1> QED
    BY <1>1, <1>2, <1>3, <1>4, <1>5, <1>6, <1>7, <1>8, <1>9 DEF TrueMessages

-----------------------------------------------------------------------------
\* What no step takes back: a trip keeps its rider and its fare and never gets
\* pending again, a session keeps its metadata and stays paid.
Grows ==
    /\ \A t \in DOMAIN trips :
        /\ t \in DOMAIN trips'
        /\ trips'[t].user = trips[t].user
        /\ trips'[t].fare = trips[t].fare
        /\ trips[t].status # "pending" => trips'[t].status # "pending"
    /\ Len(sessions) <= Len(sessions')
    /\ \A i \in 1..Len(sessions) :
        /\ sessions'[i].trip = sessions[i].trip
        /\ sessions'[i].user = sessions[i].user
        /\ sessions'[i].driver = sessions[i].driver
        /\ sessions'[i].amount = sessions[i].amount
        /\ sessions[i].state = "paid" => sessions'[i].state = "paid"

\* What fitted fits, and what was taken stays taken.
LEMMA FitsGrows ==
    ASSUME Grows
    PROVE  Fits \subseteq Fits' /\ Taken \subseteq Taken'
    BY DEF Grows, Fits, Taken

\* What was true of a trip or a session is true after every step.
LEMMA TrueMessagesGrow ==
    ASSUME Grows, SessionsInv, SessionsInv'
    PROVE  TrueMessages \subseteq TrueMessages'
<1>1. \A t \in DOMAIN trips : t \in DOMAIN trips' /\ trips'[t].user = trips[t].user
        /\ trips'[t].fare = trips[t].fare
    BY DEF Grows
<1>2. (\A x \in Fits : x[2] \in DOMAIN trips) /\ (\A x \in Taken : x[2] \in DOMAIN trips)
    BY DEF Fits, Taken
<1>3. \A i \in 1..Len(sessions) :
        /\ i \in 1..Len(sessions')
        /\ sessions'[i].trip = sessions[i].trip
        /\ sessions'[i].user = sessions[i].user
        /\ sessions[i].state = "paid" => sessions'[i].state = "paid"
    <2>1. Len(sessions) \in Nat /\ Len(sessions') \in Nat
        BY DEF SessionsInv
    <2> QED
        BY <2>1 DEF Grows
<1>4. Searches \subseteq Searches'
    BY <1>1 DEF Searches, TripData
<1>5. Requests \subseteq Requests'
    BY <1>1, <1>2, FitsGrows DEF Requests, TripData
<1>6. Answers \subseteq Answers'
    <2> SUFFICES ASSUME NEW x \in Fits,
                        NEW k \in {"driver.cmd.trip_accept", "driver.cmd.trip_decline"}
                 PROVE  Message(k, x[1], [trip |-> x[2], user |-> trips[x[2]].user,
                                          driver |-> x[1]]) \in Answers'
        BY DEF Answers
    <2>1. x \in Fits' /\ trips'[x[2]].user = trips[x[2]].user
        BY <1>1, <1>2, FitsGrows
    <2> QED
        BY <2>1 DEF Answers
<1>7. Assignments \subseteq Assignments'
    BY <1>1, <1>2, FitsGrows DEF Assignments
<1>8. Charges \subseteq Charges'
    <2> SUFFICES ASSUME NEW x \in Taken
                 PROVE  Message("payment.cmd.create_session", trips[x[2]].user,
                                [trip |-> x[2], user |-> trips[x[2]].user, driver |-> x[1],
                                 amount |-> FarePrice[trips[x[2]].fare]]) \in Charges'
        BY DEF Charges
    <2>1. /\ x \in Taken'
          /\ trips'[x[2]].user = trips[x[2]].user
          /\ FarePrice[trips'[x[2]].fare] = FarePrice[trips[x[2]].fare]
        BY <1>1, <1>2, FitsGrows
    <2> QED
        BY <2>1 DEF Charges
<1>9. SessionNews \subseteq SessionNews'
    BY <1>3 DEF SessionNews
<1>10. Payments \subseteq Payments'
    BY <1>3 DEF Payments
<1>11. Cancellations \subseteq Cancellations' /\ Notices \subseteq Notices'
    BY DEF Cancellations, Notices
<1> QED
    BY <1>4, <1>5, <1>6, <1>7, <1>8, <1>9, <1>10, <1>11 DEF TrueMessages

\* What a step leaves alone of the handlers and of the pages stays as required
\* when the rest of the state grows.
LEMMA StillTrue ==
    ASSUME IInv, Grows, SessionsInv'
    PROVE  Carried(TrueMessages', queues, unacked)
    BY TrueMessagesGrow, CarriedGrows DEF IInv, BrokerInv, MessagesStayTrue

LEMMA AnswerStays ==
    ASSUME IInv, Grows, UNCHANGED answer,
           unacked'["driver_cmd_trip_response"] = unacked["driver_cmd_trip_response"]
    PROVE  AnswerInv'
<1> DEFINE q == "driver_cmd_trip_response"
<1>1. CASE answer \in {"updated", "assigned"}
    <2>1. Holds(q, {"driver.cmd.trip_accept"})
        BY <1>1 DEF IInv, AnswerInv
    <2>2. Handling(q) \in Answers
        BY <2>1, QueueKeys, HandledIsCarried, TrueMessagesByKey
        DEF IInv, BrokerInv, MessagesStayTrue, Holds
    <2>3. Handling(q).body.trip \in DOMAIN trips
        BY <2>2 DEF Answers, Fits, Message
    <2> QED
        BY <1>1, <2>3 DEF IInv, AnswerInv, Holds, Handling, Grows
<1>2. CASE answer \notin {"updated", "assigned"}
    BY <1>2 DEF IInv, AnswerInv, Holds, Handling
<1> QED
    BY <1>1, <1>2

LEMMA FindStays ==
    ASSUME IInv, UNCHANGED finding,
           unacked'["find_available_drivers"] = unacked["find_available_drivers"],
           drivers' \in Seq(Drivers), pendingTrips' \in [TripIds -> Drivers \cup {NoDriver}]
    PROVE  FindInv'
    BY DEF IInv, FindInv, Holds, Handling

LEMMA WithdrawStays ==
    ASSUME IInv, UNCHANGED withdrawing
    PROVE  WithdrawInv'
    BY DEF IInv, WithdrawInv

LEMMA ChargeStays ==
    ASSUME IInv, Grows, UNCHANGED charging, Len(sessions') = Len(sessions), SessionsInv',
           unacked'["payment_trip_response"] = unacked["payment_trip_response"]
    PROVE  ChargeInv'
<1>1. CASE charging = "created"
    <2>1. Len(sessions) \in 1..Len(sessions)
        BY <1>1, EmptySeq DEF IInv, SessionsInv, ChargeInv
    <2>2. sessions' # <<>>
        BY <2>1, EmptySeq DEF SessionsInv
    <2> QED
        BY <1>1, <2>1, <2>2 DEF IInv, ChargeInv, Holds, Handling, Grows
<1>2. CASE charging # "created"
    BY <1>2 DEF IInv, ChargeInv
<1> QED
    BY <1>1, <1>2

LEMMA DriverPagesStay ==
    ASSUME IInv, Grows, UNCHANGED driverPages
    PROVE  DriverPagesInv'
<1>1. \A x \in Fits : x[2] \in DOMAIN trips
    BY DEF Fits
<1>2. \A d \in Drivers : offer[d].status = "request" =>
        <<d, offer[d].trip>> \in Fits' /\ offer[d].user = trips'[offer[d].trip].user
    BY <1>1, FitsGrows DEF IInv, DriverPagesInv, Grows
<1> QED
    BY <1>2 DEF IInv, DriverPagesInv, driverPages

LEMMA RiderPagesStay ==
    ASSUME IInv, Grows, UNCHANGED riderPages, SessionsInv'
    PROVE  RiderPagesInv'
<1>1. DOMAIN trips \subseteq DOMAIN trips'
    BY DEF Grows
<1>2. RidersPayTheirOwn'
    <2>1. Len(sessions) \in Nat /\ Len(sessions') \in Nat
        BY DEF IInv, SessionsInv
    <2> QED
        BY <2>1 DEF IInv, RiderPagesInv, RidersPayTheirOwn, riderPages, Grows
<1> QED
    BY <1>1, <1>2 DEF IInv, RiderPagesInv, riderPages

\* No CreateTrip call is forgotten and none appears.
CallsGoOn ==
    /\ calls' \in [TripIds -> {"none", "inserted", "created", "returned", "failed"}]
    /\ \A t \in TripIds : calls'[t] = "none" <=> calls[t] = "none"

LEMMA TripsStay ==
    ASSUME IInv, Grows, SessionsInv', UNCHANGED trips, CallsGoOn
    PROVE  TripsInv'
<1>1. \A x \in Fits : x \in Fits'
    BY FitsGrows
<1>2. PaidTripsWereCharged'
    <2>1. Len(sessions) \in Nat /\ Len(sessions') \in Nat
        BY DEF IInv, SessionsInv
    <2>2. PaidTripsWereCharged
        BY DEF IInv, TripsInv
    <2> QED
        BY <2>1, <2>2 DEF PaidTripsWereCharged, ChargesFor, Grows
<1> QED
    BY <1>1, <1>2 DEF IInv, TripsInv, CallsGoOn

\* A step that writes neither to the database nor to Stripe.
LEMMA NothingNew ==
    ASSUME IInv, UNCHANGED <<trips, sessions>>
    PROVE  /\ Grows
           /\ SessionsInv'
           /\ Carried(TrueMessages', queues, unacked)
           /\ CallsGoOn => TripsInv'
           /\ UNCHANGED calls => CallsGoOn
<1>1. Len(sessions) \in Nat
    BY DEF IInv, SessionsInv
<1>2. Grows
    BY <1>1 DEF Grows
<1>3. SessionsInv'
    BY DEF IInv, SessionsInv, SessionsMatchTrips, ChargesFor
<1>4. UNCHANGED calls => CallsGoOn
    BY DEF IInv, TripsInv, CallsGoOn
<1> QED
    BY <1>2, <1>3, <1>4, TripsStay, StillTrue

\* The parts of the invariant whose variables a step leaves alone.
LEMMA Frame ==
    ASSUME IInv, Grows, SessionsInv', BrokerInv'
    PROVE  /\ /\ UNCHANGED answer
              /\ unacked'["driver_cmd_trip_response"] = unacked["driver_cmd_trip_response"]
              => AnswerInv'
           /\ /\ UNCHANGED <<drivers, pendingTrips, finding>>
              /\ unacked'["find_available_drivers"] = unacked["find_available_drivers"]
              => FindInv'
           /\ UNCHANGED withdrawing => WithdrawInv'
           /\ /\ UNCHANGED charging
              /\ Len(sessions') = Len(sessions)
              /\ unacked'["payment_trip_response"] = unacked["payment_trip_response"]
              => ChargeInv'
           /\ UNCHANGED driverPages => DriverPagesInv'
           /\ UNCHANGED riderPages => RiderPagesInv'
<1>1. UNCHANGED <<drivers, pendingTrips>> =>
        drivers' \in Seq(Drivers) /\ pendingTrips' \in [TripIds -> Drivers \cup {NoDriver}]
    BY DEF IInv, FindInv
<1> QED
    BY <1>1, AnswerStays, FindStays, WithdrawStays, ChargeStays, DriverPagesStay,
       RiderPagesStay

LEMMA FaultCounted ==
    ASSUME IInv, Fault
    PROVE  faults' \in 0..MaxFaults
    BY MaxFaultsAssumption DEF IInv, BrokerInv, Fault

-----------------------------------------------------------------------------
\* The trip-service.

LEMMA StartTripKeeps ==
    ASSUME IInv, NEW t \in TripIds, NEW u \in Riders, NEW f \in Fares, StartTrip(t, u, f)
    PROVE  IInv'
<1> USE DEF StartTrip, CreateTrip
<1>1. t \notin DOMAIN trips
    BY DEF IInv, TripsInv
<1>2. /\ DOMAIN trips' = DOMAIN trips \cup {t}
      /\ \A x \in DOMAIN trips : trips'[x] = trips[x]
      /\ trips'[t] = [user |-> FareOwner[f], fare |-> f, status |-> "pending",
                      driver |-> NoDriver]
    BY <1>1
<1>3. Grows /\ UNCHANGED sessions
    <2>1. Len(sessions) \in Nat
        BY DEF IInv, SessionsInv
    <2> QED
        BY <1>2, <2>1 DEF Grows, paymentVars
<1>4. SessionsInv'
    BY <1>2, <1>3 DEF IInv, SessionsInv, SessionsMatchTrips, ChargesFor
<1>5. TripsInv'
    <2>1. trips'[t] \in Trip
        BY <1>2 DEF Trip
    <2>2. PaidTripsWereCharged'
        BY <1>2, <1>3 DEF IInv, TripsInv, PaidTripsWereCharged, ChargesFor
    <2>3. \A x \in DOMAIN trips' :
            trips'[x].status # "pending" => <<trips'[x].driver, x>> \in Fits'
        BY <1>2, <1>3, FitsGrows DEF IInv, TripsInv
    <2> QED
        BY <1>2, <2>1, <2>2, <2>3 DEF IInv, TripsInv
<1>6. BrokerInv'
    BY <1>3, <1>4, StillTrue DEF IInv, BrokerInv, MessagesStayTrue, brokerVars
<1> QED
    BY <1>3, <1>4, <1>5, <1>6, Frame
    DEF IInv, brokerVars, driverVars, paymentVars, gatewayVars, driverPages, riderPages

\* What is true in a state that the database and Stripe do not change in is true
\* after it.
LEMMA TrueMessagesStay ==
    ASSUME UNCHANGED <<trips, sessions>>
    PROVE  TrueMessages' = TrueMessages
    BY DEF TrueMessages, Searches, Requests, Answers, Assignments, Charges, SessionNews,
        Payments, Cancellations, Notices, Taken, Fits, TripData

\* What holds of the broker now.
LEMMA CarriedNow ==
    ASSUME IInv
    PROVE  Carried(TrueMessages, queues, unacked) /\ faults \in 0..MaxFaults
    BY DEF IInv, BrokerInv, MessagesStayTrue

\* After a step that writes neither to the database nor to Stripe and publishes
\* true messages, only the parts whose variables it changes need a proof.
LEMMA Quiet ==
    ASSUME IInv, UNCHANGED <<trips, sessions>>, CallsGoOn,
           faults' \in 0..MaxFaults, Carried(TrueMessages, queues', unacked')
    PROVE  /\ TripsInv' /\ SessionsInv' /\ BrokerInv'
           /\ /\ UNCHANGED answer
              /\ unacked'["driver_cmd_trip_response"] = unacked["driver_cmd_trip_response"]
              => AnswerInv'
           /\ /\ UNCHANGED <<drivers, pendingTrips, finding>>
              /\ unacked'["find_available_drivers"] = unacked["find_available_drivers"]
              => FindInv'
           /\ UNCHANGED withdrawing => WithdrawInv'
           /\ /\ UNCHANGED charging
              /\ unacked'["payment_trip_response"] = unacked["payment_trip_response"]
              => ChargeInv'
           /\ UNCHANGED driverPages => DriverPagesInv'
           /\ UNCHANGED riderPages => RiderPagesInv'
<1>1. Grows /\ SessionsInv' /\ TripsInv'
    BY NothingNew
<1>2. BrokerInv'
    BY TrueMessagesStay DEF BrokerInv, MessagesStayTrue
<1> QED
    BY <1>1, <1>2, Frame

LEMMA CreateWorkKeeps ==
    ASSUME IInv, NEW t \in TripIds, CreateWork(t)
    PROVE  IInv'
<1> USE DEF CreateWork, PublishTripCreated
<1> DEFINE m == Message("trip.event.created", trips[t].user, TripData(t))
<1>1. t \in DOMAIN trips /\ CallsGoOn
    BY DEF IInv, TripsInv, CallsGoOn
<1>2. m \in TrueMessages
    BY <1>1 DEF TrueMessages, Searches
<1>3. Carried(TrueMessages, queues', unacked')
    BY <1>2, CarriedNow, CarriedPublish
<1> QED
    BY <1>1, <1>3, CarriedNow, Quiet
    DEF IInv, driverVars, paymentVars, gatewayVars, driverPages, riderPages

LEMMA AnswerStartKeeps ==
    ASSUME IInv, NEW t \in TripIds, AnswerStart(t)
    PROVE  IInv'
<1> USE DEF AnswerStart, ReturnTrip, LearnTrip
<1>1. t \in DOMAIN trips /\ CallsGoOn
    BY DEF IInv, TripsInv, CallsGoOn
<1>2. Carried(TrueMessages, queues', unacked')
    BY CarriedNow DEF brokerVars
<1>3. RiderPagesInv'
    BY <1>1 DEF IInv, RiderPagesInv, RidersPayTheirOwn, paymentVars
<1> QED
    BY <1>1, <1>2, <1>3, CarriedNow, Quiet
    DEF IInv, driverVars, paymentVars, brokerVars, driverPages, riderPages

-----------------------------------------------------------------------------
\* The answer handler of the trip-service.

\* The answer at the head of the queue, or in hand, is of a driver who fits an
\* existing trip.
LEMMA AnswersFit ==
    ASSUME NEW m \in TrueMessages,
           m.key \in {"driver.cmd.trip_accept", "driver.cmd.trip_decline"}
    PROVE  /\ m.body.trip \in DOMAIN trips
           /\ <<m.body.driver, m.body.trip>> \in Fits
           /\ m.body.user = trips[m.body.trip].user
    BY TrueMessagesByKey DEF Answers, Message, Fits

LEMMA AcceptKeeps ==
    ASSUME IInv, Accept, UNCHANGED <<driverVars, paymentVars, gatewayVars>>
    PROVE  IInv'
<1> DEFINE q == "driver_cmd_trip_response"
           m == Head(queues[q])
           t == m.body.trip
<1>1. /\ Ready(q) /\ m.key = "driver.cmd.trip_accept"
      /\ UNCHANGED <<calls, settling, faults, sessions>>
    BY DEF Accept, paymentVars
<1>2. m \in TrueMessages
    BY <1>1, CarriedNow, HeadIsCarried, QueueKeys DEF Ready
<1>3. t \in DOMAIN trips /\ <<m.body.driver, t>> \in Fits
    BY <1>1, <1>2, AnswersFit
<1>4. CASE ~Modifies(t, Accepted(t, m.body.driver))
    <2>1. Pop(q) /\ UNCHANGED <<trips, answer, unacked>>
        BY <1>4 DEF Accept
    <2>2. Carried(TrueMessages, queues', unacked')
        BY <1>1, <2>1, CarriedNow, CarriedPop, QueueKeys DEF Ready
    <2>3. CallsGoOn
        BY <1>1, <2>1, NothingNew
    <2> QED
        BY <1>1, <2>1, <2>2, <2>3, CarriedNow, Quiet
        DEF driverVars, paymentVars, gatewayVars, driverPages, riderPages, IInv
<1>5. CASE Modifies(t, Accepted(t, m.body.driver))
    <2>1. /\ trips' = [trips EXCEPT ![t] = Accepted(t, m.body.driver)]
          /\ answer' = "updated" /\ Deliver(q)
        BY <1>5 DEF Accept
    <2>2. trips[t] \in Trip
        BY <1>3 DEF IInv, TripsInv
    <2>3. /\ trips' = [x \in DOMAIN trips' |-> trips'[x]]
          /\ DOMAIN trips' = DOMAIN trips
          /\ \A x \in DOMAIN trips : x # t => trips'[x] = trips[x]
          /\ trips'[t].user = trips[t].user /\ trips'[t].fare = trips[t].fare
          /\ trips'[t].status = "accepted" /\ trips'[t].driver = m.body.driver
          /\ trips'[t] \in Trip
        BY <1>3, <2>1, <2>2 DEF Accepted, Trip, Fits
    <2>4. Grows
        <3>1. Len(sessions) \in Nat
            BY DEF IInv, SessionsInv
        <3> QED
            BY <1>1, <1>3, <2>3, <3>1 DEF Grows
    <2>5. SessionsInv'
        BY <1>1, <2>4 DEF IInv, SessionsInv, SessionsMatchTrips, ChargesFor, Grows
    <2>6. TripsInv'
        <3>1. \A x \in DOMAIN trips' :
                trips'[x].status # "pending" => <<trips'[x].driver, x>> \in Fits'
            BY <1>3, <2>3, <2>4, FitsGrows DEF IInv, TripsInv
        <3>2. PaidTripsWereCharged'
            BY <1>1, <2>3 DEF IInv, TripsInv, PaidTripsWereCharged, ChargesFor
        <3> QED
            BY <1>1, <2>3, <3>1, <3>2 DEF IInv, TripsInv
    <2>7. /\ Carried(TrueMessages', queues', unacked')
          /\ unacked'[q] = <<m>>
          /\ \A p \in Queues : p # q => unacked'[p] = unacked[p]
        BY <1>1, <2>1, <2>4, <2>5, StillTrue, CarriedDeliver, QueueKeys
    <2>8. BrokerInv'
        BY <1>1, <2>7, CarriedNow DEF BrokerInv, MessagesStayTrue
    <2>9. AnswerInv'
        BY <1>1, <2>1, <2>3, <2>7 DEF AnswerInv, Holds, Handling
    <2> QED
        BY <1>1, <2>4, <2>5, <2>6, <2>7, <2>8, <2>9, Frame, QueueKeys
        DEF IInv, driverVars, paymentVars, gatewayVars, driverPages, riderPages
<1> QED
    BY <1>4, <1>5

\* What the answer in hand says.
LEMMA AnswerInHand ==
    ASSUME IInv, answer \in {"updated", "assigned", "declining"}
    PROVE  LET m == Handling("driver_cmd_trip_response")
               t == m.body.trip
           IN  /\ t \in DOMAIN trips
               /\ <<m.body.driver, t>> \in Fits
               /\ m.body.user = trips[t].user
               /\ answer \in {"updated", "assigned"} => trips[t].status # "pending"
<1> DEFINE q == "driver_cmd_trip_response"
<1>1. unacked[q] # <<>> /\ Handling(q).key \in {"driver.cmd.trip_accept", "driver.cmd.trip_decline"}
    BY DEF IInv, AnswerInv, Holds
<1>2. Handling(q) \in TrueMessages
    BY <1>1, CarriedNow, HandledIsCarried, QueueKeys
<1> QED
    BY <1>1, <1>2, AnswersFit DEF IInv, AnswerInv

\* A step of the answer handler that publishes a true message.
LEMMA AnswerPublishes ==
    ASSUME IInv, NEW m \in TrueMessages, Publish(m),
           answer \in {"updated", "assigned", "declining"},
           answer' \in {"assigned", "done"}, answer' = "assigned" => answer = "updated",
           UNCHANGED <<trips, calls, settling, unacked, faults>>,
           UNCHANGED <<driverVars, paymentVars, gatewayVars>>
    PROVE  IInv'
<1>1. Carried(TrueMessages, queues', unacked')
    BY CarriedNow, CarriedPublish
<1>2. UNCHANGED sessions /\ CallsGoOn
    BY NothingNew DEF paymentVars
<1>3. AnswerInv'
    BY DEF IInv, AnswerInv, Holds, Handling
<1> QED
    BY <1>1, <1>2, <1>3, CarriedNow, Quiet
    DEF IInv, driverVars, paymentVars, gatewayVars, driverPages, riderPages

LEMMA PublishAssignedKeeps ==
    ASSUME IInv, PublishAssigned, UNCHANGED <<driverVars, paymentVars, gatewayVars>>
    PROVE  IInv'
<1> DEFINE t == Handling("driver_cmd_trip_response").body.trip
           m == Message("trip.event.driver_assigned", trips[t].user,
                        [trip |-> t, driver |-> trips[t].driver])
<1>1. answer = "updated" /\ answer' = "assigned" /\ Publish(m)
      /\ UNCHANGED <<trips, calls, settling, unacked, faults>>
    BY DEF PublishAssigned
<1>2. t \in DOMAIN trips /\ trips[t].status # "pending"
    BY <1>1, AnswerInHand
<1>3. <<trips[t].driver, t>> \in Taken
    BY <1>2 DEF IInv, TripsInv, Taken
<1>4. m \in TrueMessages
    BY <1>3 DEF TrueMessages, Assignments
<1> QED
    BY <1>1, <1>4, AnswerPublishes

LEMMA PublishCreateSessionKeeps ==
    ASSUME IInv, PublishCreateSession, UNCHANGED <<driverVars, paymentVars, gatewayVars>>
    PROVE  IInv'
<1> DEFINE h == Handling("driver_cmd_trip_response")
           t == h.body.trip
           m == Message("payment.cmd.create_session", trips[t].user,
                        [trip |-> t, user |-> trips[t].user, driver |-> h.body.driver,
                         amount |-> FarePrice[trips[t].fare]])
<1>1. answer = "assigned" /\ answer' = "done" /\ Publish(m)
      /\ UNCHANGED <<trips, calls, settling, unacked, faults>>
    BY DEF PublishCreateSession
<1>2. <<h.body.driver, t>> \in Taken
    BY <1>1, AnswerInHand DEF Taken
<1>3. m \in TrueMessages
    BY <1>2 DEF TrueMessages, Charges
<1> QED
    BY <1>1, <1>3, AnswerPublishes

LEMMA PublishNotInterestedKeeps ==
    ASSUME IInv, PublishNotInterested, UNCHANGED <<driverVars, paymentVars, gatewayVars>>
    PROVE  IInv'
<1> DEFINE h == Handling("driver_cmd_trip_response")
           m == Message("trip.event.driver_not_interested", h.body.user, TripData(h.body.trip))
<1>1. answer = "declining" /\ answer' = "done" /\ Publish(m)
      /\ UNCHANGED <<trips, calls, settling, unacked, faults>>
    BY DEF PublishNotInterested
<1>2. h.body.trip \in DOMAIN trips /\ h.body.user = trips[h.body.trip].user
    BY <1>1, AnswerInHand
<1>3. m \in TrueMessages
    BY <1>2 DEF TrueMessages, Searches
<1> QED
    BY <1>1, <1>3, AnswerPublishes

LEMMA DeclineKeeps ==
    ASSUME IInv, Decline, UNCHANGED <<driverVars, paymentVars, gatewayVars>>
    PROVE  IInv'
<1> DEFINE q == "driver_cmd_trip_response"
<1>1. /\ Ready(q) /\ Head(queues[q]).key = "driver.cmd.trip_decline" /\ Deliver(q)
      /\ answer' = "declining" /\ UNCHANGED <<trips, calls, settling, faults>>
    BY DEF Decline
<1>2. /\ Carried(TrueMessages, queues', unacked')
      /\ unacked'[q] = <<Head(queues[q])>>
      /\ \A p \in Queues : p # q => unacked'[p] = unacked[p]
    BY <1>1, CarriedNow, CarriedDeliver, QueueKeys
<1>3. UNCHANGED sessions /\ CallsGoOn
    BY <1>1, NothingNew DEF paymentVars
<1>4. AnswerInv'
    BY <1>1, <1>2 DEF AnswerInv, Holds, Handling
<1> QED
    BY <1>1, <1>2, <1>3, <1>4, CarriedNow, Quiet, QueueKeys
    DEF IInv, driverVars, paymentVars, gatewayVars, driverPages, riderPages

\* The handler is through, or failed: its message is gone.
LEMMA AnswerSettles ==
    ASSUME IInv, Settle("driver_cmd_trip_response"), answer' = "idle",
           faults' \in 0..MaxFaults, UNCHANGED <<trips, calls, settling, queues>>,
           UNCHANGED <<driverVars, paymentVars, gatewayVars>>
    PROVE  IInv'
<1>1. /\ Carried(TrueMessages, queues', unacked')
      /\ \A p \in Queues : p # "driver_cmd_trip_response" => unacked'[p] = unacked[p]
    BY CarriedNow, CarriedSettle, QueueKeys
<1>2. UNCHANGED sessions /\ CallsGoOn
    BY NothingNew DEF paymentVars
<1>3. AnswerInv'
    BY DEF AnswerInv
<1> QED
    BY <1>1, <1>2, <1>3, Quiet, QueueKeys
    DEF IInv, driverVars, paymentVars, gatewayVars, driverPages, riderPages

LEMMA AnswerWorkKeeps ==
    ASSUME IInv, AnswerWork
    PROVE  IInv'
<1>1. CASE AckAnswer /\ UNCHANGED <<driverVars, paymentVars, gatewayVars>>
    BY <1>1, AnswerSettles, CarriedNow DEF AckAnswer
<1> QED
    BY <1>1, AcceptKeeps, PublishAssignedKeeps, PublishCreateSessionKeeps, DeclineKeeps,
       PublishNotInterestedKeeps DEF AnswerWork, AnswerHandler

-----------------------------------------------------------------------------
\* The payment handler and the failures of the trip-service.

LEMMA MarkPayedKeeps ==
    ASSUME IInv, MarkPayed, UNCHANGED <<driverVars, paymentVars, gatewayVars>>
    PROVE  IInv'
<1> DEFINE q == "payment_success"
           m == Head(queues[q])
           t == m.body.trip
<1>1. Ready(q) /\ UNCHANGED <<calls, answer, faults, sessions>>
    BY DEF MarkPayed, paymentVars
<1>2. m \in Payments
    BY <1>1, CarriedNow, HeadIsCarried, QueueKeys, TrueMessagesByKey DEF Ready
<1>3. PICK i \in 1..Len(sessions) : sessions[i].state = "paid" /\ sessions[i].trip = t
    BY <1>2 DEF Payments, Message
<1>4. /\ t \in DOMAIN trips /\ trips[t].status # "pending"
      /\ ChargesFor(i, t)
    BY <1>3 DEF IInv, SessionsInv, SessionsMatchTrips
<1>5. CASE ~Modifies(t, Payed(t))
    <2>1. Pop(q) /\ UNCHANGED <<trips, settling, unacked>>
        BY <1>5 DEF MarkPayed
    <2>2. Carried(TrueMessages, queues', unacked')
        BY <1>1, <2>1, CarriedNow, CarriedPop, QueueKeys DEF Ready
    <2>3. CallsGoOn
        BY <1>1, <2>1, NothingNew
    <2> QED
        BY <1>1, <2>1, <2>2, <2>3, CarriedNow, Quiet
        DEF driverVars, paymentVars, gatewayVars, driverPages, riderPages, IInv
<1>6. CASE Modifies(t, Payed(t))
    <2>1. trips' = [trips EXCEPT ![t] = Payed(t)] /\ settling' = "done" /\ Deliver(q)
        BY <1>6 DEF MarkPayed
    <2>2. trips[t] \in Trip
        BY <1>4 DEF IInv, TripsInv
    <2>3. /\ trips' = [x \in DOMAIN trips' |-> trips'[x]]
          /\ DOMAIN trips' = DOMAIN trips
          /\ \A x \in DOMAIN trips : x # t => trips'[x] = trips[x]
          /\ trips'[t].user = trips[t].user /\ trips'[t].fare = trips[t].fare
          /\ trips'[t].status = "payed" /\ trips'[t].driver = trips[t].driver
          /\ trips'[t] \in Trip
        BY <1>4, <2>1, <2>2 DEF Payed, Trip
    <2>4. Grows
        <3>1. Len(sessions) \in Nat
            BY DEF IInv, SessionsInv
        <3> QED
            BY <1>1, <1>4, <2>3, <3>1 DEF Grows
    <2>5. SessionsInv'
        BY <1>1, <2>4 DEF IInv, SessionsInv, SessionsMatchTrips, ChargesFor, Grows
    <2>6. TripsInv'
        <3>1. \A x \in DOMAIN trips' :
                trips'[x].status # "pending" => <<trips'[x].driver, x>> \in Fits'
            BY <1>4, <2>3, <2>4, FitsGrows DEF IInv, TripsInv
        <3>2. PaidTripsWereCharged'
            BY <1>1, <1>3, <1>4, <2>3 DEF IInv, TripsInv, PaidTripsWereCharged, ChargesFor
        <3> QED
            BY <1>1, <2>3, <3>1, <3>2 DEF IInv, TripsInv
    <2>7. /\ Carried(TrueMessages', queues', unacked')
          /\ \A p \in Queues : p # q => unacked'[p] = unacked[p]
        BY <1>1, <2>1, <2>4, <2>5, StillTrue, CarriedDeliver, QueueKeys
    <2>8. BrokerInv'
        BY <1>1, <2>7, CarriedNow DEF BrokerInv, MessagesStayTrue
    <2> QED
        BY <1>1, <2>4, <2>5, <2>6, <2>7, <2>8, Frame, QueueKeys
        DEF IInv, driverVars, paymentVars, gatewayVars, driverPages, riderPages
<1> QED
    BY <1>5, <1>6

LEMMA SettleWorkKeeps ==
    ASSUME IInv, SettleWork
    PROVE  IInv'
<1>1. CASE AckPayed /\ UNCHANGED <<driverVars, paymentVars, gatewayVars>>
    <2>1. /\ Carried(TrueMessages, queues', unacked')
          /\ \A p \in Queues : p # "payment_success" => unacked'[p] = unacked[p]
        BY <1>1, CarriedNow, CarriedSettle, QueueKeys DEF AckPayed
    <2>2. UNCHANGED <<trips, sessions>> /\ CallsGoOn
        BY <1>1, NothingNew DEF AckPayed, paymentVars
    <2> QED
        BY <1>1, <2>1, <2>2, CarriedNow, Quiet, QueueKeys
        DEF AckPayed, IInv, driverVars, paymentVars, gatewayVars, driverPages, riderPages
<1> QED
    BY <1>1, MarkPayedKeeps DEF SettleWork, SettleHandler

\* A message rejected before its handler did anything.
LEMMA RejectKeeps ==
    ASSUME IInv, NEW q \in Queues, Reject(q),
           UNCHANGED <<tripVars, driverVars, paymentVars, gatewayVars>>
    PROVE  IInv'
<1>1. Carried(TrueMessages, queues', unacked') /\ UNCHANGED unacked
    BY CarriedNow, CarriedReject
<1>2. faults' \in 0..MaxFaults
    BY FaultCounted DEF Reject
<1>3. UNCHANGED <<trips, sessions>> /\ CallsGoOn
    BY NothingNew DEF tripVars, paymentVars
<1> QED
    BY <1>1, <1>2, <1>3, Quiet
    DEF IInv, tripVars, driverVars, paymentVars, gatewayVars, driverPages, riderPages

LEMMA TripServiceFailureKeeps ==
    ASSUME IInv, TripServiceFailure, UNCHANGED <<driverVars, paymentVars, gatewayVars>>
    PROVE  IInv'
<1>1. ASSUME NEW t \in TripIds, PublishTripCreatedFails(t)
      PROVE  IInv'
    <2>1. UNCHANGED <<trips, sessions>> /\ CallsGoOn
        BY <1>1 DEF PublishTripCreatedFails, IInv, TripsInv, CallsGoOn, paymentVars
    <2>2. faults' \in 0..MaxFaults /\ Carried(TrueMessages, queues', unacked')
        BY <1>1, FaultCounted, CarriedNow DEF PublishTripCreatedFails
    <2> QED
        BY <1>1, <2>1, <2>2, Quiet
        DEF PublishTripCreatedFails, IInv, driverVars, paymentVars, gatewayVars,
            driverPages, riderPages
<1>2. CASE AnswerFails
    BY <1>2, AnswerSettles, FaultCounted DEF AnswerFails
<1>3. CASE RejectTripMessage
    BY <1>3, RejectKeeps, QueueKeys DEF RejectTripMessage, TripQueues
<1>4. CASE TripServiceCrash
    <2>1. /\ Carried(TrueMessages, queues', unacked')
          /\ \A p \in Queues : p \notin TripQueues => unacked'[p] = unacked[p]
        BY <1>4, CarriedNow, CarriedRequeue DEF TripServiceCrash
    <2>2. UNCHANGED <<trips, sessions>> /\ CallsGoOn
        BY <1>4 DEF TripServiceCrash, IInv, TripsInv, CallsGoOn, paymentVars
    <2>3. faults' \in 0..MaxFaults
        BY <1>4, FaultCounted DEF TripServiceCrash
    <2>4. AnswerInv'
        BY <1>4 DEF TripServiceCrash, AnswerInv
    <2> QED
        BY <1>4, <2>1, <2>2, <2>3, <2>4, Quiet, QueueKeys
        DEF TripServiceCrash, TripQueues, IInv, driverVars, paymentVars, gatewayVars,
            driverPages, riderPages
<1> QED
    BY <1>1, <1>2, <1>3, <1>4 DEF TripServiceFailure

-----------------------------------------------------------------------------
\* The driver-service.

\* What the search at the head of its queue says.
LEMMA SearchesSay ==
    ASSUME NEW m \in TrueMessages, m.key \in Bindings["find_available_drivers"]
    PROVE  /\ m.body.trip \in DOMAIN trips
           /\ m.body = TripData(m.body.trip)
           /\ m.body.user = trips[m.body.trip].user
           /\ m.body.pkg = FarePackage[trips[m.body.trip].fare]
    BY TrueMessagesByKey, QueueKeys DEF Searches, Message, TripData

\* Whatever the scan sees, it picks a driver of the package.
LEMMA SearchKeeps ==
    ASSUME IInv, NEW scan, Search(scan), drivers' \in Seq(Drivers),
           UNCHANGED <<tripVars, paymentVars, riderPages>>, DriverPagesInv'
    PROVE  IInv'
<1> DEFINE q == "find_available_drivers"
           m == Head(queues[q])
<1>1. Ready(q) /\ Deliver(q) /\ UNCHANGED <<withdrawing, faults>>
    BY DEF Search
<1>2. PICK d \in Drivers \cup {NoDriver} :
        /\ FirstSuitable(scan, m.body.pkg, d)
        /\ finding' = [pc |-> "found", driver |-> d]
        /\ pendingTrips' = IF d = NoDriver THEN pendingTrips
                           ELSE [pendingTrips EXCEPT ![m.body.trip] = d]
    BY DEF Search
<1>3. /\ Carried(TrueMessages, queues', unacked')
      /\ unacked'[q] = <<m>>
      /\ \A p \in Queues : p # q => unacked'[p] = unacked[p]
    BY <1>1, CarriedNow, CarriedDeliver, QueueKeys
<1>4. UNCHANGED <<trips, sessions>> /\ CallsGoOn
    BY NothingNew DEF tripVars, paymentVars
<1>5. m.key \in Bindings[q]
    BY <1>1, CarriedNow, HeadIsCarried, QueueKeys DEF Ready
<1>6. FindInv'
    <2>1. pendingTrips' \in [TripIds -> Drivers \cup {NoDriver}]
        BY <1>2 DEF IInv, FindInv
    <2>2. d # NoDriver => DriverPackage[d] = m.body.pkg
        BY <1>2 DEF FirstSuitable
    <2> QED
        BY <1>2, <1>3, <1>5, <2>1, <2>2 DEF FindInv, Holds, Handling
<1> QED
    BY <1>1, <1>3, <1>4, <1>6, CarriedNow, Quiet, QueueKeys
    DEF IInv, tripVars, paymentVars

\* Unregistering takes a driver out of the registry and adds none.
LEMMA UnregisterKeepsTheRegistry ==
    ASSUME drivers \in Seq(Drivers), NEW d, UnregisterDriver(d)
    PROVE  drivers' \in Seq(Drivers)
<1> SUFFICES ASSUME NEW k \in 1..Len(drivers) PROVE RemovedAt(k) \in Seq(Drivers)
    BY DEF UnregisterDriver
<1>1. SubSeq(drivers, 1, k - 1) \in Seq(Drivers)
    BY SubSeqProperties, ElementOfSeq
<1>2. SubSeq(drivers, k + 1, Len(drivers)) \in Seq(Drivers)
    BY SubSeqProperties, ElementOfSeq
<1> QED
    BY <1>1, <1>2, ConcatProperties DEF RemovedAt

LEMMA FindSettles ==
    ASSUME IInv, Settle("find_available_drivers"), finding' = Idle, faults' \in 0..MaxFaults,
           UNCHANGED <<drivers, pendingTrips, withdrawing, queues>>,
           UNCHANGED <<tripVars, paymentVars, gatewayVars>>
    PROVE  IInv'
<1>1. /\ Carried(TrueMessages, queues', unacked')
      /\ \A p \in Queues : p # "find_available_drivers" => unacked'[p] = unacked[p]
    BY CarriedNow, CarriedSettle, QueueKeys
<1>2. UNCHANGED <<trips, sessions>> /\ CallsGoOn
    BY NothingNew DEF tripVars, paymentVars
<1>3. FindInv'
    BY DEF IInv, FindInv, Idle
<1> QED
    BY <1>1, <1>2, <1>3, Quiet, QueueKeys
    DEF IInv, tripVars, paymentVars, gatewayVars, driverPages, riderPages

LEMMA PublishFoundKeeps ==
    ASSUME IInv, PublishFound, UNCHANGED <<tripVars, paymentVars, gatewayVars>>
    PROVE  IInv'
<1> DEFINE q == "find_available_drivers"
           h == Handling(q)
           d == finding.driver
           m == IF d = NoDriver
                THEN Message("trip.event.no_drivers_found", h.body.user, NoData)
                ELSE Message("driver.cmd.trip_request", d, h.body)
<1>1. /\ finding.pc = "found" /\ Publish(m) /\ finding' = [finding EXCEPT !.pc = "done"]
      /\ UNCHANGED <<drivers, pendingTrips, withdrawing, unacked, faults>>
    BY DEF PublishFound
<1>2. unacked[q] # <<>> /\ h.key \in Bindings[q]
    BY <1>1 DEF IInv, FindInv, Holds
<1>3. h \in TrueMessages
    BY <1>2, CarriedNow, HandledIsCarried, QueueKeys
<1>4. m \in TrueMessages
    <2>1. CASE d = NoDriver
        <3>1. h.body.trip \in DOMAIN trips /\ h.body.user = trips[h.body.trip].user
            BY <1>2, <1>3, SearchesSay
        <3>2. h.body.user \in Riders
            BY <3>1 DEF IInv, TripsInv, Trip
        <3> QED
            BY <2>1, <3>2 DEF TrueMessages, Notices
    <2>2. CASE d # NoDriver
        <3>1. d \in Drivers /\ DriverPackage[d] = h.body.pkg
            BY <1>1, <2>2 DEF IInv, FindInv
        <3>2. <<d, h.body.trip>> \in Fits /\ h.body = TripData(h.body.trip)
            BY <1>2, <1>3, <3>1, SearchesSay DEF Fits
        <3> QED
            BY <2>2, <3>2 DEF TrueMessages, Requests
    <2> QED
        BY <2>1, <2>2
<1>5. Carried(TrueMessages, queues', unacked')
    BY <1>1, <1>4, CarriedNow, CarriedPublish
<1>6. UNCHANGED <<trips, sessions>> /\ CallsGoOn
    BY NothingNew DEF tripVars, paymentVars
<1>7. FindInv'
    BY <1>1 DEF IInv, FindInv
<1> QED
    BY <1>1, <1>5, <1>6, <1>7, CarriedNow, Quiet
    DEF IInv, tripVars, paymentVars, gatewayVars, driverPages, riderPages

LEMMA FindWorkKeeps ==
    ASSUME IInv, FindWork
    PROVE  IInv'
<1>1. UNCHANGED <<tripVars, paymentVars, gatewayVars>>
    BY DEF FindWork
<1>2. CASE FindDriver
    <2>1. Search(drivers) /\ drivers' \in Seq(Drivers)
        BY <1>2 DEF FindDriver, IInv, FindInv
    <2>2. UNCHANGED <<tripVars, paymentVars, driverPages, riderPages>>
        BY <1>1 DEF gatewayVars, driverPages, riderPages
    <2>3. UNCHANGED <<trips, sessions>>
        BY <2>2 DEF tripVars, paymentVars
    <2>4. DriverPagesInv'
        BY <2>2, <2>3, NothingNew, DriverPagesStay
    <2> QED
        BY <2>1, <2>2, <2>4, SearchKeeps
<1>3. CASE AckFound
    BY <1>1, <1>3, FindSettles, CarriedNow DEF AckFound
<1> QED
    BY <1>1, <1>2, <1>3, PublishFoundKeeps DEF FindWork, FindHandler

LEMMA WithdrawSettles ==
    ASSUME IInv, Settle("trip_cancelled_driver"), withdrawing' = Idle,
           faults' \in 0..MaxFaults,
           UNCHANGED <<drivers, pendingTrips, finding, queues>>,
           UNCHANGED <<tripVars, paymentVars, gatewayVars>>
    PROVE  IInv'
<1>1. /\ Carried(TrueMessages, queues', unacked')
      /\ \A p \in Queues : p # "trip_cancelled_driver" => unacked'[p] = unacked[p]
    BY CarriedNow, CarriedSettle, QueueKeys
<1>2. UNCHANGED <<trips, sessions>> /\ CallsGoOn
    BY NothingNew DEF tripVars, paymentVars
<1>3. WithdrawInv'
    BY DEF WithdrawInv, Idle
<1> QED
    BY <1>1, <1>2, <1>3, Quiet, QueueKeys
    DEF IInv, tripVars, paymentVars, gatewayVars, driverPages, riderPages

LEMMA WithdrawWorkKeeps ==
    ASSUME IInv, WithdrawWork
    PROVE  IInv'
<1> DEFINE q == "trip_cancelled_driver"
           m == Head(queues[q])
<1>1. UNCHANGED <<tripVars, paymentVars, gatewayVars>>
    BY DEF WithdrawWork
<1>2. UNCHANGED <<trips, sessions>> /\ CallsGoOn
    BY <1>1, NothingNew DEF tripVars, paymentVars
<1>3. CASE Withdraw
    <2>1. Ready(q) /\ UNCHANGED <<drivers, finding, faults>>
        BY <1>3 DEF Withdraw
    <2>2. m \in Cancellations
        BY <2>1, CarriedNow, HeadIsCarried, QueueKeys, TrueMessagesByKey DEF Ready
    <2>3. m.body.trip \in TripIds
        BY <2>2 DEF Cancellations, Message
    <2>4. CASE pendingTrips[m.body.trip] # NoDriver
        <3>1. /\ withdrawing' = [pc |-> "found", driver |-> pendingTrips[m.body.trip]]
              /\ pendingTrips' = [pendingTrips EXCEPT ![m.body.trip] = NoDriver]
              /\ Deliver(q)
            BY <1>3, <2>4 DEF Withdraw
        <3>2. /\ Carried(TrueMessages, queues', unacked')
              /\ \A p \in Queues : p # q => unacked'[p] = unacked[p]
            BY <2>1, <3>1, CarriedNow, CarriedDeliver, QueueKeys
        <3>3. WithdrawInv'
            BY <2>3, <2>4, <3>1 DEF IInv, FindInv, WithdrawInv
        <3>4. FindInv'
            <4>1. unacked'["find_available_drivers"] = unacked["find_available_drivers"]
                BY <3>2, QueueKeys
            <4>2. pendingTrips' \in [TripIds -> Drivers \cup {NoDriver}]
                BY <3>1 DEF IInv, FindInv
            <4> QED
                BY <2>1, <4>1, <4>2, FindStays DEF IInv, FindInv
        <3> QED
            BY <1>1, <1>2, <2>1, <3>2, <3>3, <3>4, CarriedNow, Quiet, QueueKeys
            DEF IInv, tripVars, paymentVars, gatewayVars, driverPages, riderPages
    <2>5. CASE pendingTrips[m.body.trip] = NoDriver
        <3>1. Pop(q) /\ UNCHANGED <<withdrawing, pendingTrips, unacked>>
            BY <1>3, <2>5 DEF Withdraw
        <3>2. Carried(TrueMessages, queues', unacked')
            BY <2>1, <3>1, CarriedNow, CarriedPop, QueueKeys DEF Ready
        <3> QED
            BY <1>1, <1>2, <2>1, <3>1, <3>2, CarriedNow, Quiet
            DEF IInv, tripVars, paymentVars, gatewayVars, driverPages, riderPages
    <2> QED
        BY <2>4, <2>5
<1>4. CASE PublishWithdrawn
    <2>1. Message("driver.cmd.trip_cancelled", withdrawing.driver, NoData) \in TrueMessages
        BY <1>4 DEF PublishWithdrawn, IInv, WithdrawInv, TrueMessages, Notices
    <2>2. Carried(TrueMessages, queues', unacked')
        BY <1>4, <2>1, CarriedNow, CarriedPublish DEF PublishWithdrawn
    <2>3. WithdrawInv'
        BY <1>4 DEF PublishWithdrawn, IInv, WithdrawInv
    <2> QED
        BY <1>1, <1>2, <1>4, <2>2, <2>3, CarriedNow, Quiet
        DEF PublishWithdrawn, IInv, tripVars, paymentVars, gatewayVars, driverPages, riderPages
<1>5. CASE AckWithdrawn
    BY <1>1, <1>5, WithdrawSettles, CarriedNow DEF AckWithdrawn
<1> QED
    BY <1>3, <1>4, <1>5 DEF WithdrawWork, WithdrawHandler

LEMMA DriverServiceFailureKeeps ==
    ASSUME IInv, DriverServiceFailure, UNCHANGED <<tripVars, paymentVars, gatewayVars>>
    PROVE  IInv'
<1>1. CASE FindFails
    BY <1>1, FindSettles, FaultCounted DEF FindFails
<1>2. CASE WithdrawFails
    BY <1>2, WithdrawSettles, FaultCounted DEF WithdrawFails
<1>3. CASE RejectDriverMessage
    BY <1>3, RejectKeeps, QueueKeys DEF RejectDriverMessage, DriverQueues
<1>4. CASE DriverServiceCrash
    <2>1. /\ Carried(TrueMessages, queues', unacked')
          /\ \A p \in Queues : p \notin DriverQueues => unacked'[p] = unacked[p]
        BY <1>4, CarriedNow, CarriedRequeue DEF DriverServiceCrash
    <2>2. UNCHANGED <<trips, sessions>> /\ CallsGoOn
        BY NothingNew DEF tripVars, paymentVars
    <2>3. faults' \in 0..MaxFaults
        BY <1>4, FaultCounted DEF DriverServiceCrash
    <2>4. FindInv' /\ WithdrawInv'
        BY <1>4 DEF DriverServiceCrash, FindInv, WithdrawInv, Idle
    <2> QED
        BY <1>4, <2>1, <2>2, <2>3, <2>4, Quiet, QueueKeys
        DEF DriverQueues, IInv, tripVars, paymentVars, gatewayVars, driverPages, riderPages
<1> QED
    BY <1>1, <1>2, <1>3, <1>4 DEF DriverServiceFailure

-----------------------------------------------------------------------------
\* The payment-service and Stripe.

\* A step that writes sessions and no trip: the trips stay as required.
LEMMA SessionStep ==
    ASSUME IInv, Grows, SessionsInv', UNCHANGED tripVars,
           faults' \in 0..MaxFaults, Carried(TrueMessages', queues', unacked')
    PROVE  TripsInv' /\ BrokerInv'
<1>1. UNCHANGED trips /\ CallsGoOn
    BY DEF tripVars, IInv, TripsInv, CallsGoOn
<1> QED
    BY <1>1, TripsStay DEF BrokerInv, MessagesStayTrue

LEMMA CreateSessionKeeps ==
    ASSUME IInv, CreateSession, UNCHANGED <<tripVars, driverVars, gatewayVars>>
    PROVE  IInv'
<1> DEFINE q == "payment_trip_response"
           m == Head(queues[q])
           data == m.body
           s == [trip |-> data.trip, user |-> data.user, driver |-> data.driver,
                 amount |-> Cents(data.amount), state |-> "open", webhooks |-> 0]
<1>1. /\ Ready(q) /\ Len(sessions) < MaxSessions /\ sessions' = Append(sessions, s)
      /\ charging' = "created" /\ Deliver(q) /\ UNCHANGED faults
    BY DEF CreateSession
<1>2. m \in Charges /\ m.key \in {"payment.cmd.create_session"}
    BY <1>1, CarriedNow, HeadIsCarried, QueueKeys, TrueMessagesByKey DEF Ready
<1>3. /\ data.trip \in DOMAIN trips /\ trips[data.trip].status # "pending"
      /\ data.driver \in Drivers
      /\ DriverPackage[data.driver] = FarePackage[trips[data.trip].fare]
      /\ data.user = trips[data.trip].user
      /\ data.amount = FarePrice[trips[data.trip].fare]
    BY <1>2 DEF Charges, Message, Taken, Fits
<1>4. trips[data.trip] \in Trip /\ data.trip \in TripIds
    BY <1>3 DEF IInv, TripsInv
<1>5. s \in Session
    <2>1. data.amount \in Nat
        BY <1>3, <1>4 DEF Trip
    <2>2. Cents(data.amount) \in Nat
        BY <2>1 DEF Cents
    <2> QED
        BY <1>3, <1>4, <2>2 DEF Session, Trip
<1>6. sessions \in Seq(Session) /\ Len(sessions) \in Nat /\ Len(sessions) <= MaxSessions
    BY DEF IInv, SessionsInv
<1>7. /\ sessions' \in Seq(Session)
      /\ Len(sessions') = Len(sessions) + 1
      /\ \A i \in 1..Len(sessions) : sessions'[i] = sessions[i]
      /\ sessions'[Len(sessions')] = s
    BY <1>1, <1>5, <1>6
<1>8. Grows
    BY <1>6, <1>7 DEF Grows, tripVars
<1>9. SessionsInv'
    <2>1. Len(sessions') <= MaxSessions
        <3>1. /\ MaxSessions \in Nat /\ Len(sessions) \in Nat
              /\ Len(sessions) < MaxSessions
              /\ Len(sessions') = Len(sessions) + 1
            BY <1>1, <1>6, <1>7, PaymentAssumption
        <3> QED
            BY <3>1
    <2>2. \A i \in 1..Len(sessions') : i \in 1..Len(sessions) \/ i = Len(sessions')
        <3>1. Len(sessions) \in Nat /\ Len(sessions') = Len(sessions) + 1
            BY <1>6, <1>7
        <3> QED
            BY <3>1
    <2>3. ASSUME NEW i \in 1..Len(sessions')
          PROVE  LET t == sessions'[i].trip
                 IN  /\ t \in DOMAIN trips /\ trips[t].status # "pending"
                     /\ sessions'[i].user = trips[t].user
                     /\ sessions'[i].amount = Cents(FarePrice[trips[t].fare])
                     /\ DriverPackage[sessions'[i].driver] = FarePackage[trips[t].fare]
        <3>1. CASE i \in 1..Len(sessions)
            BY <1>7, <3>1 DEF IInv, SessionsInv, SessionsMatchTrips, ChargesFor
        <3>2. CASE sessions'[i] = s
            BY <1>3, <3>2
        <3> QED
            BY <1>7, <2>2, <3>1, <3>2
    <2>4. SessionsMatchTrips'
        BY <2>3 DEF SessionsMatchTrips, ChargesFor, tripVars
    <2> QED
        BY <1>7, <2>1, <2>4 DEF SessionsInv
<1>10. /\ Carried(TrueMessages', queues', unacked')
       /\ unacked'[q] = <<m>>
       /\ \A p \in Queues : p # q => unacked'[p] = unacked[p]
    BY <1>1, <1>8, <1>9, StillTrue, CarriedDeliver, QueueKeys
<1>11. TripsInv' /\ BrokerInv'
    BY <1>1, <1>8, <1>9, <1>10, CarriedNow, SessionStep
<1>12. ChargeInv'
    <2>1. sessions' # <<>>
        BY <1>6, <1>7, EmptySeq
    <2> QED
        BY <1>1, <1>2, <1>7, <1>10, <2>1 DEF ChargeInv, Holds, Handling
<1> QED
    BY <1>8, <1>9, <1>10, <1>11, <1>12, Frame, QueueKeys
    DEF IInv, tripVars, driverVars, gatewayVars, driverPages, riderPages

LEMMA ChargeSettles ==
    ASSUME IInv, Settle("payment_trip_response"), charging' = "idle",
           faults' \in 0..MaxFaults, UNCHANGED <<sessions, queues>>,
           UNCHANGED <<tripVars, driverVars, gatewayVars>>
    PROVE  IInv'
<1>1. /\ Carried(TrueMessages, queues', unacked')
      /\ \A p \in Queues : p # "payment_trip_response" => unacked'[p] = unacked[p]
    BY CarriedNow, CarriedSettle, QueueKeys
<1>2. UNCHANGED <<trips, sessions>> /\ CallsGoOn
    BY NothingNew DEF tripVars
<1>3. ChargeInv'
    BY DEF ChargeInv
<1> QED
    BY <1>1, <1>2, <1>3, Quiet, QueueKeys
    DEF IInv, tripVars, driverVars, gatewayVars, driverPages, riderPages

LEMMA ChargeWorkKeeps ==
    ASSUME IInv, ChargeWork
    PROVE  IInv'
<1>1. UNCHANGED <<tripVars, driverVars, gatewayVars>>
    BY DEF ChargeWork
<1>2. CASE PublishSessionCreated
    <2> DEFINE h == Handling("payment_trip_response")
               m == Message("payment.event.session_created", h.body.user,
                            [trip |-> h.body.trip, session |-> Len(sessions)])
    <2>1. /\ charging = "created" /\ Publish(m) /\ charging' = "done"
          /\ UNCHANGED <<sessions, unacked, faults>>
        BY <1>2 DEF PublishSessionCreated
    <2>2. /\ Len(sessions) \in 1..Len(sessions)
          /\ sessions[Len(sessions)].trip = h.body.trip
          /\ sessions[Len(sessions)].user = h.body.user
        BY <2>1, EmptySeq DEF IInv, SessionsInv, ChargeInv
    <2>3. m \in TrueMessages
        BY <2>2 DEF TrueMessages, SessionNews
    <2>4. Carried(TrueMessages, queues', unacked')
        BY <2>1, <2>3, CarriedNow, CarriedPublish
    <2>5. UNCHANGED trips /\ CallsGoOn
        BY <1>1, <2>1, NothingNew DEF tripVars
    <2>6. ChargeInv'
        BY <2>1 DEF ChargeInv
    <2> QED
        BY <1>1, <2>1, <2>4, <2>5, <2>6, CarriedNow, Quiet
        DEF IInv, tripVars, driverVars, gatewayVars, driverPages, riderPages
<1>3. CASE AckCharged
    BY <1>1, <1>3, ChargeSettles, CarriedNow DEF AckCharged
<1> QED
    BY <1>1, <1>2, <1>3, CreateSessionKeeps DEF ChargeWork, ChargeHandler

LEMMA PaymentServiceFailureKeeps ==
    ASSUME IInv, PaymentServiceFailure, UNCHANGED <<tripVars, driverVars, gatewayVars>>
    PROVE  IInv'
<1>1. CASE ChargeFails
    BY <1>1, ChargeSettles, FaultCounted DEF ChargeFails
<1>2. CASE RejectPaymentMessage
    BY <1>2, RejectKeeps, QueueKeys DEF RejectPaymentMessage
<1>3. CASE PaymentServiceCrash
    <2>1. /\ Carried(TrueMessages, queues', unacked')
          /\ \A p \in Queues : p \notin {"payment_trip_response"} => unacked'[p] = unacked[p]
        BY <1>3, CarriedNow, CarriedRequeue DEF PaymentServiceCrash
    <2>2. UNCHANGED <<trips, sessions>> /\ CallsGoOn
        BY <1>3, NothingNew DEF PaymentServiceCrash, tripVars
    <2>3. faults' \in 0..MaxFaults
        BY <1>3, FaultCounted DEF PaymentServiceCrash
    <2>4. ChargeInv'
        BY <1>3 DEF PaymentServiceCrash, ChargeInv
    <2> QED
        BY <2>1, <2>2, <2>3, <2>4, Quiet, QueueKeys
        DEF IInv, tripVars, driverVars, gatewayVars, driverPages, riderPages
<1> QED
    BY <1>1, <1>2, <1>3 DEF PaymentServiceFailure

\* A session that keeps its metadata, and stays paid when it was.
LEMMA SessionWritten ==
    ASSUME IInv, UNCHANGED trips, NEW i \in 1..Len(sessions), NEW s \in Session,
           sessions' = [sessions EXCEPT ![i] = s],
           s.trip = sessions[i].trip, s.user = sessions[i].user,
           s.driver = sessions[i].driver, s.amount = sessions[i].amount,
           sessions[i].state = "paid" => s.state = "paid"
    PROVE  Grows /\ SessionsInv' /\ Len(sessions') = Len(sessions)
<1>1. sessions \in Seq(Session) /\ Len(sessions) \in Nat /\ Len(sessions) <= MaxSessions
    BY DEF IInv, SessionsInv
<1>2. /\ sessions' \in Seq(Session) /\ Len(sessions') = Len(sessions)
      /\ \A j \in 1..Len(sessions) : sessions'[j] = IF j = i THEN s ELSE sessions[j]
    BY <1>1, ExceptSeq
<1>3. Grows
    BY <1>1, <1>2 DEF Grows
<1>4. SessionsMatchTrips'
    BY <1>2 DEF IInv, SessionsInv, SessionsMatchTrips, ChargesFor
<1> QED
    BY <1>1, <1>2, <1>3, <1>4 DEF SessionsInv

LEMMA PayTripKeeps ==
    ASSUME IInv, NEW u \in Riders, PayTrip(u)
    PROVE  IInv'
<1> DEFINE i == screen[u].session
           s == [sessions[i] EXCEPT !.state = "paid"]
<1>1. /\ screen[u].status = "payment.event.session_created"
      /\ sessions[i].state = "open"
      /\ sessions' = [sessions EXCEPT ![i] = s]
      /\ UNCHANGED charging
      /\ screen' = [screen EXCEPT ![u] = [status |-> "payment.event.success", session |-> 0]]
      /\ UNCHANGED <<current, cancelled, driverPages, brokerVars, tripVars, driverVars>>
    BY DEF PayTrip, CompleteCheckout, ReturnFromCheckout
<1>2. i \in 1..Len(sessions)
    BY <1>1 DEF IInv, RiderPagesInv, RidersPayTheirOwn
<1>3. sessions[i] \in Session
    BY <1>2, ElementOfSeq DEF IInv, SessionsInv
<1>4. /\ s \in Session /\ s.trip = sessions[i].trip /\ s.user = sessions[i].user
      /\ s.driver = sessions[i].driver /\ s.amount = sessions[i].amount
      /\ s.state = "paid"
    BY <1>3 DEF Session
<1>5. UNCHANGED <<trips, queues, unacked, faults>>
    BY <1>1 DEF tripVars, brokerVars
<1>6. Grows /\ SessionsInv' /\ Len(sessions') = Len(sessions)
    <2> HIDE DEF i, s
    <2> QED
        BY <1>1, <1>2, <1>4, <1>5, SessionWritten
<1>7. Carried(TrueMessages', queues', unacked')
    BY <1>5, <1>6, StillTrue
<1>8. TripsInv' /\ BrokerInv'
    BY <1>1, <1>5, <1>6, <1>7, CarriedNow, SessionStep
<1>9. RiderPagesInv'
    <2>1. Len(sessions) \in Nat
        BY DEF IInv, SessionsInv
    <2>2. \A v \in Riders : screen'[v].status = "payment.event.session_created" =>
            screen'[v] = screen[v]
        BY <1>1 DEF IInv, RiderPagesInv
    <2>3. RidersPayTheirOwn'
        BY <1>6, <2>1, <2>2 DEF IInv, RiderPagesInv, RidersPayTheirOwn, Grows
    <2> QED
        BY <1>1, <1>5, <2>3 DEF IInv, RiderPagesInv
<1> QED
    BY <1>1, <1>5, <1>6, <1>8, <1>9, Frame
    DEF IInv, tripVars, driverVars, driverPages

LEMMA WebhookKeeps ==
    ASSUME IInv, NEW i \in 1..Len(sessions), Webhook(i)
    PROVE  IInv'
<1> DEFINE s == [sessions[i] EXCEPT !.webhooks = @ + 1]
           m == Message("payment.event.success", sessions[i].user,
                        [trip |-> sessions[i].trip])
<1>1. /\ sessions[i].state = "paid"
      /\ sessions' = [sessions EXCEPT ![i] = s]
      /\ Publish(m)
      /\ UNCHANGED <<charging, unacked, faults, tripVars, driverVars, gatewayVars>>
    BY DEF Webhook, StripeWebhook
<1>2. sessions[i] \in Session
    BY ElementOfSeq DEF IInv, SessionsInv
<1>3. /\ s \in Session /\ s.trip = sessions[i].trip /\ s.user = sessions[i].user
      /\ s.driver = sessions[i].driver /\ s.amount = sessions[i].amount
      /\ s.state = sessions[i].state
    BY <1>2 DEF Session
<1>4. UNCHANGED trips
    BY <1>1 DEF tripVars
<1>5. Grows /\ SessionsInv' /\ Len(sessions') = Len(sessions)
    <2> HIDE DEF s
    <2> QED
        BY <1>1, <1>3, <1>4, SessionWritten
<1>6. m \in TrueMessages'
    <2>1. m \in TrueMessages
        BY <1>1 DEF TrueMessages, Payments
    <2> QED
        BY <1>5, <2>1, TrueMessagesGrow DEF IInv
<1>7. Carried(TrueMessages', queues', unacked')
    <2> HIDE DEF m
    <2> QED
        BY <1>1, <1>5, <1>6, StillTrue, CarriedPublish
<1>8. TripsInv' /\ BrokerInv'
    BY <1>1, <1>5, <1>7, CarriedNow, SessionStep
<1> QED
    BY <1>1, <1>5, <1>8, Frame
    DEF IInv, tripVars, driverVars, gatewayVars, driverPages, riderPages

-----------------------------------------------------------------------------
\* The gateway and the pages.

\* A step of a page, which may publish or consume.
LEMMA PageStep ==
    ASSUME IInv, UNCHANGED <<tripVars, driverVars, paymentVars, unacked>>,
           faults' \in 0..MaxFaults, Carried(TrueMessages, queues', unacked'),
           UNCHANGED driverPages \/ DriverPagesInv',
           UNCHANGED riderPages \/ RiderPagesInv'
    PROVE  IInv'
<1>1. UNCHANGED <<trips, sessions>> /\ CallsGoOn
    BY NothingNew DEF tripVars, paymentVars
<1> QED
    BY <1>1, Quiet DEF IInv, tripVars, driverVars, paymentVars

\* The driver's socket is a state of its own.
LEMMA SocketStep ==
    ASSUME IInv, NEW d \in Drivers, NEW where \in {"added", "open", "removed", "gone"},
           socket' = [socket EXCEPT ![d] = where],
           UNCHANGED <<offer, declined, trips>>
    PROVE  DriverPagesInv'
    BY DEF IInv, DriverPagesInv, Fits

LEMMA ConnectDriverKeeps ==
    ASSUME IInv, NEW d \in Drivers, ConnectDriver(d) \/ Disconnect(d)
    PROVE  IInv'
<1> USE DEF ConnectDriver, Disconnect, AddDriver, RemoveDriver
<1>1. UNCHANGED <<brokerVars, tripVars, driverVars, paymentVars, riderPages>>
    OBVIOUS
<1>2. DriverPagesInv'
    BY SocketStep DEF tripVars
<1> QED
    BY <1>1, <1>2, CarriedNow, PageStep DEF brokerVars

LEMMA RegistrationFailsKeeps ==
    ASSUME IInv, NEW d \in Drivers, RegisterLost(d) \/ UnregisterLost(d)
    PROVE  IInv'
<1> USE DEF RegisterLost, UnregisterLost, RegisterFails, DriverGone
<1>1. UNCHANGED <<queues, unacked, tripVars, driverVars, paymentVars, riderPages>>
    OBVIOUS
<1>2. DriverPagesInv'
    BY SocketStep DEF tripVars
<1>3. faults' \in 0..MaxFaults
    BY FaultCounted
<1>4. Carried(TrueMessages, queues', unacked')
    BY <1>1, CarriedNow
<1> QED
    BY <1>1, <1>2, <1>3, <1>4, PageStep

\* A step that changes the registry and nothing else of the driver-service.
LEMMA RegistryStep ==
    ASSUME IInv, drivers' \in Seq(Drivers), DriverPagesInv',
           UNCHANGED <<pendingTrips, finding, withdrawing, brokerVars, tripVars, paymentVars,
                       riderPages>>
    PROVE  IInv'
<1>1. UNCHANGED <<trips, sessions, queues, unacked, faults>> /\ CallsGoOn
    BY NothingNew DEF tripVars, paymentVars, brokerVars
<1>2. FindInv'
    BY <1>1, FindStays DEF IInv, FindInv
<1>3. Carried(TrueMessages, queues', unacked')
    BY <1>1, CarriedNow
<1> QED
    BY <1>1, <1>2, <1>3, CarriedNow, Quiet DEF IInv, tripVars, paymentVars

LEMMA RegisterKeeps ==
    ASSUME IInv, NEW d \in Drivers, Register(d)
    PROVE  IInv'
<1>1. DriverPagesInv'
    BY SocketStep DEF Register, DriverRegistered, tripVars
<1>2. drivers' \in Seq(Drivers)
    BY DEF Register, RegisterDriver, IInv, FindInv
<1> QED
    BY <1>1, <1>2, RegistryStep DEF Register, DriverRegistered

LEMMA UnregisterKeeps ==
    ASSUME IInv, NEW d \in Drivers, Unregister(d)
    PROVE  IInv'
<1>1. UNCHANGED <<tripVars, paymentVars, riderPages>>
    BY DEF Unregister, DriverGone
<1>2. DriverPagesInv'
    BY SocketStep DEF Unregister, DriverGone, tripVars
<1>3. CASE UnregisterDriver(d)
            /\ UNCHANGED <<pendingTrips, finding, withdrawing, brokerVars>>
    <2>1. drivers' \in Seq(Drivers)
        BY <1>3, UnregisterKeepsTheRegistry DEF IInv, FindInv
    <2> QED
        BY <1>1, <1>2, <1>3, <2>1, RegistryStep
<1>4. CASE FindWhileUnregistering(d)
    <2>1. PICK scan : Search(scan)
        BY <1>4 DEF FindWhileUnregistering
    <2>2. drivers' \in Seq(Drivers)
        BY <1>4, UnregisterKeepsTheRegistry DEF FindWhileUnregistering, IInv, FindInv
    <2> QED
        BY <1>1, <1>2, <2>1, <2>2, SearchKeeps
<1> QED
    BY <1>3, <1>4 DEF Unregister

\* A message is pushed to a page: it is gone from its queue.
LEMMA Pushed ==
    ASSUME IInv, NEW q \in Queues, queues[q] # <<>>, Pop(q), UNCHANGED unacked
    PROVE  /\ Carried(TrueMessages, queues', unacked')
           /\ Head(queues[q]) \in TrueMessages /\ Head(queues[q]).key \in Bindings[q]
    BY CarriedNow, CarriedPop, HeadIsCarried

LEMMA PushRequestKeeps ==
    ASSUME IInv, PushRequest
    PROVE  IInv'
<1> USE DEF PushRequest, ShowRequest
<1> DEFINE m == Head(queues["driver_cmd_trip_request"])
<1>1. /\ Carried(TrueMessages, queues', unacked')
      /\ m \in Requests
    BY Pushed, QueueKeys, TrueMessagesByKey
<1>2. /\ <<m.owner, m.body.trip>> \in Fits
      /\ m.body.user = trips[m.body.trip].user
    BY <1>1 DEF Requests, Message, TripData, Fits
<1>3. m.body.trip \in TripIds /\ m.body.user \in Riders
    BY <1>2 DEF Fits, IInv, TripsInv, Trip
<1>4. DriverPagesInv'
    BY <1>2, <1>3 DEF IInv, DriverPagesInv, tripVars, Fits
<1> QED
    BY <1>1, <1>4, CarriedNow, PageStep

LEMMA PushWithdrawnKeeps ==
    ASSUME IInv, PushWithdrawn
    PROVE  IInv'
<1> USE DEF PushWithdrawn, ShowWithdrawn
<1>1. Carried(TrueMessages, queues', unacked')
    BY Pushed, QueueKeys
<1>2. DriverPagesInv'
    BY DEF IInv, DriverPagesInv, tripVars, Fits
<1> QED
    BY <1>1, <1>2, CarriedNow, PageStep

LEMMA PushRiderKeeps ==
    ASSUME IInv, NEW q \in RiderQueues, PushRider(q)
    PROVE  IInv'
<1> USE DEF PushRider, ShowRider
<1> DEFINE m == Head(queues[q])
<1>1. /\ Carried(TrueMessages, queues', unacked') /\ m \in TrueMessages
    BY Pushed, QueueKeys
<1>2. \A u \in Riders : screen'[u] # screen[u] => u = m.owner /\ screen'[u].status = m.key
        /\ (m.key = "payment.event.session_created" => screen'[u].session = m.body.session)
    BY DEF IInv, RiderPagesInv
<1>3. m.key = "payment.event.session_created" =>
        m.body.session \in 1..Len(sessions) /\ sessions[m.body.session].user = m.owner
    BY <1>1, TrueMessagesByKey DEF SessionNews, Message
<1>4. RidersPayTheirOwn'
    BY <1>2, <1>3 DEF IInv, RiderPagesInv, RidersPayTheirOwn, paymentVars
<1>5. RiderPagesInv'
    BY <1>4 DEF IInv, RiderPagesInv, tripVars
<1> QED
    BY <1>1, <1>5, CarriedNow, PageStep

LEMMA AnswerSentKeeps ==
    ASSUME IInv, NEW d \in Drivers, SendAccept(d) \/ SendDecline(d),
           UNCHANGED <<tripVars, driverVars, paymentVars>>
    PROVE  IInv'
<1> DEFINE Sent(k) == Message(k, d, [trip |-> offer[d].trip, user |-> offer[d].user,
                                     driver |-> d])
<1>1. /\ offer[d].status = "request" /\ UNCHANGED <<socket, riderPages, unacked, faults>>
      /\ \E k \in {"driver.cmd.trip_accept", "driver.cmd.trip_decline"} : Publish(Sent(k))
      /\ \/ offer' = [offer EXCEPT ![d].status = "accepted"]
         \/ offer' = [offer EXCEPT ![d] = NoOffer]
      /\ declined' \subseteq declined \cup {<<offer[d].trip, d>>}
    BY DEF SendAccept, SendDecline, MayAnswer, Answer
<1>2. /\ <<d, offer[d].trip>> \in Fits /\ offer[d].user = trips[offer[d].trip].user
      /\ offer[d] \in [trip : TripIds, user : Riders, status : {"request"}]
    BY <1>1 DEF IInv, DriverPagesInv
<1>3. ASSUME NEW k \in {"driver.cmd.trip_accept", "driver.cmd.trip_decline"}, Publish(Sent(k))
      PROVE  Carried(TrueMessages, queues', unacked')
    <2> DEFINE t == offer[d].trip
    <2>1. Sent(k) = Message(k, d, [trip |-> t, user |-> trips[t].user, driver |-> d])
        BY <1>2
    <2>2. <<d, t>> \in Fits /\ <<d, t>>[1] = d /\ <<d, t>>[2] = t
        BY <1>2
    <2>3. Message(k, d, [trip |-> t, user |-> trips[t].user, driver |-> d]) \in Answers
        <3> HIDE DEF t
        <3> QED
            BY <2>2 DEF Answers
    <2>4. Sent(k) \in TrueMessages
        BY <2>1, <2>3 DEF TrueMessages
    <2> QED
        BY <1>1, <1>3, <2>4, CarriedNow, CarriedPublish
<1>4. DriverPagesInv'
    <2>1. /\ DOMAIN offer' = Drivers
          /\ \A e \in Drivers : offer'[e].status = "request" => offer'[e] = offer[e]
        BY <1>1, <1>2 DEF IInv, DriverPagesInv, NoOffer
    <2>2. offer[d].trip \in TripIds
        BY <1>2 DEF Fits, IInv, TripsInv
    <2> QED
        BY <1>1, <2>1, <2>2 DEF IInv, DriverPagesInv, tripVars, Fits
<1> QED
    BY <1>1, <1>3, <1>4, CarriedNow, PageStep

LEMMA AnswerLostKeeps ==
    ASSUME IInv, NEW d \in Drivers, AnswerLost(d),
           UNCHANGED <<tripVars, driverVars, paymentVars>>
    PROVE  IInv'
<1> USE DEF AnswerLost, MayAnswer
<1>1. /\ DOMAIN offer' = Drivers
      /\ \A e \in Drivers : offer'[e].status = "request" => offer'[e] = offer[e]
    <2>1. offer[d] \in [trip : TripIds, user : Riders, status : {"request"}]
        BY DEF IInv, DriverPagesInv
    <2> QED
        BY <2>1 DEF IInv, DriverPagesInv, NoOffer
<1>2. DriverPagesInv'
    BY <1>1 DEF IInv, DriverPagesInv, tripVars, Fits
<1>3. faults' \in 0..MaxFaults /\ Carried(TrueMessages, queues', unacked')
    BY FaultCounted, CarriedNow
<1> QED
    BY <1>2, <1>3, PageStep

LEMMA CancelKeeps ==
    ASSUME IInv, NEW u \in Riders, CancelTrip(u) \/ CancelFails(u) \/ CancelUnknown(u),
           UNCHANGED <<tripVars, driverVars, paymentVars>>
    PROVE  IInv'
<1> USE DEF CancelTrip, CancelFails, CancelUnknown
<1>1. LeaveTrip(u) /\ UNCHANGED <<driverPages, unacked>>
    BY DEF brokerVars
<1>2. cancelled' \subseteq DOMAIN trips
    BY DEF IInv, RiderPagesInv
<1>3. RiderPagesInv'
    <2>1. /\ DOMAIN screen' = Riders
          /\ \A v \in Riders : screen'[v] = IF v = u THEN BlankScreen ELSE screen[v]
          /\ current' \in [Riders -> DOMAIN trips \cup {NoTrip}]
        BY <1>1 DEF LeaveTrip, IInv, RiderPagesInv
    <2>2. RidersPayTheirOwn'
        BY <2>1 DEF IInv, RiderPagesInv, RidersPayTheirOwn, BlankScreen, paymentVars
    <2> QED
        BY <1>2, <2>1, <2>2 DEF RiderPagesInv, tripVars
<1>4. CASE CancelTrip(u)
    <2>1. current[u] \in TripIds
        BY <1>4 DEF IInv, RiderPagesInv, TripsInv
    <2>2. Message("trip.event.cancelled", u, [trip |-> current[u], user |-> u]) \in TrueMessages
        BY <2>1 DEF TrueMessages, Cancellations
    <2>3. Carried(TrueMessages, queues', unacked')
        BY <1>4, <2>2, CarriedNow, CarriedPublish
    <2> QED
        BY <1>1, <1>3, <1>4, <2>3, CarriedNow, PageStep
<1>5. CASE CancelFails(u)
    BY <1>1, <1>3, <1>5, CarriedNow, FaultCounted, PageStep
<1>6. CASE CancelUnknown(u)
    BY <1>1, <1>3, <1>6, CarriedNow, PageStep DEF brokerVars
<1> QED
    BY <1>4, <1>5, <1>6

-----------------------------------------------------------------------------
\* The invariant holds at the start.
LEMMA InitEstablishes == Init => IInv
<1> SUFFICES ASSUME Init PROVE IInv
    OBVIOUS
<1> USE DEF Init, BrokerInit, TripInit, DriverInit, PaymentInit, GatewayInit
<1>1. DOMAIN trips = {} /\ Len(sessions) = 0 /\ sessions \in Seq(Session)
    BY EmptySeq
<1>2. TripsInv
    BY <1>1 DEF TripsInv, PaidTripsWereCharged
<1>3. SessionsInv
    BY <1>1, PaymentAssumption DEF SessionsInv, SessionsMatchTrips
<1>4. BrokerInv
    <2>1. Len(<<>>) <= 1 /\ \A S : <<>> \in Seq(S)
        BY EmptySeq
    <2> QED
        BY <2>1, MaxFaultsAssumption DEF BrokerInv, MessagesStayTrue, Carried
<1>5. AnswerInv /\ FindInv /\ WithdrawInv /\ ChargeInv
    BY EmptySeq DEF AnswerInv, FindInv, WithdrawInv, ChargeInv, Idle
<1>6. DriverPagesInv /\ RiderPagesInv
    BY <1>1 DEF DriverPagesInv, RiderPagesInv, RidersPayTheirOwn, NoOffer, BlankScreen
<1> QED
    BY <1>2, <1>3, <1>4, <1>5, <1>6 DEF IInv

\* A step that changes nothing.
LEMMA StutterKeeps ==
    ASSUME IInv, UNCHANGED vars
    PROVE  IInv'
<1>1. UNCHANGED <<tripVars, driverVars, paymentVars, gatewayVars, queues, unacked, faults>>
    BY DEF vars, brokerVars
<1> QED
    BY <1>1, CarriedNow, PageStep DEF gatewayVars, driverPages, riderPages

\* Every step of every service, page and failure keeps it.
LEMMA NextKeeps == IInv /\ [Next]_vars => IInv'
<1> SUFFICES ASSUME IInv, [Next]_vars PROVE IInv'
    OBVIOUS
<1>1. CASE People
    BY <1>1, StartTripKeeps, ConnectDriverKeeps, PayTripKeeps, AnswerSentKeeps,
       AnswerLostKeeps, CancelKeeps DEF People
<1>2. CASE Failures
    BY <1>2, TripServiceFailureKeeps, DriverServiceFailureKeeps, PaymentServiceFailureKeeps,
       RegistrationFailsKeeps DEF Failures
<1>3. CASE AnswerWork \/ SettleWork \/ FindWork \/ WithdrawWork \/ ChargeWork
    BY <1>3, AnswerWorkKeeps, SettleWorkKeeps, FindWorkKeeps, WithdrawWorkKeeps, ChargeWorkKeeps
<1>4. CASE PushRequest \/ PushWithdrawn \/ \E q \in RiderQueues : PushRider(q)
    BY <1>4, PushRequestKeeps, PushWithdrawnKeeps, PushRiderKeeps
<1>5. CASE \E t \in TripIds : CreateWork(t) \/ AnswerStart(t)
    BY <1>5, CreateWorkKeeps, AnswerStartKeeps
<1>6. CASE \E d \in Drivers : Register(d) \/ Unregister(d)
    BY <1>6, RegisterKeeps, UnregisterKeeps
<1>7. CASE \E i \in 1..Len(sessions) : Webhook(i)
    BY <1>7, WebhookKeeps
<1> QED
    BY <1>1, <1>2, <1>3, <1>4, <1>5, <1>6, <1>7, StutterKeeps DEF Next

\* The inductive invariant holds in every reachable state.
THEOREM Invariance == Spec => []IInv
    BY InitEstablishes, NextKeeps, PTL DEF Spec

\* Every variable holds a value its Go counterpart can hold, whatever crashes.
THEOREM TypeCorrectness == Spec => []TypeOK
<1>1. IInv => TypeOK
    <2> SUFFICES ASSUME IInv PROVE TypeOK
        OBVIOUS
    <2>1. \A q \in Queues : Len(unacked[q]) <= 1
        BY CarriedNow DEF Carried
    <2> QED
        BY <2>1 DEF TypeOK, IInv, TripsInv, SessionsInv, BrokerInv, FindInv, WithdrawInv,
            DriverPagesInv, RiderPagesInv
<1> QED
    BY <1>1, Invariance, PTL

\* A message says what is so until it is handled: however late, however often it
\* is redelivered after a crash, and whatever happened to its trip meanwhile.
THEOREM StaleMessagesAreHarmless == Spec => []MessagesStayTrue
<1>1. IInv => MessagesStayTrue
    BY DEF IInv, BrokerInv
<1> QED
    BY <1>1, Invariance, PTL

\* The trip-service records a trip as payed only after Stripe took its price.
THEOREM NoTripIsPayedUncharged == Spec => []PaidTripsWereCharged
<1>1. IInv => PaidTripsWereCharged
    BY DEF IInv, TripsInv
<1> QED
    BY <1>1, Invariance, PTL

\* The payment-service opens sessions for taken trips only, at the fare's price.
THEOREM NoSessionIsWrong == Spec => []SessionsMatchTrips
<1>1. IInv => SessionsMatchTrips
    BY DEF IInv, SessionsInv
<1> QED
    BY <1>1, Invariance, PTL

\* No rider is shown another rider's session.
THEOREM NoRiderPaysForAnother == Spec => []RidersPayTheirOwn
<1>1. IInv => RidersPayTheirOwn
    BY DEF IInv, RiderPagesInv
<1> QED
    BY <1>1, Invariance, PTL

=============================================================================
