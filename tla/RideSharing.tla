---------------------------- MODULE RideSharing -----------------------------
(***************************************************************************)
(* The platform: the four services and the browsers over one broker. Every  *)
(* step is a step of one of them; the RPCs and the Stripe calls are steps   *)
(* of two.                                                                  *)
(***************************************************************************)
EXTENDS TripService, DriverService, PaymentService, Gateway, FiniteSets

vars == <<brokerVars, tripVars, driverVars, paymentVars, gatewayVars>>

Init == BrokerInit /\ TripInit /\ DriverInit /\ PaymentInit /\ GatewayInit

-----------------------------------------------------------------------------
\* POST /trip/start: handleTripStart calls CreateTrip.
StartTrip(t, u, f) ==
    /\ MayStart(u)
    /\ CreateTrip(t, u, f)
    /\ UNCHANGED <<driverVars, paymentVars, gatewayVars>>

\* ... and its answer reaches the page of the rider that asked.
AnswerStart(t) ==
    /\ ReturnTrip(t)
    /\ LearnTrip(trips[t].user, t)
    /\ UNCHANGED <<driverVars, paymentVars>>

ConnectDriver(d) ==
    /\ AddDriver(d)
    /\ UNCHANGED <<brokerVars, tripVars, driverVars, paymentVars>>

Register(d) ==
    /\ DriverRegistered(d)
    /\ RegisterDriver(d)
    /\ UNCHANGED <<pendingTrips, finding, withdrawing, brokerVars, tripVars, paymentVars>>

RegisterLost(d) ==
    /\ RegisterFails(d)
    /\ Fault
    /\ UNCHANGED <<queues, unacked, tripVars, driverVars, paymentVars>>

Disconnect(d) ==
    /\ RemoveDriver(d)
    /\ UNCHANGED <<brokerVars, tripVars, driverVars, paymentVars>>

Unregister(d) ==
    /\ DriverGone(d)
    /\ \/ /\ UnregisterDriver(d)
          /\ UNCHANGED <<pendingTrips, finding, withdrawing, brokerVars>>
       \/ FindWhileUnregistering(d)
    /\ UNCHANGED <<tripVars, paymentVars>>

\* The RPC fails or times out: the registry keeps the driver.
UnregisterLost(d) ==
    /\ DriverGone(d)
    /\ Fault
    /\ UNCHANGED <<queues, unacked, tripVars, driverVars, paymentVars>>

\* The page shows a payment button for the session it holds.
PayTrip(u) ==
    /\ screen[u].status = "payment.event.session_created"
    /\ CompleteCheckout(screen[u].session)
    /\ ReturnFromCheckout(u)
    /\ UNCHANGED <<brokerVars, tripVars, driverVars>>

Webhook(i) ==
    /\ StripeWebhook(i)
    /\ UNCHANGED <<tripVars, driverVars, gatewayVars>>

-----------------------------------------------------------------------------
People ==
    \/ \E t \in TripIds, u \in Riders, f \in Fares : StartTrip(t, u, f)
    \/ \E d \in Drivers : ConnectDriver(d) \/ Disconnect(d)
    \/ \E u \in Riders : PayTrip(u)
    \/ /\ \/ \E d \in Drivers : SendAccept(d) \/ SendDecline(d) \/ AnswerLost(d)
          \/ \E u \in Riders : CancelTrip(u) \/ CancelFails(u) \/ CancelUnknown(u)
       /\ UNCHANGED <<tripVars, driverVars, paymentVars>>

\* The failures of running processes.
Failures ==
    \/ TripServiceFailure /\ UNCHANGED <<driverVars, paymentVars, gatewayVars>>
    \/ DriverServiceFailure /\ UNCHANGED <<tripVars, paymentVars, gatewayVars>>
    \/ PaymentServiceFailure /\ UNCHANGED <<tripVars, driverVars, gatewayVars>>
    \/ \E d \in Drivers : RegisterLost(d) \/ UnregisterLost(d)

AnswerWork == AnswerHandler /\ UNCHANGED <<driverVars, paymentVars, gatewayVars>>
SettleWork == SettleHandler /\ UNCHANGED <<driverVars, paymentVars, gatewayVars>>
CreateWork(t) ==
    PublishTripCreated(t) /\ UNCHANGED <<driverVars, paymentVars, gatewayVars>>
FindWork == FindHandler /\ UNCHANGED <<tripVars, paymentVars, gatewayVars>>
WithdrawWork == WithdrawHandler /\ UNCHANGED <<tripVars, paymentVars, gatewayVars>>
ChargeWork == ChargeHandler /\ UNCHANGED <<tripVars, driverVars, gatewayVars>>
PushRequest == ShowRequest /\ UNCHANGED <<tripVars, driverVars, paymentVars>>
PushWithdrawn == ShowWithdrawn /\ UNCHANGED <<tripVars, driverVars, paymentVars>>
PushRider(q) == ShowRider(q) /\ UNCHANGED <<tripVars, driverVars, paymentVars>>

Next ==
    \/ People \/ Failures
    \/ AnswerWork \/ SettleWork \/ FindWork \/ WithdrawWork \/ ChargeWork
    \/ PushRequest \/ PushWithdrawn
    \/ \E q \in RiderQueues : PushRider(q)
    \/ \E t \in TripIds : CreateWork(t) \/ AnswerStart(t)
    \/ \E d \in Drivers : Register(d) \/ Unregister(d)
    \/ \E i \in 1..Len(sessions) : Webhook(i)

Spec == Init /\ [][Next]_vars

\* Every goroutine that can go on goes on: one per consumer and per request,
\* and Stripe, which repeats an event until it is answered. People need not act.
Fairness ==
    /\ WF_vars(AnswerWork) /\ WF_vars(SettleWork)
    /\ WF_vars(FindWork) /\ WF_vars(WithdrawWork)
    /\ WF_vars(ChargeWork)
    /\ WF_vars(PushRequest) /\ WF_vars(PushWithdrawn)
    /\ \A q \in RiderQueues : WF_vars(PushRider(q))
    /\ \A t \in TripIds : WF_vars(CreateWork(t)) /\ WF_vars(AnswerStart(t))
    /\ \A d \in Drivers : WF_vars(Register(d)) /\ WF_vars(Unregister(d))
    /\ \A i \in 1..MaxSessions : WF_vars(i <= Len(sessions) /\ Webhook(i))

FairSpec == Spec /\ Fairness

-----------------------------------------------------------------------------
Trip == [user : Riders, fare : Fares,
         status : {"pending", "accepted", "payed"}, driver : Drivers \cup {NoDriver}]

\* Every variable holds a value its Go counterpart can hold.
TypeOK ==
    /\ faults \in 0..MaxFaults
    /\ \A q \in Queues : Len(unacked[q]) <= 1
    /\ DOMAIN trips \subseteq TripIds
    /\ \A t \in DOMAIN trips : trips[t] \in Trip
    /\ calls \in [TripIds -> {"none", "inserted", "created", "returned", "failed"}]
    /\ pendingTrips \in [TripIds -> Drivers \cup {NoDriver}]
    /\ {finding.driver, withdrawing.driver} \subseteq Drivers \cup {NoDriver}
    /\ Len(sessions) <= MaxSessions
    /\ current \in [Riders -> TripIds \cup {NoTrip}]
    /\ socket \in [Drivers -> {"new", "added", "open", "removed", "gone"}]
    /\ cancelled \subseteq DOMAIN trips
    /\ declined \subseteq TripIds \X Drivers

\* A checkout session of this trip that asks its rider for its price.
ChargesFor(i, t) ==
    /\ sessions[i].trip = t
    /\ sessions[i].user = trips[t].user
    /\ sessions[i].amount = Cents(FarePrice[trips[t].fare])

\* A trip is payed only after Stripe took its quoted price from its own rider:
\* five services and three messages lie between the two.
PaidTripsWereCharged ==
    \A t \in DOMAIN trips : trips[t].status = "payed" =>
        \E i \in 1..Len(sessions) : ChargesFor(i, t) /\ sessions[i].state = "paid"

\* A rider is asked to pay for nothing but an existing trip of his that a driver
\* has taken, at the price of its fare, for a driver of the package he chose.
SessionsMatchTrips ==
    \A i \in 1..Len(sessions) :
        LET t == sessions[i].trip
        IN  /\ t \in DOMAIN trips
            /\ trips[t].status # "pending"
            /\ ChargesFor(i, t)
            /\ DriverPackage[sessions[i].driver] = FarePackage[trips[t].fare]

\* The page never offers a rider somebody else's checkout session.
RidersPayTheirOwn ==
    \A u \in Riders : screen[u].status = "payment.event.session_created" =>
        /\ screen[u].session \in 1..Len(sessions)
        /\ sessions[screen[u].session].user = u

\* The drivers and trips that match by package.
Fits == {x \in Drivers \X DOMAIN trips : DriverPackage[x[1]] = FarePackage[trips[x[2]].fare]}
Taken == {x \in Fits : trips[x[2]].status # "pending"}

\* Every message the present state of the database and of Stripe justifies:
\* about a trip that is searched for, offered to a driver who fits it, answered
\* by him, taken and charged, about a session and about a payment.
Searches ==
    LET OfKey(k) == {Message(k, trips[t].user, TripData(t)) : t \in DOMAIN trips}
    IN  OfKey("trip.event.created") \cup OfKey("trip.event.driver_not_interested")
Requests == {Message("driver.cmd.trip_request", x[1], TripData(x[2])) : x \in Fits}
Answers ==
    LET OfKey(k) == {Message(k, x[1], [trip |-> x[2], user |-> trips[x[2]].user,
                                    driver |-> x[1]]) : x \in Fits}
    IN  OfKey("driver.cmd.trip_accept") \cup OfKey("driver.cmd.trip_decline")
Assignments ==
    {Message("trip.event.driver_assigned", trips[x[2]].user,
             [trip |-> x[2], driver |-> x[1]]) : x \in Taken}
Charges ==
    {Message("payment.cmd.create_session", trips[x[2]].user,
             [trip |-> x[2], user |-> trips[x[2]].user, driver |-> x[1],
              amount |-> FarePrice[trips[x[2]].fare]]) : x \in Taken}
SessionNews ==
    {Message("payment.event.session_created", sessions[i].user,
             [trip |-> sessions[i].trip, session |-> i]) : i \in 1..Len(sessions)}
Payments ==
    {Message("payment.event.success", sessions[i].user, [trip |-> sessions[i].trip]) :
        i \in {i \in 1..Len(sessions) : sessions[i].state = "paid"}}
Cancellations ==
    {Message("trip.event.cancelled", u, [trip |-> t, user |-> u]) :
        u \in Riders, t \in TripIds}
Notices ==
    {Message("trip.event.no_drivers_found", u, NoData) : u \in Riders}
    \cup {Message("driver.cmd.trip_cancelled", d, NoData) : d \in Drivers}

TrueMessages ==
    UNION {Searches, Requests, Answers, Assignments, Charges, SessionNews, Payments,
           Cancellations, Notices}

\* However long a message waits or how often it is redelivered, what it says of
\* a trip, a driver or a payment is still so when it is handled.
MessagesStayTrue == LET true == TrueMessages IN Carried(true, queues, unacked)

\* The requests that are on their way to a driver or on a driver's page.
QueuedRequests(t) ==
    {i \in 1..Len(queues["driver_cmd_trip_request"]) :
        queues["driver_cmd_trip_request"][i].body.trip = t}
ShownRequests(t) ==
    {d \in Drivers : offer[d].status = "request" /\ offer[d].trip = t}

\* As long as nothing fails, a trip is offered to one driver at a time, however
\* often it is declined and searched again.
OneOfferAtATime ==
    faults = 0 => \A t \in TripIds :
        Cardinality(QueuedRequests(t)) + Cardinality(ShownRequests(t)) <= 1

\* ... so that its rider is charged once.
OneSessionPerTrip ==
    faults = 0 => \A i, j \in 1..Len(sessions) :
        sessions[i].trip = sessions[j].trip => i = j

\* As long as nothing fails, pendingTrips names the driver a live request is
\* with: the cancellation that comes next will reach him.
RequestsAreRecalled ==
    faults = 0 => \A t \in TripIds \ cancelled :
        /\ \A d \in ShownRequests(t) : pendingTrips[t] = d
        /\ \A i \in QueuedRequests(t) :
            pendingTrips[t] = queues["driver_cmd_trip_request"][i].owner

\* As long as nothing fails, a payed trip stays payed and keeps its driver.
PayedIsFinal ==
    [][faults' = 0 => \A t \in DOMAIN trips :
        trips[t].status = "payed" => trips'[t] = trips[t]]_vars

-----------------------------------------------------------------------------
\* A search for a driver for this trip was answered: with a request on its way,
\* or with the news that there is no driver.
Answered(t) ==
    \/ QueuedRequests(t) # {}
    \/ \E i \in 1..Len(queues["notify_no_drivers_found"]) :
        queues["notify_no_drivers_found"][i].owner = trips[t].user

\* Every trip in the database is searched for, to one of the two ends.
SearchIsAnswered == \A t \in TripIds : calls[t] = "inserted" ~> Answered(t)

\* A trip a driver has taken gets a checkout session.
AcceptedIsCharged ==
    \A t \in TripIds :
        t \in DOMAIN trips /\ trips[t].status = "accepted" ~>
            \E i \in 1..Len(sessions) : sessions[i].trip = t

\* What was paid is recorded as payed.
PaymentIsRecorded ==
    \A i \in 1..MaxSessions :
        i <= Len(sessions) /\ sessions[i].state = "paid" ~>
            i <= Len(sessions) /\ trips[sessions[i].trip].status = "payed"

-----------------------------------------------------------------------------
\* ARCHITECTURE.md on a declined trip: "the driver-service tries the next
\* available driver" - a search that finds a driver of the package who has not
\* declined the trip does not choose one who has.
NextDriverIsTried ==
    [][finding.pc = "idle" /\ finding'.pc = "found" =>
        LET data == Head(queues["find_available_drivers"]).body
            fresh == {d \in {drivers[k] : k \in 1..Len(drivers)} :
                        DriverPackage[d] = data.pkg /\ <<data.trip, d>> \notin declined}
        IN  fresh # {} => <<data.trip, finding'.driver>> \notin declined]_vars

\* ARCHITECTURE.md on POST /trip/cancel: "Cancel an in-progress trip request and
\* notify the pending driver" - once every cancellation has been dealt with, no
\* request for a cancelled trip is with a driver.
CancelledRequestsAreRecalled ==
    (\A q \in {"trip_cancelled_driver", "driver_cmd_trip_cancelled"} :
        queues[q] = <<>> /\ unacked[q] = <<>>)
    => \A t \in cancelled : QueuedRequests(t) \cup ShownRequests(t) = {}

=============================================================================
