------------------------------ MODULE Gateway -------------------------------
(***************************************************************************)
(* services/api-gateway and the web clients behind it: HTTP requests and    *)
(* websocket frames become messages, and the seven QueueConsumers push      *)
(* messages to the browsers, which keep only what they were last told. A    *)
(* driver's browser takes a new id on every page load, so that each driver  *)
(* id connects once; riders stay connected. What is pushed to a driver that *)
(* has left waits in pendingMessages for a connection that never comes.     *)
(***************************************************************************)
EXTENDS Broker

VARIABLES
    socket,     \* driver -> where its handleDriverWebSocket is
    offer,      \* driver -> requestedTrip and tripStatus of its page
    current,    \* rider -> the tripID its page holds, or NoTrip
    screen,     \* rider -> tripStatus and paymentSession of its page
    declined,   \* history: <<trip, driver>> for every decline sent
    cancelled   \* history: trips whose cancellation was posted

gatewayVars == <<socket, offer, current, screen, declined, cancelled>>
riderPages == <<current, screen, cancelled>>
driverPages == <<socket, offer, declined>>

BlankScreen == [status |-> "none", session |-> 0]
NoOffer == [trip |-> NoTrip, status |-> "none"]

GatewayInit ==
    /\ socket = [d \in Drivers |-> "new"]
    /\ offer = [d \in Drivers |-> NoOffer]
    /\ current = [u \in Riders |-> NoTrip]
    /\ screen = [u \in Riders |-> BlankScreen]
    /\ declined = {}
    /\ cancelled = {}

-----------------------------------------------------------------------------
\* The driver's websocket handler: Add, RegisterDriver, the read loop, and its
\* deferred Remove and UnRegisterDriver.
AddDriver(d) ==
    /\ socket[d] = "new"
    /\ socket' = [socket EXCEPT ![d] = "added"]
    /\ UNCHANGED <<offer, declined, riderPages>>

\* The answer is then pushed to the page and hides a request that was quicker; here
\* its driver leaves it alone.
DriverRegistered(d) ==
    /\ socket[d] = "added"
    /\ socket' = [socket EXCEPT ![d] = "open"]
    /\ UNCHANGED <<offer, declined, riderPages>>

\* The loop ends, or RegisterDriver failed: the connection is removed first.
RemoveDriver(d) ==
    /\ socket[d] = "open"
    /\ socket' = [socket EXCEPT ![d] = "removed"]
    /\ UNCHANGED <<offer, declined, riderPages>>

RegisterFails(d) ==
    /\ socket[d] = "added"
    /\ socket' = [socket EXCEPT ![d] = "removed"]
    /\ UNCHANGED <<offer, declined, riderPages>>

\* UnRegisterDriver was answered, or failed and was logged.
DriverGone(d) ==
    /\ socket[d] = "removed"
    /\ socket' = [socket EXCEPT ![d] = "gone"]
    /\ UNCHANGED <<offer, declined, riderPages>>

-----------------------------------------------------------------------------
Connected(d) == socket[d] \in {"added", "open"}

\* What a queue consumer pushes to a driver's page: a request replaces whatever
\* the page shows, a cancellation clears it.
ShowRequest ==
    LET q == "driver_cmd_trip_request"
        m == Head(queues[q])
    IN  /\ queues[q] # <<>>
        /\ Pop(q)
        /\ offer' = IF Connected(m.owner)
                    THEN [offer EXCEPT ![m.owner] =
                            [trip |-> m.body.trip, user |-> m.body.user,
                             status |-> "request"]]
                    ELSE offer
        /\ UNCHANGED <<socket, declined, riderPages, unacked, faults>>

ShowWithdrawn ==
    LET q == "driver_cmd_trip_cancelled"
        d == Head(queues[q]).owner
    IN  /\ queues[q] # <<>>
        /\ Pop(q)
        /\ offer' = IF Connected(d)
                    THEN [offer EXCEPT ![d] = [trip |-> NoTrip, status |-> "cancelled"]]
                    ELSE offer
        /\ UNCHANGED <<socket, declined, riderPages, unacked, faults>>

\* The driver presses a button; the gateway forwards the frame as it is.
MayAnswer(d) == socket[d] = "open" /\ offer[d].status = "request"

Answer(d, key) ==
    Message(key, d, [trip |-> offer[d].trip, user |-> offer[d].user, driver |-> d])

SendAccept(d) ==
    /\ MayAnswer(d)
    /\ Publish(Answer(d, "driver.cmd.trip_accept"))
    /\ offer' = [offer EXCEPT ![d].status = "accepted"]
    /\ UNCHANGED <<socket, declined, riderPages, unacked, faults>>

\* Mutant: the request stays on the page that declined it.
SendDeclineStays(d) ==
    /\ MayAnswer(d)
    /\ Publish(Answer(d, "driver.cmd.trip_decline"))
    /\ declined' = declined \cup {<<offer[d].trip, d>>}
    /\ UNCHANGED <<socket, offer, riderPages, unacked, faults>>

SendDecline(d) ==
    /\ MayAnswer(d)
    /\ Publish(Answer(d, "driver.cmd.trip_decline"))
    /\ offer' = [offer EXCEPT ![d] = NoOffer]
    /\ declined' = declined \cup {<<offer[d].trip, d>>}
    /\ UNCHANGED <<socket, riderPages, unacked, faults>>

\* The gateway's publish fails: it is logged, the page shows its answer as sent.
AnswerLost(d) ==
    /\ MayAnswer(d)
    /\ Fault
    /\ offer' \in {[offer EXCEPT ![d].status = "accepted"], [offer EXCEPT ![d] = NoOffer]}
    /\ UNCHANGED <<socket, declined, riderPages, queues, unacked>>

-----------------------------------------------------------------------------
\* The rider's page offers the packages while it has no trip and no status.
MayStart(u) == current[u] = NoTrip /\ screen[u].status = "none"

\* POST /trip/start was answered with the trip's id.
LearnTrip(u, t) ==
    /\ current' = [current EXCEPT ![u] = t]
    /\ UNCHANGED <<screen, cancelled, driverPages>>

RiderQueues == {"notify_trip_created", "notify_no_drivers_found",
    "notify_driver_assigned", "notify_payment_session_created",
    "notify_payment_success_gateway"}

\* Mutant: a notice goes to every connected rider.
ShowEveryRider(q) ==
    LET m == Head(queues[q])
    IN  /\ queues[q] # <<>>
        /\ Pop(q)
        /\ screen' = [u \in Riders |->
                [status |-> m.key,
                 session |-> IF m.key = "payment.event.session_created"
                             THEN m.body.session ELSE screen[u].session]]
        /\ UNCHANGED <<current, cancelled, driverPages, unacked, faults>>

\* Each of the five queues has a consumer of its own; the page's status is the
\* type of the message that came last.
ShowRider(q) ==
    LET m == Head(queues[q])
    IN  /\ queues[q] # <<>>
        /\ Pop(q)
        /\ screen' = [screen EXCEPT ![m.owner] =
                [status |-> m.key,
                 session |-> IF m.key = "payment.event.session_created"
                             THEN m.body.session ELSE @.session]]
        /\ UNCHANGED <<current, cancelled, driverPages, unacked, faults>>

\* The screens with a button that ends in handleCancelTrip.
MayCancel(u) ==
    screen[u].status \in {"trip.event.created", "trip.event.no_drivers_found",
                          "trip.event.driver_assigned", "payment.event.success"}

LeaveTrip(u) ==
    /\ current' = [current EXCEPT ![u] = NoTrip]
    /\ screen' = [screen EXCEPT ![u] = BlankScreen]

\* POST /trip/cancel, when the page knows the trip's id; then it forgets it.
CancelTrip(u) ==
    /\ MayCancel(u)
    /\ current[u] # NoTrip
    /\ LeaveTrip(u)
    /\ cancelled' = cancelled \cup {current[u]}
    /\ Publish(Message("trip.event.cancelled", u, [trip |-> current[u], user |-> u]))
    /\ UNCHANGED <<driverPages, unacked, faults>>

CancelFails(u) ==
    /\ MayCancel(u)
    /\ current[u] # NoTrip
    /\ LeaveTrip(u)
    /\ Fault
    /\ UNCHANGED <<cancelled, driverPages, queues, unacked>>

\* The button is pressed before the id arrived: nothing is posted.
CancelUnknown(u) ==
    /\ MayCancel(u)
    /\ current[u] = NoTrip
    /\ LeaveTrip(u)
    /\ UNCHANGED <<cancelled, driverPages, brokerVars>>

\* Back from Stripe's page: reloaded with ?payment=success.
ReturnFromCheckout(u) ==
    /\ screen' = [screen EXCEPT ![u] = [status |-> "payment.event.success", session |-> 0]]
    /\ UNCHANGED <<current, cancelled, driverPages>>

=============================================================================
