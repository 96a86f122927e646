--------------------------- MODULE PaymentService ---------------------------
(***************************************************************************)
(* services/payment-service: the payment_trip_response consumer, which      *)
(* opens a Stripe checkout session and announces it, and Stripe itself as   *)
(* the services see it: sessions that get paid, and a webhook event that is *)
(* delivered at least once.                                                 *)
(***************************************************************************)
EXTENDS Broker

CONSTANTS
    MaxSessions,    \* bound on the checkout sessions
    MaxWebhooks     \* bound on the deliveries of one session's event

ASSUME PaymentAssumption == MaxSessions \in Nat /\ MaxWebhooks \in Nat

VARIABLES
    sessions,   \* Stripe's checkout sessions, in the order of creation
    charging    \* pc of the payment_trip_response handler

paymentVars == <<sessions, charging>>

PaymentInit ==
    /\ sessions = <<>>
    /\ charging = "idle"

\* int64 of a price in tenths of a cent.
Cents(price) == price \div 10

-----------------------------------------------------------------------------
\* handleTripAccepted: no idempotency key, every delivery opens a session.
CreateSession ==
    LET q == "payment_trip_response"
        data == Head(queues[q]).body
    IN  /\ Ready(q)
        /\ Len(sessions) < MaxSessions
        /\ sessions' = Append(sessions,
                [trip |-> data.trip, user |-> data.user, driver |-> data.driver,
                 amount |-> Cents(data.amount), state |-> "open", webhooks |-> 0])
        /\ charging' = "created"
        /\ Deliver(q)
        /\ UNCHANGED faults

\* Only this consumer creates sessions: its session is the last one.
PublishSessionCreated ==
    LET m == Handling("payment_trip_response")
    IN  /\ charging = "created"
        /\ Publish(Message("payment.event.session_created", m.body.user,
                           [trip |-> m.body.trip, session |-> Len(sessions)]))
        /\ charging' = "done"
        /\ UNCHANGED <<sessions, unacked, faults>>

\* Mutant: a command that was carried out goes back to its queue.
AckChargedRequeues ==
    /\ charging = "done"
    /\ Requeue({"payment_trip_response"})
    /\ charging' = "idle"
    /\ UNCHANGED <<sessions, faults>>

AckCharged ==
    /\ charging = "done"
    /\ Settle("payment_trip_response")
    /\ charging' = "idle"
    /\ UNCHANGED <<sessions, queues, faults>>

\* The publish fails: the session exists and nobody knows it.
ChargeFails ==
    /\ charging = "created"
    /\ Fault
    /\ Settle("payment_trip_response")
    /\ charging' = "idle"
    /\ UNCHANGED <<sessions, queues>>

RejectPaymentMessage ==
    /\ Reject("payment_trip_response")
    /\ UNCHANGED paymentVars

PaymentServiceCrash ==
    /\ Fault
    /\ Requeue({"payment_trip_response"})
    /\ charging' = "idle"
    /\ UNCHANGED sessions

-----------------------------------------------------------------------------
\* Stripe takes the money.
CompleteCheckout(i) ==
    /\ sessions[i].state = "open"
    /\ sessions' = [sessions EXCEPT ![i].state = "paid"]
    /\ UNCHANGED charging

\* Mutant: the webhook does not look at the event's type.
StripeWebhookAnyEvent(i) ==
    /\ sessions[i].webhooks < MaxWebhooks
    /\ sessions' = [sessions EXCEPT ![i].webhooks = @ + 1]
    /\ Publish(Message("payment.event.success", sessions[i].user,
                       [trip |-> sessions[i].trip]))
    /\ UNCHANGED <<charging, unacked, faults>>

\* Stripe delivers checkout.session.completed and handleStripeWebhook publishes
\* the payment, from the session's metadata. A failing publish answers 500 and
\* Stripe delivers again, as it may do after a success.
StripeWebhook(i) ==
    /\ sessions[i].state = "paid"
    /\ sessions[i].webhooks < MaxWebhooks
    /\ sessions' = [sessions EXCEPT ![i].webhooks = @ + 1]
    /\ Publish(Message("payment.event.success", sessions[i].user,
                       [trip |-> sessions[i].trip]))
    /\ UNCHANGED <<charging, unacked, faults>>

ChargeHandler == CreateSession \/ PublishSessionCreated \/ AckCharged

PaymentServiceFailure == ChargeFails \/ RejectPaymentMessage \/ PaymentServiceCrash

=============================================================================
