--------------------------- MODULE AmqpConnection ----------------------------
(***************************************************************************)
(* One process's RabbitMQ struct and the broker at its other end. What the  *)
(* process writes (publishes, acks, nacks, the closing handshake) travels    *)
(* in order and unconfirmed; a broken connection loses what has not arrived, *)
(* and the process notices later. The broker puts back what was not          *)
(* acknowledged. Nothing dials a second time: a lost connection stays lost.  *)
(* A new process dials when the broker is done with the old connection.      *)
(***************************************************************************)
EXTENDS Naturals, Sequences

CONSTANTS
    Queues,         \* the queues the process consumes
    Inbox,          \* queue -> the messages that are sent to it
    MaxFaults       \* bound on lost connections, failing calls and kills

Members(s) == {s[i] : i \in DOMAIN s}
Messages == UNION {Members(Inbox[q]) : q \in Queues}

\* What a handler publishes is named after the message it answers; the message
\* that tells a rider his driver comes before the other one about an acceptance.
Assigned(m) == <<"driver_assigned", m>>
Answers == Messages \cup {Assigned(m) : m \in Messages}

\* Every message is sent to one queue, once.
ASSUME ConnectionAssumption ==
    /\ MaxFaults \in Nat
    /\ Inbox \in [Queues -> Seq(Messages)]
    /\ \A q, r \in Queues : \A i \in DOMAIN Inbox[q], j \in DOMAIN Inbox[r] :
        Inbox[q][i] = Inbox[r][j] => q = r /\ i = j

VARIABLES
    waiting,        \* queue -> messages the broker has not handed out
    unacked,        \* queue -> <<>> or the delivery that awaits its ack
    link,           \* the connection, seen by the broker
    wire,           \* frames under way to the broker
    channel,        \* rmq.Channel, seen by the process
    arrived,        \* what the exchange has been given
    dropped,        \* history: events a broken connection lost, except answers,
                    \* whose message comes again
    faults

brokerSide == <<waiting, unacked, arrived, dropped>>
connection == <<brokerSide, link, wire, channel, faults>>

ConnectionInit ==
    /\ waiting = Inbox
    /\ unacked = [q \in Queues |-> <<>>]
    /\ link = "none" /\ channel = "none"
    /\ wire = <<>>
    /\ arrived = {} /\ dropped = {}
    /\ faults = 0

Fault == faults < MaxFaults /\ faults' = faults + 1

-----------------------------------------------------------------------------
\* NewRabbitMQ: dial, open the channel, declare exchange, queues and bindings.
\* Queues are durable and declared by whoever came first: they hold Inbox.
Dial ==
    /\ link = "none"
    /\ link' = "up"
    /\ channel' = "open"
    /\ UNCHANGED <<brokerSide, wire>>

\* A frame is written; on a connection that is lost it is lost as well.
Write(f) ==
    /\ wire' = IF link = "up" THEN Append(wire, f) ELSE wire
    /\ dropped' = IF link # "up" /\ f.kind = "publish"
                  THEN dropped \cup ({f.item} \ Answers) ELSE dropped
    /\ UNCHANGED <<waiting, unacked, arrived, link, channel>>

Frame(kind, item) == [kind |-> kind, item |-> item]

\* Whether the broker still answers a synchronous call, basic.consume for one.
Reachable ==
    /\ channel = "open" /\ link = "up"
    /\ \A i \in DOMAIN wire : wire[i].kind # "close"

\* PublishMessage: no confirm is asked for.
PublishMessage(x) == channel = "open" /\ Write(Frame("publish", x))

\* d.Ack and d.Nack: without a channel they fail, and the failure is logged.
Acknowledge(kind, q) ==
    \/ channel = "open" /\ Write(Frame(kind, q))
    \/ channel # "open" /\ UNCHANGED <<brokerSide, link, wire, channel>>

PutBack ==
    /\ waiting' = [q \in Queues |-> unacked[q] \o waiting[q]]
    /\ unacked' = [q \in Queues |-> <<>>]

\* The broker handles the next frame. After "close" it reads no further.
BrokerReads ==
    /\ link = "up" /\ wire # <<>>
    /\ LET f == Head(wire)
       IN  /\ wire' = IF f.kind = "close" THEN <<>> ELSE Tail(wire)
           /\ arrived' = IF f.kind = "publish" THEN arrived \cup {f.item} ELSE arrived
           /\ CASE f.kind = "close" ->
                    PutBack /\ link' = IF channel = "none" THEN "none" ELSE "closed"
                [] f.kind \in {"ack", "nack"} ->
                    /\ unacked' = [unacked EXCEPT ![f.item] = <<>>]
                    /\ UNCHANGED <<waiting, link>>
                [] f.kind = "publish" -> UNCHANGED <<waiting, unacked, link>>
    /\ UNCHANGED <<channel, dropped, faults>>

Published(frames) == {frames[i].item : i \in {i \in DOMAIN frames : frames[i].kind = "publish"}}

\* The connection breaks.
LinkBreaks ==
    /\ link = "up"
    /\ Fault
    /\ PutBack
    /\ link' = "lost"
    /\ wire' = <<>>
    /\ dropped' = dropped \cup (Published(wire) \ Answers)
    /\ UNCHANGED <<channel, arrived>>

\* The library's reader finds out and closes the channel.
NoticeLoss ==
    /\ link = "lost" /\ channel = "open"
    /\ channel' = "closed"
    /\ UNCHANGED <<brokerSide, link, wire, faults>>

\* The process is gone: the broker reads what was written, then the end.
BrokerSeesEnd ==
    /\ channel = "none" /\ link = "up" /\ wire = <<>>
    /\ PutBack
    /\ link' = "none"
    /\ UNCHANGED <<wire, channel, arrived, dropped, faults>>

\* What becomes of the connection when its process ends.
Abandon ==
    /\ channel' = "none"
    /\ link' = IF link = "up" THEN "up" ELSE "none"

\* rabbitmq.Close: the handshake starts, or there is nothing to close any more.
StartClose == channel = "open" /\ Write(Frame("close", "close"))

\* ... and ends when the broker has answered or the connection was lost.
EndClose ==
    /\ link # "up"
    /\ channel' = "closed"
    /\ UNCHANGED <<brokerSide, link, wire>>

-----------------------------------------------------------------------------
\* What is still going to arrive unless the connection breaks.
UnderWay ==
    LET closes == {i \in DOMAIN wire : wire[i].kind = "close"}
    IN  {wire[i].item : i \in {i \in DOMAIN wire :
            wire[i].kind = "publish" /\ \A j \in closes : i < j}}

=============================================================================
