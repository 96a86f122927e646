-------------------------- MODULE ProcessesInvariant --------------------------
(***************************************************************************)
(* The inductive invariant behind the safety theorems of Processes: what is *)
(* on the wire when, what a stop has waited for, and where each message of a *)
(* manual-ack queue is between the broker's queue and its acknowledgement.   *)
(***************************************************************************)
EXTENDS Processes

Handling == {"working", "stored", "assigned", "answered", "failed"}

Frames ==
    [kind : {"publish"}, item : Answers \cup Calls \cup Requests]
    \cup [kind : {"ack", "nack"}, item : Queues]
    \cup [kind : {"close"}, item : {"close"}]

TypesInv ==
    /\ TypeOK
    /\ service \in Services \cup {"gateway"}
    /\ waiting \in [Queues -> Seq(Messages)]
    /\ unacked \in [Queues -> Seq(Messages)]
    /\ held \in [Queues -> Seq(Messages)]
    /\ wire \in Seq(Frames)
    /\ consumer \in [Queues -> Handling \cup {"off", "starting", "idle", "over"}]
    /\ request \in [Requests -> [pc : {"new", "call", "publish", "refused", "done"},
                                 endpoint : {"none", "preview", "start", "cancel", "webhook"},
                                 body : Bodies \cup {NoBody},
                                 code : {0, 200, 201, 400, 500}]]

-----------------------------------------------------------------------------
Before == {"down", "listen", "mongo", "dial"}       \* main has no connection yet
After == {"close", "closing", "closed", "exit"}     \* main has waited and returns

\* The connection and main agree; after the last frame comes nothing that is read.
LinkInv ==
    /\ link # "up" => wire = <<>>
    /\ link = "lost" => faults > 0
    /\ channel = "none" <=> main \in Before
    /\ main # "down" => starts > 0
    /\ channel = "closed" => link # "up" /\ (faults > 0 \/ main \in {"closed", "exit"})
    /\ main \in {"closed", "exit"} => link # "up"
    /\ \A i \in DOMAIN wire : wire[i].kind = "close" => main \in Before \cup {"closing"}

\* Goroutines run while main has a connection, and a stop leaves no call behind.
CallsInv ==
    /\ \A q \in Queues : consumer[q] # "off" => main \notin Before /\ q \in Consumes(service)
    /\ server = "serving" => main = "wait"
    /\ main \in Before \/ service \in {"payment", "gateway"} => server = "off"
    /\ mongo = "gone" => main = "exit" /\ service \in Services
    /\ lis = "nil" => faults > 0
    /\ \A c \in Calls : Running(c) => server \in {"serving", "stopped"} /\ main \notin After

\* Nor a request, but one that took too long.
RequestsInv ==
    /\ http = "serving" => main = "wait" /\ service = "gateway"
    /\ \A r \in Requests : Handled(r) =>
        /\ service = "gateway"
        /\ main \in {"wait", "shutdown"} \cup After
        /\ main \in After => cut \/ faults > 0
        /\ request[r].endpoint = "preview" => ~Panics(r) \/ ~target

-----------------------------------------------------------------------------
\* What the broker still has of a queue, oldest first.
Backlog(q) == unacked[q] \o waiting[q]

Done(q, m) == m \in failed \/ Settled(q, m) \/ CutShort(q, m)

Acks(q) == {i \in DOMAIN wire : wire[i].kind \in {"ack", "nack"} /\ wire[i].item = q}

\* Each message is once in the backlog until it is dealt with.
BacklogInv(q) ==
    /\ \A i, j \in DOMAIN Backlog(q) : Backlog(q)[i] = Backlog(q)[j] => i = j
    /\ Members(Backlog(q)) \subseteq Members(Inbox[q])
    /\ \A m \in Members(Inbox[q]) : m \in Members(Backlog(q)) \/ Done(q, m)

\* x has reached the exchange or is on its way to it; and that before frame i.
Sent(x) == x \in arrived \/ \E j \in DOMAIN wire : wire[j] = Frame("publish", x)

SentBefore(x, i) ==
    x \in arrived \/ \E j \in DOMAIN wire : j < i /\ wire[j] = Frame("publish", x)

\* The message a handler works on is the one the broker waits for, as long as
\* they are connected, and it has come as far as the handler has.
HandlerInv(q) ==
    held[q] # <<>> /\ link = "up" =>
        LET m == Delivery(q)
        IN  /\ unacked[q] = held[q] /\ Acks(q) = {}
            /\ consumer[q] = "working" => m \notin stored \/ starts > 1
            /\ consumer[q] = "stored" /\ q = "payment_success" => m \in stored
            /\ consumer[q] = "assigned" => Accepts(q, m) /\ Sent(Assigned(m))
            /\ consumer[q] = "answered" =>
                Done(q, m) \/ (q # "payment_success" /\ \A x \in Owes(q, m) : Sent(x))
            /\ consumer[q] = "failed" => Done(q, m)

\* An acknowledgement on its way is for what the broker waits for, is the only
\* one, and the answer is ahead of it.
AcksInv(q) ==
    /\ \A i, j \in Acks(q) : i = j
    /\ \A i \in Acks(q) :
        LET m == Head(unacked[q])
        IN  /\ unacked[q] # <<>>
            /\ \/ Done(q, m)
               \/ q # "payment_success" /\ \A x \in Owes(q, m) : SentBefore(x, i)

\* The first process has not seen what is still waiting for it, and no process
\* before it has forgotten anything.
FreshInv ==
    /\ main \in Before /\ starts <= 1 =>
        stored = {} \/ (main = "down" /\ starts = 1)
    /\ link = "up" /\ starts <= 1 => \A q \in Consumes(service) :
        stored \cap Members(waiting[q]) = {}
    /\ starts = 0 \/ (starts = 1 /\ main # "down") => forgotten = {}

DeliveryInv ==
    /\ \A i \in DOMAIN wire :
        wire[i].kind \in {"ack", "nack"} => wire[i].item \in Consumes(service)
    /\ \A q \in Consumes(service) : BacklogInv(q) /\ HandlerInv(q) /\ AcksInv(q)
    /\ FreshInv

-----------------------------------------------------------------------------
\* Notice a is ahead of notice b in the gateway's queue.
Precedes(a, b) ==
    \E k, l \in DOMAIN Inbox[Notices] :
        k < l /\ a = Inbox[Notices][k] /\ b = Inbox[Notices][l]

InOrder(s) == \A i, j \in DOMAIN s : i < j => Precedes(s[i], s[j])
AheadOf(s, t) == \A i \in DOMAIN s, j \in DOMAIN t : Precedes(s[i], t[j])

\* What the connection manager was given, what the gateway has taken and what
\* the broker still has of the queue: in order, and each ahead of the next.
NoticesInv ==
    IF service = "gateway"
    THEN /\ unacked[Notices] = <<>>
         /\ pushed \in Seq(Messages) /\ buffer \in Seq(Messages)
         /\ InOrder(pushed) /\ InOrder(buffer) /\ InOrder(waiting[Notices])
         /\ AheadOf(pushed, buffer)
         /\ AheadOf(pushed, waiting[Notices]) /\ AheadOf(buffer, waiting[Notices])
    ELSE pushed = <<>>

\* Nobody drives for a process that is down, and nobody is registered before
\* the first one; what its handlers leave behind they leave unregistered.
VisitorsInv ==
    /\ driving \in [Visitors -> {"out", "added", "open", "leaving"}]
    /\ main = "down" \/ service # "gateway" => \A d \in Visitors : driving[d] = "out"
    /\ starts = 0 \/ service # "gateway" => registered = {}
    /\ LeaversAreUnregistered

-----------------------------------------------------------------------------
IInv ==
    /\ TypesInv
    /\ LinkInv /\ CallsInv /\ RequestsInv
    /\ DeliveryInv
    /\ ConfirmedIsPublished /\ StopsAreGraceful
    /\ NoticesInv /\ VisitorsInv

=============================================================================
