--------------------------- MODULE ProcessesProofs ----------------------------
(***************************************************************************)
(* For any queues, messages, calls, requests, drivers and any number of     *)
(* faults and starts: no stop, crash or lost connection loses what it must   *)
(* not lose. The inductive invariant is in ProcessesInvariant.              *)
(***************************************************************************)
EXTENDS ProcessesInvariant, SequenceTheorems, TLAPS

-----------------------------------------------------------------------------
(* The wire. *)

\* Writing adds one frame at the end, if there is a connection.
LEMMA WriteWire ==
    ASSUME wire \in Seq(Frames), NEW f \in Frames, Write(f)
    PROVE  /\ wire' \in Seq(Frames)
           /\ \A i \in DOMAIN wire : i \in DOMAIN wire' /\ wire'[i] = wire[i]
           /\ \A i \in DOMAIN wire' :
                \/ i \in DOMAIN wire /\ wire'[i] = wire[i]
                \/ i = Len(wire) + 1 /\ wire'[i] = f /\ link = "up"
           /\ link = "up" => Len(wire) + 1 \in DOMAIN wire' /\ wire'[Len(wire) + 1] = f
           /\ DOMAIN wire = 1..Len(wire) /\ Len(wire) \in Nat
<1>1. CASE link = "up"
    <2>1. wire' = Append(wire, f)
        BY <1>1 DEF Write
    <2> QED
        BY <1>1, <2>1, AppendProperties, LenProperties
<1>2. CASE link # "up"
    BY <1>2, LenProperties DEF Write
<1> QED
    BY <1>1, <1>2

\* Reading takes the first one.
LEMMA TailWire ==
    ASSUME wire \in Seq(Frames), wire # <<>>, wire' = Tail(wire)
    PROVE  /\ wire' \in Seq(Frames)
           /\ 1 \in DOMAIN wire /\ Head(wire) = wire[1] /\ Head(wire) \in Frames
           /\ \A i \in DOMAIN wire' : i \in Nat /\ i + 1 \in DOMAIN wire /\ wire'[i] = wire[i + 1]
           /\ \A i \in DOMAIN wire : i # 1 => i - 1 \in DOMAIN wire' /\ wire'[i - 1] = wire[i]
           /\ DOMAIN wire \subseteq Nat
<1>1. /\ wire' \in Seq(Frames) /\ Len(wire) \in Nat \ {0}
      /\ DOMAIN wire = 1..Len(wire) /\ DOMAIN wire' = 1..(Len(wire) - 1)
      /\ \A i \in 1..(Len(wire) - 1) : wire'[i] = wire[i + 1]
    BY HeadTailProperties, LenProperties, EmptySeq
<1>2. Head(wire) = wire[1] /\ Head(wire) \in Frames
    BY HeadTailProperties, ElementOfSeq, <1>1
<1> QED
    BY <1>1, <1>2

\* A sequence of at most one element.
LEMMA OneElement ==
    ASSUME NEW S, NEW s \in Seq(S), s # <<>>, Len(s) <= 1
    PROVE  Head(s) \in S /\ s = <<Head(s)>> /\ Len(s) = 1
<1>1. Len(s) \in Nat /\ Len(s) # 0
    BY EmptySeq
<1>2. Len(s) = 1
    BY <1>1
<1>3. s \in [1..1 -> S] /\ Head(s) = s[1]
    BY <1>2, LenProperties, HeadTailProperties
<1>4. <<Head(s)>> \in Seq(S) /\ Len(<<Head(s)>>) = 1 /\ <<Head(s)>>[1] = Head(s)
    BY <1>3
<1> QED
    BY <1>2, <1>3, <1>4, SeqEqual

\* What a handler works on.
LEMMA DeliveryIsMessage ==
    ASSUME TypesInv, NEW q \in Queues, held[q] # <<>>
    PROVE  Delivery(q) \in Messages /\ held[q] = <<Delivery(q)>> /\ Len(held[q]) = 1
BY OneElement DEF TypesInv, TypeOK, Delivery

\* What the broker does with the frame it reads.
LEMMA ReadCases ==
    ASSUME wire \in Seq(Frames), BrokerReads
    PROVE  LET f == Head(wire)
           IN  /\ wire # <<>> /\ link = "up" /\ f \in Frames
               /\ UNCHANGED <<channel, dropped, faults>>
               /\ \/ /\ f.kind = "close" /\ wire' = <<>> /\ arrived' = arrived
                     /\ PutBack /\ link' = IF channel = "none" THEN "none" ELSE "closed"
                  \/ /\ f.kind \in {"ack", "nack"} /\ wire' = Tail(wire) /\ arrived' = arrived
                     /\ unacked' = [unacked EXCEPT ![f.item] = <<>>]
                     /\ UNCHANGED <<waiting, link>>
                  \/ /\ f.kind = "publish" /\ wire' = Tail(wire)
                     /\ arrived' = arrived \cup {f.item}
                     /\ UNCHANGED <<waiting, unacked, link>>
<1> DEFINE f == Head(wire)
<1>1. f \in Frames
    BY HeadTailProperties DEF BrokerReads
<1>2. f.kind \in {"publish", "ack", "nack", "close"}
    BY <1>1 DEF Frames
<1> HIDE DEF f
<1>3. /\ wire # <<>> /\ link = "up"
      /\ wire' = IF f.kind = "close" THEN <<>> ELSE Tail(wire)
      /\ arrived' = IF f.kind = "publish" THEN arrived \cup {f.item} ELSE arrived
      /\ UNCHANGED <<channel, dropped, faults>>
    BY DEF BrokerReads, f
<1>4. f.kind = "close" => PutBack /\ link' = IF channel = "none" THEN "none" ELSE "closed"
    BY DEF BrokerReads, f
<1>5. f.kind \in {"ack", "nack"} =>
        unacked' = [unacked EXCEPT ![f.item] = <<>>] /\ UNCHANGED <<waiting, link>>
    BY DEF BrokerReads, f
<1>6. f.kind = "publish" => UNCHANGED <<waiting, unacked, link>>
    BY DEF BrokerReads, f
<1> QED
    BY <1>1, <1>2, <1>3, <1>4, <1>5, <1>6 DEF f

-----------------------------------------------------------------------------
(* What the steps of the handlers have in common. *)

\* A consumer's handler makes its effect, or publishes; an RPC goes on.
Effecting(q) == Store(q) \/ Withdraw(q) \/ StoreFails(q)
Replying(q) == PublishAssigned(q) \/ Answer(q) \/ AnswerFails(q)
Calling(c) == AcceptCall(c) \/ RouteArrives(c) \/ RouteFails(c) \/ CallHandler(c)

CallStates == {"none", "running", "stored", "ok", "routing", "saving", "quoted", "error"}

LEMMA ConsumerSteps ==
    ASSUME NEW q, Consumer(q)
    PROVE  \/ StartConsumer(q) \/ Receive(q) \/ Effecting(q) \/ Replying(q)
           \/ Settle(q) \/ LoopEnds(q)
BY DEF Consumer, Effecting, Replying

LEMMA EffectFrame ==
    ASSUME NEW q, Effecting(q)
    PROVE  /\ UNCHANGED <<waiting, unacked, arrived, dropped, wire, link, channel>>
           /\ UNCHANGED <<held, rpc, inside, process, forgotten>>
           /\ consumer[q] \in {"working", "stored"}
           /\ \E pc \in {"stored", "answered", "failed"} :
                consumer' = [consumer EXCEPT ![q] = pc]
           /\ faults' = faults \/ Fault
           /\ stored \subseteq stored' /\ stored' \subseteq stored \cup {Delivery(q)}
           /\ failed \subseteq failed' /\ unowed \subseteq unowed'
<1> USE DEF To, connection, brokerSide, recalls
<1>1. CASE Store(q)
    BY <1>1 DEF Store
<1>2. CASE Withdraw(q)
    BY <1>2 DEF Withdraw
<1>3. CASE StoreFails(q)
    BY <1>3 DEF StoreFails
<1> QED
    BY <1>1, <1>2, <1>3 DEF Effecting

LEMMA ReplyFrame ==
    ASSUME NEW q, Replying(q)
    PROVE  /\ UNCHANGED <<waiting, unacked, arrived, link, channel, faults>>
           /\ UNCHANGED <<held, effects, inside, process>>
           /\ consumer[q] \in {"stored", "assigned"}
           /\ \E pc \in {"assigned", "answered", "failed"} :
                consumer' = [consumer EXCEPT ![q] = pc]
           /\ \/ \E x \in {Delivery(q), Assigned(Delivery(q))} : PublishMessage(x)
              \/ UNCHANGED <<wire, dropped>>
<1> USE DEF To, connection, brokerSide
<1>0. \A x : PublishMessage(x) => UNCHANGED <<waiting, unacked, arrived, link, channel>>
    BY DEF PublishMessage, Write
<1>1. CASE PublishAssigned(q)
    BY <1>0, <1>1 DEF PublishAssigned
<1>2. CASE Answer(q)
    BY <1>0, <1>2 DEF Answer
<1>3. CASE AnswerFails(q)
    BY <1>3 DEF AnswerFails
<1> QED
    BY <1>1, <1>2, <1>3 DEF Replying

\* What a handler publishes is an answer.
LEMMA ReplyWrite ==
    ASSUME TypesInv, NEW q \in Queues, Replying(q)
    PROVE  \/ \E f \in Frames : f.kind = "publish" /\ f.item \in Answers /\ Write(f)
           \/ UNCHANGED <<wire, dropped>>
<1>1. held[q] # <<>>
    BY ReplyFrame DEF TypesInv, TypeOK
<1>2. Delivery(q) \in Answers /\ Assigned(Delivery(q)) \in Answers
    BY <1>1, DeliveryIsMessage DEF Answers
<1>3. \A x \in Answers : LET f == Frame("publish", x)
                         IN  f \in Frames /\ f.kind = "publish" /\ f.item = x
    BY DEF Frame, Frames
<1> QED
    BY <1>2, <1>3, ReplyFrame DEF PublishMessage

\* An RPC's step ends the process, or moves that RPC alone.
LEMMA CallFrame ==
    ASSUME TypesInv, NEW c \in Calls, Calling(c)
    PROVE  \/ ServiceEnds /\ Fault
           \/ /\ UNCHANGED <<inside, work, stored, failed, recalls, process>>
              /\ UNCHANGED <<waiting, unacked, arrived, link, channel>>
              /\ \E o \in CallStates : rpc' = [rpc EXCEPT ![c] = o]
              /\ \/ PublishMessage(c) /\ UNCHANGED faults
                 \/ UNCHANGED <<wire, dropped>> /\ (faults' = faults \/ Fault)
<1> USE DEF connection, brokerSide, CallStates
<1>1. CASE AcceptCall(c)
    BY <1>1 DEF AcceptCall
<1>2. CASE RouteArrives(c) \/ RouteFails(c)
    BY <1>2 DEF RouteArrives, RouteFails
<1>3. CASE StoreCall(c)
    BY <1>3 DEF StoreCall
<1>4. CASE PublishCall(c)
    BY <1>4 DEF PublishCall, PublishMessage, Write
<1> QED
    BY <1>1, <1>2, <1>3, <1>4 DEF Calling, CallHandler

-----------------------------------------------------------------------------
(* Types. *)

LEMMA PutBackTypes ==
    ASSUME TypesInv, PutBack
    PROVE  /\ waiting' \in [Queues -> Seq(Messages)] /\ unacked' \in [Queues -> Seq(Messages)]
           /\ \A q \in Queues : unacked'[q] = <<>> /\ Len(unacked'[q]) = 0
<1>1. \A q \in Queues : unacked[q] \o waiting[q] \in Seq(Messages)
    BY ConcatProperties DEF TypesInv
<1>2. <<>> \in Seq(Messages) /\ Len(<<>>) = 0
    BY EmptySeq
<1> QED
    BY <1>1, <1>2 DEF PutBack

\* The connection's own types.
ConnTypes ==
    /\ link \in {"none", "up", "closed", "lost"}
    /\ channel \in {"none", "open", "closed"}
    /\ faults \in 0..MaxFaults
    /\ \A q \in Queues : Len(unacked[q]) <= 1
    /\ waiting \in [Queues -> Seq(Messages)]
    /\ unacked \in [Queues -> Seq(Messages)]
    /\ wire \in Seq(Frames)

LEMMA WriteTypes ==
    ASSUME TypesInv, NEW f \in Frames, Write(f), UNCHANGED faults
    PROVE  ConnTypes'
BY WriteWire DEF TypesInv, TypeOK, ConnTypes, Write

LEMMA NetworkTypes ==
    ASSUME TypesInv, Network
    PROVE  ConnTypes'
<1>0. ConnTypes /\ wire \in Seq(Frames)
    BY DEF TypesInv, TypeOK, ConnTypes
<1>1. CASE BrokerReads
    <2> DEFINE f == Head(wire)
    <2>1. Tail(wire) \in Seq(Frames) /\ <<>> \in Seq(Frames) /\ <<>> \in Seq(Messages) /\ Len(<<>>) = 0
        BY <1>0, <1>1, HeadTailProperties, EmptySeq DEF BrokerReads
    <2>2. CASE PutBack /\ wire' = <<>> /\ link' = IF channel = "none" THEN "none" ELSE "closed"
        BY <1>0, <1>1, <2>1, <2>2, PutBackTypes DEF BrokerReads, ConnTypes
    <2>3. CASE wire' = Tail(wire) /\ unacked' = [unacked EXCEPT ![f.item] = <<>>] /\ UNCHANGED <<waiting, link>>
        <3>1. unacked' \in [Queues -> Seq(Messages)]
            BY <1>0, <2>1, <2>3 DEF ConnTypes
        <3>2. \A q \in Queues : unacked'[q] = unacked[q] \/ unacked'[q] = <<>>
            BY <1>0, <2>3 DEF ConnTypes
        <3>3. \A q \in Queues : Len(unacked'[q]) <= 1
            BY <1>0, <2>1, <3>2 DEF ConnTypes
        <3> QED
            BY <1>0, <1>1, <2>1, <2>3, <3>1, <3>3 DEF BrokerReads, ConnTypes
    <2>4. CASE wire' = Tail(wire) /\ UNCHANGED <<waiting, unacked, link>>
        BY <1>0, <1>1, <2>1, <2>4 DEF BrokerReads, ConnTypes
    <2> QED
        BY <1>0, <1>1, <2>2, <2>3, <2>4, ReadCases
<1>2. CASE LinkBreaks
    <2>1. <<>> \in Seq(Frames)
        BY EmptySeq
    <2> QED
        BY <1>0, <1>2, <2>1, PutBackTypes, ConnectionAssumption DEF LinkBreaks, Fault, ConnTypes
<1>3. CASE NoticeLoss
    BY <1>0, <1>3 DEF NoticeLoss, ConnTypes, brokerSide
<1>4. CASE BrokerSeesEnd
    BY <1>0, <1>4, PutBackTypes DEF BrokerSeesEnd, ConnTypes
<1> QED
    BY <1>1, <1>2, <1>3, <1>4 DEF Network

LEMMA EndsTypes ==
    ASSUME TypesInv, Ends, faults' \in 0..MaxFaults
    PROVE  ConnTypes' /\ main' = "down" /\ UNCHANGED <<service, starts>>
BY DEF Ends, Abandon, brokerSide, TypesInv, TypeOK, ConnTypes

LEMMA CloseTypes ==
    ASSUME TypesInv, CloseBroker \/ BrokerClosed
    PROVE  ConnTypes' /\ main' \in {"closing", "closed"} /\ UNCHANGED <<service, starts>>
<1>1. Frame("close", "close") \in Frames
    BY DEF Frame, Frames
<1> USE DEF CloseBroker, BrokerClosed, Goto
<1>2. CASE StartClose /\ UNCHANGED faults
    BY <1>1, <1>2, WriteTypes DEF StartClose
<1>3. CASE EndClose /\ UNCHANGED faults
    BY <1>3 DEF EndClose, brokerSide, TypesInv, TypeOK, ConnTypes
<1>4. CASE UNCHANGED connection
    BY <1>4 DEF connection, brokerSide, TypesInv, TypeOK, ConnTypes
<1> QED
    BY <1>2, <1>3, <1>4

ProcTypes ==
    /\ main \in {"down", "listen", "mongo", "dial", "consume", "wait", "drain",
                 "shutdown", "close", "closing", "closed", "exit"}
    /\ starts \in 0..MaxStarts
    /\ service \in Services \cup {"gateway"}

WorkTypes ==
    /\ \A q \in Queues : Len(held[q]) <= 1
    /\ \A q \in Queues : held[q] # <<>> <=> consumer[q] \in {"working", "stored", "assigned", "answered", "failed"}
    /\ held \in [Queues -> Seq(Messages)]
    /\ consumer \in [Queues -> Handling \cup {"off", "starting", "idle", "over"}]
    /\ rpc \in [Calls -> CallStates]

RequestType ==
    [pc : {"new", "call", "publish", "refused", "done"},
     endpoint : {"none", "preview", "start", "cancel", "webhook"},
     body : Bodies \cup {NoBody},
     code : {0, 200, 201, 400, 500}]

GateTypes ==
    /\ request \in [Requests -> RequestType]
    /\ registered \subseteq Visitors

LEMMA TypesSplit ==
    TypesInv <=> ConnTypes /\ ProcTypes /\ WorkTypes /\ GateTypes
BY DEF TypesInv, TypeOK, ConnTypes, ProcTypes, WorkTypes, CallStates, GateTypes, RequestType

LEMMA TypesSplitNext ==
    ConnTypes' /\ ProcTypes' /\ WorkTypes' /\ GateTypes' => TypesInv'
BY DEF TypesInv, TypeOK, ConnTypes, ProcTypes, WorkTypes, CallStates, GateTypes, RequestType

\* What is left of the work of a process that ends.
LEMMA WorkEnds ==
    ASSUME WorkTypes, consumer' = [q \in Queues |-> "off"], held' = [q \in Queues |-> <<>>],
           rpc' = [c \in Calls |-> IF Running(c) THEN "error" ELSE rpc[c]]
    PROVE  WorkTypes'
<1>1. <<>> \in Seq(Messages) /\ Len(<<>>) = 0
    BY EmptySeq
<1> QED
    BY <1>1 DEF WorkTypes, CallStates

LEMMA ServiceEndsTypes ==
    ASSUME TypesInv, ServiceEnds, faults' \in 0..MaxFaults
    PROVE  ConnTypes' /\ ProcTypes' /\ WorkTypes'
BY EndsTypes, WorkEnds, TypesSplit DEF ServiceEnds, ProcTypes

\* Main, the server and the signals leave the work alone ...
LEMMA MainTypes ==
    ASSUME TypesInv, CallsInv,
           \/ Start \/ Listen \/ ConnectMongo \/ ConnectBroker \/ Stop \/ Drain
           \/ Close \/ Disconnect \/ Signal
    PROVE  ConnTypes' /\ ProcTypes' /\ WorkTypes'
<1>0. ConnTypes /\ ProcTypes /\ WorkTypes
    BY TypesSplit
<1> USE DEF Goto, work, effects
<1>1. CASE Start
    BY <1>0, <1>1, StartsAssumption DEF Start, Begin, serviceVars, connection, brokerSide,
        ConnTypes, ProcTypes, WorkTypes
<1>2. CASE Listen \/ ConnectMongo \/ Stop \/ Drain \/ Disconnect \/ Signal
    BY <1>0, <1>2 DEF Listen, ConnectMongo, Stop, Drain, Disconnect, Signal, serviceVars,
        connection, brokerSide, ConnTypes, ProcTypes, WorkTypes
<1>3. CASE ConnectBroker
    <2>1. ConnTypes' /\ ProcTypes'
        BY <1>0, <1>3 DEF ConnectBroker, DialBroker, Dial, brokerSide, ConnTypes, ProcTypes
    <2>2. \A q \in Queues : consumer[q] = "off"
        BY <1>3 DEF ConnectBroker, DialBroker, CallsInv, Before
    <2>3. \A q \in Queues : consumer'[q] \in {"starting", "off"} /\ held[q] = <<>>
        BY <1>0, <1>3, <2>2 DEF ConnectBroker, WorkTypes
    <2> QED
        BY <1>0, <1>3, <2>1, <2>3 DEF ConnectBroker, WorkTypes
<1>4. CASE Close
    BY <1>0, <1>4, CloseTypes DEF Close, serviceVars, ProcTypes, WorkTypes
<1> QED
    BY <1>1, <1>2, <1>3, <1>4

\* ... and what fails or ends a process leaves nothing of it.
LEMMA FaultTypes ==
    ASSUME TypesInv, Exit \/ Kill \/ ListenFails \/ ConnectFails \/ Serve \/ ServeFails
    PROVE  ConnTypes' /\ ProcTypes' /\ WorkTypes'
<1>0. ConnTypes /\ ProcTypes /\ WorkTypes
    BY TypesSplit
<1>1. faults' \in 0..MaxFaults
    <2>1. faults' = faults \/ (faults < MaxFaults /\ faults' = faults + 1)
        BY DEF Exit, Kill, ListenFails, ConnectFails, Serve, ServeFails, Fault
    <2> QED
        BY <1>0, <2>1, ConnectionAssumption DEF ConnTypes
<1>2. CASE ServiceEnds
    BY <1>1, <1>2, ServiceEndsTypes
<1>3. CASE /\ UNCHANGED <<work, effects, service, starts, brokerSide, link, wire, channel>>
           /\ main' = main \/ main' = "dial"
    BY <1>0, <1>1, <1>3 DEF work, effects, brokerSide, ConnTypes, ProcTypes, WorkTypes
<1> QED
    BY <1>2, <1>3 DEF Exit, Kill, ListenFails, ConnectFails, Serve, ServeFails, process

LEMMA CallTypes ==
    ASSUME TypesInv, NEW c \in Calls, Calling(c)
    PROVE  ConnTypes' /\ ProcTypes' /\ WorkTypes'
<1>0. ConnTypes /\ ProcTypes /\ WorkTypes
    BY TypesSplit
<1>1. CASE ServiceEnds /\ Fault
    <2>1. faults' \in 0..MaxFaults
        BY <1>0, <1>1, ConnectionAssumption DEF Fault, ConnTypes
    <2> QED
        BY <1>1, <2>1, ServiceEndsTypes
<1>2. CASE ~(ServiceEnds /\ Fault)
    <2>1. ProcTypes' /\ WorkTypes'
        BY <1>0, <1>2, CallFrame DEF work, process, ProcTypes, WorkTypes
    <2>2. Frame("publish", c) \in Frames
        BY DEF Frame, Frames
    <2>3. CASE PublishMessage(c) /\ UNCHANGED faults
        BY <2>1, <2>2, <2>3, WriteTypes DEF PublishMessage
    <2>4. CASE UNCHANGED <<wire, dropped>> /\ (faults' = faults \/ Fault)
        BY <1>0, <1>2, <2>1, <2>4, CallFrame, ConnectionAssumption DEF Fault, ConnTypes
    <2> QED
        BY <1>2, <2>3, <2>4, CallFrame
<1> QED
    BY <1>1, <1>2

\* One step of one consumer.
LEMMA ConsumerTypes ==
    ASSUME TypesInv, NEW q \in Queues, Consumer(q)
    PROVE  ConnTypes' /\ ProcTypes' /\ WorkTypes'
<1>0. ConnTypes /\ ProcTypes /\ WorkTypes
    BY TypesSplit
<1>00. <<>> \in Seq(Messages) /\ Len(<<>>) = 0
    BY EmptySeq
<1> USE DEF To
<1>1. CASE StartConsumer(q)
    <2>1. CASE ServiceEnds
        BY <1>0, <1>1, <2>1, ServiceEndsTypes DEF StartConsumer, ConnTypes
    <2>2. CASE \E pc \in {"idle", "over"} :
                /\ consumer[q] = "starting"
                /\ consumer' = [consumer EXCEPT ![q] = pc]
                /\ UNCHANGED <<held, effects, process, brokerSide, link, wire, channel>>
        BY <1>0, <1>1, <2>2 DEF StartConsumer, effects, process, brokerSide,
            ConnTypes, ProcTypes, WorkTypes
    <2> QED
        BY <1>1, <2>1, <2>2 DEF StartConsumer
<1>2. CASE Receive(q)
    <2> DEFINE m == Head(waiting[q])
    <2>1. m \in Messages /\ Tail(waiting[q]) \in Seq(Messages)
        BY <1>0, <1>2, HeadTailProperties DEF Receive, ConnTypes
    <2>2. <<m>> \in Seq(Messages) /\ Len(<<m>>) = 1 /\ <<m>> # <<>>
        BY <2>1
    <2> HIDE DEF m
    <2>3. ConnTypes'
        BY <1>0, <1>2, <2>1, <2>2 DEF Receive, ConnTypes, m
    <2>4. held' = [held EXCEPT ![q] = <<m>>] /\ consumer' = [consumer EXCEPT ![q] = "working"]
          /\ UNCHANGED rpc
        BY <1>2 DEF Receive, effects, m
    <2>5. WorkTypes'
        BY <1>0, <2>2, <2>4 DEF WorkTypes, Handling
    <2> QED
        BY <1>0, <1>2, <2>3, <2>5 DEF Receive, process, ProcTypes
<1>3. CASE Effecting(q) \/ Replying(q)
    <2>1. /\ UNCHANGED <<held, rpc, process, waiting, unacked, link, channel>>
          /\ consumer[q] \in Handling
          /\ \E pc \in Handling : consumer' = [consumer EXCEPT ![q] = pc]
        BY <1>3, EffectFrame, ReplyFrame DEF effects, Handling
    <2>2. ProcTypes' /\ WorkTypes'
        BY <1>0, <2>1 DEF process, ProcTypes, WorkTypes, Handling
    <2>3. CASE Effecting(q)
        <3>1. wire' = wire /\ (faults' = faults \/ Fault)
            BY <2>3, EffectFrame
        <3> QED
            BY <1>0, <2>1, <2>2, <3>1, ConnectionAssumption DEF Fault, ConnTypes
    <2>4. CASE Replying(q)
        <3>1. CASE \E f \in Frames : Write(f)
            BY <2>2, <2>4, <3>1, ReplyFrame, WriteTypes
        <3>2. CASE UNCHANGED <<wire, dropped>>
            BY <1>0, <2>1, <2>2, <2>4, <3>2, ReplyFrame DEF ConnTypes
        <3> QED
            BY <2>4, <3>1, <3>2, ReplyWrite
    <2> QED
        BY <1>3, <2>3, <2>4
<1>4. CASE Settle(q)
    <2>1. /\ UNCHANGED <<rpc, process, faults>>
          /\ held' = [held EXCEPT ![q] = <<>>]
          /\ consumer' = [consumer EXCEPT ![q] = "idle"]
        BY <1>4 DEF Settle, effects
    <2>2. ProcTypes' /\ WorkTypes'
        BY <1>0, <1>00, <2>1 DEF process, ProcTypes, WorkTypes, Handling
    <2>3. PICK k \in {"ack", "nack"} : Acknowledge(k, q)
        BY <1>4 DEF Settle
    <2>4. Frame(k, q) \in Frames
        BY DEF Frame, Frames
    <2>5. CASE Write(Frame(k, q))
        BY <2>1, <2>2, <2>4, <2>5, WriteTypes
    <2>6. CASE UNCHANGED <<brokerSide, link, wire, channel>>
        BY <1>0, <2>1, <2>2, <2>6 DEF brokerSide, ConnTypes
    <2> QED
        BY <2>3, <2>5, <2>6 DEF Acknowledge
<1>5. CASE LoopEnds(q)
    BY <1>0, <1>5 DEF LoopEnds, effects, process, connection, brokerSide, ConnTypes, ProcTypes,
        WorkTypes
<1> QED
    BY <1>1, <1>2, <1>3, <1>4, <1>5, ConsumerSteps

LEMMA ServiceTypes ==
    ASSUME TypesInv, CallsInv, ServiceStep
    PROVE  TypesInv'
<1>1. ConnTypes' /\ ProcTypes' /\ WorkTypes'
    <2>1. CASE Network /\ UNCHANGED serviceVars
        BY <2>1, NetworkTypes, TypesSplit DEF Network, process, serviceVars, work, effects,
            ProcTypes, WorkTypes
    <2> QED
        BY <2>1, MainTypes, FaultTypes, CallTypes, ConsumerTypes
        DEF ServiceStep, ServiceNext, Main, Calling
<1>2. GateTypes'
    BY TypesSplit DEF ServiceStep, gatewayVars, requesting, drivers, GateTypes
<1> QED
    BY <1>1, <1>2, TypesSplitNext

LEMMA GatewayEndsTypes ==
    ASSUME TypesInv, GatewayEnds, faults' \in 0..MaxFaults
    PROVE  ConnTypes' /\ ProcTypes' /\ GateTypes'
<1>0. ProcTypes /\ GateTypes
    BY TypesSplit
<1>1. [NewRequest EXCEPT !.pc = "done"] \in RequestType
    BY DEF NewRequest, RequestType
<1> QED
    BY <1>0, <1>1, EndsTypes DEF GatewayEnds, ProcTypes, GateTypes

LEMMA GatewayMainTypes ==
    ASSUME TypesInv, GatewayMain \/ SignalGateway
    PROVE  ConnTypes' /\ ProcTypes' /\ GateTypes'
<1>0. ConnTypes /\ ProcTypes /\ GateTypes
    BY TypesSplit
<1> USE DEF Goto, requesting, drivers
<1>1. CASE StartGateway
    BY <1>0, <1>1, StartsAssumption DEF StartGateway, Begin, gatewayVars, connection, brokerSide,
        ConnTypes, ProcTypes, GateTypes
<1>2. CASE ConnectGateway
    BY <1>0, <1>2 DEF ConnectGateway, DialBroker, Dial, gatewayVars, brokerSide,
        ConnTypes, ProcTypes, GateTypes
<1>3. CASE GatewayEnds /\ UNCHANGED faults
    BY <1>0, <1>3, GatewayEndsTypes DEF ConnTypes
<1>4. CASE CloseGateway
    BY <1>0, <1>4, CloseTypes DEF CloseGateway, gatewayVars, ProcTypes, GateTypes
<1>5. CASE /\ main' \in {main, "wait", "shutdown", "close"}
           /\ UNCHANGED <<request, drivers, service, starts, brokerSide, link, wire, channel, faults>>
    BY <1>0, <1>5 DEF brokerSide, ConnTypes, ProcTypes, GateTypes
<1> QED
    BY <1>1, <1>2, <1>3, <1>4, <1>5 DEF GatewayMain, StartConsumers, ListenAndServe, Shutdown,
        ShutdownEnds, ExitGateway, SignalGateway, connection, process, gatewayVars

LEMMA NotifierTypes ==
    ASSUME TypesInv, Notifier
    PROVE  ConnTypes' /\ ProcTypes' /\ GateTypes'
<1>0. ConnTypes /\ ProcTypes /\ GateTypes
    BY TypesSplit
<1>1. CASE Take
    <2>1. Tail(waiting[Notices]) \in Seq(Messages)
        BY <1>0, <1>1, QueuesAssumption, HeadTailProperties DEF Take, ConnTypes
    <2> QED
        BY <1>0, <1>1, <2>1 DEF Take, requesting, drivers, process, ConnTypes, ProcTypes, GateTypes
<1>2. CASE Push \/ PushingEnds
    BY <1>0, <1>2 DEF Push, PushingEnds, requesting, drivers, process, connection, brokerSide,
        ConnTypes, ProcTypes, GateTypes
<1> QED
    BY <1>1, <1>2 DEF Notifier

\* Every verdict is an HTTP status.
LEMMA VerdictTypes ==
    ASSUME NEW e \in {"preview", "start", "cancel", "webhook"}, NEW b \in Bodies
    PROVE  Verdict(e, b) \in {0, 200, 400, 500}
BY DEF Verdict, PreviewVerdict, StartVerdict, CancelVerdict, WebhookVerdict

LEMMA AnsweredTypes ==
    ASSUME NEW code \in {0, 200, 201, 400, 500}, NEW pc \in {"refused", "done"}
    PROVE  Answered(code, pc) \in RequestType /\ Answered(code, pc).pc = pc
           /\ Answered(code, pc).code = code
BY DEF Answered, RequestType

LEMMA ReplyTypes ==
    ASSUME TypesInv, NEW r \in Requests, NEW code \in {0, 200, 201, 500}, Reply(r, code)
    PROVE  request' \in [Requests -> RequestType]
<1>1. Answered(IF cut THEN 0 ELSE code, "done") \in RequestType
    BY AnsweredTypes
<1> QED
    BY <1>1, TypesSplit DEF Reply, GateTypes

LEMMA RequestTypes ==
    ASSUME TypesInv, NEW r \in Requests, Arrive(r) \/ RequestHandler(r) \/ Call(r)
    PROVE  ConnTypes' /\ ProcTypes' /\ GateTypes'
<1>0. ConnTypes /\ ProcTypes /\ GateTypes
    BY TypesSplit
<1>1. CASE Arrive(r)
    <2>1. PICK e \in {"preview", "start", "cancel", "webhook"}, b \in Bodies :
            request' = [request EXCEPT ![r] =
                IF Verdict(e, b) # 0 THEN Answered(Verdict(e, b), "refused")
                ELSE [pc |-> IF e \in {"preview", "start"} THEN "call" ELSE "publish",
                      endpoint |-> e, body |-> IF e = "preview" THEN b ELSE NoBody, code |-> 0]]
        BY <1>1 DEF Arrive
    <2>2. Answered(Verdict(e, b), "refused") \in RequestType
        BY VerdictTypes, AnsweredTypes
    <2>3. [pc |-> IF e \in {"preview", "start"} THEN "call" ELSE "publish",
           endpoint |-> e, body |-> IF e = "preview" THEN b ELSE NoBody, code |-> 0] \in RequestType
        BY DEF RequestType
    <2>4. request' \in [Requests -> RequestType]
        BY <1>0, <2>1, <2>2, <2>3 DEF GateTypes
    <2> QED
        BY <1>0, <1>1, <2>4 DEF Arrive, drivers, process, connection, brokerSide,
            ConnTypes, ProcTypes, GateTypes
<1>2. CASE Call(r)
    <2>1. request' \in [Requests -> RequestType]
        BY <1>2, ReplyTypes DEF Call
    <2> QED
        BY <1>0, <1>2, <2>1 DEF Call, drivers, process, connection, brokerSide,
            ConnTypes, ProcTypes, GateTypes
<1>3. CASE CallIsFatal(r)
    BY <1>0, <1>3, GatewayEndsTypes DEF CallIsFatal, ConnTypes
<1>4. CASE PublishRequest(r)
    <2>1. request' \in [Requests -> RequestType]
        BY <1>4, ReplyTypes DEF PublishRequest
    <2>2. ProcTypes' /\ GateTypes'
        BY <1>0, <1>4, <2>1 DEF PublishRequest, drivers, process, ProcTypes, GateTypes
    <2>3. Frame("publish", r) \in Frames
        BY DEF Frame, Frames
    <2>4. CASE PublishMessage(r)
        BY <1>4, <2>2, <2>3, <2>4, WriteTypes DEF PublishRequest, PublishMessage
    <2>5. CASE UNCHANGED <<brokerSide, link, wire, channel>>
        BY <1>0, <1>4, <2>2, <2>5 DEF PublishRequest, brokerSide, ConnTypes
    <2> QED
        BY <1>4, <2>4, <2>5 DEF PublishRequest
<1> QED
    BY <1>1, <1>2, <1>3, <1>4 DEF RequestHandler

LEMMA SocketTypes ==
    ASSUME TypesInv, NEW d \in Visitors, OpenSocket(d) \/ LeaveSocket(d) \/ SocketHandler(d)
    PROVE  ConnTypes' /\ ProcTypes' /\ GateTypes'
<1>0. ConnTypes /\ ProcTypes /\ GateTypes
    BY TypesSplit
<1>1. CASE RegisterIsFatal(d)
    BY <1>0, <1>1, GatewayEndsTypes DEF RegisterIsFatal, ConnTypes
<1>2. CASE OpenSocket(d) \/ LeaveSocket(d)
    BY <1>0, <1>2 DEF OpenSocket, LeaveSocket, requesting, process, connection, brokerSide,
        ConnTypes, ProcTypes, GateTypes
<1>3. CASE RegisterVisitor(d) \/ UnregisterVisitor(d)
    <2>1. registered' \subseteq Visitors
        BY <1>0, <1>3 DEF RegisterVisitor, UnregisterVisitor, GateTypes
    <2> QED
        BY <1>0, <1>3, <2>1, ConnectionAssumption DEF RegisterVisitor, UnregisterVisitor, Fault,
            requesting, process, brokerSide, ConnTypes, ProcTypes, GateTypes
<1> QED
    BY <1>1, <1>2, <1>3 DEF SocketHandler

LEMMA GatewayTypes ==
    ASSUME TypesInv, GatewayStep
    PROVE  TypesInv'
<1>0. ConnTypes /\ ProcTypes /\ WorkTypes /\ GateTypes
    BY TypesSplit
<1>1. ConnTypes' /\ ProcTypes' /\ GateTypes'
    <2>1. CASE Network /\ UNCHANGED gatewayVars
        BY <1>0, <2>1, NetworkTypes DEF Network, process, gatewayVars, requesting, drivers,
            ProcTypes, GateTypes
    <2>2. CASE DialGatewayFails \/ KillGateway
        <3>1. faults' \in 0..MaxFaults
            BY <1>0, <2>2, ConnectionAssumption DEF DialGatewayFails, KillGateway, Fault, ConnTypes
        <3> QED
            BY <2>2, <3>1, GatewayEndsTypes DEF DialGatewayFails, KillGateway
    <2>3. CASE ListenAndServeFails
        BY <1>0, <2>3, ConnectionAssumption DEF ListenAndServeFails, Goto, Fault, drivers,
            brokerSide, ConnTypes, ProcTypes, GateTypes
    <2> QED
        BY <2>1, <2>2, <2>3, GatewayMainTypes, NotifierTypes, RequestTypes, SocketTypes
        DEF GatewayStep, GatewayNext
<1>2. WorkTypes'
    BY <1>0 DEF GatewayStep, serviceVars, work, effects, WorkTypes
<1> QED
    BY <1>1, <1>2, TypesSplitNext

LEMMA InitTypes == Init => TypesInv
<1> SUFFICES ASSUME Init PROVE TypesInv
    OBVIOUS
<1> USE DEF Init, ConnectionInit, ProcessInit, ServiceInit, GatewayInit
<1>1. <<>> \in Seq(Messages) /\ <<>> \in Seq(Frames) /\ Len(<<>>) = 0
    BY EmptySeq
<1>2. ConnTypes
    BY <1>1, ConnectionAssumption DEF ConnTypes
<1>3. ProcTypes /\ WorkTypes
    BY <1>1, StartsAssumption DEF ProcTypes, WorkTypes, CallStates
<1>4. GateTypes
    BY DEF GateTypes, RequestType, NewRequest
<1> QED
    BY <1>2, <1>3, <1>4, TypesSplit

-----------------------------------------------------------------------------
(* LinkInv. *)

LEMMA WriteLink ==
    ASSUME wire \in Seq(Frames), LinkInv, NEW f \in Frames, Write(f), f.kind # "close",
           UNCHANGED <<main, starts, faults>>
    PROVE  LinkInv'
<1>1. link' # "up" => wire' = <<>>
    BY DEF Write, LinkInv
<1>2. \A i \in DOMAIN wire' : wire'[i].kind = "close" => main' \in Before \cup {"closing"}
    BY WriteWire DEF LinkInv
<1> QED
    BY <1>1, <1>2 DEF Write, LinkInv

LEMMA EndsLink ==
    ASSUME LinkInv, Ends
    PROVE  LinkInv'
BY DEF LinkInv, Ends, Abandon, brokerSide, Before

LEMMA SameLink ==
    ASSUME LinkInv, faults \in Nat, faults' \in Nat, faults' >= faults,
           UNCHANGED <<link, wire, channel, starts>>,
           \/ main' = main
           \/ main = "closed" /\ main' = "exit"
           \/ /\ main \notin {"down", "closing", "closed", "exit"}
              /\ main' \notin {"down", "closed", "exit"}
              /\ main' \in Before <=> main \in Before
    PROVE  LinkInv'
BY DEF LinkInv, Before

LEMMA DialLink ==
    ASSUME LinkInv, Dial, main = "dial", main' \notin Before, main' \notin {"closed", "exit"},
           UNCHANGED starts
    PROVE  LinkInv'
BY DEF LinkInv, Dial, Before, brokerSide

LEMMA CloseLink ==
    ASSUME wire \in Seq(Frames), TypeOK, LinkInv, CloseBroker \/ BrokerClosed
    PROVE  LinkInv'
<1>1. CASE Goto("close", "closing") /\ StartClose
    <2>1. Frame("close", "close") \in Frames /\ Frame("close", "close").kind = "close"
        BY DEF Frame, Frames
    <2>2. \A i \in DOMAIN wire' : wire'[i].kind = "close" => main' \in Before \cup {"closing"}
        BY <1>1 DEF Goto
    <2> QED
        BY <1>1, <2>2 DEF CloseBroker, BrokerClosed, Goto, StartClose, Write, LinkInv, Before
<1>2. CASE Goto("close", "closed") /\ channel # "open" /\ UNCHANGED connection
    BY <1>2 DEF CloseBroker, BrokerClosed, Goto, LinkInv, Before, connection, brokerSide, TypeOK
<1>3. CASE BrokerClosed
    BY <1>3 DEF BrokerClosed, EndClose, Goto, LinkInv, Before, brokerSide
<1> QED
    BY <1>1, <1>2, <1>3 DEF CloseBroker

LEMMA NetworkLink ==
    ASSUME wire \in Seq(Frames), faults \in Nat, LinkInv, Network
    PROVE  LinkInv'
<1> USE DEF process
<1>1. CASE BrokerReads
    <2>1. wire' = <<>> \/ wire' = Tail(wire)
        BY <1>1 DEF BrokerReads
    <2>2. \A i \in DOMAIN wire' : wire'[i].kind = "close" => main' \in Before \cup {"closing"}
        BY <1>1, <2>1, TailWire DEF LinkInv, Network, BrokerReads
    <2>3. link' # "up" => wire' = <<>>
        <3>1. Head(wire) \in Frames
            BY <1>1, HeadTailProperties DEF BrokerReads
        <3> QED
            BY <1>1, <3>1 DEF BrokerReads, Frames
    <2>4. link' \in {"up", "none", "closed"} /\ (link' # link => link = "up")
        <3>1. Head(wire) \in Frames
            BY <1>1, HeadTailProperties DEF BrokerReads
        <3> QED
            BY <1>1, <3>1 DEF BrokerReads, Frames
    <2> QED
        BY <1>1, <2>2, <2>3, <2>4 DEF BrokerReads, LinkInv, Network
<1>2. CASE LinkBreaks
    BY <1>2 DEF LinkBreaks, Fault, LinkInv, Network
<1>3. CASE NoticeLoss
    BY <1>3 DEF NoticeLoss, LinkInv, Network, brokerSide, Before
<1>4. CASE BrokerSeesEnd
    BY <1>4 DEF BrokerSeesEnd, LinkInv, Network
<1> QED
    BY <1>1, <1>2, <1>3, <1>4 DEF Network

LEMMA BeginLink ==
    ASSUME TypesInv, LinkInv, NEW first \in {"listen", "dial"}, Begin(first)
    PROVE  LinkInv'
BY DEF Begin, Goto, connection, brokerSide, TypesInv, TypeOK, LinkInv, Before

LEMMA ServiceLink ==
    ASSUME TypesInv, LinkInv, ServiceStep
    PROVE  LinkInv'
<1>0. wire \in Seq(Frames) /\ faults \in Nat /\ TypeOK
    BY DEF TypesInv, TypeOK
<1>1. CASE Main
    <2>1. CASE Start
        BY <2>1, BeginLink DEF Start
    <2>2. CASE Exit
        BY <2>2, EndsLink DEF Exit, ServiceEnds
    <2>3. CASE ConnectBroker
        BY <2>3, DialLink DEF ConnectBroker, DialBroker, Goto, Before
    <2>4. CASE Close
        BY <1>0, <2>4, CloseLink DEF Close
    <2>5. CASE Listen \/ ConnectMongo \/ Stop \/ Drain \/ Disconnect
        BY <1>0, <2>5, SameLink DEF Listen, ConnectMongo, Stop, Drain, Disconnect, Goto,
            connection, brokerSide, Before
    <2> QED
        BY <1>1, <2>1, <2>2, <2>3, <2>4, <2>5 DEF Main
<1>2. CASE Signal \/ Serve \/ ServeFails \/ Kill \/ ListenFails \/ ConnectFails
    <2>1. CASE ServiceEnds
        BY <2>1, EndsLink DEF ServiceEnds
    <2>2. CASE /\ faults' = faults \/ faults' = faults + 1
               /\ UNCHANGED <<link, wire, channel, starts>>
               /\ main' = main \/ (main = "listen" /\ main' = "dial")
        BY <1>0, <2>2, SameLink DEF Before
    <2> QED
        BY <1>2, <2>1, <2>2 DEF Signal, Serve, ServeFails, Kill, ListenFails, ConnectFails, Fault,
            connection, brokerSide, process
<1>3. ASSUME NEW q \in Queues, Consumer(q)
      PROVE  LinkInv'
    <2>1. CASE ServiceEnds
        BY <2>1, EndsLink DEF ServiceEnds
    <2>2. CASE UNCHANGED <<link, wire, channel, process>> /\ (faults' = faults \/ Fault)
        BY <1>0, <2>2, SameLink DEF Fault, process
    <2>3. CASE \E kind \in {"ack", "nack"} :
                Write(Frame(kind, q)) /\ UNCHANGED <<process, faults>>
        BY <1>0, <2>3, WriteLink DEF Frame, Frames, process
    <2>4. CASE Replying(q)
        <3>1. CASE \E f \in Frames : f.kind = "publish" /\ Write(f)
            BY <1>0, <2>4, <3>1, WriteLink, ReplyFrame DEF process
        <3>2. CASE UNCHANGED <<wire, dropped>>
            BY <2>2, <2>4, <3>2, ReplyFrame
        <3> QED
            BY <2>4, <3>1, <3>2, ReplyWrite
    <2>5. CASE Settle(q)
        BY <2>2, <2>3, <2>5 DEF Settle, Acknowledge
    <2>6. CASE Effecting(q)
        BY <2>2, <2>6, EffectFrame
    <2> QED
        BY <1>3, <2>1, <2>2, <2>4, <2>5, <2>6, ConsumerSteps
        DEF StartConsumer, Receive, LoopEnds, connection, brokerSide
<1>4. ASSUME NEW c \in Calls, Calling(c)
      PROVE  LinkInv'
    <2>1. CASE ServiceEnds
        BY <2>1, EndsLink DEF ServiceEnds
    <2>2. CASE UNCHANGED <<link, wire, channel, process>> /\ (faults' = faults \/ Fault)
        BY <1>0, <2>2, SameLink DEF Fault, process
    <2>3. CASE Write(Frame("publish", c)) /\ UNCHANGED <<process, faults>>
        BY <1>0, <2>3, WriteLink DEF Frame, Frames, process
    <2> QED
        BY <1>4, <2>1, <2>2, <2>3, CallFrame DEF PublishMessage
<1>5. CASE Network
    BY <1>0, <1>5, NetworkLink
<1> QED
    BY <1>1, <1>2, <1>3, <1>4, <1>5 DEF ServiceStep, ServiceNext, Calling

LEMMA GatewayLink ==
    ASSUME TypesInv, LinkInv, GatewayStep
    PROVE  LinkInv'
<1>0. wire \in Seq(Frames) /\ faults \in Nat /\ TypeOK
    BY DEF TypesInv, TypeOK
<1>1. CASE GatewayEnds
    BY <1>1, EndsLink DEF GatewayEnds
<1>2. CASE UNCHANGED <<link, wire, channel, process>> /\ (faults' = faults \/ Fault)
    BY <1>0, <1>2, SameLink DEF Fault, process
<1>3. CASE GatewayMain \/ SignalGateway \/ ListenAndServeFails
    <2>1. CASE StartGateway
        BY <2>1, BeginLink DEF StartGateway
    <2>2. CASE ConnectGateway
        BY <2>2, DialLink DEF ConnectGateway, DialBroker, Goto, Before
    <2>3. CASE CloseGateway
        BY <1>0, <2>3, CloseLink DEF CloseGateway
    <2>4. CASE /\ faults' = faults \/ faults' = faults + 1
               /\ UNCHANGED <<link, wire, channel, starts>>
               /\ \/ main' = main
                  \/ main \in {"consume", "wait", "shutdown"} /\ main' \in {"wait", "shutdown", "close"}
        BY <1>0, <2>4, SameLink DEF Before
    <2> QED
        BY <1>1, <1>3, <2>1, <2>2, <2>3, <2>4 DEF GatewayMain, StartConsumers, ListenAndServe,
            Shutdown, ShutdownEnds, ExitGateway, SignalGateway, ListenAndServeFails, Goto, Fault,
            connection, brokerSide, process
<1>4. CASE Notifier
    BY <1>2, <1>4 DEF Notifier, Take, Push, PushingEnds, connection
<1>5. ASSUME NEW r \in Requests, Arrive(r) \/ RequestHandler(r) \/ Call(r)
      PROVE  LinkInv'
    <2>1. CASE Write(Frame("publish", r)) /\ UNCHANGED <<process, faults>>
        BY <1>0, <2>1, WriteLink DEF Frame, Frames, process
    <2> QED
        BY <1>1, <1>2, <1>5, <2>1 DEF Arrive, RequestHandler, CallIsFatal, PublishRequest, Call,
            PublishMessage, connection
<1>6. ASSUME NEW d \in Visitors, OpenSocket(d) \/ LeaveSocket(d) \/ SocketHandler(d)
      PROVE  LinkInv'
    BY <1>1, <1>2, <1>6 DEF OpenSocket, LeaveSocket, SocketHandler, RegisterVisitor,
        RegisterIsFatal, UnregisterVisitor, connection
<1>7. CASE Network
    BY <1>0, <1>7, NetworkLink
<1> QED
    BY <1>1, <1>3, <1>4, <1>5, <1>6, <1>7 DEF GatewayStep, GatewayNext, DialGatewayFails, KillGateway

-----------------------------------------------------------------------------
(* CallsInv, and that stops are graceful. *)

Calm == CallsInv /\ StopsAreGraceful

\* A process of a service ends: by a fault, or with no call running.
LEMMA ServiceEndsCalm ==
    ASSUME TypesInv, Calm, ServiceEnds, faults' \in Nat,
           faults' > 0 \/ (faults' = faults /\ \A c \in Calls : ~Running(c))
    PROVE  Calm'
<1>1. \A c \in Calls : ~Running(c)'
    BY DEF ServiceEnds, Running
<1>2. faults' = 0 => \A c \in Calls : rpc'[c] = rpc[c]
    BY DEF ServiceEnds
<1>3. CallsInv'
    BY <1>1 DEF ServiceEnds, Ends, Calm, CallsInv, Services, After
<1>4. StopsAreGraceful'
    BY <1>2 DEF Calm, StopsAreGraceful
<1> QED
    BY <1>3, <1>4 DEF Calm

LEMMA MainCalm ==
    ASSUME TypesInv, LinkInv, Calm, service \in Services, Main \/ Signal \/ (Network /\ UNCHANGED serviceVars)
    PROVE  Calm'
<1>0. UNCHANGED rpc /\ faults' = faults => StopsAreGraceful'
    BY DEF Calm, StopsAreGraceful
<1> USE DEF Goto
<1>1. CASE Start
    BY <1>0, <1>1 DEF Start, Begin, serviceVars, inside, work, effects, connection, Calm, CallsInv,
        Running, Before, After
<1>2. CASE Listen \/ ConnectMongo
    BY <1>0, <1>2 DEF Listen, ConnectMongo, work, effects, connection, Calm, CallsInv, Running,
        Before, After
<1>3. CASE ConnectBroker
    BY <1>0, <1>3 DEF ConnectBroker, DialBroker, effects, Calm, CallsInv, Running,
        Before, After, Services
<1>4. CASE Stop
    BY <1>0, <1>4 DEF Stop, work, effects, connection, Calm, CallsInv, Running, Before, After
<1>5. CASE Drain
    BY <1>0, <1>5 DEF Drain, serviceVars, inside, work, effects, connection, Calm, CallsInv,
        Running, Before, After
<1>6. CASE Close
    BY <1>0, <1>6 DEF Close, CloseBroker, BrokerClosed, serviceVars, inside, work, effects, Calm,
        CallsInv, Running, Before, After
<1>7. CASE Disconnect
    BY <1>0, <1>7 DEF Disconnect, work, effects, connection, Calm, CallsInv, Running, Before, After
<1>8. CASE Exit
    <2>1. \A c \in Calls : ~Running(c)
        BY <1>8 DEF Exit, Calm, CallsInv, After
    <2> QED
        BY <1>8, <2>1, ServiceEndsCalm DEF Exit, TypesInv, TypeOK
<1>9. CASE Signal \/ (Network /\ UNCHANGED serviceVars)
    <2>0. faults \in Nat
        BY DEF TypesInv, TypeOK
    <2>1. UNCHANGED <<main, service, serviceVars>> /\ faults' \in {faults, faults + 1}
        BY <1>9 DEF Signal, Network, process, connection, BrokerReads, LinkBreaks, NoticeLoss,
            BrokerSeesEnd, Fault
    <2> QED
        BY <2>0, <2>1 DEF serviceVars, inside, work, effects, Calm, CallsInv, StopsAreGraceful, Running
<1> QED
    BY <1>1, <1>2, <1>3, <1>4, <1>5, <1>6, <1>7, <1>8, <1>9 DEF Main

LEMMA FaultCalm ==
    ASSUME TypesInv, Calm, service \in Services,
           Serve \/ ServeFails \/ Kill \/ ListenFails \/ ConnectFails
    PROVE  Calm'
<1>0. faults \in Nat /\ faults' \in Nat
    BY DEF Serve, ServeFails, Kill, ListenFails, ConnectFails, Fault, TypesInv, TypeOK
<1>1. CASE ServiceEnds /\ Fault
    BY <1>0, <1>1, ServiceEndsCalm DEF Fault
<1>2. CASE ListenFails /\ ~ServiceEnds
    BY <1>0, <1>2 DEF ListenFails, Fault, work, effects, Calm, CallsInv, StopsAreGraceful, Running,
        Before, After
<1>3. CASE Serve
    <2>1. CASE ServiceEnds /\ lis = "nil"
        BY <1>0, <1>3, <2>1, ServiceEndsCalm DEF Serve, Calm, CallsInv
    <2> QED
        BY <1>0, <1>3, <2>1 DEF Serve, process, work, effects, Calm, CallsInv, StopsAreGraceful,
            Running, Before
<1>4. CASE ServeFails
    BY <1>0, <1>4 DEF ServeFails, Fault, work, effects, Calm, CallsInv, StopsAreGraceful, Running,
        Before
<1> QED
    BY <1>1, <1>2, <1>3, <1>4 DEF Kill, ListenFails, ConnectFails

LEMMA CallCalm ==
    ASSUME TypesInv, LinkInv, Calm, NEW c \in Calls, Calling(c)
    PROVE  Calm'
<1>1. CASE ServiceEnds /\ Fault
    BY <1>1, ServiceEndsCalm DEF Fault, TypesInv, TypeOK
<1>2. CASE ~(ServiceEnds /\ Fault)
    <2>0. /\ faults \in Nat /\ faults' \in Nat /\ faults' >= faults
          /\ UNCHANGED <<inside, work, process>>
          /\ rpc \in [Calls -> CallStates]
          /\ \A d \in Calls \ {c} : rpc'[d] = rpc[d]
        <3>1. faults \in Nat /\ rpc \in [Calls -> CallStates]
            BY TypesSplit DEF ConnTypes, WorkTypes
        <3>2. UNCHANGED <<inside, work, process>> /\ \E o : rpc' = [rpc EXCEPT ![c] = o]
            BY <1>2, CallFrame
        <3>3. faults' = faults \/ Fault
            BY <1>2, CallFrame
        <3> QED
            BY <3>1, <3>2, <3>3 DEF Fault
    <2>1. Running(c)' => Running(c) \/ server = "serving"
        BY <2>0 DEF Calling, AcceptCall, RouteArrives, RouteFails, CallHandler, StoreCall,
            PublishCall, Running
    <2>2. CallsInv'
        <3>1. \A d \in Calls : Running(d)' => Running(d) \/ server = "serving"
            BY <2>0, <2>1 DEF Running
        <3> QED
            BY <2>0, <3>1 DEF inside, work, process, Calm, CallsInv, After
    <2>3. rpc'[c] = "error" => rpc[c] = "error" \/ faults' > 0
        <3>1. CASE AcceptCall(c) \/ RouteArrives(c)
            BY <2>0, <3>1 DEF AcceptCall, RouteArrives
        <3>2. CASE RouteFails(c)
            BY <2>0, <3>2 DEF RouteFails, Fault
        <3>3. CASE StoreCall(c)
            <4>1. mongo # "gone"
                BY <3>3 DEF StoreCall, Calm, CallsInv, Running, After
            <4> QED
                BY <2>0, <3>3, <4>1 DEF StoreCall, Fault, CallStates
        <3>4. CASE PublishCall(c)
            <4>1. Running(c)
                BY <3>4 DEF PublishCall, Running
            <4>2. main \notin After /\ main \notin Before
                BY <4>1 DEF Calm, CallsInv
            <4>3. channel = "open" \/ faults > 0
                BY <4>2 DEF LinkInv, After, TypesInv, TypeOK
            <4> QED
                BY <2>0, <3>4, <4>3 DEF PublishCall
        <3> QED
            BY <3>1, <3>2, <3>3, <3>4 DEF Calling, CallHandler
    <2> QED
        BY <2>0, <2>2, <2>3 DEF Calm, StopsAreGraceful
<1> QED
    BY <1>1, <1>2

LEMMA ConsumerCalm ==
    ASSUME TypesInv, LinkInv, Calm, service \in Services, NEW q \in Queues, Consumer(q)
    PROVE  Calm'
<1>0. faults \in Nat /\ faults' \in Nat /\ faults' >= faults
    BY ConsumerSteps, EffectFrame, ReplyFrame
    DEF StartConsumer, Receive, Settle, LoopEnds, connection, Fault, TypesInv, TypeOK
<1>1. CASE ServiceEnds /\ channel = "closed" /\ UNCHANGED faults
    <2>1. faults > 0 \/ \A c \in Calls : ~Running(c)
        BY <1>1 DEF LinkInv, Calm, CallsInv, After
    <2> QED
        BY <1>0, <1>1, <2>1, ServiceEndsCalm
<1>2. CASE /\ consumer[q] # "off"
           /\ \E pc \in {"idle", "over"} \cup Handling : consumer' = [consumer EXCEPT ![q] = pc]
           /\ UNCHANGED <<inside, rpc, process>>
    <2>1. main \notin Before /\ q \in Consumes(service)
        BY <1>2 DEF Calm, CallsInv
    <2> QED
        BY <1>0, <1>2, <2>1 DEF inside, process, Calm, CallsInv, StopsAreGraceful, Running
<1> QED
    BY <1>1, <1>2, ConsumerSteps, EffectFrame, ReplyFrame
    DEF StartConsumer, Receive, Settle, LoopEnds, To, effects, Handling

LEMMA GatewayFrame ==
    ASSUME TypesInv, GatewayStep
    PROVE  /\ UNCHANGED <<service, serviceVars>> /\ service = "gateway"
           /\ faults \in Nat /\ faults' \in Nat /\ faults' >= faults
<1> USE DEF GatewayStep, process, connection
<1>0. faults \in Nat /\ (faults' = faults \/ Fault => faults' \in Nat /\ faults' >= faults)
    BY DEF TypesInv, TypeOK, Fault
<1>1. CASE GatewayMain \/ SignalGateway
    BY <1>0, <1>1 DEF GatewayMain, SignalGateway, StartGateway, Begin, ConnectGateway, DialBroker,
        StartConsumers, ListenAndServe, Shutdown, ShutdownEnds, CloseGateway, CloseBroker,
        BrokerClosed, ExitGateway, GatewayEnds, Ends
<1>2. CASE DialGatewayFails \/ ListenAndServeFails \/ KillGateway
    BY <1>0, <1>2 DEF DialGatewayFails, ListenAndServeFails, KillGateway, GatewayEnds, Ends
<1>3. CASE Notifier
    BY <1>0, <1>3 DEF Notifier, Take, Push, PushingEnds
<1>4. ASSUME NEW r \in Requests, Arrive(r) \/ RequestHandler(r) \/ Call(r)
      PROVE  service' = service /\ (faults' = faults \/ Fault)
    BY <1>4 DEF Arrive, RequestHandler, PublishRequest, CallIsFatal, Call, GatewayEnds, Ends
<1>5. ASSUME NEW d \in Visitors, OpenSocket(d) \/ LeaveSocket(d) \/ SocketHandler(d)
      PROVE  service' = service /\ (faults' = faults \/ Fault)
    BY <1>5 DEF OpenSocket, LeaveSocket, SocketHandler, RegisterVisitor, RegisterIsFatal,
        UnregisterVisitor, GatewayEnds, Ends
<1>6. CASE Network
    BY <1>0, <1>6 DEF Network, BrokerReads, LinkBreaks, NoticeLoss, BrokerSeesEnd
<1> QED
    BY <1>0, <1>1, <1>2, <1>3, <1>4, <1>5, <1>6 DEF GatewayNext

LEMMA CalmStep ==
    ASSUME TypesInv, LinkInv, Calm, Next
    PROVE  Calm'
<1>1. CASE ServiceStep
    BY <1>1, MainCalm, FaultCalm, CallCalm, ConsumerCalm DEF ServiceStep, ServiceNext, Calling
<1>2. CASE GatewayStep
    <2>1. \A c \in Calls : ~Running(c)
        BY <1>2, GatewayFrame DEF Calm, CallsInv
    <2>2. \A c \in Calls : ~Running(c)'
        BY <1>2, <2>1, GatewayFrame DEF serviceVars, effects, Running
    <2>3. \A q \in Queues : consumer[q] = "off"
        BY <1>2, GatewayFrame DEF Calm, CallsInv, Consumes
    <2>4. CallsInv'
        BY <1>2, <2>2, <2>3, GatewayFrame DEF serviceVars, inside, work, Calm, CallsInv, Services
    <2>5. StopsAreGraceful'
        BY <1>2, GatewayFrame DEF serviceVars, effects, Calm, StopsAreGraceful
    <2> QED
        BY <2>4, <2>5 DEF Calm
<1> QED
    BY <1>1, <1>2 DEF Next

-----------------------------------------------------------------------------
(* RequestsInv, and that requests are answered. *)

LEMMA ServiceFrame ==
    ASSUME TypesInv, ServiceStep
    PROVE  /\ UNCHANGED <<service, gatewayVars>> /\ service \in Services
           /\ faults \in Nat /\ faults' \in Nat /\ faults' >= faults
<1> USE DEF ServiceStep, process, connection
<1>0. faults \in Nat /\ (faults' = faults \/ Fault => faults' \in Nat /\ faults' >= faults)
    BY DEF TypesInv, TypeOK, Fault
<1>1. CASE Main \/ Signal
    BY <1>0, <1>1 DEF Main, Signal, Start, Begin, Listen, ConnectMongo, ConnectBroker, DialBroker,
        Stop, Drain, Close, CloseBroker, BrokerClosed, Disconnect, Exit, ServiceEnds, Ends
<1>2. CASE Serve \/ Kill \/ ListenFails \/ ConnectFails \/ ServeFails
    BY <1>0, <1>2 DEF Serve, Kill, ListenFails, ConnectFails, ServeFails, ServiceEnds, Ends
<1>3. ASSUME NEW q \in Queues, Consumer(q)
      PROVE  service' = service /\ (faults' = faults \/ Fault)
    BY <1>3, ConsumerSteps, EffectFrame, ReplyFrame
    DEF StartConsumer, Receive, Settle, LoopEnds, ServiceEnds, Ends
<1>4. ASSUME NEW c \in Calls, Calling(c)
      PROVE  service' = service /\ (faults' = faults \/ Fault)
    BY <1>4, CallFrame DEF ServiceEnds, Ends
<1>5. CASE Network
    BY <1>0, <1>5 DEF Network, BrokerReads, LinkBreaks, NoticeLoss, BrokerSeesEnd
<1> QED
    BY <1>0, <1>1, <1>2, <1>3, <1>4, <1>5 DEF ServiceNext, Calling

\* What a step does to the requests: none is left by a process that ends.
LEMMA GatewayEndsRequests ==
    ASSUME TypesInv, RequestsInv, GatewayEnds
    PROVE  RequestsInv'
<1>1. \A r \in Requests : ~Handled(r)'
    BY DEF GatewayEnds, Handled, NewRequest
<1> QED
    BY <1>1 DEF GatewayEnds, RequestsInv

LEMMA GatewayMainRequests ==
    ASSUME TypesInv, RequestsInv, service = "gateway", GatewayMain \/ SignalGateway
    PROVE  RequestsInv'
<1>0. UNCHANGED request => \A r \in Requests : Handled(r)' <=> Handled(r)
    BY DEF Handled
<1>00. UNCHANGED <<request, target>> => \A r \in Requests : Panics(r)' <=> Panics(r)
    BY DEF Panics
<1> USE DEF Goto, After, process, connection, environment, requesting
<1>1. CASE GatewayEnds
    BY <1>1, GatewayEndsRequests
<1>2. CASE StartGateway \/ ConnectGateway
    BY <1>0, <1>2 DEF StartGateway, Begin, ConnectGateway, DialBroker, gatewayVars, RequestsInv
<1>3. CASE StartConsumers /\ ~GatewayEnds
    BY <1>0, <1>3 DEF StartConsumers, RequestsInv
<1>4. CASE ListenAndServe
    BY <1>0, <1>00, <1>4 DEF ListenAndServe, RequestsInv
<1>5. CASE Shutdown
    BY <1>0, <1>00, <1>5 DEF Shutdown, RequestsInv
<1>6. CASE ShutdownEnds
    BY <1>0, <1>00, <1>6 DEF ShutdownEnds, RequestsInv
<1>7. CASE CloseGateway
    BY <1>0, <1>00, <1>7 DEF CloseGateway, CloseBroker, BrokerClosed, gatewayVars, RequestsInv
<1>8. CASE SignalGateway /\ ~GatewayEnds
    BY <1>0, <1>00, <1>8 DEF SignalGateway, gatewayVars, RequestsInv
<1> QED
    BY <1>1, <1>2, <1>3, <1>4, <1>5, <1>6, <1>7, <1>8 DEF GatewayMain, ExitGateway

\* A preview that passes the checks has both of its coordinates.
LEMMA CheckedPreview ==
    ASSUME NEW b, PreviewVerdict(b) = 0
    PROVE  {"pickup", "destination"} \subseteq b.has
<1>1. ValidateTripPreview(b) = {}
    BY DEF PreviewVerdict, Valid
<1>2. ASSUME NEW f \in {"pickup", "destination"}, f \notin b.has
      PROVE  FALSE
    <2>1. f \in Check(f \in b.has, f)
        BY <1>2 DEF Check
    <2>2. Check(f \in b.has, f) \in {Check(g \in b.has, g) : g \in {"userID", "pickup", "destination"}}
        OBVIOUS
    <2> QED
        BY <1>1, <2>1, <2>2 DEF ValidateTripPreview
<1> QED
    BY <1>2

LEMMA ArriveRequests ==
    ASSUME TypesInv, RequestsInv, NEW r \in Requests, Arrive(r)
    PROVE  RequestsInv'
<1>0. request \in [Requests -> RequestType]
    BY TypesSplit DEF GateTypes
<1>1. PICK e \in {"preview", "start", "cancel", "webhook"}, b \in Bodies :
        request' = [request EXCEPT ![r] =
            IF Verdict(e, b) # 0 THEN Answered(Verdict(e, b), "refused")
            ELSE [pc |-> IF e \in {"preview", "start"} THEN "call" ELSE "publish",
                  endpoint |-> e, body |-> IF e = "preview" THEN b ELSE NoBody, code |-> 0]]
    BY DEF Arrive
<1>2. main = "wait" /\ service = "gateway"
      /\ UNCHANGED <<http, cut, target, main, service, faults>>
    BY DEF Arrive, RequestsInv, environment, process, connection
<1>3. \A s \in Requests \ {r} : request'[s] = request[s]
    BY <1>0, <1>1
<1>4. \/ request'[r] = Answered(Verdict(e, b), "refused") /\ Verdict(e, b) # 0
      \/ /\ Verdict(e, b) = 0
         /\ request'[r].endpoint = e
         /\ e = "preview" => request'[r].body = b
    BY <1>0, <1>1
<1>5. Handled(r)' /\ request'[r].endpoint = "preview" => ~Panics(r)' \/ ~target'
    <2> SUFFICES ASSUME Handled(r)', request'[r].endpoint = "preview", target'
                 PROVE  ~Panics(r)'
        OBVIOUS
    <2>1. Verdict(e, b) = 0 /\ e = "preview" /\ request'[r].body = b
        BY <1>4, VerdictTypes, AnsweredTypes DEF Handled
    <2>2. {"pickup", "destination"} \subseteq b.has
        BY <2>1, CheckedPreview DEF Verdict
    <2> QED
        BY <2>1, <2>2 DEF Panics
<1> QED
    BY <1>2, <1>3, <1>5 DEF RequestsInv, Handled, Panics, After

LEMMA HandlerRequests ==
    ASSUME TypesInv, RequestsInv, NEW r \in Requests, PublishRequest(r) \/ Call(r)
    PROVE  RequestsInv'
<1>0. request \in [Requests -> RequestType]
    BY TypesSplit DEF GateTypes
<1>1. PICK code \in {0, 200, 201, 500} : Reply(r, code)
    BY DEF PublishRequest, Call
<1>2. UNCHANGED <<http, cut, target, main, service, faults>>
    BY DEF PublishRequest, Call, environment, process, connection
<1>3. ~Handled(r)'
    BY <1>0, <1>1 DEF Reply, Answered, Handled
<1>4. \A s \in Requests \ {r} : request'[s] = request[s]
    BY <1>0, <1>1 DEF Reply
<1> QED
    BY <1>2, <1>3, <1>4 DEF RequestsInv, Handled, Panics, After

LEMMA GatewayRequests ==
    ASSUME TypesInv, RequestsInv, GatewayStep
    PROVE  RequestsInv'
<1> USE DEF GatewayStep
<1>1. CASE GatewayEnds
    BY <1>1, GatewayEndsRequests
<1>2. CASE UNCHANGED <<http, request, target, cut, process>>
    BY <1>2, GatewayFrame DEF process, RequestsInv, Handled, Panics
<1>3. CASE ListenAndServeFails
    <2>1. \A r \in Requests : (Handled(r)' <=> Handled(r)) /\ (Panics(r)' <=> Panics(r))
        BY <1>3 DEF ListenAndServeFails, environment, Handled, Panics
    <2>2. faults' > 0
        BY <1>3, GatewayFrame DEF ListenAndServeFails, Fault
    <2> QED
        BY <1>3, <2>1, <2>2 DEF ListenAndServeFails, Goto, environment, RequestsInv, After
<1>4. CASE Notifier
    BY <1>2, <1>4 DEF Notifier, Take, Push, PushingEnds, environment, requesting
<1>5. ASSUME NEW d \in Visitors, OpenSocket(d) \/ LeaveSocket(d) \/ SocketHandler(d)
      PROVE  RequestsInv'
    BY <1>1, <1>2, <1>5 DEF OpenSocket, LeaveSocket, SocketHandler, RegisterVisitor,
        RegisterIsFatal, UnregisterVisitor, environment, requesting
<1>6. CASE Network /\ UNCHANGED gatewayVars
    BY <1>2, <1>6 DEF Network, gatewayVars, environment, requesting
<1> QED
    BY <1>1, <1>3, <1>4, <1>5, <1>6, GatewayMainRequests, ArriveRequests, HandlerRequests
    DEF GatewayNext, DialGatewayFails, KillGateway, RequestHandler, CallIsFatal

LEMMA RequestsStep ==
    ASSUME TypesInv, RequestsInv, Next
    PROVE  RequestsInv'
<1>1. CASE ServiceStep
    BY <1>1, ServiceFrame DEF gatewayVars, requesting, RequestsInv, Handled, Services
<1> QED
    BY <1>1, GatewayRequests DEF Next

\* An answer is missing only where the property allows it.
LEMMA AnswerStep ==
    ASSUME TypesInv, LinkInv, RequestsInv, [Next]_vars,
           NEW r \in Requests, Handled(r), request'[r].pc = "done", request'[r].code = 0
    PROVE  faults' > 0 \/ cut \/ ~target
<1>1. service = "gateway" /\ request'[r] # request[r]
    BY DEF RequestsInv, Handled
<1>2. GatewayStep
    BY <1>1, ServiceFrame DEF Next, vars, gatewayVars, requesting, Services
<1>3. request \in [Requests -> RequestType]
    BY TypesSplit DEF GateTypes
<1>4. /\ main \in {"wait", "shutdown"} \cup After
      /\ main \in After => cut \/ faults > 0
      /\ request[r].endpoint = "preview" => ~Panics(r) \/ ~target
    BY DEF RequestsInv
<1>5. CASE Fault
    BY <1>2, <1>5, GatewayFrame DEF Fault
<1>6. CASE ~target
    BY <1>6
<1>7. CASE main = "closed"
    BY <1>2, <1>4, <1>7, GatewayFrame DEF After
<1>8. CASE main \in {"dial", "consume", "down"}
    BY <1>4, <1>8 DEF After
<1>9. CASE UNCHANGED request
    BY <1>1, <1>9
<1>10. ASSUME NEW s \in Requests, Arrive(s)
       PROVE  FALSE
    <2>1. s # r
        BY <1>10 DEF Arrive, Handled
    <2> QED
        BY <1>1, <1>3, <1>10, <2>1 DEF Arrive
<1>11. ASSUME NEW s \in Requests, Call(s) \/ PublishRequest(s)
       PROVE  cut \/ ~target
    <2>1. s = r
        BY <1>1, <1>3, <1>11 DEF Call, PublishRequest, Reply
    <2>2. ASSUME NEW code \in {200, 201, 500}, Reply(r, code)
          PROVE  cut
        BY <1>3, <2>2 DEF Reply, Answered
    <2>3. Panics(r) => ~target
        BY <1>4 DEF Panics
    <2> QED
        BY <1>11, <2>1, <2>2, <2>3 DEF Call, PublishRequest
<1>12. CASE GatewayMain \/ SignalGateway
    BY <1>7, <1>8, <1>9, <1>12 DEF GatewayMain, SignalGateway, StartGateway, Begin, ConnectGateway,
        DialBroker, StartConsumers, ListenAndServe, Shutdown, ShutdownEnds, CloseGateway,
        ExitGateway, Goto, gatewayVars, requesting
<1>13. CASE Notifier \/ (Network /\ UNCHANGED gatewayVars)
    BY <1>9, <1>13 DEF Notifier, Take, Push, PushingEnds, gatewayVars, requesting
<1>14. ASSUME NEW d \in Visitors, OpenSocket(d) \/ LeaveSocket(d) \/ SocketHandler(d)
       PROVE  faults' > 0 \/ cut \/ ~target
    BY <1>5, <1>6, <1>9, <1>14 DEF OpenSocket, LeaveSocket, SocketHandler, RegisterVisitor,
        RegisterIsFatal, UnregisterVisitor, requesting
<1>15. CASE DialGatewayFails \/ ListenAndServeFails \/ KillGateway
    BY <1>5, <1>15 DEF DialGatewayFails, ListenAndServeFails, KillGateway
<1>16. ASSUME NEW s \in Requests, CallIsFatal(s)
       PROVE  ~target
    BY <1>16 DEF CallIsFatal
<1> QED
    BY <1>2, <1>10, <1>11, <1>12, <1>13, <1>14, <1>15, <1>16
    DEF GatewayStep, GatewayNext, RequestHandler

-----------------------------------------------------------------------------
(* ConfirmedIsPublished. *)

\* Where the event of a call or a request may be.
Somewhere == (arrived \cup UnderWay \cup dropped) \ Answers

LEMMA WriteSomewhere ==
    ASSUME wire \in Seq(Frames), NEW f \in Frames, Write(f)
    PROVE  Somewhere \subseteq Somewhere'
<1>1. UnderWay \subseteq UnderWay'
    <2> SUFFICES ASSUME NEW i \in DOMAIN wire, wire[i].kind = "publish",
                        \A j \in DOMAIN wire : wire[j].kind = "close" => i < j
                 PROVE  wire[i].item \in UnderWay'
        BY DEF UnderWay
    <2>1. i \in DOMAIN wire' /\ wire'[i] = wire[i]
        BY WriteWire
    <2>2. \A j \in DOMAIN wire' : wire'[j].kind = "close" => i < j
        BY WriteWire
    <2> QED
        BY <2>1, <2>2 DEF UnderWay
<1> QED
    BY <1>1 DEF Write, Somewhere

LEMMA NetworkSomewhere ==
    ASSUME wire \in Seq(Frames), Network
    PROVE  Somewhere \subseteq Somewhere'
<1>1. CASE BrokerReads
    <2> DEFINE f == Head(wire)
    <2>1. f = wire[1] /\ 1 \in DOMAIN wire /\ DOMAIN wire = 1..Len(wire) /\ Len(wire) \in Nat
        BY <1>1, HeadTailProperties, EmptySeq, LenProperties, ReadCases
    <2>2. CASE f.kind = "close"
        <3>1. UnderWay = {}
            BY <2>1, <2>2 DEF UnderWay
        <3> QED
            BY <1>1, <2>2, <3>1, ReadCases DEF Somewhere
    <2>3. CASE f.kind # "close"
        <3>1. wire' = Tail(wire)
            BY <1>1, <2>3, ReadCases
        <3> SUFFICES ASSUME NEW i \in DOMAIN wire, wire[i].kind = "publish",
                            \A j \in DOMAIN wire : wire[j].kind = "close" => i < j,
                            wire[i].item \notin Answers
                     PROVE  wire[i].item \in Somewhere'
            BY <1>1, ReadCases DEF UnderWay, Somewhere
        <3>2. CASE i = 1
            BY <1>1, <2>1, <3>2, ReadCases DEF Somewhere
        <3>3. CASE i # 1
            <4>1. i - 1 \in DOMAIN wire' /\ wire'[i - 1] = wire[i]
                BY <1>1, <3>1, <3>3, TailWire, ReadCases
            <4>2. \A j \in DOMAIN wire' : wire'[j].kind = "close" => i - 1 < j
                BY <1>1, <2>1, <3>1, TailWire, ReadCases
            <4> QED
                BY <4>1, <4>2 DEF UnderWay, Somewhere
        <3> QED
            BY <3>2, <3>3
    <2> QED
        BY <2>2, <2>3
<1>2. CASE LinkBreaks
    BY <1>2 DEF LinkBreaks, Published, UnderWay, Somewhere
<1>3. CASE NoticeLoss \/ BrokerSeesEnd
    BY <1>3 DEF NoticeLoss, BrokerSeesEnd, brokerSide, UnderWay, Somewhere
<1> QED
    BY <1>1, <1>2, <1>3 DEF Network

\* Only a consumer of the process acknowledges.
Writes(f) == Write(f) /\ (f.kind \in {"ack", "nack"} => f.item \in Consumes(service))

\* Every step writes, lets the network work, or leaves the wire alone.
LEMMA WireStep ==
    ASSUME TypesInv, CallsInv, Next
    PROVE  \/ Network
           \/ \E f \in Frames : Writes(f)
           \/ UNCHANGED <<wire, arrived, dropped>>
<1> USE DEF brokerSide, connection
<1>1. /\ \A x \in Calls \cup Requests :
            Write(Frame("publish", x)) => \E f \in Frames : Writes(f)
      /\ Write(Frame("close", "close")) => \E f \in Frames : Writes(f)
      /\ \A k \in {"ack", "nack"}, q \in Consumes(service) \cap Queues :
            Write(Frame(k, q)) => \E f \in Frames : Writes(f)
    BY DEF Frame, Frames, Writes
<1>2. CASE ServiceStep
    <2>1. CASE Main \/ Signal \/ Serve \/ ServeFails \/ Kill \/ ListenFails \/ ConnectFails
        BY <1>1, <2>1 DEF Main, Start, Begin, Listen, ConnectMongo, ConnectBroker, DialBroker, Dial,
            Stop, Drain, Close, CloseBroker, BrokerClosed, StartClose, EndClose, Disconnect, Exit,
            Signal, Serve, ServeFails, Kill, ListenFails, ConnectFails, ServiceEnds, Ends
    <2>2. ASSUME NEW q \in Queues, Consumer(q), ~Replying(q), ~Settle(q)
          PROVE  \/ \E f \in Frames : Writes(f)
                 \/ UNCHANGED <<wire, arrived, dropped>>
        BY <2>2, ConsumerSteps, EffectFrame DEF StartConsumer, Receive, LoopEnds, ServiceEnds, Ends
    <2>3. ASSUME NEW q \in Queues, Replying(q)
          PROVE  \/ \E f \in Frames : Writes(f)
                 \/ UNCHANGED <<wire, arrived, dropped>>
        BY <2>3, ReplyFrame, ReplyWrite DEF Writes
    <2>4. ASSUME NEW c \in Calls, Calling(c)
          PROVE  \/ \E f \in Frames : Writes(f)
                 \/ UNCHANGED <<wire, arrived, dropped>>
        BY <1>1, <2>4, CallFrame DEF PublishMessage, ServiceEnds, Ends
    <2>5. ASSUME NEW q \in Queues, Settle(q)
          PROVE  \/ \E f \in Frames : Writes(f)
                 \/ UNCHANGED <<wire, arrived, dropped>>
        <3>1. q \in Consumes(service)
            BY <2>5 DEF Settle, To, CallsInv
        <3> QED
            BY <1>1, <2>5, <3>1 DEF Settle, Acknowledge
    <2> QED
        BY <1>2, <2>1, <2>2, <2>3, <2>4, <2>5 DEF ServiceStep, ServiceNext, Calling
<1>3. CASE GatewayStep
    <2>1. CASE GatewayMain \/ SignalGateway \/ DialGatewayFails \/ ListenAndServeFails \/ KillGateway
        BY <1>1, <2>1 DEF GatewayMain, SignalGateway, DialGatewayFails, ListenAndServeFails,
            KillGateway, StartGateway, Begin, ConnectGateway, DialBroker, Dial, StartConsumers,
            ListenAndServe, Shutdown, ShutdownEnds, CloseGateway, CloseBroker, BrokerClosed,
            StartClose, EndClose, ExitGateway, GatewayEnds, Ends
    <2>2. CASE Notifier
        BY <2>2 DEF Notifier, Take, Push, PushingEnds
    <2>3. ASSUME NEW r \in Requests, Arrive(r) \/ RequestHandler(r) \/ Call(r)
          PROVE  \/ \E f \in Frames : Writes(f)
                 \/ UNCHANGED <<wire, arrived, dropped>>
        BY <1>1, <2>3 DEF Arrive, RequestHandler, PublishRequest, PublishMessage, CallIsFatal, Call,
            GatewayEnds, Ends
    <2>4. ASSUME NEW d \in Visitors, OpenSocket(d) \/ LeaveSocket(d) \/ SocketHandler(d)
          PROVE  UNCHANGED <<wire, arrived, dropped>>
        BY <2>4 DEF OpenSocket, LeaveSocket, SocketHandler, RegisterVisitor, RegisterIsFatal,
            UnregisterVisitor, GatewayEnds, Ends
    <2> QED
        BY <1>3, <2>1, <2>2, <2>3, <2>4 DEF GatewayStep, GatewayNext
<1> QED
    BY <1>2, <1>3 DEF Next

LEMMA SomewhereStays ==
    ASSUME TypesInv, CallsInv, Next
    PROVE  Somewhere \subseteq Somewhere'
<1>1. wire \in Seq(Frames)
    BY DEF TypesInv
<1>2. CASE UNCHANGED <<wire, arrived, dropped>>
    BY <1>2 DEF Somewhere, UnderWay
<1> QED
    BY <1>1, <1>2, WireStep, WriteSomewhere, NetworkSomewhere DEF Writes

\* A publish gets somewhere, unless the process is closing its connection.
LEMMA PublishSomewhere ==
    ASSUME TypesInv, LinkInv, NEW x \in Calls \cup Requests, PublishMessage(x),
           main \notin Before \cup {"closing"}
    PROVE  x \in Somewhere'
<1> DEFINE f == Frame("publish", x)
<1>1. wire \in Seq(Frames) /\ f \in Frames /\ f.kind = "publish" /\ f.item = x
    BY DEF TypesInv, Frame, Frames
<1>2. Write(f) /\ x \notin Answers
    BY EventsAssumption DEF PublishMessage
<1> HIDE DEF f
<1>3. CASE link # "up"
    BY <1>1, <1>2, <1>3 DEF Write, Somewhere
<1>4. CASE link = "up"
    <2>1. Len(wire) + 1 \in DOMAIN wire' /\ wire'[Len(wire) + 1] = f
        BY <1>1, <1>2, <1>4, WriteWire
    <2>2. \A j \in DOMAIN wire' : wire'[j].kind # "close"
        BY <1>1, <1>2, WriteWire DEF LinkInv
    <2> QED
        BY <1>1, <1>2, <2>1, <2>2 DEF UnderWay, Somewhere
<1> QED
    BY <1>3, <1>4

\* An RPC of trip-service succeeds by publishing its event.
LEMMA ConfirmedCall ==
    ASSUME TypesInv, LinkInv, CallsInv, Next, NEW c \in Calls,
           service' = "trip", rpc'[c] = "ok", rpc[c] # "ok"
    PROVE  c \in Somewhere'
<1>1. service = "trip" /\ ServiceStep
    BY ServiceFrame, GatewayFrame DEF Next, serviceVars, effects
<1>2. rpc \in [Calls -> CallStates]
    BY TypesSplit DEF WorkTypes
<1>3. ~ServiceEnds
    BY DEF ServiceEnds
<1>4. rpc' # rpc
    OBVIOUS
<1>5. PICK d \in Calls : Calling(d)
    <2>1. ASSUME NEW q \in Queues, Consumer(q)
          PROVE  FALSE
        BY <1>3, <1>4, <2>1, ConsumerSteps, EffectFrame, ReplyFrame
        DEF StartConsumer, Receive, Settle, LoopEnds, effects
    <2>2. ~(Main \/ Signal \/ Serve \/ Kill \/ ListenFails \/ ConnectFails \/ ServeFails
            \/ (Network /\ UNCHANGED serviceVars))
        BY <1>3, <1>4 DEF Main, Start, Listen, ConnectMongo, ConnectBroker, Stop, Drain, Close,
            Disconnect, Exit, Signal, Serve, Kill, ListenFails, ConnectFails, ServeFails,
            serviceVars, effects
    <2> QED
        BY <1>1, <2>1, <2>2 DEF ServiceStep, ServiceNext, Calling
<1>6. d = c /\ PublishCall(c) /\ PublishMessage(c) /\ Running(c)
    BY <1>1, <1>2, <1>3, <1>5 DEF Calling, AcceptCall, RouteArrives, RouteFails, CallHandler,
        StoreCall, PublishCall, Running
<1>7. main \notin Before \cup {"closing"}
    BY <1>6 DEF CallsInv, After
<1> QED
    BY <1>6, <1>7, PublishSomewhere

\* A browser or Stripe is told 200 by publishing the event.
LEMMA ConfirmedRequest ==
    ASSUME TypesInv, LinkInv, RequestsInv, Next, NEW r \in Requests,
           request'[r].pc = "done", request'[r].code = 200,
           ~(request[r].pc = "done" /\ request[r].code = 200)
    PROVE  r \in Somewhere' \/ faults' > 0
<1>1. GatewayStep
    BY ServiceFrame DEF Next, gatewayVars, requesting
<1>2. request \in [Requests -> RequestType]
    BY TypesSplit DEF GateTypes
<1>3. ~GatewayEnds
    BY DEF GatewayEnds, NewRequest
<1>4. request' # request
    OBVIOUS
<1>5. PICK s \in Requests : Arrive(s) \/ PublishRequest(s) \/ Call(s)
    <2>1. ~(GatewayMain \/ SignalGateway \/ DialGatewayFails \/ ListenAndServeFails \/ KillGateway
            \/ Notifier \/ (Network /\ UNCHANGED gatewayVars))
        BY <1>3, <1>4 DEF GatewayMain, SignalGateway, StartGateway, ConnectGateway,
            StartConsumers, ListenAndServe, Shutdown, ShutdownEnds, CloseGateway, ExitGateway,
            DialGatewayFails, ListenAndServeFails, KillGateway, Notifier, Take, Push, PushingEnds,
            gatewayVars, requesting
    <2>2. ASSUME NEW d \in Visitors, OpenSocket(d) \/ LeaveSocket(d) \/ SocketHandler(d)
          PROVE  FALSE
        BY <1>3, <1>4, <2>2 DEF OpenSocket, LeaveSocket, SocketHandler, RegisterVisitor,
            RegisterIsFatal, UnregisterVisitor, requesting
    <2>3. ASSUME NEW s \in Requests, CallIsFatal(s)
          PROVE  FALSE
        BY <1>3, <2>3 DEF CallIsFatal
    <2> QED
        BY <1>1, <2>1, <2>2, <2>3 DEF GatewayStep, GatewayNext, RequestHandler
<1>6. s = r
    BY <1>2, <1>5 DEF Arrive, PublishRequest, Call, Reply
<1>7. ~Arrive(r)
    <2> SUFFICES ASSUME Arrive(r)
                 PROVE  request'[r].pc # "done"
        OBVIOUS
    <2>1. PICK e \in {"preview", "start", "cancel", "webhook"}, b \in Bodies :
            request' = [request EXCEPT ![r] =
                IF Verdict(e, b) # 0 THEN Answered(Verdict(e, b), "refused")
                ELSE [pc |-> IF e \in {"preview", "start"} THEN "call" ELSE "publish",
                      endpoint |-> e, body |-> IF e = "preview" THEN b ELSE NoBody, code |-> 0]]
        BY DEF Arrive
    <2> QED
        BY <1>2, <2>1 DEF Answered
<1>8. ~Call(r)
    BY <1>2 DEF Call, Reply, Answered
<1>9. PublishRequest(r) /\ PublishMessage(r) /\ Handled(r) /\ ~cut
    BY <1>2, <1>5, <1>6, <1>7, <1>8 DEF PublishRequest, Reply, Answered, Handled
<1>10. CASE faults > 0
    BY <1>1, <1>10, GatewayFrame
<1>11. CASE main \in {"wait", "shutdown"}
    BY <1>9, <1>11, PublishSomewhere DEF Before
<1> QED
    BY <1>9, <1>10, <1>11 DEF RequestsInv

LEMMA ConfirmedStep ==
    ASSUME TypesInv, LinkInv, CallsInv, RequestsInv, ConfirmedIsPublished, Next
    PROVE  ConfirmedIsPublished'
<1>1. service' = service /\ faults \in Nat /\ faults' \in Nat /\ faults' >= faults
    BY ServiceFrame, GatewayFrame DEF Next
<1>2. ASSUME NEW c \in Calls, service' = "trip", rpc'[c] = "ok"
      PROVE  c \in Somewhere' \cup (IF faults' > 0 THEN Requests ELSE {})
    <2>1. CASE rpc[c] = "ok"
        <3>1. c \in Somewhere \cup (IF faults > 0 THEN Requests ELSE {})
            BY <1>1, <1>2, <2>1, EventsAssumption DEF ConfirmedIsPublished, Somewhere
        <3> QED
            BY <1>1, <3>1, SomewhereStays
    <2> QED
        BY <1>2, <2>1, ConfirmedCall
<1>3. ASSUME NEW r \in Requests, request'[r].pc = "done", request'[r].code = 200
      PROVE  r \in Somewhere' \cup (IF faults' > 0 THEN Requests ELSE {})
    <2>1. CASE request[r].pc = "done" /\ request[r].code = 200
        <3>1. r \in Somewhere \cup (IF faults > 0 THEN Requests ELSE {})
            BY <2>1, EventsAssumption DEF ConfirmedIsPublished, Somewhere
        <3> QED
            BY <1>1, <3>1, SomewhereStays
    <2> QED
        BY <1>3, <2>1, ConfirmedRequest
<1> QED
    BY <1>2, <1>3 DEF ConfirmedIsPublished, Somewhere

-----------------------------------------------------------------------------
(* DeliveryInv: what stays. *)

\* What is done stays done.
Grows ==
    /\ service' = service
    /\ starts \in Nat /\ starts' \in Nat /\ starts' >= starts
    /\ stored \subseteq stored' /\ failed \subseteq failed' /\ arrived \subseteq arrived'
    /\ unowed \subseteq unowed' /\ forgotten \subseteq forgotten'

LEMMA DoneStays ==
    ASSUME Grows, NEW q, NEW m, Done(q, m)
    PROVE  Done(q, m)'
BY DEF Grows, Done, Settled, CutShort

LEMMA BacklogStays ==
    ASSUME Grows, NEW q, BacklogInv(q), Backlog(q)' = Backlog(q)
    PROVE  BacklogInv(q)'
BY DoneStays DEF BacklogInv

\* What was sent, and sent before a frame, was so.
LEMMA SentStays ==
    ASSUME wire \in Seq(Frames), arrived' = arrived, NEW f \in Frames, Write(f)
    PROVE  /\ \A x : Sent(x) => Sent(x)'
           /\ \A x, i : SentBefore(x, i) => SentBefore(x, i)'
BY WriteWire DEF Sent, SentBefore

LEMMA SentRests ==
    ASSUME Grows, wire' = wire
    PROVE  /\ \A x : Sent(x) => Sent(x)'
           /\ \A x, i : SentBefore(x, i) => SentBefore(x, i)'
BY DEF Sent, SentBefore, Grows

LEMMA AcksHold ==
    ASSUME Grows, NEW q, AcksInv(q), unacked'[q] = unacked[q], Acks(q)' = Acks(q),
           \A x, i : SentBefore(x, i) => SentBefore(x, i)'
    PROVE  AcksInv(q)'
<1>1. unacked[q] # <<>> /\ Done(q, Head(unacked[q])) =>
        unacked'[q] # <<>> /\ Done(q, Head(unacked[q]))'
    BY DoneStays
<1>2. ASSUME NEW i \in Acks(q), \A x \in Owes(q, Head(unacked[q])) : SentBefore(x, i)
      PROVE  \A x \in Owes(q, Head(unacked'[q])) : SentBefore(x, i)'
    BY <1>2
<1> QED
    BY <1>1, <1>2 DEF AcksInv

\* A frame that does not settle the queue is written: its acknowledgement stays.
LEMMA AcksAfterWrite ==
    ASSUME wire \in Seq(Frames), Grows, NEW q, AcksInv(q), unacked'[q] = unacked[q],
           NEW f \in Frames, Write(f), ~(f.kind \in {"ack", "nack"} /\ f.item = q)
    PROVE  AcksInv(q)' /\ Acks(q)' = Acks(q)
<1>1. Acks(q)' = Acks(q)
    BY WriteWire DEF Acks
<1>2. \A x, i : SentBefore(x, i) => SentBefore(x, i)'
    BY SentStays DEF Write
<1> QED
    BY <1>1, <1>2, AcksHold

\* Nothing is written: the acknowledgement stays.
LEMMA AcksStay ==
    ASSUME Grows, NEW q, AcksInv(q), unacked'[q] = unacked[q], wire' = wire
    PROVE  AcksInv(q)' /\ Acks(q)' = Acks(q)
<1>1. Acks(q)' = Acks(q)
    BY DEF Acks
<1> QED
    BY <1>1, SentRests, AcksHold

\* The handler of the queue does not move.
LEMMA HandlerStays ==
    ASSUME Grows, NEW q, HandlerInv(q), held'[q] = held[q], consumer'[q] = consumer[q],
           link' = "up" =>
               /\ link = "up" /\ unacked'[q] = unacked[q]
               /\ held[q] # <<>> /\ Delivery(q) \in stored' => Delivery(q) \in stored
               /\ Acks(q) = {} => Acks(q)' = {}
               /\ \A x : Sent(x) => Sent(x)'
    PROVE  HandlerInv(q)'
<1>0. PICK m : m = Delivery(q)
    OBVIOUS
<1>1. Delivery(q)' = m
    BY <1>0 DEF Delivery
<1>2. ASSUME held[q] # <<>>, link' = "up"
      PROVE  /\ unacked'[q] = held[q] /\ Acks(q)' = {}
             /\ consumer[q] = "working" => m \notin stored' \/ starts' > 1
             /\ consumer[q] = "stored" /\ q = "payment_success" => m \in stored'
             /\ consumer[q] = "assigned" => Accepts(q, m) /\ Sent(Assigned(m))'
             /\ consumer[q] = "answered" =>
                 Done(q, m)' \/ (q # "payment_success" /\ \A x \in Owes(q, m) : Sent(x)')
             /\ consumer[q] = "failed" => Done(q, m)'
    <2>1. link = "up" /\ unacked'[q] = held[q] /\ Acks(q)' = {} /\ \A x : Sent(x) => Sent(x)'
        BY <1>2 DEF HandlerInv
    <2>2. consumer[q] = "working" => m \notin stored' \/ starts' > 1
        BY <1>0, <1>2, <2>1 DEF HandlerInv, Grows
    <2>3. consumer[q] = "stored" /\ q = "payment_success" => m \in stored'
        BY <1>0, <1>2, <2>1 DEF HandlerInv, Grows
    <2>4. consumer[q] = "assigned" => Accepts(q, m) /\ Sent(Assigned(m))'
        BY <1>0, <1>2, <2>1 DEF HandlerInv
    <2>5. consumer[q] \in {"answered", "failed"} =>
            \/ Done(q, m)
            \/ /\ consumer[q] = "answered" /\ q # "payment_success"
               /\ \A x \in Owes(q, m) : Sent(x)
        BY <1>0, <1>2, <2>1 DEF HandlerInv
    <2>6. Done(q, m) => Done(q, m)'
        BY DoneStays
    <2> QED
        BY <2>1, <2>2, <2>3, <2>4, <2>5, <2>6
<1> QED
    BY <1>1, <1>2 DEF HandlerInv

LEMMA FreshStays ==
    ASSUME FreshInv, Grows, stored' = stored, forgotten' = forgotten, starts' = starts,
           main' \in Before => main \in Before, main = "down" => main' = "down",
           link' = "up" => link = "up" /\ \A q \in Consumes(service) :
                Members(waiting'[q]) \subseteq Members(waiting[q])
    PROVE  FreshInv'
BY DEF FreshInv, Grows

\* Nothing that a queue's consumer does.
QueueInv(q) == BacklogInv(q) /\ HandlerInv(q) /\ AcksInv(q)

LEMMA QueueStays ==
    ASSUME Grows, NEW q, QueueInv(q), UNCHANGED stored,
           held'[q] = held[q], consumer'[q] = consumer[q], waiting'[q] = waiting[q],
           unacked'[q] = unacked[q], wire' = wire, link' = "up" => link = "up"
    PROVE  QueueInv(q)'
<1>1. BacklogInv(q)'
    BY BacklogStays DEF QueueInv, Backlog
<1>2. AcksInv(q)' /\ Acks(q)' = Acks(q)
    BY AcksStay DEF QueueInv
<1>3. HandlerInv(q)'
    BY <1>2, SentRests, HandlerStays DEF QueueInv
<1> QED
    BY <1>1, <1>2, <1>3 DEF QueueInv

LEMMA QueueAfterWrite ==
    ASSUME wire \in Seq(Frames), Grows, NEW q, QueueInv(q), UNCHANGED stored,
           held'[q] = held[q], consumer'[q] = consumer[q],
           NEW f \in Frames, Write(f), ~(f.kind \in {"ack", "nack"} /\ f.item = q)
    PROVE  QueueInv(q)'
<1>0. waiting' = waiting /\ unacked' = unacked /\ link' = link /\ arrived' = arrived
    BY DEF Write
<1>1. BacklogInv(q)'
    BY <1>0, BacklogStays DEF QueueInv, Backlog
<1>2. AcksInv(q)' /\ Acks(q)' = Acks(q)
    BY <1>0, AcksAfterWrite DEF QueueInv
<1>3. HandlerInv(q)'
    BY <1>0, <1>2, SentStays, HandlerStays DEF QueueInv
<1> QED
    BY <1>1, <1>2, <1>3 DEF QueueInv

-----------------------------------------------------------------------------
(* DeliveryInv: what the broker does. *)

\* The frame the broker reads is not an acknowledgement of the queue.
LEMMA AcksAfterRead ==
    ASSUME wire \in Seq(Frames), wire # <<>>, wire' = Tail(wire), Grows, NEW q, AcksInv(q),
           unacked'[q] = unacked[q], 1 \notin Acks(q),
           wire[1].kind = "publish" => wire[1].item \in arrived'
    PROVE  /\ AcksInv(q)'
           /\ Acks(q) = {} => Acks(q)' = {}
           /\ \A x : Sent(x) => Sent(x)'
<1>1. \A i \in Acks(q)' : i \in Nat /\ i + 1 \in Acks(q)
    BY TailWire DEF Acks
<1>2. ASSUME NEW m, NEW j \in DOMAIN wire, wire[j] = Frame("publish", m)
      PROVE  m \in arrived' \/ (j - 1 \in DOMAIN wire' /\ wire'[j - 1] = Frame("publish", m))
    <2>1. Frame("publish", m).kind = "publish" /\ Frame("publish", m).item = m
        BY DEF Frame
    <2>2. CASE j = 1
        BY <1>2, <2>1, <2>2
    <2>3. CASE j # 1
        BY <1>2, <2>3, TailWire
    <2> QED
        BY <2>2, <2>3
<1>3. \A x : Sent(x) => Sent(x)'
    BY <1>2 DEF Sent, Grows
<1>4. ASSUME NEW x, NEW i \in Nat, SentBefore(x, i + 1)
      PROVE  SentBefore(x, i)'
    <2>1. CASE x \in arrived
        BY <2>1 DEF SentBefore, Grows
    <2>2. CASE \E j \in DOMAIN wire : j < i + 1 /\ wire[j] = Frame("publish", x)
        <3>1. PICK j \in DOMAIN wire : j < i + 1 /\ wire[j] = Frame("publish", x)
            BY <2>2
        <3>2. j \in Nat /\ j - 1 < i
            BY <3>1, TailWire
        <3> QED
            BY <1>2, <3>1, <3>2 DEF SentBefore
    <2> QED
        BY <1>4, <2>1, <2>2 DEF SentBefore
<1>5. ASSUME NEW i \in Acks(q)'
      PROVE  /\ unacked'[q] # <<>>
             /\ \/ Done(q, Head(unacked[q]))'
                \/ /\ q # "payment_success"
                   /\ \A x \in Owes(q, Head(unacked'[q])) : SentBefore(x, i)'
    <2>1. i \in Nat /\ i + 1 \in Acks(q)
        BY <1>1, <1>5
    <2>2. unacked[q] # <<>>
        BY <2>1 DEF AcksInv
    <2>3. CASE Done(q, Head(unacked[q]))
        BY <2>2, <2>3, DoneStays
    <2>4. CASE /\ q # "payment_success"
               /\ \A x \in Owes(q, Head(unacked[q])) : SentBefore(x, i + 1)
        BY <1>4, <2>1, <2>2, <2>4
    <2> QED
        BY <2>1, <2>3, <2>4 DEF AcksInv
<1>6. \A i, j \in Acks(q)' : i = j
    BY <1>1 DEF AcksInv
<1>7. AcksInv(q)'
    BY <1>5, <1>6 DEF AcksInv
<1>8. Acks(q) = {} => Acks(q)' = {}
    BY <1>1
<1> QED
    BY <1>3, <1>7, <1>8

LEMMA OneAhead ==
    ASSUME NEW S, NEW x \in S, NEW w \in Seq(S)
    PROVE  LET b == <<x>> \o w
           IN  /\ b \in Seq(S) /\ Len(b) = 1 + Len(w) /\ DOMAIN b = 1..(1 + Len(w))
               /\ DOMAIN w = 1..Len(w) /\ Len(w) \in Nat
               /\ b[1] = x /\ \A i \in DOMAIN w : b[i + 1] = w[i]
<1>1. <<x>> \in Seq(S) /\ Len(<<x>>) = 1 /\ <<x>>[1] = x
    OBVIOUS
<1>2. Len(w) \in Nat /\ DOMAIN w = 1..Len(w)
    BY LenProperties
<1>3. <<x>> \o w \in Seq(S) /\ Len(<<x>> \o w) = 1 + Len(w)
    BY <1>1, ConcatProperties
<1>4. \A i \in 1..(1 + Len(w)) : (<<x>> \o w)[i] = IF i <= 1 THEN <<x>>[i] ELSE w[i - 1]
    BY <1>1, ConcatProperties
<1>5. DOMAIN (<<x>> \o w) = 1..(1 + Len(w))
    BY <1>3, LenProperties
<1> QED
    BY <1>1, <1>2, <1>3, <1>4, <1>5

\* It is: the message leaves the backlog, and it is done.
LEMMA BacklogAfterAck ==
    ASSUME TypesInv, Grows, NEW q \in Queues, BacklogInv(q), unacked[q] # <<>>,
           Done(q, Head(unacked[q])), unacked'[q] = <<>>, waiting'[q] = waiting[q]
    PROVE  BacklogInv(q)'
<1> DEFINE x == Head(unacked[q])
           w == waiting[q]
<1>1. unacked[q] = <<x>> /\ x \in Messages /\ w \in Seq(Messages)
    BY OneElement DEF TypesInv, TypeOK
<1>2. Backlog(q)' = w
    BY <1>1, ConcatEmptySeq DEF Backlog
<1>3. Backlog(q) = <<x>> \o w
    BY <1>1 DEF Backlog
<1> HIDE DEF x, w
<1>4. /\ DOMAIN Backlog(q) = 1..(1 + Len(w)) /\ DOMAIN w = 1..Len(w) /\ Len(w) \in Nat
      /\ Backlog(q)[1] = x /\ \A i \in DOMAIN w : Backlog(q)[i + 1] = w[i]
    BY <1>1, <1>3, OneAhead
<1>5. \A i, j \in DOMAIN w : w[i] = w[j] => i = j
    <2> SUFFICES ASSUME NEW i \in DOMAIN w, NEW j \in DOMAIN w, w[i] = w[j]
                 PROVE  i = j
        OBVIOUS
    <2>1. Backlog(q)[i + 1] = Backlog(q)[j + 1]
        BY <1>4
    <2>2. i + 1 \in DOMAIN Backlog(q) /\ j + 1 \in DOMAIN Backlog(q) /\ i \in Nat /\ j \in Nat
        BY <1>4
    <2>3. i + 1 = j + 1
        BY <2>1, <2>2 DEF BacklogInv
    <2> QED
        BY <2>2, <2>3
<1>6. Members(w) \subseteq Members(Backlog(q)) /\ Members(Backlog(q)) \subseteq Members(w) \cup {x}
    <2>1. \A i \in DOMAIN w : i + 1 \in DOMAIN Backlog(q)
        BY <1>4
    <2>2. \A i \in DOMAIN Backlog(q) : i = 1 \/ (i - 1 \in DOMAIN w /\ Backlog(q)[i] = w[i - 1])
        BY <1>4
    <2> QED
        BY <1>4, <2>1, <2>2 DEF Members
<1>7. \A m \in Members(Inbox[q]) : m \in Members(w) \/ Done(q, m)'
    <2> SUFFICES ASSUME NEW m \in Members(Inbox[q])
                 PROVE  m \in Members(w) \/ Done(q, m)'
        OBVIOUS
    <2>1. CASE Done(q, m)
        BY <2>1, DoneStays
    <2>2. CASE m \in Members(Backlog(q))
        BY <1>6, <2>2, DoneStays DEF x
    <2> QED
        BY <2>1, <2>2 DEF BacklogInv
<1>8. Members(w) \subseteq Members(Inbox[q])
    BY <1>6 DEF BacklogInv
<1> QED
    BY <1>2, <1>5, <1>7, <1>8 DEF BacklogInv

LEMMA QueueAfterPutBack ==
    ASSUME TypesInv, Grows, NEW q \in Queues, QueueInv(q), PutBack, wire' = <<>>, link' # "up",
           UNCHANGED <<stored, held, consumer>>
    PROVE  QueueInv(q)'
<1>1. unacked[q] \in Seq(Messages) /\ waiting[q] \in Seq(Messages)
    BY DEF TypesInv
<1>2. Backlog(q)' = Backlog(q)
    BY <1>1, ConcatProperties, ConcatEmptySeq DEF PutBack, Backlog
<1>3. Acks(q)' = {}
    BY DEF Acks
<1>4. HandlerInv(q)'
    BY HandlerStays DEF QueueInv
<1> QED
    BY <1>2, <1>3, <1>4, BacklogStays DEF QueueInv, AcksInv

LEMMA QueueAfterNetwork ==
    ASSUME TypesInv, Grows, NEW q \in Queues, QueueInv(q), Network,
           UNCHANGED <<stored, held, consumer>>
    PROVE  QueueInv(q)'
<1>1. wire \in Seq(Frames)
    BY DEF TypesInv
<1>2. CASE PutBack /\ wire' = <<>> /\ link' # "up"
    BY <1>2, QueueAfterPutBack
<1>3. CASE UNCHANGED <<brokerSide, link, wire>>
    BY <1>3, QueueStays DEF brokerSide
<1>4. CASE BrokerReads /\ Head(wire).kind # "close"
    <2> DEFINE f == Head(wire)
    <2>0. wire' = Tail(wire) /\ wire # <<>>
        BY <1>1, <1>4, ReadCases
    <2>1. /\ wire # <<>> /\ link = "up" /\ f = wire[1] /\ 1 \in DOMAIN wire
          /\ waiting' = waiting /\ link' = link
          /\ \/ /\ f.kind \in {"ack", "nack"}
                /\ unacked' = [unacked EXCEPT ![f.item] = <<>>]
             \/ f.kind = "publish" /\ f.item \in arrived' /\ unacked' = unacked
        BY <1>1, <1>4, <2>0, TailWire, ReadCases
    <2>2. CASE 1 \in Acks(q)
        <3>1. f.kind \in {"ack", "nack"} /\ f.item = q
            BY <2>1, <2>2 DEF Acks
        <3>2. unacked'[q] = <<>>
            BY <2>1, <3>1 DEF TypesInv
        <3>3. unacked[q] # <<>> /\ Done(q, Head(unacked[q]))
            <4> DEFINE m == Head(unacked[q])
            <4>1. DOMAIN wire \subseteq Nat \ {0}
                BY <1>1, LenProperties
            <4>2. \A x : SentBefore(x, 1) => x \in arrived
                BY <4>1 DEF SentBefore
            <4>3. /\ unacked[q] # <<>>
                  /\ \/ Done(q, m)
                     \/ q # "payment_success" /\ \A x \in Owes(q, m) : SentBefore(x, 1)
                BY <2>2 DEF QueueInv, AcksInv
            <4>4. q # "payment_success" /\ Owes(q, m) \subseteq arrived => Done(q, m)
                BY DEF Done, Settled
            <4> QED
                BY <4>2, <4>3, <4>4
        <3>4. held[q] = <<>>
            BY <2>1, <2>2 DEF QueueInv, HandlerInv
        <3>5. Acks(q)' = {}
            BY <1>1, <2>0, <2>1, <2>2, TailWire DEF QueueInv, AcksInv, Acks
        <3>6. HandlerInv(q)'
            BY <3>4 DEF HandlerInv
        <3>7. BacklogInv(q)'
            BY <2>1, <3>2, <3>3, BacklogAfterAck DEF QueueInv
        <3> QED
            BY <3>5, <3>6, <3>7 DEF QueueInv, AcksInv
    <2>3. CASE 1 \notin Acks(q)
        <3>1. unacked'[q] = unacked[q]
            BY <2>1, <2>3 DEF Acks, TypesInv
        <3>2. BacklogInv(q)'
            BY <2>1, <3>1, BacklogStays DEF Backlog, QueueInv
        <3>3. wire[1].kind = "publish" => wire[1].item \in arrived'
            BY <2>1
        <3>4. /\ AcksInv(q)'
              /\ Acks(q) = {} => Acks(q)' = {}
              /\ \A x : Sent(x) => Sent(x)'
            BY <1>1, <2>0, <2>1, <2>3, <3>1, <3>3, AcksAfterRead DEF QueueInv
        <3>5. HandlerInv(q)'
            BY <2>1, <3>1, <3>4, HandlerStays DEF QueueInv
        <3> QED
            BY <3>2, <3>4, <3>5 DEF QueueInv
    <2> QED
        BY <2>2, <2>3
<1>5. CASE BrokerReads /\ Head(wire).kind = "close"
    BY <1>1, <1>2, <1>5, ReadCases
<1>6. CASE LinkBreaks \/ BrokerSeesEnd
    BY <1>2, <1>6 DEF LinkBreaks, BrokerSeesEnd
<1> QED
    BY <1>3, <1>4, <1>5, <1>6 DEF Network, NoticeLoss

-----------------------------------------------------------------------------
(* DeliveryInv: what the process does. *)

\* Nobody handles a message of the queue, before or after.
LEMMA QueueRests ==
    ASSUME Grows, NEW q, QueueInv(q), held'[q] = <<>>, waiting'[q] = waiting[q],
           unacked'[q] = unacked[q], wire' = wire
    PROVE  QueueInv(q)'
BY BacklogStays, AcksStay DEF QueueInv, Backlog, HandlerInv

\* A message is of one queue.
LEMMA OneQueue ==
    ASSUME NEW q \in Queues, NEW r \in Queues, NEW m \in Members(Inbox[q]), m \in Members(Inbox[r])
    PROVE  q = r
BY ConnectionAssumption DEF Members

\* What a connected handler works on is the head of its queue's backlog.
LEMMA HandledMessage ==
    ASSUME TypesInv, NEW q \in Queues, BacklogInv(q), unacked[q] = held[q], held[q] # <<>>
    PROVE  /\ Delivery(q) \in Members(Inbox[q])
           /\ Delivery(q) \notin Members(waiting[q])
<1> DEFINE m == Delivery(q)
           w == waiting[q]
<1>1. m \in Messages /\ held[q] = <<m>> /\ w \in Seq(Messages)
    BY DeliveryIsMessage DEF TypesInv
<1>2. Backlog(q) = <<m>> \o w
    BY <1>1 DEF Backlog
<1> HIDE DEF m, w
<1>3. /\ DOMAIN Backlog(q) = 1..(1 + Len(w)) /\ DOMAIN w = 1..Len(w) /\ Len(w) \in Nat
      /\ Backlog(q)[1] = m /\ \A i \in DOMAIN w : Backlog(q)[i + 1] = w[i]
    BY <1>1, <1>2, OneAhead
<1>4. m \in Members(Backlog(q))
    BY <1>3 DEF Members
<1>5. m \notin Members(w)
    <2> SUFFICES ASSUME NEW i \in DOMAIN w, w[i] = m
                 PROVE  FALSE
        BY DEF Members
    <2>1. 1 \in DOMAIN Backlog(q) /\ i + 1 \in DOMAIN Backlog(q) /\ i \in Nat /\ i # 0
        BY <1>3
    <2>2. i + 1 = 1
        BY <1>3, <2>1 DEF BacklogInv
    <2> QED
        BY <2>1, <2>2
<1> QED
    BY <1>4, <1>5 DEF BacklogInv, m, w

\* Receive: the first message that waits becomes the one that is worked on.
LEMMA ReceiveQueue ==
    ASSUME TypesInv, Grows, NEW q \in Consumes(service) \cap Queues, QueueInv(q), FreshInv, Receive(q)
    PROVE  QueueInv(q)'
<1> DEFINE m == Head(waiting[q])
           w == waiting[q]
<1>1. m \in Messages /\ Tail(w) \in Seq(Messages) /\ w \in Seq(Messages) /\ w # <<>>
    BY HeadTailProperties DEF Receive, TypesInv
<1>2. /\ held'[q] = <<m>> /\ unacked'[q] = <<m>> /\ waiting'[q] = Tail(w)
      /\ consumer'[q] = "working" /\ unacked[q] = <<>> /\ link = "up"
      /\ UNCHANGED <<wire, stored, link, starts, service, arrived, failed>>
    BY DEF Receive, To, effects, process, TypesInv
<1>3. w = <<m>> \o Tail(w)
    <2> HIDE DEF w
    <2>1. Len(w) \in Nat \ {0} /\ Len(Tail(w)) = Len(w) - 1
          /\ \A i \in 1..(Len(w) - 1) : Tail(w)[i] = w[i + 1]
        BY <1>1, HeadTailProperties, EmptySeq
    <2>2. Head(w) = w[1] /\ Head(w) \in Messages
        BY <1>1, HeadTailProperties
    <2>3. <<Head(w)>> \o Tail(w) \in Seq(Messages) /\ Len(<<Head(w)>> \o Tail(w)) = Len(w)
        BY <1>1, <2>1, <2>2, OneAhead
    <2>4. \A i \in 1..Len(w) : (<<Head(w)>> \o Tail(w))[i] = w[i]
        <3> SUFFICES ASSUME NEW i \in 1..Len(w)
                     PROVE  (<<Head(w)>> \o Tail(w))[i] = w[i]
            OBVIOUS
        <3>1. CASE i = 1
            BY <1>1, <2>2, <3>1, OneAhead
        <3>2. CASE i # 1
            <4>1. i - 1 \in 1..(Len(w) - 1) /\ i - 1 \in DOMAIN Tail(w) /\ (i - 1) + 1 = i
                BY <1>1, <2>1, <3>2, LenProperties
            <4> QED
                BY <1>1, <2>1, <2>2, <4>1, OneAhead
        <3> QED
            BY <3>1, <3>2
    <2> QED
        BY <1>1, <2>3, <2>4, SeqEqual DEF w
<1>4. Backlog(q)' = Backlog(q)
    BY <1>1, <1>2, <1>3, ConcatEmptySeq DEF Backlog
<1>5. Acks(q) = {} /\ Acks(q)' = {}
    BY <1>2 DEF QueueInv, AcksInv, Acks
<1>6. Delivery(q)' = m
    BY <1>2 DEF Delivery
<1>7. m \notin stored \/ starts > 1
    <2>1. m \in Members(w)
        BY <1>1, HeadTailProperties, LenProperties, EmptySeq DEF Members
    <2> QED
        BY <1>2, <2>1 DEF FreshInv, Grows
<1>8. HandlerInv(q)'
    BY <1>2, <1>5, <1>6, <1>7 DEF HandlerInv
<1> QED
    BY <1>4, <1>5, <1>8, BacklogStays DEF QueueInv, AcksInv

\* The handler makes its effect: the wire is left alone.
LEMMA EffectQueue ==
    ASSUME TypesInv, LinkInv, CallsInv, FreshInv, Grows, NEW q \in Queues, QueueInv(q),
           Effecting(q)
    PROVE  QueueInv(q)'
<1> DEFINE m == Delivery(q)
<1>1. /\ UNCHANGED <<waiting, unacked, wire, link, held, service, starts>>
      /\ consumer[q] \in {"working", "stored"}
      /\ consumer'[q] \in {"stored", "answered", "failed"}
    BY EffectFrame DEF process, TypesInv
<1>2. BacklogInv(q)' /\ AcksInv(q)' /\ Acks(q)' = Acks(q)
    BY <1>1, BacklogStays, AcksStay DEF QueueInv, Backlog
<1>3. held[q] # <<>> /\ Delivery(q)' = m
    BY <1>1 DEF TypesInv, TypeOK, Delivery
<1>4. link = "up" =>
        /\ unacked[q] = held[q] /\ Acks(q) = {}
        /\ consumer[q] = "working" => m \notin stored \/ starts > 1
    BY <1>3 DEF QueueInv, HandlerInv
<1>5. starts \in Nat /\ starts > 0 /\ main \notin Before
    BY <1>1, StartsAssumption DEF CallsInv, LinkInv, Before, TypesInv, TypeOK
<1>6. ASSUME q = "payment_success", consumer'[q] = "stored"
      PROVE  m \in stored'
    <2>1. Store(q)
        BY <1>6 DEF Effecting, Withdraw, StoreFails, To, TypesInv
    <2> QED
        BY <1>6, <2>1 DEF Store, Lasts
<1>7. ASSUME link = "up", consumer'[q] = "answered"
      PROVE  Done(q, m)'
    <2>1. Withdraw(q)
        BY <1>7 DEF Effecting, Store, StoreFails, To, TypesInv
    <2>2. /\ q = "trip_cancelled_driver" /\ consumer[q] = "working"
          /\ m \in unowed' \/ m \in stored \/ TripOf[m] \in forgotten
        BY <1>7, <2>1 DEF Withdraw, To, TypesInv
    <2>3. CASE m \in unowed'
        BY <1>3, <2>2, <2>3 DEF Done, Settled
    <2>4. CASE m \in stored \/ TripOf[m] \in forgotten
        <3>1. starts > 1
            BY <1>4, <1>5, <1>7, <2>2, <2>4 DEF FreshInv, Before
        <3>2. CutShort(q, m)
            BY <2>2, <2>4, <3>1 DEF CutShort
        <3> QED
            BY <1>3, <3>2, DoneStays DEF Done
    <2> QED
        BY <2>2, <2>3, <2>4
<1>8. ASSUME link = "up", consumer'[q] = "failed"
      PROVE  Done(q, m)'
    <2>1. StoreFails(q)
        BY <1>8 DEF Effecting, Store, Withdraw, To, TypesInv
    <2>2. mongo # "gone"
        BY <1>8 DEF CallsInv, LinkInv
    <2>3. CASE m \in failed'
        BY <1>3, <2>3 DEF Done
    <2>4. CASE consumer[q] = "working" /\ Refuses(q)
        <3>1. CutShort(q, m)
            BY <1>4, <1>8, <2>2, <2>4 DEF Refuses, CutShort
        <3> QED
            BY <1>3, <3>1, DoneStays DEF Done
    <2> QED
        BY <2>1, <2>2, <2>3, <2>4 DEF StoreFails, To
<1>9. HandlerInv(q)'
    BY <1>1, <1>2, <1>3, <1>4, <1>6, <1>7, <1>8 DEF HandlerInv
<1> QED
    BY <1>2, <1>9 DEF QueueInv

\* The handler publishes: what it owes is on the wire, one thing after the other.
LEMMA ReplyQueue ==
    ASSUME TypesInv, LinkInv, CallsInv, Grows, NEW q \in Queues, QueueInv(q), Replying(q)
    PROVE  QueueInv(q)'
<1>0. PICK m : m = Delivery(q)
    OBVIOUS
<1>1. /\ UNCHANGED <<waiting, unacked, arrived, link, held, stored, failed, service, starts>>
      /\ consumer[q] \in {"stored", "assigned"}
      /\ consumer'[q] \in {"assigned", "answered", "failed"}
    BY ReplyFrame DEF effects, process, TypesInv
<1>2. wire \in Seq(Frames) /\ held[q] # <<>> /\ Delivery(q)' = m
    BY <1>0, <1>1 DEF TypesInv, TypeOK, Delivery
<1>3. /\ BacklogInv(q)' /\ AcksInv(q)' /\ Acks(q)' = Acks(q)
      /\ \A x : Sent(x) => Sent(x)'
    <2>1. BacklogInv(q)'
        BY <1>1, BacklogStays DEF QueueInv, Backlog
    <2>2. CASE \E f \in Frames : f.kind = "publish" /\ Write(f)
        BY <1>1, <1>2, <2>1, <2>2, AcksAfterWrite, SentStays DEF QueueInv
    <2>3. CASE wire' = wire
        BY <1>1, <2>1, <2>3, AcksStay, SentRests DEF QueueInv
    <2> QED
        BY <2>2, <2>3, ReplyWrite
<1>4. link = "up" =>
        /\ unacked[q] = held[q] /\ Acks(q) = {}
        /\ consumer[q] = "assigned" => Accepts(q, m) /\ Sent(Assigned(m))
        /\ consumer[q] = "stored" /\ q = "payment_success" => m \in stored
    BY <1>0, <1>2 DEF QueueInv, HandlerInv
<1>5. channel # "open" => link # "up"
    BY <1>1 DEF LinkInv, CallsInv, TypesInv, TypeOK
<1>6. ASSUME NEW x \in Answers, PublishMessage(x), link = "up"
      PROVE  Sent(x)'
    <2>1. Frame("publish", x) \in Frames
        BY DEF Frame, Frames
    <2> QED
        BY <1>2, <1>6, <2>1, WriteWire DEF PublishMessage, Sent
<1>7. m \in Answers /\ Assigned(m) \in Answers
    BY <1>0, <1>2, DeliveryIsMessage DEF Answers
<1>8. ASSUME link = "up", PublishAssigned(q)
      PROVE  HandlerInv(q)'
    <2>1. Accepts(q, m) /\ Sent(Assigned(m))' /\ consumer'[q] = "assigned"
        BY <1>0, <1>6, <1>7, <1>8 DEF PublishAssigned, To, TypesInv
    <2> QED
        BY <1>1, <1>2, <1>3, <1>4, <1>8, <2>1 DEF HandlerInv
<1>9. ASSUME link = "up", Answer(q)
      PROVE  HandlerInv(q)'
    <2>1. \/ Done(q, m)
          \/ q # "payment_success" /\ \A x \in Owes(q, m) : Sent(x)'
        <3>1. CASE consumer[q] = "assigned"
            <4>1. Accepts(q, m) /\ Sent(Assigned(m))'
                BY <1>3, <1>4, <1>9, <3>1
            <4>2. Sent(m)'
                BY <1>0, <1>6, <1>7, <1>9, <3>1 DEF Answer, To
            <4> QED
                BY <4>1, <4>2 DEF Owes, Accepts
        <3>2. CASE q # "payment_success" /\ PublishMessage(m) /\ ~Accepts(q, m)
            BY <1>6, <1>7, <1>9, <3>2 DEF Owes
        <3>3. CASE q = "payment_success" /\ consumer[q] = "stored"
            BY <1>4, <1>9, <3>3 DEF Done, Settled
        <3> QED
            BY <1>0, <1>9, <3>1, <3>2, <3>3 DEF Answer, To, Owes
    <2>2. Done(q, m) => Done(q, m)'
        BY DoneStays
    <2>3. consumer'[q] = "answered"
        BY <1>9 DEF Answer, To, TypesInv
    <2> QED
        BY <1>1, <1>2, <1>3, <1>4, <1>9, <2>1, <2>2, <2>3 DEF HandlerInv
<1>10. ASSUME link # "up"
       PROVE  HandlerInv(q)'
    BY <1>1, <1>10 DEF HandlerInv
<1>11. HandlerInv(q)'
    BY <1>5, <1>8, <1>9, <1>10 DEF Replying, AnswerFails
<1> QED
    BY <1>3, <1>11 DEF QueueInv

\* Settle: what is acknowledged is done, or its answer is ahead on the wire.
LEMMA SettleQueue ==
    ASSUME TypesInv, LinkInv, CallsInv, Grows, NEW q \in Queues, QueueInv(q), Settle(q)
    PROVE  QueueInv(q)'
<1> DEFINE m == Delivery(q)
<1>1. /\ UNCHANGED <<waiting, unacked, link, channel, arrived, stored, failed, service, starts>>
      /\ consumer[q] \in {"answered", "failed"} /\ held'[q] = <<>>
    BY DEF Settle, To, Acknowledge, Write, brokerSide, effects, process, TypesInv
<1>2. held[q] # <<>> /\ held[q] = <<m>> /\ m \in Messages
    BY <1>1, DeliveryIsMessage DEF TypesInv, TypeOK
<1>3. BacklogInv(q)'
    BY <1>1, BacklogStays DEF QueueInv, Backlog
<1>4. HandlerInv(q)'
    BY <1>1 DEF HandlerInv
<1>5. CASE wire' = wire
    BY <1>1, <1>3, <1>4, <1>5, AcksStay DEF QueueInv
<1>6. CASE link = "up" /\ \E k \in {"ack", "nack"} : Write(Frame(k, q))
    <2>1. PICK k \in {"ack", "nack"} : Write(Frame(k, q))
        BY <1>6
    <2> DEFINE f == Frame(k, q)
    <2>0. PICK n : n = Len(wire) + 1
        OBVIOUS
    <2>2. wire \in Seq(Frames) /\ f \in Frames /\ f.kind \in {"ack", "nack"} /\ f.item = q
        BY DEF TypesInv, Frame, Frames
    <2>3. unacked[q] = held[q] /\ Acks(q) = {}
        BY <1>2, <1>6 DEF QueueInv, HandlerInv
    <2>4. Head(unacked[q]) = m /\ unacked[q] # <<>>
        BY <1>2, <2>3
    <2> HIDE DEF f
    <2>5. Acks(q)' = {n} /\ DOMAIN wire = 1..Len(wire) /\ Len(wire) \in Nat
        <3>1. \A i \in Acks(q)' : i = n
            BY <2>0, <2>1, <2>2, <2>3, WriteWire DEF Acks, f
        <3>2. n \in Acks(q)'
            BY <1>6, <2>0, <2>1, <2>2, WriteWire DEF Acks, f
        <3> QED
            BY <2>1, <2>2, <3>1, <3>2, WriteWire DEF f
    <2>6. Done(q, m) \/ (q # "payment_success" /\ \A x \in Owes(q, m) : Sent(x))
        BY <1>1, <1>2, <1>6 DEF QueueInv, HandlerInv
    <2>7. \A x : Sent(x) => SentBefore(x, n)'
        BY <1>1, <2>0, <2>1, <2>2, <2>5, WriteWire DEF Sent, SentBefore, f
    <2>8. \/ Done(q, Head(unacked[q]))'
          \/ /\ q # "payment_success"
             /\ \A x \in Owes(q, Head(unacked'[q])) : SentBefore(x, n)'
        <3>1. CASE Done(q, m)
            BY <1>1, <2>4, <3>1, DoneStays
        <3>2. CASE q # "payment_success" /\ \A x \in Owes(q, m) : Sent(x)
            BY <1>1, <2>4, <2>7, <3>2
        <3> QED
            BY <2>6, <3>1, <3>2
    <2>9. AcksInv(q)'
        BY <1>1, <2>4, <2>5, <2>8 DEF AcksInv
    <2> QED
        BY <1>3, <1>4, <2>9 DEF QueueInv
<1> QED
    BY <1>5, <1>6 DEF Settle, Acknowledge, Write

-----------------------------------------------------------------------------
(* DeliveryInv: every step. *)

LEMMA ServiceGrows ==
    ASSUME TypesInv, ServiceStep
    PROVE  Grows
<1>0. starts \in Nat /\ service' = service
    BY StartsAssumption, ServiceFrame DEF TypesInv, TypeOK
<1> USE DEF ServiceStep, serviceVars, effects, recalls, process
<1>1. /\ stored \subseteq stored' /\ failed \subseteq failed'
      /\ unowed \subseteq unowed' /\ forgotten \subseteq forgotten'
    <2>1. CASE ServiceEnds
        BY <2>1 DEF ServiceEnds
    <2>2. CASE Main \/ Signal \/ Serve \/ ServeFails \/ Kill \/ ListenFails \/ ConnectFails
               \/ (Network /\ UNCHANGED serviceVars)
        BY <2>1, <2>2 DEF Main, Start, Listen, ConnectMongo, ConnectBroker, Stop, Drain, Close,
            Disconnect, Exit, Signal, Serve, ServeFails, Kill, ListenFails, ConnectFails
    <2>3. ASSUME NEW q \in Queues, Consumer(q), ~ServiceEnds
          PROVE  /\ stored \subseteq stored' /\ failed \subseteq failed'
                 /\ unowed \subseteq unowed' /\ forgotten \subseteq forgotten'
        BY <2>3, ConsumerSteps, EffectFrame, ReplyFrame DEF StartConsumer, Receive, Settle, LoopEnds
    <2>4. ASSUME NEW c \in Calls, Calling(c), ~ServiceEnds
          PROVE  UNCHANGED <<stored, failed, unowed, forgotten>>
        BY <2>4, CallFrame
    <2> QED
        BY <2>1, <2>2, <2>3, <2>4 DEF ServiceNext, Calling
<1>2. starts' = starts \/ starts' = starts + 1
    <2>1. CASE Main \/ Signal \/ Serve \/ ServeFails \/ Kill \/ ListenFails \/ ConnectFails \/ Network
        BY <2>1 DEF Main, Start, Begin, Listen, ConnectMongo, ConnectBroker, DialBroker, Stop, Drain,
            Close, CloseBroker, BrokerClosed, Disconnect, Exit, Signal, Serve, ServeFails, Kill,
            ListenFails, ConnectFails, ServiceEnds, Ends, Network
    <2>2. ASSUME NEW q \in Queues, Consumer(q)
          PROVE  starts' = starts
        BY <2>2, ConsumerSteps, EffectFrame, ReplyFrame
        DEF StartConsumer, Receive, Settle, LoopEnds, ServiceEnds, Ends
    <2>3. ASSUME NEW c \in Calls, Calling(c)
          PROVE  starts' = starts
        BY <2>3, CallFrame DEF ServiceEnds, Ends
    <2> QED
        BY <2>1, <2>2, <2>3 DEF ServiceNext, Calling
<1>3. arrived \subseteq arrived'
    <2>1. CASE Main \/ Signal \/ Serve \/ ServeFails \/ Kill \/ ListenFails \/ ConnectFails
        BY <2>1 DEF Main, Start, Begin, Listen, ConnectMongo, ConnectBroker, DialBroker, Dial, Stop,
            Drain, Close, CloseBroker, BrokerClosed, StartClose, EndClose, Write, Disconnect, Exit,
            Signal, Serve, ServeFails, Kill, ListenFails, ConnectFails, ServiceEnds, Ends,
            connection, brokerSide
    <2>2. ASSUME NEW q \in Queues, Consumer(q)
          PROVE  arrived' = arrived
        BY <2>2, ConsumerSteps, EffectFrame, ReplyFrame
        DEF StartConsumer, Receive, Settle, Acknowledge, Write, LoopEnds, ServiceEnds, Ends,
            connection, brokerSide
    <2>3. ASSUME NEW c \in Calls, Calling(c)
          PROVE  arrived' = arrived
        BY <2>3, CallFrame DEF ServiceEnds, Ends, brokerSide
    <2>4. CASE Network
        <3>1. BrokerReads => arrived' = arrived \/ \E x : arrived' = arrived \cup {x}
            BY DEF BrokerReads
        <3> QED
            BY <2>4, <3>1 DEF Network, LinkBreaks, NoticeLoss, BrokerSeesEnd, brokerSide
    <2> QED
        BY <2>1, <2>2, <2>3, <2>4 DEF ServiceNext, Calling
<1> QED
    BY <1>0, <1>1, <1>2, <1>3 DEF Grows

\* Acknowledgements on the wire are of the queues the process consumes.
OwnAcks == \A i \in DOMAIN wire :
    wire[i].kind \in {"ack", "nack"} => wire[i].item \in Consumes(service)

LEMMA OwnAcksStep ==
    ASSUME TypesInv, CallsInv, OwnAcks, Next
    PROVE  OwnAcks'
<1>1. service' = service /\ wire \in Seq(Frames)
    BY ServiceFrame, GatewayFrame DEF Next, TypesInv
<1>2. CASE UNCHANGED wire
    BY <1>1, <1>2 DEF OwnAcks
<1>3. ASSUME NEW f \in Frames, Writes(f)
      PROVE  OwnAcks'
    BY <1>1, <1>3, WriteWire DEF Writes, OwnAcks
<1>4. CASE Network
    <2>1. CASE wire' = Tail(wire) /\ wire # <<>>
        BY <1>1, <2>1, TailWire DEF OwnAcks
    <2>2. CASE wire' = <<>>
        BY <2>2 DEF OwnAcks
    <2> QED
        BY <1>2, <1>4, <2>1, <2>2 DEF Network, BrokerReads, LinkBreaks, NoticeLoss, BrokerSeesEnd
<1> QED
    BY <1>2, <1>3, <1>4, WireStep

\* The queues of the process, and what a first process finds.
Delivering == (\A q \in Consumes(service) : QueueInv(q)) /\ FreshInv

LEMMA ServiceEndsDelivering ==
    ASSUME TypesInv, LinkInv, Grows, Delivering, service \in Services, ServiceEnds
    PROVE  Delivering'
<1>1. \A q \in Consumes(service) : held'[q] = <<>>
    BY QueuesAssumption DEF ServiceEnds
<1>2. \A q \in Consumes(service) : QueueInv(q)'
    BY <1>1, QueueRests DEF Delivering, ServiceEnds, Ends, brokerSide
<1>3. starts' > 0
    BY DEF LinkInv, ServiceEnds, Ends, Grows
<1>4. FreshInv'
    BY <1>3 DEF Delivering, FreshInv, ServiceEnds, Ends, Abandon, brokerSide, Grows
<1> QED
    BY <1>2, <1>4 DEF Delivering, Grows

\* Nothing of a consumer changes; a frame may be written.
LEMMA OthersDelivering ==
    ASSUME TypesInv, Grows, Delivering, service \in Services,
           UNCHANGED <<held, consumer, stored, forgotten, starts>>,
           main' \in Before => main \in Before, main = "down" => main' = "down",
           \/ \E f \in Frames : Write(f) /\ f.kind \in {"publish", "close"}
           \/ UNCHANGED <<waiting, unacked, wire>> /\ (link' = "up" => link = "up")
    PROVE  Delivering'
<1>1. CASE UNCHANGED <<waiting, unacked, wire>> /\ (link' = "up" => link = "up")
    <2>1. \A q \in Consumes(service) : QueueInv(q)'
        BY <1>1, QueueStays DEF Delivering
    <2>2. FreshInv'
        BY <1>1, FreshStays DEF Delivering
    <2> QED
        BY <2>1, <2>2 DEF Delivering, Grows
<1>2. ASSUME NEW f \in Frames, Write(f), f.kind \in {"publish", "close"}
      PROVE  Delivering'
    <2>1. \A q \in Consumes(service) : QueueInv(q)'
        BY <1>2, QueueAfterWrite DEF Delivering, TypesInv
    <2>2. FreshInv'
        BY <1>2, FreshStays DEF Delivering, Write
    <2> QED
        BY <2>1, <2>2 DEF Delivering, Grows
<1> QED
    BY <1>1, <1>2

LEMMA MainDelivering ==
    ASSUME TypesInv, LinkInv, CallsInv, Grows, Delivering, service \in Services, Main
    PROVE  Delivering'
<1> USE DEF Goto
<1>1. CASE Exit
    BY <1>1, ServiceEndsDelivering DEF Exit
<1>2. CASE Start
    <2>1. UNCHANGED <<held, consumer, stored, forgotten, waiting, unacked, wire, link>>
        BY <1>2 DEF Start, Begin, serviceVars, work, effects, recalls, connection, brokerSide
    <2>2. \A q \in Consumes(service) : QueueInv(q)'
        BY <2>1, QueueStays DEF Delivering
    <2>3. starts' <= 1 => stored = {}
        BY <1>2 DEF Start, Begin, Delivering, FreshInv, Before, Grows
    <2>4. starts' <= 1 => forgotten = {}
        BY <1>2 DEF Start, Begin, Delivering, FreshInv, Grows
    <2>5. FreshInv'
        BY <2>1, <2>3, <2>4 DEF FreshInv, Grows
    <2> QED
        BY <2>2, <2>5 DEF Delivering, Grows
<1>3. CASE ConnectBroker
    <2>1. /\ UNCHANGED <<held, stored, forgotten, waiting, unacked, wire, starts>>
          /\ main = "dial" /\ main' = "wait"
        BY <1>3 DEF ConnectBroker, DialBroker, Dial, effects, recalls, brokerSide
    <2>2. \A q \in Consumes(service) : held'[q] = <<>>
        <3>1. \A q \in Queues : consumer[q] = "off"
            BY <2>1 DEF CallsInv, Before
        <3>2. \A q \in Queues : held[q] = <<>>
            BY <3>1 DEF TypesInv, TypeOK
        <3> QED
            BY <2>1, <3>2, QueuesAssumption
    <2>3. \A q \in Consumes(service) : QueueInv(q)'
        BY <2>1, <2>2, QueueRests DEF Delivering
    <2>4. starts <= 1 => stored = {}
        BY <2>1 DEF Delivering, FreshInv, Before
    <2>5. FreshInv'
        BY <2>1, <2>4 DEF Delivering, FreshInv, Before
    <2> QED
        BY <2>3, <2>5 DEF Delivering, Grows
<1>4. CASE Listen \/ ConnectMongo \/ Stop \/ Drain \/ Disconnect
    BY <1>4, OthersDelivering DEF Listen, ConnectMongo, Stop, Drain, Disconnect, serviceVars, work,
        effects, recalls, connection, brokerSide, Before
<1>5. CASE Close
    <2>1. Frame("close", "close") \in Frames /\ Frame("close", "close").kind = "close"
        BY DEF Frame, Frames
    <2> QED
        BY <1>5, <2>1, OthersDelivering DEF Close, CloseBroker, BrokerClosed, StartClose, EndClose,
            serviceVars, work, effects, recalls, connection, brokerSide, Before
<1> QED
    BY <1>1, <1>2, <1>3, <1>4, <1>5 DEF Main

LEMMA FaultDelivering ==
    ASSUME TypesInv, LinkInv, Grows, Delivering, service \in Services,
           Signal \/ Serve \/ ServeFails \/ Kill \/ ListenFails \/ ConnectFails
    PROVE  Delivering'
<1>1. CASE ServiceEnds
    BY <1>1, ServiceEndsDelivering
<1>2. CASE /\ UNCHANGED <<work, effects, starts, brokerSide, link, wire>>
           /\ main' = main \/ (main = "listen" /\ main' = "dial")
    BY <1>2, OthersDelivering DEF work, effects, recalls, brokerSide, Before
<1> QED
    BY <1>1, <1>2 DEF Signal, Serve, ServeFails, Kill, ListenFails, ConnectFails, serviceVars,
        connection, process

LEMMA CallDelivering ==
    ASSUME TypesInv, LinkInv, Grows, Delivering, service \in Services, NEW c \in Calls,
           Calling(c)
    PROVE  Delivering'
<1>1. CASE ServiceEnds
    BY <1>1, ServiceEndsDelivering
<1>2. CASE ~ServiceEnds
    <2>1. Frame("publish", c) \in Frames /\ Frame("publish", c).kind = "publish"
        BY DEF Frame, Frames
    <2>2. UNCHANGED <<held, consumer, stored, forgotten, starts, main>>
        BY <1>2, CallFrame DEF work, recalls, process
    <2>3. \/ Write(Frame("publish", c))
          \/ UNCHANGED <<waiting, unacked, wire, link>>
        BY <1>2, CallFrame DEF PublishMessage
    <2> QED
        BY <2>1, <2>2, <2>3, OthersDelivering
<1> QED
    BY <1>1, <1>2

LEMMA NetworkDelivering ==
    ASSUME TypesInv, Grows, Delivering, service \in Services, Network, UNCHANGED serviceVars
    PROVE  Delivering'
<1>1. UNCHANGED <<held, consumer, stored, forgotten, starts, main>>
    BY DEF Network, process, serviceVars, work, effects, recalls
<1>2. \A q \in Consumes(service) : QueueInv(q)'
    BY <1>1, QueueAfterNetwork, QueuesAssumption DEF Delivering
<1>3. link' = "up" => link = "up" /\ waiting' = waiting
    <2>1. wire \in Seq(Frames)
        BY DEF TypesInv
    <2>2. BrokerReads => (link' = "up" => link = "up" /\ waiting' = waiting)
        BY <2>1, ReadCases
    <2> QED
        BY <2>2 DEF Network, LinkBreaks, NoticeLoss, BrokerSeesEnd, brokerSide
<1>4. FreshInv'
    BY <1>1, <1>3, FreshStays DEF Delivering
<1> QED
    BY <1>2, <1>4 DEF Delivering, Grows

\* The other queues when a consumer makes its step.
LEMMA OtherQueues ==
    ASSUME TypesInv, Grows, Delivering, service \in Services, NEW q \in Consumes(service),
           Receive(q) \/ Effecting(q) \/ Replying(q) \/ Settle(q),
           NEW r \in Consumes(service), r # q
    PROVE  QueueInv(r)'
<1>0. q \in Queues /\ r \in Queues /\ QueueInv(q) /\ QueueInv(r)
    BY QueuesAssumption DEF Delivering
<1>1. held'[r] = held[r] /\ consumer'[r] = consumer[r]
    BY <1>0, EffectFrame, ReplyFrame DEF Receive, Settle, To, TypesInv
<1>2. CASE Receive(q)
    <2>1. UNCHANGED <<stored, wire, link>> /\ waiting'[r] = waiting[r] /\ unacked'[r] = unacked[r]
        BY <1>0, <1>2 DEF Receive, effects, TypesInv
    <2> QED
        BY <1>0, <1>1, <2>1, QueueStays
<1>3. CASE Effecting(q)
    <2>1. UNCHANGED <<waiting, unacked, wire, link>> /\ stored' \subseteq stored \cup {Delivery(q)}
          /\ held[q] # <<>>
        BY <1>0, <1>3, EffectFrame DEF TypesInv, TypeOK
    <2>2. link = "up" /\ held[r] # <<>> => Delivery(r) # Delivery(q)
        <3> SUFFICES ASSUME link = "up", held[r] # <<>>
                     PROVE  Delivery(r) # Delivery(q)
            OBVIOUS
        <3>1. Delivery(r) \in Members(Inbox[r]) /\ Delivery(q) \in Members(Inbox[q])
            BY <1>0, <2>1, HandledMessage DEF QueueInv, HandlerInv
        <3> QED
            BY <1>0, <3>1, OneQueue
    <2>3. BacklogInv(r)' /\ AcksInv(r)' /\ Acks(r)' = Acks(r)
        BY <1>0, <2>1, BacklogStays, AcksStay DEF QueueInv, Backlog
    <2>4. HandlerInv(r)'
        BY <1>0, <1>1, <2>1, <2>2, <2>3, SentRests, HandlerStays DEF QueueInv
    <2> QED
        BY <2>3, <2>4 DEF QueueInv
<1>4. CASE Replying(q) \/ Settle(q)
    <2>1. stored' = stored /\ wire \in Seq(Frames)
        BY <1>4, ReplyFrame DEF Settle, effects, TypesInv
    <2>2. CASE UNCHANGED <<waiting, unacked, link, wire>>
        BY <1>0, <1>1, <2>1, <2>2, QueueStays
    <2>3. ASSUME NEW f \in Frames, Write(f), ~(f.kind \in {"ack", "nack"} /\ f.item = r)
          PROVE  QueueInv(r)'
        BY <1>0, <1>1, <2>1, <2>3, QueueAfterWrite
    <2>4. CASE Replying(q)
        BY <1>0, <2>2, <2>3, <2>4, ReplyFrame, ReplyWrite
    <2>5. CASE Settle(q)
        <3>1. \A k \in {"ack", "nack"} : Frame(k, q) \in Frames /\ Frame(k, q).item # r
            BY <1>0 DEF Frame, Frames
        <3> QED
            BY <2>2, <2>3, <2>5, <3>1 DEF Settle, Acknowledge, brokerSide
    <2> QED
        BY <1>4, <2>4, <2>5
<1> QED
    BY <1>2, <1>3, <1>4

LEMMA WaitingInBacklog ==
    ASSUME TypesInv, NEW q \in Queues
    PROVE  Members(Backlog(q)) = Members(unacked[q]) \cup Members(waiting[q])
<1> DEFINE u == unacked[q]
           w == waiting[q]
<1>1. u \in Seq(Messages) /\ w \in Seq(Messages)
    BY DEF TypesInv
<1> HIDE DEF u, w
<1>2. /\ DOMAIN u = 1..Len(u) /\ DOMAIN w = 1..Len(w) /\ Len(u) \in Nat /\ Len(w) \in Nat
      /\ DOMAIN (u \o w) = 1..(Len(u) + Len(w))
      /\ \A i \in 1..(Len(u) + Len(w)) : (u \o w)[i] = IF i <= Len(u) THEN u[i] ELSE w[i - Len(u)]
    BY <1>1, ConcatProperties, LenProperties
<1>3. ASSUME NEW i \in DOMAIN (u \o w)
      PROVE  (u \o w)[i] \in Members(u) \cup Members(w)
    <2>1. CASE i <= Len(u)
        BY <1>2, <2>1 DEF Members
    <2>2. CASE i > Len(u)
        <3>1. i - Len(u) \in DOMAIN w /\ (u \o w)[i] = w[i - Len(u)]
            BY <1>2, <2>2
        <3> QED
            BY <3>1 DEF Members
    <2> QED
        BY <1>2, <2>1, <2>2
<1>4. \A i \in DOMAIN u : i \in DOMAIN (u \o w) /\ (u \o w)[i] = u[i]
    BY <1>2
<1>5. \A i \in DOMAIN w : i + Len(u) \in DOMAIN (u \o w) /\ (u \o w)[i + Len(u)] = w[i]
    BY <1>2
<1>6. Members(u \o w) = Members(u) \cup Members(w)
    BY <1>3, <1>4, <1>5 DEF Members
<1> QED
    BY <1>6 DEF Backlog, u, w

LEMMA ConsumerDelivering ==
    ASSUME TypesInv, LinkInv, CallsInv, Grows, Delivering, service \in Services,
           NEW q \in Queues, Consumer(q)
    PROVE  Delivering'
<1>1. q \in Consumes(service)
    BY ConsumerSteps, EffectFrame, ReplyFrame
    DEF StartConsumer, Receive, Settle, LoopEnds, To, CallsInv
<1>2. CASE ServiceEnds
    BY <1>2, ServiceEndsDelivering
<1>3. CASE (StartConsumer(q) \/ LoopEnds(q)) /\ ~ServiceEnds
    <2>1. /\ UNCHANGED <<held, stored, forgotten, starts, main, brokerSide, link, wire>>
          /\ consumer[q] \in {"starting", "idle"}
          /\ \A r \in Queues \ {q} : consumer'[r] = consumer[r]
        BY <1>3 DEF StartConsumer, LoopEnds, To, effects, recalls, process, connection, TypesInv
    <2>2. held'[q] = <<>>
        BY <2>1 DEF TypesInv, TypeOK
    <2>3. QueueInv(q)'
        BY <1>1, <2>1, <2>2, QueueRests DEF Delivering, brokerSide
    <2>4. \A r \in Consumes(service) \ {q} : QueueInv(r)'
        BY <2>1, QueueStays, QueuesAssumption DEF Delivering, brokerSide
    <2>5. FreshInv'
        BY <2>1, FreshStays DEF Delivering, brokerSide
    <2> QED
        BY <2>3, <2>4, <2>5 DEF Delivering, Grows
<1>4. CASE Receive(q) \/ Effecting(q) \/ Replying(q) \/ Settle(q)
    <2>1. QueueInv(q)'
        BY <1>1, <1>4, ReceiveQueue, EffectQueue, ReplyQueue, SettleQueue DEF Delivering
    <2>2. \A r \in Consumes(service) \ {q} : QueueInv(r)'
        BY <1>1, <1>4, OtherQueues
    <2>3. UNCHANGED <<starts, main, link, forgotten>>
        BY <1>4, EffectFrame, ReplyFrame DEF Receive, Settle, Acknowledge, Write, process, effects,
            recalls
    <2>4. CASE Receive(q)
        <3>1. waiting[q] \in Seq(Messages) /\ waiting[q] # <<>>
            BY <2>4 DEF Receive, TypesInv
        <3>2. Members(Tail(waiting[q])) \subseteq Members(waiting[q])
            BY <3>1, HeadTailProperties, LenProperties, EmptySeq DEF Members
        <3>3. \A r \in Consumes(service) : Members(waiting'[r]) \subseteq Members(waiting[r])
            BY <2>4, <3>2, QueuesAssumption DEF Receive, TypesInv
        <3>4. FreshInv'
            BY <2>3, <2>4, <3>3, FreshStays DEF Receive, effects, Delivering
        <3> QED
            BY <2>1, <2>2, <3>4 DEF Delivering, Grows
    <2>5. CASE Effecting(q)
        <3>1. UNCHANGED <<waiting, unacked>> /\ stored' \subseteq stored \cup {Delivery(q)}
              /\ held[q] # <<>> /\ consumer[q] # "off"
            BY <2>5, EffectFrame DEF TypesInv, TypeOK
        <3>2. main \notin Before
            BY <3>1 DEF CallsInv
        <3>3. ASSUME link = "up", NEW r \in Consumes(service)
              PROVE  Delivery(q) \notin Members(waiting[r])
            <4>1. /\ Delivery(q) \in Members(Inbox[q])
                  /\ Delivery(q) \notin Members(waiting[q])
                BY <1>1, <3>1, <3>3, HandledMessage DEF Delivering, QueueInv, HandlerInv
            <4>2. CASE r # q
                <5>1. r \in Queues /\ Members(Backlog(r)) \subseteq Members(Inbox[r])
                    BY <3>3, QueuesAssumption DEF Delivering, QueueInv, BacklogInv
                <5>2. Members(waiting[r]) \subseteq Members(Backlog(r))
                    BY <5>1, WaitingInBacklog
                <5> QED
                    BY <4>1, <4>2, <5>1, <5>2, OneQueue
            <4> QED
                BY <4>1, <4>2
        <3>4. FreshInv'
            BY <2>3, <3>1, <3>2, <3>3 DEF Delivering, FreshInv, Grows
        <3> QED
            BY <2>1, <2>2, <3>4 DEF Delivering, Grows
    <2>6. CASE Replying(q) \/ Settle(q)
        <3>1. UNCHANGED <<stored, waiting>>
            BY <2>6, ReplyFrame DEF Settle, Acknowledge, Write, effects, brokerSide
        <3>2. FreshInv'
            BY <2>3, <3>1, FreshStays DEF Delivering
        <3> QED
            BY <2>1, <2>2, <3>2 DEF Delivering, Grows
    <2> QED
        BY <1>4, <2>4, <2>5, <2>6
<1> QED
    BY <1>2, <1>3, <1>4, ConsumerSteps

LEMMA ServiceDelivering ==
    ASSUME TypesInv, LinkInv, CallsInv, Delivering, ServiceStep
    PROVE  Delivering'
BY ServiceGrows, ServiceFrame, MainDelivering, FaultDelivering, CallDelivering, ConsumerDelivering,
    NetworkDelivering DEF ServiceStep, ServiceNext, Calling

\* The gateway has no queue of this kind, and a registry of its own.
LEMMA GatewayDelivering ==
    ASSUME TypesInv, LinkInv, Delivering, GatewayStep
    PROVE  Delivering'
<1>1. service' = "gateway" /\ stored' = stored /\ forgotten' = forgotten /\ Consumes("gateway") = {}
    BY GatewayFrame DEF serviceVars, effects, recalls, Consumes
<1>2. /\ main' \in Before /\ starts' <= 1 => stored = {} \/ (main' = "down" /\ starts' = 1)
      /\ starts' = 0 \/ (starts' = 1 /\ main' # "down") => forgotten = {}
    <2> USE DEF process
    <2>0. starts \in Nat
        BY StartsAssumption DEF TypesInv, TypeOK
    <2>1. CASE StartGateway
        BY <2>0, <2>1 DEF StartGateway, Begin, Goto, Delivering, FreshInv, Before
    <2>2. CASE GatewayEnds
        BY <2>0, <2>2 DEF GatewayEnds, Ends, LinkInv
    <2>3. CASE starts' = starts /\ (main' = main \/ (main # "down" /\ main' \notin Before))
        BY <1>1, <2>3 DEF Delivering, FreshInv
    <2>4. CASE GatewayMain \/ SignalGateway \/ ListenAndServeFails
        BY <2>1, <2>2, <2>3, <2>4 DEF GatewayMain, SignalGateway, ListenAndServeFails, ConnectGateway,
            DialBroker, StartConsumers, ListenAndServe, Shutdown, ShutdownEnds, CloseGateway,
            CloseBroker, BrokerClosed, ExitGateway, Goto, Before
    <2>5. CASE Notifier \/ Network
        BY <2>3, <2>5 DEF Notifier, Take, Push, PushingEnds, Network
    <2>6. ASSUME NEW r \in Requests, Arrive(r) \/ RequestHandler(r) \/ Call(r)
          PROVE  GatewayEnds \/ (starts' = starts /\ main' = main)
        BY <2>6 DEF Arrive, RequestHandler, PublishRequest, CallIsFatal, Call
    <2>7. ASSUME NEW d \in Visitors, OpenSocket(d) \/ LeaveSocket(d) \/ SocketHandler(d)
          PROVE  GatewayEnds \/ (starts' = starts /\ main' = main)
        BY <2>7 DEF OpenSocket, LeaveSocket, SocketHandler, RegisterVisitor, RegisterIsFatal,
            UnregisterVisitor
    <2> QED
        BY <2>2, <2>3, <2>4, <2>5, <2>6, <2>7
        DEF GatewayStep, GatewayNext, DialGatewayFails, KillGateway
<1> QED
    BY <1>1, <1>2 DEF Delivering, FreshInv

LEMMA DeliverySplit ==
    DeliveryInv <=> OwnAcks /\ Delivering
BY DEF DeliveryInv, OwnAcks, Delivering, QueueInv

LEMMA DeliverySplitNext ==
    OwnAcks' /\ Delivering' => DeliveryInv'
BY DEF DeliveryInv, OwnAcks, Delivering, QueueInv

LEMMA InitDelivery ==
    ASSUME Init, TypesInv
    PROVE  DeliveryInv
<1> USE DEF Init, ConnectionInit, ProcessInit, ServiceInit
<1>1. OwnAcks
    BY DEF OwnAcks
<1>2. ASSUME NEW q \in Queues
      PROVE  QueueInv(q)
    <2>1. unacked[q] = <<>> /\ held[q] = <<>> /\ waiting[q] = Inbox[q] /\ wire = <<>>
        OBVIOUS
    <2>2. Backlog(q) = Inbox[q]
        BY <2>1, ConnectionAssumption, ConcatEmptySeq DEF Backlog
    <2>3. \A i, j \in DOMAIN Inbox[q] : Inbox[q][i] = Inbox[q][j] => i = j
        BY ConnectionAssumption
    <2>4. BacklogInv(q)
        BY <2>2, <2>3 DEF BacklogInv
    <2>5. Acks(q) = {}
        BY <2>1 DEF Acks
    <2> QED
        BY <2>1, <2>4, <2>5 DEF QueueInv, HandlerInv, AcksInv
<1>3. Consumes(service) \subseteq Queues
    BY QueuesAssumption DEF Consumes, Services
<1>4. FreshInv
    BY DEF FreshInv
<1> QED
    BY <1>1, <1>2, <1>3, <1>4, DeliverySplit DEF Delivering

-----------------------------------------------------------------------------
(* The order of the notices. *)

\* Putting back what nobody has taken changes nothing.
LEMMA PutBackNotices ==
    ASSUME TypesInv, unacked[Notices] = <<>>, PutBack
    PROVE  unacked'[Notices] = <<>> /\ waiting'[Notices] = waiting[Notices]
<1>1. waiting[Notices] \in Seq(Messages) /\ Notices \in Queues
    BY QueuesAssumption DEF TypesInv
<1>2. <<>> \o waiting[Notices] = waiting[Notices]
    BY <1>1, ConcatEmptySeq
<1> QED
    BY <1>1, <1>2 DEF PutBack

\* The network moves no notice.
LEMMA NetworkNotices ==
    ASSUME TypesInv, unacked[Notices] = <<>>, Network
    PROVE  unacked'[Notices] = <<>> /\ waiting'[Notices] = waiting[Notices]
<1>1. CASE BrokerReads
    <2> DEFINE f == Head(wire)
    <2>1. CASE PutBack
        BY <2>1, PutBackNotices
    <2>2. CASE unacked' = [unacked EXCEPT ![f.item] = <<>>] /\ waiting' = waiting
        BY <2>2, QueuesAssumption DEF TypesInv
    <2>3. CASE UNCHANGED <<waiting, unacked>>
        BY <2>3
    <2>4. wire \in Seq(Frames)
        BY DEF TypesInv
    <2> QED
        BY <1>1, <2>1, <2>2, <2>3, <2>4, ReadCases
<1>2. CASE LinkBreaks \/ BrokerSeesEnd
    BY <1>2, PutBackNotices DEF LinkBreaks, BrokerSeesEnd
<1>3. CASE NoticeLoss
    BY <1>3 DEF NoticeLoss, brokerSide
<1> QED
    BY <1>1, <1>2, <1>3 DEF Network

\* A step that takes and gives no notice; it may forget those it has taken.
LEMMA NoticesRest ==
    ASSUME NoticesInv, service = "gateway", service' = service,
           unacked'[Notices] = <<>>, waiting'[Notices] = waiting[Notices],
           pushed' = pushed, buffer' = buffer \/ buffer' = <<>>
    PROVE  NoticesInv'
<1>1. <<>> \in Seq(Messages) /\ DOMAIN <<>> = {}
    BY EmptySeq
<1>2. CASE buffer' = buffer
    BY <1>2 DEF NoticesInv, InOrder, AheadOf
<1>3. CASE buffer' = <<>>
    BY <1>1, <1>3 DEF NoticesInv, InOrder, AheadOf
<1> QED
    BY <1>2, <1>3

\* Moving the head of one sequence to the end of the one ahead of it.
LEMMA HeadMoves ==
    ASSUME NEW s \in Seq(Messages), NEW t \in Seq(Messages), t # <<>>,
           InOrder(s), InOrder(t), AheadOf(s, t)
    PROVE  /\ Append(s, Head(t)) \in Seq(Messages) /\ Tail(t) \in Seq(Messages)
           /\ InOrder(Append(s, Head(t))) /\ InOrder(Tail(t))
           /\ AheadOf(Append(s, Head(t)), Tail(t))
<1> DEFINE h == Head(t)
           u == Append(s, h)
           v == Tail(t)
<1>1. /\ Len(t) \in Nat /\ Len(t) >= 1 /\ DOMAIN t = 1..Len(t)
      /\ h = t[1] /\ h \in Messages
      /\ v \in Seq(Messages) /\ DOMAIN v = 1..(Len(t) - 1)
      /\ \A i \in 1..(Len(t) - 1) : v[i] = t[i + 1]
    BY HeadTailProperties, LenProperties, EmptySeq
<1>2. /\ Len(s) \in Nat /\ DOMAIN s = 1..Len(s)
      /\ u \in Seq(Messages) /\ DOMAIN u = 1..(Len(s) + 1)
      /\ \A i \in 1..Len(s) : u[i] = s[i]
      /\ u[Len(s) + 1] = h
    BY <1>1, AppendProperties, LenProperties
<1>3. \A i \in DOMAIN v : i + 1 \in DOMAIN t /\ v[i] = t[i + 1] /\ 1 < i + 1 /\ i \in Nat
    BY <1>1
<1>4. \A i \in DOMAIN u : (i \in DOMAIN s /\ u[i] = s[i]) \/ (i = Len(s) + 1 /\ u[i] = t[1])
    BY <1>1, <1>2
<1>5. 1 \in DOMAIN t
    BY <1>1
<1> HIDE DEF u, v, h
<1>6. InOrder(u)
    <2> SUFFICES ASSUME NEW i \in DOMAIN u, NEW j \in DOMAIN u, i < j
                 PROVE  Precedes(u[i], u[j])
        BY DEF InOrder
    <2>1. i \in DOMAIN s /\ u[i] = s[i]
        BY <1>2, <1>4
    <2>2. CASE j \in DOMAIN s /\ u[j] = s[j]
        BY <2>1, <2>2 DEF InOrder
    <2>3. CASE u[j] = t[1]
        BY <1>5, <2>1, <2>3 DEF AheadOf
    <2> QED
        BY <1>4, <2>2, <2>3
<1>7. InOrder(v)
    <2> SUFFICES ASSUME NEW i \in DOMAIN v, NEW j \in DOMAIN v, i < j
                 PROVE  Precedes(v[i], v[j])
        BY DEF InOrder
    <2>1. i + 1 < j + 1
        BY <1>3
    <2> QED
        BY <1>3, <2>1 DEF InOrder
<1>8. AheadOf(u, v)
    <2> SUFFICES ASSUME NEW i \in DOMAIN u, NEW j \in DOMAIN v
                 PROVE  Precedes(u[i], v[j])
        BY DEF AheadOf
    <2>1. CASE i \in DOMAIN s /\ u[i] = s[i]
        BY <1>3, <2>1 DEF AheadOf
    <2>2. CASE u[i] = t[1]
        BY <1>3, <1>5, <2>2 DEF InOrder
    <2> QED
        BY <1>4, <2>1, <2>2
<1> QED
    BY <1>1, <1>2, <1>6, <1>7, <1>8 DEF u, v, h

\* What is ahead of two sequences is ahead of a head between them, and what they
\* are both ahead of stays behind it.
LEMMA HeadMovesBetween ==
    ASSUME NEW s \in Seq(Messages), NEW t \in Seq(Messages), t # <<>>, NEW w
    PROVE  /\ AheadOf(s, w) /\ AheadOf(t, w) => AheadOf(Append(s, Head(t)), w) /\ AheadOf(Tail(t), w)
           /\ AheadOf(w, s) /\ AheadOf(w, t) => AheadOf(w, Append(s, Head(t))) /\ AheadOf(w, Tail(t))
<1>1. /\ 1 \in DOMAIN t /\ Head(t) = t[1] /\ Head(t) \in Messages
      /\ \A i \in DOMAIN Tail(t) : i + 1 \in DOMAIN t /\ Tail(t)[i] = t[i + 1]
    <2>1. /\ Len(t) \in Nat /\ Len(t) >= 1 /\ DOMAIN t = 1..Len(t)
          /\ Head(t) = t[1] /\ Head(t) \in Messages
          /\ DOMAIN Tail(t) = 1..(Len(t) - 1)
          /\ \A i \in 1..(Len(t) - 1) : Tail(t)[i] = t[i + 1]
        BY HeadTailProperties, LenProperties, EmptySeq
    <2> QED
        BY <2>1
<1>2. \A i \in DOMAIN Append(s, Head(t)) :
        (i \in DOMAIN s /\ Append(s, Head(t))[i] = s[i]) \/ Append(s, Head(t))[i] = t[1]
    BY <1>1, AppendProperties, LenProperties
<1> DEFINE u == Append(s, Head(t))
           v == Tail(t)
<1> HIDE DEF u, v
<1>3. /\ \A i \in DOMAIN u : (i \in DOMAIN s /\ u[i] = s[i]) \/ u[i] = t[1]
      /\ \A i \in DOMAIN v : i + 1 \in DOMAIN t /\ v[i] = t[i + 1]
    BY <1>1, <1>2 DEF u, v
<1>4. AheadOf(s, w) /\ AheadOf(t, w) => AheadOf(u, w) /\ AheadOf(v, w)
    BY <1>1, <1>3 DEF AheadOf
<1>5. AheadOf(w, s) /\ AheadOf(w, t) => AheadOf(w, u) /\ AheadOf(w, v)
    BY <1>1, <1>3 DEF AheadOf
<1> QED
    BY <1>4, <1>5 DEF u, v

LEMMA TakeNotices ==
    ASSUME TypesInv, NoticesInv, service = "gateway", Take
    PROVE  NoticesInv'
<1>1. /\ waiting[Notices] # <<>> /\ waiting[Notices] \in Seq(Messages)
      /\ buffer' = Append(buffer, Head(waiting[Notices]))
      /\ waiting'[Notices] = Tail(waiting[Notices])
      /\ UNCHANGED <<pushed, unacked, service>>
    BY QueuesAssumption DEF Take, TypesInv, process
<1>2. /\ unacked[Notices] = <<>>
      /\ pushed \in Seq(Messages) /\ buffer \in Seq(Messages)
      /\ InOrder(pushed) /\ InOrder(buffer) /\ InOrder(waiting[Notices])
      /\ AheadOf(pushed, buffer)
      /\ AheadOf(pushed, waiting[Notices]) /\ AheadOf(buffer, waiting[Notices])
    BY DEF NoticesInv
<1> DEFINE u == Append(buffer, Head(waiting[Notices]))
           v == Tail(waiting[Notices])
<1>3. u \in Seq(Messages) /\ InOrder(u) /\ InOrder(v) /\ AheadOf(u, v)
    BY <1>1, <1>2, HeadMoves
<1>4. AheadOf(pushed, u) /\ AheadOf(pushed, v)
    BY <1>1, <1>2, HeadMovesBetween
<1>5. buffer' = u /\ waiting'[Notices] = v
    BY <1>1
<1> HIDE DEF u, v
<1> QED
    BY <1>1, <1>2, <1>3, <1>4, <1>5 DEF NoticesInv, InOrder, AheadOf

LEMMA PushNotices ==
    ASSUME TypesInv, NoticesInv, service = "gateway", Push
    PROVE  NoticesInv'
<1>1. /\ buffer # <<>>
      /\ pushed' = Append(pushed, Head(buffer))
      /\ buffer' = Tail(buffer)
      /\ UNCHANGED <<waiting, unacked, service>>
    BY DEF Push, process, connection, brokerSide
<1>2. /\ unacked[Notices] = <<>>
      /\ pushed \in Seq(Messages) /\ buffer \in Seq(Messages)
      /\ InOrder(pushed) /\ InOrder(buffer) /\ InOrder(waiting[Notices])
      /\ AheadOf(pushed, buffer)
      /\ AheadOf(pushed, waiting[Notices]) /\ AheadOf(buffer, waiting[Notices])
    BY DEF NoticesInv
<1> DEFINE u == Append(pushed, Head(buffer))
           v == Tail(buffer)
<1>3. u \in Seq(Messages) /\ v \in Seq(Messages) /\ InOrder(u) /\ InOrder(v) /\ AheadOf(u, v)
    BY <1>1, <1>2, HeadMoves
<1>4. AheadOf(u, waiting[Notices]) /\ AheadOf(v, waiting[Notices])
    BY <1>1, <1>2, HeadMovesBetween
<1>5. pushed' = u /\ buffer' = v
    BY <1>1
<1> HIDE DEF u, v
<1> QED
    BY <1>1, <1>2, <1>3, <1>4, <1>5 DEF NoticesInv, InOrder, AheadOf

\* Every other step of the gateway leaves its notices alone, but the end of the
\* process and of the goroutine, which forget the ones it was sent ahead.
LEMMA GatewayLeavesNotices ==
    ASSUME GatewayNext
    PROVE  \/ Take \/ Push \/ (Network /\ UNCHANGED gatewayVars)
           \/ /\ UNCHANGED <<waiting, unacked, pushed>>
              /\ buffer' = buffer \/ buffer' = <<>>
<1> USE DEF brokerSide, connection, notifying, gatewayVars
<1>1. CASE GatewayEnds
    BY <1>1 DEF GatewayEnds, Ends, Abandon
<1>2. CASE StartGateway \/ ConnectGateway \/ CloseGateway
    BY <1>2 DEF StartGateway, Begin, ConnectGateway, DialBroker, Dial, CloseGateway, CloseBroker,
        BrokerClosed, StartClose, EndClose, Write
<1>3. CASE GatewayMain \/ SignalGateway \/ DialGatewayFails \/ ListenAndServeFails \/ KillGateway
    BY <1>1, <1>2, <1>3 DEF GatewayMain, SignalGateway, DialGatewayFails, ListenAndServeFails,
        KillGateway, StartConsumers, ListenAndServe, Shutdown, ShutdownEnds, ExitGateway
<1>4. CASE PushingEnds
    BY <1>4 DEF PushingEnds
<1>5. ASSUME NEW r \in Requests, Arrive(r) \/ RequestHandler(r) \/ Call(r)
      PROVE  GatewayEnds \/ UNCHANGED <<waiting, unacked, pushed, buffer>>
    BY <1>5 DEF Arrive, RequestHandler, PublishRequest, PublishMessage, Write, CallIsFatal, Call
<1>6. ASSUME NEW d \in Visitors, OpenSocket(d) \/ LeaveSocket(d) \/ SocketHandler(d)
      PROVE  GatewayEnds \/ UNCHANGED <<waiting, unacked, pushed, buffer>>
    BY <1>6 DEF OpenSocket, LeaveSocket, SocketHandler, RegisterVisitor, RegisterIsFatal,
        UnregisterVisitor
<1> QED
    BY <1>1, <1>3, <1>4, <1>5, <1>6 DEF GatewayNext, Notifier

LEMMA NoticesStep ==
    ASSUME TypesInv, NoticesInv, Next
    PROVE  NoticesInv'
<1>1. CASE ServiceStep
    BY <1>1, ServiceFrame DEF NoticesInv, Services, gatewayVars, notifying
<1>2. CASE GatewayStep
    <2>1. service = "gateway" /\ service' = service
        BY <1>2, GatewayFrame
    <2>2. unacked[Notices] = <<>>
        BY <2>1 DEF NoticesInv
    <2>3. CASE Take \/ Push
        BY <2>1, <2>3, TakeNotices, PushNotices
    <2>4. CASE Network /\ UNCHANGED gatewayVars
        BY <2>1, <2>2, <2>4, NetworkNotices, NoticesRest DEF gatewayVars, notifying
    <2>5. CASE UNCHANGED <<waiting, unacked, pushed>> /\ (buffer' = buffer \/ buffer' = <<>>)
        BY <2>1, <2>2, <2>5, NoticesRest
    <2> QED
        BY <1>2, <2>3, <2>4, <2>5, GatewayLeavesNotices DEF GatewayStep
<1> QED
    BY <1>1, <1>2 DEF Next

-----------------------------------------------------------------------------
(* Who is registered. *)

\* A driver comes, is registered and goes while main waits or returns.
LEMMA SocketVisitors ==
    ASSUME TypesInv, LinkInv, RequestsInv, VisitorsInv, service = "gateway", service' = service,
           NEW d \in Visitors,
           OpenSocket(d) \/ LeaveSocket(d) \/ RegisterVisitor(d) \/ UnregisterVisitor(d)
    PROVE  VisitorsInv'
<1> USE DEF process
<1>1. UNCHANGED <<main, starts>> /\ main # "down"
    <2>1. CASE OpenSocket(d)
        BY <2>1 DEF OpenSocket, RequestsInv
    <2>2. CASE LeaveSocket(d) \/ RegisterVisitor(d) \/ UnregisterVisitor(d)
        BY <2>2 DEF LeaveSocket, RegisterVisitor, UnregisterVisitor, VisitorsInv
    <2> QED
        BY <2>1, <2>2
<1>2. starts \in Nat /\ starts # 0
    BY <1>1, StartsAssumption DEF LinkInv, TypesInv, TypeOK
<1>3. driving \in [Visitors -> {"out", "added", "open", "leaving"}] /\ registered \subseteq Visitors
    BY DEF VisitorsInv, TypesInv, TypeOK
<1>4. PICK to \in {"out", "added", "open", "leaving"} : driving' = [driving EXCEPT ![d] = to]
    BY DEF OpenSocket, LeaveSocket, RegisterVisitor, UnregisterVisitor
<1>5. driving' \in [Visitors -> {"out", "added", "open", "leaving"}]
    BY <1>3, <1>4
<1>6. \A e \in Visitors \ {d} : driving'[e] = driving[e]
    BY <1>3, <1>4
<1>7. registered' \subseteq registered \cup {d}
    BY DEF OpenSocket, LeaveSocket, RegisterVisitor, UnregisterVisitor, drivers
<1>8. faults' = 0 => faults = 0
    BY DEF OpenSocket, LeaveSocket, RegisterVisitor, UnregisterVisitor, Fault, connection,
        TypesInv, TypeOK
<1>9. faults' = 0 => d \notin registered' \/ driving'[d] # "out"
    <2>1. CASE OpenSocket(d) \/ LeaveSocket(d) \/ RegisterVisitor(d)
        BY <1>3, <2>1 DEF OpenSocket, LeaveSocket, RegisterVisitor
    <2>2. CASE UnregisterVisitor(d)
        BY <2>2, ConnectionAssumption DEF UnregisterVisitor, Fault, TypesInv, TypeOK
    <2> QED
        BY <2>1, <2>2
<1>10. LeaversAreUnregistered'
    <2> SUFFICES ASSUME faults' = 0, starts <= 1, NEW e \in registered'
                 PROVE  driving'[e] # "out"
        BY <1>1 DEF LeaversAreUnregistered
    <2>1. CASE e = d
        BY <1>9, <2>1
    <2>2. CASE e # d
        <3>1. e \in registered /\ e \in Visitors \ {d}
            BY <1>3, <1>7, <2>2
        <3> QED
            BY <1>1, <1>6, <1>8, <3>1 DEF VisitorsInv, LeaversAreUnregistered
    <2> QED
        BY <2>1, <2>2
<1> QED
    BY <1>1, <1>2, <1>5, <1>10 DEF VisitorsInv

\* The end of the process forgets its handlers.
LEMMA EndsVisitors ==
    ASSUME VisitorsInv, GatewayEnds, service = "gateway"
    PROVE  VisitorsInv'
<1>1. /\ main' = "down" /\ UNCHANGED <<starts, service, registered>>
      /\ driving' = [d \in Visitors |-> "out"]
    BY DEF GatewayEnds, Ends
<1>2. driving' \in [Visitors -> {"out", "added", "open", "leaving"}]
    BY <1>1
<1> QED
    BY <1>1, <1>2 DEF VisitorsInv, LeaversAreUnregistered

LEMMA StartVisitors ==
    ASSUME TypesInv, VisitorsInv, StartGateway, service = "gateway", service' = service
    PROVE  VisitorsInv'
<1>1. /\ main' = "dial" /\ starts' = starts + 1 /\ starts \in Nat
      /\ UNCHANGED <<driving, registered>>
    BY StartsAssumption DEF StartGateway, Begin, Goto, gatewayVars, drivers, TypesInv, TypeOK
<1>2. starts' # 0 /\ (starts' <= 1 => starts = 0)
    BY <1>1
<1> QED
    BY <1>1, <1>2 DEF VisitorsInv, LeaversAreUnregistered

\* Every other step leaves the drivers alone, and the process up or down.
LEMMA GatewayLeavesVisitors ==
    ASSUME GatewayNext
    PROVE  \/ GatewayEnds \/ StartGateway
           \/ \E d \in Visitors :
                OpenSocket(d) \/ LeaveSocket(d) \/ RegisterVisitor(d) \/ UnregisterVisitor(d)
           \/ UNCHANGED <<driving, registered, starts>> /\ (main' = "down" <=> main = "down")
<1> USE DEF gatewayVars, drivers, process
<1>1. CASE GatewayMain \/ SignalGateway \/ DialGatewayFails \/ ListenAndServeFails \/ KillGateway
    BY <1>1 DEF GatewayMain, SignalGateway, DialGatewayFails, ListenAndServeFails, Goto,
        KillGateway, ConnectGateway, DialBroker, StartConsumers, ListenAndServe, Shutdown,
        ShutdownEnds, CloseGateway, CloseBroker, BrokerClosed, ExitGateway
<1>2. CASE Notifier \/ (Network /\ UNCHANGED gatewayVars)
    BY <1>2 DEF Notifier, Take, Push, PushingEnds, Network
<1>3. ASSUME NEW r \in Requests, Arrive(r) \/ RequestHandler(r) \/ Call(r)
      PROVE  GatewayEnds \/ UNCHANGED <<driving, registered, starts, main>>
    BY <1>3 DEF Arrive, RequestHandler, PublishRequest, CallIsFatal, Call
<1>4. ASSUME NEW d \in Visitors, OpenSocket(d) \/ LeaveSocket(d) \/ SocketHandler(d)
      PROVE  \/ GatewayEnds
             \/ OpenSocket(d) \/ LeaveSocket(d) \/ RegisterVisitor(d) \/ UnregisterVisitor(d)
    BY <1>4 DEF SocketHandler, RegisterIsFatal
<1>5. CASE \E r \in Requests : Arrive(r) \/ RequestHandler(r) \/ Call(r)
    BY <1>3, <1>5
<1>6. CASE \E d \in Visitors : OpenSocket(d) \/ LeaveSocket(d) \/ SocketHandler(d)
    BY <1>4, <1>6
<1> QED
    BY <1>1, <1>2, <1>5, <1>6 DEF GatewayNext

LEMMA VisitorsStep ==
    ASSUME TypesInv, LinkInv, RequestsInv, VisitorsInv, Next
    PROVE  VisitorsInv'
<1>1. CASE ServiceStep
    <2>1. service # "gateway" /\ UNCHANGED <<service, driving, registered>>
        BY <1>1, ServiceFrame DEF Services, gatewayVars, drivers
    <2> QED
        BY <2>1 DEF VisitorsInv, LeaversAreUnregistered
<1>2. CASE GatewayStep
    <2>1. service = "gateway" /\ service' = service /\ (faults' = 0 => faults = 0)
        BY <1>2, GatewayFrame
    <2>2. CASE UNCHANGED <<driving, registered, starts>> /\ (main' = "down" <=> main = "down")
        BY <2>1, <2>2 DEF VisitorsInv, LeaversAreUnregistered
    <2> QED
        BY <1>2, <2>1, <2>2, GatewayLeavesVisitors, EndsVisitors, StartVisitors, SocketVisitors
        DEF GatewayStep
<1> QED
    BY <1>1, <1>2 DEF Next

-----------------------------------------------------------------------------
LEMMA InitInv == Init => IInv
<1> SUFFICES ASSUME Init PROVE IInv
    OBVIOUS
<1>1. TypesInv /\ DeliveryInv
    BY InitTypes, InitDelivery
<1> USE DEF Init, ConnectionInit, ProcessInit, ServiceInit, GatewayInit
<1>2. LinkInv
    BY DEF LinkInv, Before
<1>3. CallsInv /\ StopsAreGraceful
    BY DEF CallsInv, StopsAreGraceful, Running
<1>4. RequestsInv /\ ConfirmedIsPublished
    BY DEF RequestsInv, Handled, NewRequest, ConfirmedIsPublished
<1>5. NoticesInv
    <2>1. /\ <<>> \in Seq(Messages) /\ DOMAIN <<>> = {}
          /\ pushed = <<>> /\ buffer = <<>> /\ waiting = Inbox
        BY EmptySeq
    <2>2. unacked[Notices] = <<>>
        BY QueuesAssumption
    <2>3. InOrder(Inbox[Notices])
        BY DEF InOrder, Precedes
    <2> HIDE DEF Init, ConnectionInit, ProcessInit, ServiceInit, GatewayInit
    <2> QED
        BY <2>1, <2>2, <2>3 DEF NoticesInv, InOrder, AheadOf
<1>6. VisitorsInv
    BY DEF VisitorsInv, LeaversAreUnregistered
<1> QED
    BY <1>1, <1>2, <1>3, <1>4, <1>5, <1>6 DEF IInv

LEMMA StutterInv ==
    ASSUME IInv, UNCHANGED vars
    PROVE  IInv'
<1> USE DEF vars, connection, brokerSide, process, serviceVars, inside, work, effects, recalls, gatewayVars,
        environment, requesting, notifying, drivers
<1>1. TypesInv'
    BY DEF IInv, TypesInv, TypeOK
<1>2. LinkInv' /\ CallsInv' /\ RequestsInv'
    BY DEF IInv, LinkInv, CallsInv, RequestsInv, Running, Handled, Panics
<1>3. ConfirmedIsPublished' /\ StopsAreGraceful'
    BY DEF IInv, ConfirmedIsPublished, StopsAreGraceful, UnderWay
<1>4. \A i \in DOMAIN wire : wire[i].kind \in {"ack", "nack"} => wire[i].item \in Consumes(service)
    BY DEF IInv, DeliveryInv
<1>5. Grows
    BY StartsAssumption DEF IInv, TypesInv, TypeOK, Grows
<1>6. \A q \in Consumes(service) : QueueInv(q)
    BY DEF IInv, DeliveryInv, QueueInv
<1>7. \A q \in Consumes(service) : QueueInv(q)'
    BY <1>5, <1>6, QueueStays
<1>8. FreshInv'
    BY DEF IInv, DeliveryInv, FreshInv
<1>9. DeliveryInv'
    BY <1>4, <1>7, <1>8 DEF DeliveryInv, QueueInv
<1>10. NoticesInv'
    BY DEF IInv, NoticesInv, InOrder, AheadOf
<1>11. VisitorsInv'
    BY DEF IInv, VisitorsInv, LeaversAreUnregistered
<1> QED
    BY <1>1, <1>2, <1>3, <1>9, <1>10, <1>11 DEF IInv

LEMMA NextInv == IInv /\ [Next]_vars => IInv'
<1> SUFFICES ASSUME IInv, [Next]_vars PROVE IInv'
    OBVIOUS
<1>1. CASE UNCHANGED vars
    BY <1>1, StutterInv
<1>2. CASE Next
    <2>1. TypesInv' /\ LinkInv'
        BY <1>2, ServiceTypes, GatewayTypes, ServiceLink, GatewayLink DEF IInv, Next
    <2>2. CallsInv' /\ StopsAreGraceful'
        BY <1>2, CalmStep DEF IInv, Calm
    <2>3. RequestsInv' /\ ConfirmedIsPublished'
        BY <1>2, RequestsStep, ConfirmedStep DEF IInv
    <2>4. DeliveryInv'
        BY <1>2, OwnAcksStep, ServiceDelivering, GatewayDelivering, DeliverySplit, DeliverySplitNext
        DEF IInv, Next
    <2>5. NoticesInv' /\ VisitorsInv'
        BY <1>2, NoticesStep, VisitorsStep DEF IInv
    <2> QED
        BY <2>1, <2>2, <2>3, <2>4, <2>5 DEF IInv
<1> QED
    BY <1>1, <1>2

\* The inductive invariant holds in every state of every process, however often
\* it is started and whatever fails: connections, calls, the process itself.
THEOREM Invariance == Spec => []IInv
BY InitInv, NextInv, PTL DEF Spec

\* Every variable holds a value its Go counterpart can hold.
THEOREM TypeCorrectness == Spec => []TypeOK
<1>1. IInv => TypeOK
    BY DEF IInv, TypesInv
<1> QED
    BY <1>1, Invariance, PTL

\* No stop, crash or lost connection at any moment loses a message of a manual-ack
\* queue, nor an answer that is owed for it: it is in the queue, awaits its ack, or
\* all its answers have arrived. The exceptions are those of NothingIsLost, and no
\* others: MongoDB or Stripe failed its handler; or an earlier process had updated
\* the trip for it, or had withdrawn or forgotten the driver it was to recall.
THEOREM MessagesAreKept == Spec => []NothingIsLost
<1>1. IInv => NothingIsLost
    <2> SUFFICES ASSUME IInv, NEW q \in Consumes(service), NEW m \in Members(Inbox[q])
                 PROVE  m \in WithBroker(q) \cup failed \/ Settled(q, m) \/ CutShort(q, m)
        BY DEF NothingIsLost
    <2>1. q \in Queues /\ TypesInv /\ BacklogInv(q)
        BY QueuesAssumption DEF IInv, DeliveryInv, TypesInv, Consumes, Services
    <2> QED
        BY <2>1, WaitingInBacklog DEF BacklogInv, Done, WithBroker
<1> QED
    BY <1>1, Invariance, PTL

\* An event that was reported as published - by CreateTrip, or with a 200 to a
\* browser or to Stripe - is lost with a broken connection only.
THEOREM EventsArePublished == Spec => []ConfirmedIsPublished
<1>1. IInv => ConfirmedIsPublished
    BY DEF IInv
<1> QED
    BY <1>1, Invariance, PTL

\* As long as nothing fails, a stop lets every accepted RPC succeed.
THEOREM StopsAnswerCalls == Spec => []StopsAreGraceful
<1>1. IInv => StopsAreGraceful
    BY DEF IInv
<1> QED
    BY <1>1, Invariance, PTL

\* The gateway's queue consumer gives each notice to the connection manager at
\* most once and in the order of its queue, over any number of stops, crashes and
\* lost connections; what it had taken and not given on is gone.
THEOREM NoticesStayInOrder == Spec => []NoticesInOrder
<1>1. IInv => NoticesInOrder
    <2> SUFFICES ASSUME IInv PROVE NoticesInOrder
        OBVIOUS
    <2>1. CASE service = "gateway"
        BY <2>1 DEF IInv, NoticesInv, InOrder, Precedes, NoticesInOrder
    <2>2. CASE service # "gateway"
        <3>1. DOMAIN pushed = {}
            BY <2>2, EmptySeq DEF IInv, NoticesInv
        <3> QED
            BY <3>1 DEF NoticesInOrder
    <2> QED
        BY <2>1, <2>2
<1> QED
    BY <1>1, Invariance, PTL

\* As long as no RPC fails, a driver whose websocket handler has returned is not
\* in driver-service's registry - until the gateway ends for the first time.
THEOREM LeaversUnregister == Spec => []LeaversAreUnregistered
<1>1. IInv => LeaversAreUnregistered
    BY DEF IInv, VisitorsInv
<1> QED
    BY <1>1, Invariance, PTL

\* As long as nothing fails and the addresses parse, the gateway answers every
\* request it has accepted, but one that takes longer than a stop may take.
THEOREM StopsAnswerRequests == Spec => RequestsAreAnswered
<1>1. IInv /\ [Next]_vars =>
        [\A r \in Requests :
            Handled(r) /\ request'[r].pc = "done" /\ request'[r].code = 0
                => faults' > 0 \/ cut \/ ~target]_vars
    BY AnswerStep DEF IInv
<1> QED
    BY <1>1, Invariance, PTL DEF Spec, RequestsAreAnswered

=============================================================================
