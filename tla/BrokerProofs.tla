---------------------------- MODULE BrokerProofs ----------------------------
(***************************************************************************)
(* What each operation on the broker does to the messages it carries: the   *)
(* lemmas behind the invariants of the services that use it.                *)
(***************************************************************************)
EXTENDS Broker, SequenceTheorems, TLAPS

\* The messages of S that queue q may hold.
Of(S, q) == {m \in S : m.key \in Bindings[q]}

\* Messages that are true now are still true when more is.
LEMMA CarriedGrows ==
    ASSUME NEW S, NEW T, S \subseteq T, NEW qs, NEW un, Carried(S, qs, un)
    PROVE  Carried(T, qs, un)
<1> SUFFICES ASSUME NEW q \in Queues
             PROVE  qs[q] \in Seq(Of(T, q)) /\ un[q] \in Seq(Of(T, q))
    BY DEF Carried, Of
<1>1. Of(S, q) \subseteq Of(T, q)
    BY DEF Of
<1>2. qs[q] \in Seq(Of(S, q)) /\ un[q] \in Seq(Of(S, q))
    BY DEF Carried, Of
<1> QED
    BY <1>1, <1>2, SeqMonotonic

\* The message at the head of a queue is one of those it may hold.
LEMMA HeadIsCarried ==
    ASSUME NEW S, Carried(S, queues, unacked), NEW q \in Queues, queues[q] # <<>>
    PROVE  Head(queues[q]) \in S /\ Head(queues[q]).key \in Bindings[q]
<1>1. queues[q] \in Seq(Of(S, q))
    BY DEF Carried, Of
<1> QED
    BY <1>1, HeadTailProperties DEF Of

\* So is the message a handler works on.
LEMMA HandledIsCarried ==
    ASSUME NEW S, Carried(S, queues, unacked), NEW q \in Queues, unacked[q] # <<>>
    PROVE  Handling(q) \in S /\ Handling(q).key \in Bindings[q]
<1>1. unacked[q] \in Seq(Of(S, q))
    BY DEF Carried, Of
<1> QED
    BY <1>1, HeadTailProperties DEF Of, Handling

\* Publishing a message of S keeps every queue within S.
LEMMA CarriedPublish ==
    ASSUME NEW S, Carried(S, queues, unacked), NEW m \in S, Publish(m), UNCHANGED unacked
    PROVE  Carried(S, queues', unacked')
<1> SUFFICES ASSUME NEW q \in Queues PROVE queues'[q] \in Seq(Of(S, q))
    BY DEF Carried, Publish, Of
<1>1. queues[q] \in Seq(Of(S, q))
    BY DEF Carried, Of
<1>2. CASE m.key \in Bindings[q]
    <2>1. m \in Of(S, q)
        BY <1>2 DEF Of
    <2>2. queues'[q] = Append(queues[q], m)
        BY <1>2 DEF Publish
    <2> QED
        BY <1>1, <2>1, <2>2
<1>3. CASE m.key \notin Bindings[q]
    BY <1>1, <1>3 DEF Publish
<1> QED
    BY <1>2, <1>3

\* A message that is taken off its queue leaves the others as they were.
LEMMA CarriedPop ==
    ASSUME NEW S, Carried(S, queues, unacked), NEW q \in Queues, queues[q] # <<>>,
           Pop(q), UNCHANGED unacked
    PROVE  Carried(S, queues', unacked')
<1>1. queues[q] \in Seq(Of(S, q))
    BY DEF Carried, Of
<1>2. Tail(queues[q]) \in Seq(Of(S, q))
    BY <1>1, HeadTailProperties
<1> QED
    BY <1>2 DEF Carried, Pop, Of

\* A delivery moves the head of a queue to its consumer.
LEMMA CarriedDeliver ==
    ASSUME NEW S, Carried(S, queues, unacked), NEW q \in Queues, Ready(q), Deliver(q)
    PROVE  /\ Carried(S, queues', unacked')
           /\ unacked'[q] = <<Head(queues[q])>>
           /\ \A p \in Queues : p # q => unacked'[p] = unacked[p]
<1>1. queues[q] \in Seq(Of(S, q)) /\ queues[q] # <<>>
    BY DEF Carried, Of, Ready
<1>2. Tail(queues[q]) \in Seq(Of(S, q)) /\ Head(queues[q]) \in Of(S, q)
    BY <1>1, HeadTailProperties
<1>3. <<Head(queues[q])>> \in Seq(Of(S, q)) /\ Len(<<Head(queues[q])>>) <= 1
    BY <1>2
<1> QED
    BY <1>2, <1>3 DEF Carried, Deliver, Pop, Of

\* An acknowledgement forgets the delivery of that queue only.
LEMMA CarriedSettle ==
    ASSUME NEW S, Carried(S, queues, unacked), NEW q \in Queues, Settle(q), UNCHANGED queues
    PROVE  /\ Carried(S, queues', unacked')
           /\ \A p \in Queues : p # q => unacked'[p] = unacked[p]
<1>1. <<>> \in Seq(Of(S, q)) /\ Len(<<>>) <= 1
    BY EmptySeq
<1> QED
    BY <1>1 DEF Carried, Settle, Of

\* After a crash the queues carry what they and the consumer carried before.
LEMMA CarriedRequeue ==
    ASSUME NEW S, Carried(S, queues, unacked), NEW Q, Requeue(Q)
    PROVE  /\ Carried(S, queues', unacked')
           /\ \A p \in Queues : p \notin Q => unacked'[p] = unacked[p]
<1> SUFFICES ASSUME NEW q \in Queues
             PROVE  /\ queues'[q] \in Seq(Of(S, q))
                    /\ unacked'[q] \in Seq(Of(S, q))
                    /\ Len(unacked'[q]) <= 1
    BY DEF Carried, Requeue, Of
<1>1. /\ queues[q] \in Seq(Of(S, q))
      /\ unacked[q] \in Seq(Of(S, q))
      /\ Len(unacked[q]) <= 1
    BY DEF Carried, Of
<1>2. unacked[q] \o queues[q] \in Seq(Of(S, q))
    BY <1>1, ConcatProperties
<1>3. <<>> \in Seq(Of(S, q)) /\ Len(<<>>) <= 1
    BY EmptySeq
<1> QED
    BY <1>1, <1>2, <1>3 DEF Requeue

\* A rejected message is gone and nothing else changed.
LEMMA CarriedReject ==
    ASSUME NEW S, Carried(S, queues, unacked), NEW q \in Queues, Reject(q)
    PROVE  Carried(S, queues', unacked') /\ UNCHANGED unacked
    BY CarriedPop DEF Reject, Ready

=============================================================================
