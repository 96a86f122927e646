----------------------- MODULE ConnectionManagerProofs ----------------------
(***************************************************************************)
(* For any number of users, connections, messages and senders, in three      *)
(* parts. Every page is sent only what is meant for its own user: the       *)
(* inductive invariant adds the types and where the messages on their way   *)
(* may go, what a sender looked up, what waits and what is flushed. No      *)
(* message is copied: a step takes it from one place and puts it into one.  *)
(* The manager implements Mailbox: with its only copy written or queued, a  *)
(* message changes its fate as Mailbox allows.                              *)
(***************************************************************************)
EXTENDS ConnectionManager, SequenceTheorems, FiniteSetTheorems, TLAPS

USE ConnAssumption

IInv == TypeOK /\ OwnMessagesInFlight /\ OwnMessagesOnly

\* A message taken from the head of a flush, or looked up by a sender, may be
\* written to its connection.
LEMMA WriteKeeps ==
    ASSUME TypeOK, OwnMessagesOnly, NEW c \in Conns, NEW m \in Msgs,
           To[m] = UserOf[c], WriteJSON(c, m)
    PROVE  wire' \in [Conns -> Seq(Msgs)] /\ OwnMessagesOnly'
<1>1. wire \in [Conns -> Seq(Msgs)]
    BY DEF TypeOK
<1>2. CASE wire' = wire
    BY <1>1, <1>2 DEF OwnMessagesOnly
<1>3. CASE wire' = [wire EXCEPT ![c] = Append(@, m)]
    <2>1. wire' \in [Conns -> Seq(Msgs)]
        BY <1>1, <1>3
    <2>2. ASSUME NEW e \in Conns, NEW i \in 1..Len(wire'[e])
          PROVE  To[wire'[e][i]] = UserOf[e]
        <3>1. CASE e = c
            <4>1. wire'[c] = Append(wire[c], m) /\ wire[c] \in Seq(Msgs)
                BY <1>1, <1>3
            <4>2. CASE i \in 1..Len(wire[c])
                BY <3>1, <4>1, <4>2 DEF OwnMessagesOnly
            <4>3. CASE i = Len(wire[c]) + 1
                BY <3>1, <4>1, <4>3
            <4> QED
                BY <2>2, <3>1, <4>1, <4>2, <4>3
        <3>2. CASE e # c
            BY <1>1, <1>3, <2>2, <3>2 DEF OwnMessagesOnly
        <3> QED
            BY <3>1, <3>2
    <2> QED
        BY <2>1, <2>2 DEF OwnMessagesOnly
<1> QED
    BY <1>2, <1>3 DEF WriteJSON

LEMMA AddKeeps ==
    ASSUME IInv, NEW c \in Conns, Add(c)
    PROVE  IInv'
<1> DEFINE u == UserOf[c]
<1>1. u \in Users /\ pendingMessages[u] \in Seq(Msgs) /\ <<>> \in Seq(Msgs) /\ Len(<<>>) = 0
    BY EmptySeq DEF IInv, TypeOK
<1>2. TypeOK'
    BY <1>1 DEF Add, IInv, TypeOK
<1>3. OwnMessagesInFlight'
    BY <1>1 DEF Add, IInv, TypeOK, OwnMessagesInFlight, Call, NotSending
<1>4. OwnMessagesOnly'
    BY DEF Add, IInv, OwnMessagesOnly
<1> QED
    BY <1>2, <1>3, <1>4 DEF IInv

LEMMA HandlerKeeps ==
    ASSUME IInv, NEW c \in Conns, Close(c) \/ Remove(c)
    PROVE  IInv'
<1> USE DEF Close, Remove
<1>1. TypeOK'
    BY DEF IInv, TypeOK
<1>2. OwnMessagesInFlight'
    BY DEF IInv, TypeOK, OwnMessagesInFlight
<1>3. OwnMessagesOnly'
    BY DEF IInv, OwnMessagesOnly
<1> QED
    BY <1>1, <1>2, <1>3 DEF IInv

LEMMA FlushKeeps ==
    ASSUME IInv, NEW c \in Conns, Flush(c)
    PROVE  IInv'
<1> DEFINE s == flushing[c]
           m == Head(s)
<1>1. s \in Seq(Msgs) /\ s # <<>> /\ WriteJSON(c, m) /\ flushing' = [flushing EXCEPT ![c] = Tail(s)]
      /\ UNCHANGED <<connections, pendingMessages, handler, sending, unsent>>
    BY DEF Flush, IInv, TypeOK
<1>2. /\ m \in Msgs /\ m = s[1] /\ Tail(s) \in Seq(Msgs)
      /\ Len(s) \in Nat /\ Len(s) > 0 /\ Len(Tail(s)) = Len(s) - 1
      /\ \A i \in 1..Len(Tail(s)) : Tail(s)[i] = s[i + 1]
    BY <1>1, HeadTailProperties, EmptySeq
<1>3. To[m] = UserOf[c]
    BY <1>2 DEF IInv, OwnMessagesInFlight
<1>4. wire' \in [Conns -> Seq(Msgs)] /\ OwnMessagesOnly'
    BY <1>1, <1>2, <1>3, WriteKeeps DEF IInv
<1>5. TypeOK'
    BY <1>1, <1>2, <1>4 DEF IInv, TypeOK
<1>6. \A i \in 1..Len(Tail(s)) : To[Tail(s)[i]] = UserOf[c]
    BY <1>2 DEF IInv, OwnMessagesInFlight
<1>7. OwnMessagesInFlight'
    BY <1>1, <1>6 DEF IInv, TypeOK, OwnMessagesInFlight
<1> QED
    BY <1>4, <1>5, <1>7 DEF IInv

LEMMA LookupKeeps ==
    ASSUME IInv, NEW p \in Senders, NEW m \in Msgs, Lookup(p, m)
    PROVE  IInv'
<1> DEFINE found == connections[To[m]]
           call == [pc |-> IF found = NoConn THEN "queue" ELSE "write", msg |-> m,
                    conn |-> found]
<1>1. /\ sending' = [sending EXCEPT ![p] = call] /\ unsent' \subseteq Msgs
      /\ UNCHANGED <<connections, pendingMessages, flushing, wire, handler>>
    BY DEF Lookup, IInv, TypeOK
<1>2. found \in Conns \cup {NoConn} /\ (found # NoConn => UserOf[found] = To[m])
    BY DEF IInv, TypeOK, OwnMessagesInFlight
<1>3. call \in Call
    BY <1>2 DEF Call
<1>4. TypeOK'
    <2> HIDE DEF call
    <2> QED
        BY <1>1, <1>3 DEF IInv, TypeOK
<1>5. \A r \in Senders :
        sending'[r].pc = "write" => UserOf[sending'[r].conn] = To[sending'[r].msg]
    <2>1. call.pc = "write" => UserOf[call.conn] = To[call.msg]
        BY <1>2
    <2> HIDE DEF call
    <2> QED
        BY <1>1, <2>1 DEF IInv, TypeOK, OwnMessagesInFlight
<1>6. OwnMessagesInFlight'
    BY <1>1, <1>5 DEF IInv, OwnMessagesInFlight
<1>7. OwnMessagesOnly'
    BY <1>1 DEF IInv, OwnMessagesOnly
<1> QED
    BY <1>4, <1>6, <1>7 DEF IInv

\* What a sender in a call holds.
LEMMA CallInProgress ==
    ASSUME TypeOK, NEW p \in Senders, sending[p].pc # "idle"
    PROVE  sending[p] \in Call
    BY DEF TypeOK, NotSending

LEMMA QueueKeeps ==
    ASSUME IInv, NEW p \in Senders, Queue(p)
    PROVE  IInv'
<1> DEFINE m == sending[p].msg
           u == To[m]
           s == pendingMessages[u]
<1>1. /\ sending[p].pc = "queue"
      /\ pendingMessages' = [pendingMessages EXCEPT ![u] = Append(s, m)]
      /\ sending' = [sending EXCEPT ![p] = NotSending]
      /\ UNCHANGED <<connections, flushing, wire, handler, unsent>>
    BY DEF Queue
<1>2. m \in Msgs
    BY <1>1, CallInProgress DEF IInv, Call
<1>3. u \in Users /\ s \in Seq(Msgs)
    BY <1>2 DEF IInv, TypeOK
<1>4. TypeOK'
    BY <1>1, <1>2, <1>3 DEF IInv, TypeOK
<1>5. \A i \in 1..Len(Append(s, m)) : To[Append(s, m)[i]] = u
    <2>1. \A i \in 1..Len(s) : To[s[i]] = u
        BY <1>3 DEF IInv, OwnMessagesInFlight
    <2> QED
        BY <1>2, <1>3, <2>1
<1>6. OwnMessagesInFlight'
    <2> HIDE DEF s, u, m
    <2>1. \A v \in Users : \A i \in 1..Len(pendingMessages'[v]) : To[pendingMessages'[v][i]] = v
        BY <1>1, <1>3, <1>5 DEF IInv, TypeOK, OwnMessagesInFlight
    <2>2. \A r \in Senders : sending'[r].pc = "write" => sending'[r] = sending[r]
        BY <1>1 DEF IInv, TypeOK, NotSending
    <2> QED
        BY <1>1, <2>1, <2>2 DEF IInv, OwnMessagesInFlight
<1>7. OwnMessagesOnly'
    BY <1>1 DEF IInv, OwnMessagesOnly
<1> QED
    BY <1>4, <1>6, <1>7 DEF IInv

LEMMA SenderWriteKeeps ==
    ASSUME IInv, NEW p \in Senders, Write(p)
    PROVE  IInv'
<1> DEFINE m == sending[p].msg
           c == sending[p].conn
<1>1. /\ sending[p].pc = "write" /\ WriteJSON(c, m)
      /\ sending' = [sending EXCEPT ![p] = NotSending]
      /\ UNCHANGED <<connections, pendingMessages, flushing, handler, unsent>>
    BY DEF Write
<1>2. m \in Msgs /\ c \in Conns
    BY <1>1, CallInProgress DEF IInv, Call
<1>3. To[m] = UserOf[c]
    BY <1>1 DEF IInv, OwnMessagesInFlight
<1>4. wire' \in [Conns -> Seq(Msgs)] /\ OwnMessagesOnly'
    BY <1>1, <1>2, <1>3, WriteKeeps DEF IInv
<1>5. TypeOK'
    BY <1>1, <1>4 DEF IInv, TypeOK
<1>6. \A r \in Senders : sending'[r].pc = "write" => sending'[r] = sending[r]
    BY <1>1 DEF IInv, TypeOK, NotSending
<1>7. OwnMessagesInFlight'
    BY <1>1, <1>6 DEF IInv, OwnMessagesInFlight
<1> QED
    BY <1>4, <1>5, <1>7 DEF IInv

-----------------------------------------------------------------------------
LEMMA InitEstablishes == Init => IInv
<1> SUFFICES ASSUME Init PROVE IInv
    OBVIOUS
<1>1. <<>> \in Seq(Msgs) /\ Len(<<>>) = 0
    BY EmptySeq
<1> QED
    BY <1>1 DEF Init, IInv, TypeOK, OwnMessagesInFlight, OwnMessagesOnly, NotSending

LEMMA NextKeeps == IInv /\ [Next]_cmVars => IInv'
<1> SUFFICES ASSUME IInv, [Next]_cmVars PROVE IInv'
    OBVIOUS
<1>1. CASE UNCHANGED cmVars
    BY <1>1 DEF cmVars, IInv, TypeOK, OwnMessagesInFlight, OwnMessagesOnly
<1>2. CASE \E c \in Conns : Add(c) \/ Close(c) \/ Remove(c) \/ Flush(c)
    BY <1>2, AddKeeps, HandlerKeeps, FlushKeeps
<1>3. CASE \E p \in Senders : Queue(p) \/ Write(p) \/ \E m \in Msgs : Lookup(p, m)
    BY <1>3, QueueKeeps, SenderWriteKeeps, LookupKeeps
<1> QED
    BY <1>1, <1>2, <1>3 DEF Next

LEMMA Invariance == Spec => []IInv
    BY InitEstablishes, NextKeeps, PTL DEF Spec

\* Every variable of the ConnectionManager holds a value of its Go type.
THEOREM TypeCorrectness == Spec => []TypeOK
    BY Invariance, PTL DEF IInv

\* No page is ever written a message of another user, although SendMessage and
\* the flush write to connections they looked up before others replaced them.
THEOREM NobodyReadsOthersMail == Spec => []OwnMessagesOnly
    BY Invariance, PTL DEF IInv

-----------------------------------------------------------------------------
(***************************************************************************)
(* No message is copied: a step that moves a message takes it from one      *)
(* place and puts it into one. The places it can be in, one by one:         *)
(***************************************************************************)
HeldBySender(m, x) ==
    \E p \in Senders : x = <<"sender", p, 0>> /\ sending[p].pc # "idle" /\ sending[p].msg = m
HeldPending(m, x) ==
    \E u \in Users : \E i \in 1..Len(pendingMessages[u]) :
        x = <<"pending", u, i>> /\ pendingMessages[u][i] = m
HeldByFlush(m, x) ==
    \E c \in Conns : \E i \in 1..Len(flushing[c]) :
        x = <<"flush", c, i>> /\ flushing[c][i] = m
HeldByWire(m, x) ==
    \E c \in Conns : \E i \in 1..Len(wire[c]) : x = <<"wire", c, i>> /\ wire[c][i] = m

Held(m, x) == HeldBySender(m, x) \/ HeldPending(m, x) \/ HeldByFlush(m, x) \/ HeldByWire(m, x)

\* A message that was given to a sender is in one of them at most, and one that
\* was not is in none.
OneCopy ==
    \A m \in Msgs : \A x, y : Held(m, x) /\ Held(m, y) => m \notin unsent /\ x = y

LEMMA CopiesAreHeld == \A m, x : x \in Copies(m) <=> Held(m, x)
<1> TAKE m, x
<1> DEFINE S == {<<"sender", p, 0>> : p \in {p \in Senders : sending[p].pc # "idle" /\ sending[p].msg = m}}
           P == UNION {{<<"pending", u, i>> : i \in At(pendingMessages[u], m)} : u \in Users}
           F == UNION {{<<"flush", c, i>> : i \in At(flushing[c], m)}
                       \cup {<<"wire", c, i>> : i \in At(wire[c], m)} : c \in Conns}
<1>1. x \in S <=> HeldBySender(m, x)
    BY DEF HeldBySender
<1>2. x \in P <=> HeldPending(m, x)
    BY DEF HeldPending, At
<1>3. x \in F <=> HeldByFlush(m, x) \/ HeldByWire(m, x)
    <2>1. x \in F <=> \E c \in Conns :
                        \/ \E i \in At(flushing[c], m) : x = <<"flush", c, i>>
                        \/ \E i \in At(wire[c], m) : x = <<"wire", c, i>>
        OBVIOUS
    <2> QED
        BY <2>1 DEF HeldByFlush, HeldByWire, At
<1>4. Copies(m) = S \cup P \cup F
    BY DEF Copies
<1> QED
    BY <1>1, <1>2, <1>3, <1>4 DEF Held

LEMMA OneCopyCounts ==
    ASSUME OneCopy
    PROVE  NoCopies
<1> SUFFICES ASSUME NEW m \in Msgs
             PROVE  Cardinality(Copies(m)) <= IF m \in unsent THEN 0 ELSE 1
    BY DEF NoCopies
<1>1. \A x, y \in Copies(m) : m \notin unsent /\ x = y
    BY CopiesAreHeld DEF OneCopy
<1>2. CASE Copies(m) = {}
    BY <1>2, FS_EmptySet
<1>3. CASE Copies(m) # {}
    <2>1. PICK x : x \in Copies(m)
        BY <1>3
    <2>2. Copies(m) = {x} /\ m \notin unsent
        BY <1>1, <2>1
    <2> QED
        <3>1. Cardinality({x}) = 1
            BY FS_Singleton
        <3> QED
            BY <2>2, <3>1
<1> QED
    BY <1>2, <1>3

\* A user's pending messages are handed to the flush of its new connection.
LEMMA AddMoves ==
    ASSUME IInv, OneCopy, NEW c \in Conns, Add(c)
    PROVE  OneCopy'
<1> DEFINE u == UserOf[c]
<1>1. /\ flushing' = [flushing EXCEPT ![c] = pendingMessages[u]]
      /\ pendingMessages' = [pendingMessages EXCEPT ![u] = <<>>]
      /\ UNCHANGED <<wire, sending, unsent>>
    BY DEF Add
<1>2. /\ u \in Users /\ pendingMessages \in [Users -> Seq(Msgs)] /\ flushing \in [Conns -> Seq(Msgs)]
      /\ Len(<<>>) = 0
    BY EmptySeq DEF IInv, TypeOK
<1>3. ASSUME NEW m \in Msgs, NEW x, Held(m, x)'
      PROVE  \/ /\ Held(m, x)
                /\ \A i \in Nat : x # <<"pending", u, i>>
             \/ \E i \in Nat : x = <<"flush", c, i>> /\ Held(m, <<"pending", u, i>>)
    <2>1. CASE HeldBySender(m, x)'
        BY <1>1, <2>1 DEF HeldBySender, Held
    <2>2. CASE HeldPending(m, x)'
        BY <1>1, <1>2, <2>2 DEF HeldPending, Held
    <2>3. CASE HeldByFlush(m, x)'
        BY <1>1, <1>2, <2>3 DEF HeldByFlush, HeldPending, Held
    <2>4. CASE HeldByWire(m, x)'
        BY <1>1, <2>4 DEF HeldByWire, Held
    <2> QED
        BY <1>3, <2>1, <2>2, <2>3, <2>4 DEF Held
<1> QED
    <2> SUFFICES ASSUME NEW m \in Msgs, NEW x, NEW y, Held(m, x)', Held(m, y)'
                 PROVE  m \notin unsent' /\ x = y
        BY DEF OneCopy
    <2>1. \A z1, z2 : Held(m, z1) /\ Held(m, z2) => m \notin unsent /\ z1 = z2
        BY DEF OneCopy
    <2>2. CASE \E i \in Nat : x = <<"flush", c, i>> /\ Held(m, <<"pending", u, i>>)
        <3>1. PICK i \in Nat : x = <<"flush", c, i>> /\ Held(m, <<"pending", u, i>>)
            BY <2>2
        <3>2. CASE Held(m, y) /\ \A j \in Nat : y # <<"pending", u, j>>
            BY <2>1, <3>1, <3>2
        <3>3. CASE \E j \in Nat : y = <<"flush", c, j>> /\ Held(m, <<"pending", u, j>>)
            <4>1. PICK j \in Nat : y = <<"flush", c, j>> /\ Held(m, <<"pending", u, j>>)
                BY <3>3
            <4>2. <<"pending", u, i>> = <<"pending", u, j>>
                BY <2>1, <3>1, <4>1
            <4> QED
                BY <1>1, <2>1, <3>1, <4>1, <4>2
        <3> QED
            BY <1>3, <3>2, <3>3
    <2>3. CASE Held(m, x) /\ \A i \in Nat : x # <<"pending", u, i>>
        <3>2. CASE Held(m, y) /\ \A j \in Nat : y # <<"pending", u, j>>
            BY <1>1, <2>1, <2>3, <3>2
        <3>3. CASE \E j \in Nat : y = <<"flush", c, j>> /\ Held(m, <<"pending", u, j>>)
            BY <2>1, <2>3, <3>3
        <3> QED
            BY <1>3, <3>2, <3>3
    <2> QED
        BY <1>3, <2>2, <2>3

\* A step that moves a message from one place to one other.
Moved(from, to) ==
    /\ unsent' = unsent
    /\ \A m \in Msgs : \A x :
        Held(m, x)' => (Held(m, x) /\ x # from) \/ (Held(m, from) /\ x = to)

LEMMA OneMoves ==
    ASSUME OneCopy, NEW from, NEW to, Moved(from, to)
    PROVE  OneCopy'
<1> USE DEF Moved
<1> SUFFICES ASSUME NEW m \in Msgs, NEW x, NEW y, Held(m, x)', Held(m, y)'
             PROVE  m \notin unsent' /\ x = y
    BY DEF OneCopy
<1>1. \A z1, z2 : Held(m, z1) /\ Held(m, z2) => m \notin unsent /\ z1 = z2
    BY DEF OneCopy
<1>2. (Held(m, x) /\ x # from) \/ (Held(m, from) /\ x = to)
    OBVIOUS
<1>3. (Held(m, y) /\ y # from) \/ (Held(m, from) /\ y = to)
    OBVIOUS
<1> QED
    BY <1>1, <1>2, <1>3

\* What a write adds to a connection is one copy, at its end.
LEMMA WriteAdds ==
    ASSUME TypeOK, NEW c \in Conns, NEW m0 \in Msgs, WriteJSON(c, m0),
           NEW m \in Msgs, NEW x, HeldByWire(m, x)'
    PROVE  HeldByWire(m, x) \/ (m = m0 /\ x = <<"wire", c, Len(wire[c]) + 1>>)
<1>1. wire \in [Conns -> Seq(Msgs)]
    BY DEF TypeOK
<1>2. CASE wire' = wire
    BY <1>2 DEF HeldByWire
<1>3. CASE wire' = [wire EXCEPT ![c] = Append(@, m0)]
    <2>1. PICK e \in Conns, i \in Nat :
            x = <<"wire", e, i>> /\ i \in 1..Len(wire'[e]) /\ wire'[e][i] = m
        BY DEF HeldByWire
    <2>2. CASE e = c
        <3>1. wire'[c] = Append(wire[c], m0) /\ wire[c] \in Seq(Msgs)
            BY <1>1, <1>3
        <3>2. CASE i \in 1..Len(wire[c])
            BY <2>1, <2>2, <3>1, <3>2 DEF HeldByWire
        <3>3. CASE i = Len(wire[c]) + 1
            BY <2>1, <2>2, <3>1, <3>3
        <3> QED
            BY <2>1, <2>2, <3>1, <3>2, <3>3
    <2>3. CASE e # c
        BY <1>1, <1>3, <2>1, <2>3 DEF HeldByWire
    <2> QED
        BY <2>2, <2>3
<1> QED
    BY <1>2, <1>3 DEF WriteJSON

\* A message given to a sender was in no place.
LEMMA LookupMoves ==
    ASSUME IInv, OneCopy, NEW p \in Senders, NEW m0 \in Msgs, Lookup(p, m0)
    PROVE  OneCopy'
<1> DEFINE found == connections[To[m0]]
           call == [pc |-> IF found = NoConn THEN "queue" ELSE "write", msg |-> m0,
                    conn |-> found]
           z == <<"sender", p, 0>>
<1>1. /\ sending[p].pc = "idle" /\ m0 \in unsent /\ unsent' = unsent \ {m0}
      /\ sending' = [sending EXCEPT ![p] = call] /\ call.msg = m0
      /\ UNCHANGED <<connections, pendingMessages, flushing, wire, handler>>
    BY DEF Lookup
<1>2. sending \in [Senders -> Call \cup {NotSending}]
    BY DEF IInv, TypeOK
<1>3. ASSUME NEW m \in Msgs, NEW x, Held(m, x)'
      PROVE  Held(m, x) \/ (m = m0 /\ x = z)
    <2>1. CASE HeldBySender(m, x)'
        <3> HIDE DEF call
        <3>1. PICK r \in Senders : x = <<"sender", r, 0>> /\ sending'[r].pc # "idle" /\ sending'[r].msg = m
            BY <2>1 DEF HeldBySender
        <3>2. CASE r = p
            BY <1>1, <1>2, <3>1, <3>2
        <3>3. CASE r # p
            BY <1>1, <1>2, <3>1, <3>3 DEF HeldBySender, Held
        <3> QED
            BY <3>2, <3>3
    <2>2. CASE ~HeldBySender(m, x)'
        BY <1>1, <1>3, <2>2 DEF HeldPending, HeldByFlush, HeldByWire, Held
    <2> QED
        BY <2>1, <2>2
<1>4. \A x : ~Held(m0, x)
    BY <1>1 DEF OneCopy
<1> QED
    <2> SUFFICES ASSUME NEW m \in Msgs, NEW x, NEW y, Held(m, x)', Held(m, y)'
                 PROVE  m \notin unsent' /\ x = y
        BY DEF OneCopy
    <2>1. \A z1, z2 : Held(m, z1) /\ Held(m, z2) => m \notin unsent /\ z1 = z2
        BY DEF OneCopy
    <2>2. (Held(m, x) \/ (m = m0 /\ x = z)) /\ (Held(m, y) \/ (m = m0 /\ y = z))
        BY <1>3
    <2> QED
        BY <1>1, <1>4, <2>1, <2>2

\* The sender's message becomes the last of its user's pending ones...
LEMMA QueueMoves ==
    ASSUME IInv, OneCopy, NEW p \in Senders, Queue(p)
    PROVE  OneCopy'
<1> DEFINE m0 == sending[p].msg
           u == To[m0]
           s == pendingMessages[u]
           from == <<"sender", p, 0>>
           to == <<"pending", u, Len(s) + 1>>
<1>1. /\ sending[p].pc = "queue"
      /\ pendingMessages' = [pendingMessages EXCEPT ![u] = Append(s, m0)]
      /\ sending' = [sending EXCEPT ![p] = NotSending]
      /\ UNCHANGED <<connections, flushing, wire, handler, unsent>>
    BY DEF Queue
<1>2. m0 \in Msgs
    BY <1>1, CallInProgress DEF IInv, Call
<1>3. /\ u \in Users /\ s \in Seq(Msgs) /\ pendingMessages \in [Users -> Seq(Msgs)]
      /\ sending \in [Senders -> Call \cup {NotSending}]
    BY <1>2 DEF IInv, TypeOK
<1>4. Held(m0, from)
    BY <1>1 DEF HeldBySender, Held
<1>5. ASSUME NEW m \in Msgs, NEW x, Held(m, x)'
      PROVE  (Held(m, x) /\ x # from) \/ (Held(m, from) /\ x = to)
    <2>1. CASE HeldBySender(m, x)'
        BY <1>1, <1>3, <2>1 DEF HeldBySender, Held, NotSending
    <2>2. CASE HeldPending(m, x)'
        <3> HIDE DEF m0, u, s
        <3>1. PICK v \in Users, i \in Nat :
                x = <<"pending", v, i>> /\ i \in 1..Len(pendingMessages'[v]) /\ pendingMessages'[v][i] = m
            BY <2>2 DEF HeldPending
        <3>2. CASE v # u
            BY <1>1, <1>3, <3>1, <3>2 DEF HeldPending, Held
        <3>3. CASE v = u
            <4>1. pendingMessages'[u] = Append(s, m0)
                BY <1>1, <1>3
            <4>2. CASE i \in 1..Len(s)
                BY <1>1, <1>2, <1>3, <3>1, <3>3, <4>1, <4>2 DEF s, HeldPending, Held
            <4>3. CASE i = Len(s) + 1
                BY <1>2, <1>3, <1>4, <3>1, <3>3, <4>1, <4>3
            <4> QED
                BY <1>2, <1>3, <3>1, <3>3, <4>1, <4>2, <4>3
        <3> QED
            BY <3>2, <3>3
    <2>3. CASE HeldByFlush(m, x)' \/ HeldByWire(m, x)'
        BY <1>1, <2>3 DEF HeldByFlush, HeldByWire, Held
    <2> QED
        BY <1>5, <2>1, <2>2, <2>3 DEF Held
<1>6. Moved(from, to)
    BY <1>1, <1>5 DEF Moved
<1> QED
    BY <1>6, OneMoves

\* ... or the last written to the connection that it found.
LEMMA SenderWriteMoves ==
    ASSUME IInv, OneCopy, NEW p \in Senders, Write(p)
    PROVE  OneCopy'
<1> DEFINE m0 == sending[p].msg
           c == sending[p].conn
           from == <<"sender", p, 0>>
           to == <<"wire", c, Len(wire[c]) + 1>>
<1>1. /\ sending[p].pc = "write" /\ WriteJSON(c, m0)
      /\ sending' = [sending EXCEPT ![p] = NotSending]
      /\ UNCHANGED <<connections, pendingMessages, flushing, handler, unsent>>
    BY DEF Write
<1>2. m0 \in Msgs /\ c \in Conns /\ sending \in [Senders -> Call \cup {NotSending}]
    BY <1>1, CallInProgress DEF IInv, Call, TypeOK
<1>3. Held(m0, from)
    BY <1>1 DEF HeldBySender, Held
<1>4. ASSUME NEW m \in Msgs, NEW x, Held(m, x)'
      PROVE  (Held(m, x) /\ x # from) \/ (Held(m, from) /\ x = to)
    <2>1. CASE HeldBySender(m, x)'
        BY <1>1, <1>2, <2>1 DEF HeldBySender, Held, NotSending
    <2>2. CASE HeldPending(m, x)' \/ HeldByFlush(m, x)'
        BY <1>1, <2>2 DEF HeldPending, HeldByFlush, Held
    <2>3. CASE HeldByWire(m, x)'
        <3>1. HeldByWire(m, x) \/ (m = m0 /\ x = to)
            BY <1>1, <1>2, <2>3, WriteAdds DEF IInv
        <3> QED
            BY <1>3, <3>1 DEF HeldByWire, Held
    <2> QED
        BY <1>4, <2>1, <2>2, <2>3 DEF Held
<1>5. Moved(from, to)
    BY <1>1, <1>4 DEF Moved
<1> QED
    BY <1>5, OneMoves

\* A flush writes the head of what it still has, and the others move up.
LEMMA FlushMoves ==
    ASSUME IInv, OneCopy, NEW c \in Conns, Flush(c)
    PROVE  OneCopy'
<1> DEFINE s == flushing[c]
           m0 == Head(s)
           z == <<"wire", c, Len(wire[c]) + 1>>
           At0(i) == <<"flush", c, i>>
<1>1. /\ s \in Seq(Msgs) /\ s # <<>> /\ WriteJSON(c, m0)
      /\ flushing \in [Conns -> Seq(Msgs)] /\ flushing' = [flushing EXCEPT ![c] = Tail(s)]
      /\ UNCHANGED <<connections, pendingMessages, handler, sending, unsent>>
    BY DEF Flush, IInv, TypeOK
<1>2. /\ m0 \in Msgs /\ m0 = s[1] /\ Tail(s) \in Seq(Msgs)
      /\ Len(s) \in Nat /\ Len(s) > 0 /\ Len(Tail(s)) = Len(s) - 1
      /\ \A i \in 1..Len(Tail(s)) : Tail(s)[i] = s[i + 1]
    BY <1>1, HeadTailProperties, EmptySeq
<1>3. Held(m0, At0(1))
    BY <1>1, <1>2 DEF HeldByFlush, Held
<1>4. ASSUME NEW m \in Msgs, NEW x, Held(m, x)'
      PROVE  \/ Held(m, x) /\ \A i \in Nat : x # At0(i)
             \/ \E i \in Nat : i >= 1 /\ x = At0(i) /\ Held(m, At0(i + 1))
             \/ x = z /\ Held(m, At0(1))
    <2>1. CASE HeldBySender(m, x)'
        BY <1>1, <2>1 DEF HeldBySender, Held
    <2>2. CASE HeldPending(m, x)'
        BY <1>1, <2>2 DEF HeldPending, Held
    <2>3. CASE HeldByFlush(m, x)'
        <3>1. PICK e \in Conns, i \in Nat :
                x = <<"flush", e, i>> /\ i \in 1..Len(flushing'[e]) /\ flushing'[e][i] = m
            BY <2>3 DEF HeldByFlush
        <3>2. CASE e = c
            <4>1. flushing'[c] = Tail(s)
                BY <1>1
            <4>2. i \in 1..(Len(s) - 1) /\ s[i + 1] = m
                BY <1>2, <3>1, <3>2, <4>1
            <4>3. i + 1 \in 1..Len(s)
                BY <1>2, <4>2
            <4>4. HeldByFlush(m, At0(i + 1))
                BY <4>2, <4>3 DEF HeldByFlush
            <4>5. Held(m, At0(i + 1))
                BY <4>4 DEF Held
            <4>6. i >= 1 /\ x = At0(i)
                BY <3>1, <3>2, <4>2
            <4> HIDE DEF At0, z
            <4> QED
                BY <4>5, <4>6
        <3>3. CASE e # c
            BY <1>1, <3>1, <3>3 DEF HeldByFlush, Held
        <3> QED
            BY <3>2, <3>3
    <2>4. CASE HeldByWire(m, x)'
        <3>1. HeldByWire(m, x) \/ (m = m0 /\ x = z)
            BY <1>1, <1>2, <2>4, WriteAdds DEF IInv
        <3> QED
            BY <1>3, <3>1 DEF HeldByWire, Held
    <2> QED
        BY <1>4, <2>1, <2>2, <2>3, <2>4 DEF Held
<1> QED
    <2> SUFFICES ASSUME NEW m \in Msgs, NEW x, NEW y, Held(m, x)', Held(m, y)'
                 PROVE  m \notin unsent' /\ x = y
        BY DEF OneCopy
    <2>1. \A z1, z2 : Held(m, z1) /\ Held(m, z2) => m \notin unsent /\ z1 = z2
        BY DEF OneCopy
    <2>2. m \notin unsent'
        BY <1>1, <1>4, <2>1
    <2>3. \A i, j \in Nat : At0(i) = At0(j) => i = j
        OBVIOUS
    <2> DEFINE Same(w) == Held(m, w) /\ \A i \in Nat : w # At0(i)
               Up(w) == \E i \in Nat : i >= 1 /\ w = At0(i) /\ Held(m, At0(i + 1))
               Out(w) == w = z /\ Held(m, At0(1))
    <2>4. (Same(x) \/ Up(x) \/ Out(x)) /\ (Same(y) \/ Up(y) \/ Out(y))
        BY <1>4
    <2> HIDE DEF At0, z
    <2>5. ASSUME NEW v, NEW w, Same(v), Up(w) \/ Out(w)
          PROVE  FALSE
        BY <2>1, <2>5
    <2>6. ASSUME NEW v, NEW w, Up(v), Out(w)
          PROVE  FALSE
        <3>1. PICK i \in Nat : i >= 1 /\ Held(m, At0(i + 1)) /\ Held(m, At0(1))
            BY <2>6
        <3>2. At0(i + 1) = At0(1)
            BY <2>1, <3>1
        <3>3. i + 1 = 1
            BY <2>3, <3>1, <3>2
        <3> QED
            BY <3>1, <3>3
    <2>7. ASSUME Up(x), Up(y)
          PROVE  x = y
        <3>1. PICK i \in Nat : i >= 1 /\ x = At0(i) /\ Held(m, At0(i + 1))
            BY <2>7
        <3>2. PICK j \in Nat : j >= 1 /\ y = At0(j) /\ Held(m, At0(j + 1))
            BY <2>7
        <3>3. i + 1 = j + 1
            BY <2>1, <2>3, <3>1, <3>2
        <3>4. i = j
            BY <3>1, <3>2, <3>3
        <3> QED
            BY <3>1, <3>2, <3>4
    <2>8. ASSUME Same(x), Same(y)
          PROVE  x = y
        BY <2>1, <2>8
    <2> QED
        BY <2>2, <2>4, <2>5, <2>6, <2>7, <2>8

-----------------------------------------------------------------------------
(***************************************************************************)
(* Nothing is written to a connection that was not added, and nothing waits *)
(* to be flushed to one: a message is lost only with a connection that broke*)
(***************************************************************************)
Opened ==
    /\ \A c \in Conns : handler[c] = "new" => flushing[c] = <<>>
    /\ \A u \in Users : connections[u] # NoConn => handler[connections[u]] # "new"
    /\ \A p \in Senders : sending[p].pc = "write" => handler[sending[p].conn] # "new"

LEMMA OpenedStart == Init => Opened
    BY DEF Init, Opened, NotSending

LEMMA OpenedNext ==
    ASSUME IInv, Opened, [Next]_cmVars
    PROVE  Opened'
<1> USE DEF IInv, TypeOK
<1>1. CASE UNCHANGED cmVars
    BY <1>1 DEF cmVars, Opened
<1>2. ASSUME NEW c \in Conns, Add(c)
      PROVE  Opened'
    BY <1>2 DEF Add, Opened, Call, NotSending
<1>3. ASSUME NEW c \in Conns, Close(c) \/ Remove(c)
      PROVE  Opened'
    <2>1. /\ handler' \in [Conns -> {"new", "open", "closed", "removed"}]
          /\ \A e \in Conns : handler'[e] = "new" <=> handler[e] = "new"
          /\ \A u \in Users : connections'[u] \in {connections[u], NoConn}
          /\ UNCHANGED <<flushing, sending>>
        BY <1>3 DEF Close, Remove
    <2>2. \A p \in Senders : sending[p].pc = "write" => sending[p].conn \in Conns
        BY CallInProgress DEF Call
    <2> QED
        BY <2>1, <2>2 DEF Opened
<1>4. ASSUME NEW c \in Conns, Flush(c)
      PROVE  Opened'
    BY <1>4 DEF Flush, Opened
<1>5. ASSUME NEW p \in Senders, Queue(p) \/ Write(p)
      PROVE  Opened'
    <2>1. \A r \in Senders : sending'[r].pc = "write" => sending'[r] = sending[r]
        BY <1>5 DEF Queue, Write, NotSending
    <2>2. UNCHANGED <<connections, flushing, handler>>
        BY <1>5 DEF Queue, Write
    <2> QED
        BY <2>1, <2>2 DEF Opened
<1>6. ASSUME NEW p \in Senders, NEW m \in Msgs, Lookup(p, m)
      PROVE  Opened'
    BY <1>6 DEF Lookup, Opened
<1> QED
    BY <1>1, <1>2, <1>3, <1>4, <1>5, <1>6 DEF Next

LEMMA OneCopyStart == Init => OneCopy
<1> SUFFICES ASSUME Init, NEW m \in Msgs, NEW x, Held(m, x) PROVE FALSE
    BY DEF OneCopy
<1> QED
    BY EmptySeq DEF Init, NotSending, Held, HeldBySender, HeldPending, HeldByFlush, HeldByWire

LEMMA OneCopyNext ==
    ASSUME IInv, OneCopy, [Next]_cmVars
    PROVE  OneCopy'
<1>1. CASE UNCHANGED cmVars
    BY <1>1 DEF cmVars, OneCopy, Held, HeldBySender, HeldPending, HeldByFlush, HeldByWire
<1>2. ASSUME NEW c \in Conns, Close(c) \/ Remove(c)
      PROVE  OneCopy'
    BY <1>2 DEF Close, Remove, OneCopy, Held, HeldBySender, HeldPending, HeldByFlush, HeldByWire
<1>3. CASE \E c \in Conns : Add(c) \/ Close(c) \/ Remove(c) \/ Flush(c)
    BY <1>2, <1>3, AddMoves, FlushMoves
<1>4. CASE \E p \in Senders : Queue(p) \/ Write(p) \/ \E m \in Msgs : Lookup(p, m)
    BY <1>4, QueueMoves, SenderWriteMoves, LookupMoves
<1> QED
    BY <1>1, <1>3, <1>4 DEF Next

KeptInv == IInv /\ OneCopy /\ Opened

LEMMA KeptStart == Init => KeptInv
    BY InitEstablishes, OneCopyStart, OpenedStart DEF KeptInv

LEMMA KeptNext == KeptInv /\ [Next]_cmVars => KeptInv'
    BY NextKeeps, OneCopyNext, OpenedNext DEF KeptInv

LEMMA KeptInvariance == Spec => []KeptInv
    BY KeptStart, KeptNext, PTL DEF Spec

\* Wherever a message on its way may be written, it is its own user's.
THEOREM MessagesOnTheirWay == Spec => []OwnMessagesInFlight
    BY Invariance, PTL DEF IInv

\* However connections of a user come and go beside flushes and senders that
\* still hold what they looked up, no message is ever in two places.
THEOREM NothingIsCopied == Spec => []NoCopies
    BY KeptInvariance, OneCopyCounts, PTL DEF KeptInv

-----------------------------------------------------------------------------
(***************************************************************************)
(* The connection manager implements Mailbox: every step changes the fate of*)
(* one message at most, as Mailbox allows, or breaks a connection.          *)
(***************************************************************************)
LEMMA InNothing == \A m : ~In(m, <<>>)
    BY EmptySeq DEF In

LEMMA InAppend ==
    ASSUME NEW s \in Seq(Msgs), NEW e \in Msgs, NEW m
    PROVE  In(m, Append(s, e)) <=> In(m, s) \/ m = e
<1>1. /\ Len(Append(s, e)) = Len(s) + 1 /\ Len(s) \in Nat /\ Append(s, e)[Len(s) + 1] = e
      /\ \A i \in 1..Len(s) : Append(s, e)[i] = s[i]
    OBVIOUS
<1>2. \A i \in 1..(Len(s) + 1) : i \in 1..Len(s) \/ i = Len(s) + 1
    BY <1>1
<1>3. 1..Len(s) \subseteq 1..(Len(s) + 1) /\ Len(s) + 1 \in 1..(Len(s) + 1)
    BY <1>1
<1> QED
    BY <1>1, <1>2, <1>3 DEF In

LEMMA InHeadTail ==
    ASSUME NEW s \in Seq(Msgs), s # <<>>, NEW m
    PROVE  In(m, s) <=> m = Head(s) \/ In(m, Tail(s))
<1>1. /\ Head(s) = s[1] /\ Len(s) \in Nat /\ Len(s) > 0 /\ Len(Tail(s)) = Len(s) - 1
      /\ \A i \in 1..Len(Tail(s)) : Tail(s)[i] = s[i + 1]
    BY HeadTailProperties, EmptySeq
<1>2. ASSUME In(m, s)
      PROVE  m = Head(s) \/ In(m, Tail(s))
    <2>1. PICK i \in 1..Len(s) : s[i] = m
        BY <1>2 DEF In
    <2>2. CASE i = 1
        BY <1>1, <2>1, <2>2
    <2>3. CASE i # 1
        <3>1. i - 1 \in 1..Len(Tail(s)) /\ (i - 1) + 1 = i
            BY <1>1, <2>1, <2>3
        <3>2. Tail(s)[i - 1] = m
            BY <1>1, <2>1, <3>1
        <3> QED
            BY <3>1, <3>2 DEF In
    <2> QED
        BY <2>2, <2>3
<1>3. ASSUME In(m, Tail(s))
      PROVE  In(m, s)
    <2>1. PICK i \in 1..Len(Tail(s)) : Tail(s)[i] = m
        BY <1>3 DEF In
    <2>2. i + 1 \in 1..Len(s) /\ s[i + 1] = m
        BY <1>1, <2>1
    <2> QED
        BY <2>2 DEF In
<1>4. In(s[1], s)
    BY <1>1 DEF In
<1> QED
    BY <1>1, <1>2, <1>3, <1>4

\* A message that is in one place is in no other.
LEMMA InOnePlaceOnly ==
    ASSUME OneCopy, NEW m \in Msgs
    PROVE  /\ m \in unsent => ~Sending(m) /\ ~Pending(m) /\ ~Flushing(m) /\ ~Delivered(m)
           /\ Sending(m) => ~Pending(m) /\ ~Flushing(m) /\ ~Delivered(m)
           /\ Flushing(m) => ~Sending(m) /\ ~Pending(m) /\ ~Delivered(m)
           /\ \A p, r \in Senders :
                /\ sending[p].pc # "idle" /\ sending[p].msg = m
                /\ sending[r].pc # "idle" /\ sending[r].msg = m
                => p = r
           /\ \A c, e \in Conns : \A i \in 1..Len(flushing[c]) : \A j \in 1..Len(flushing[e]) :
                flushing[c][i] = m /\ flushing[e][j] = m => c = e /\ i = j
<1>1. \A x, y : Held(m, x) /\ Held(m, y) => m \notin unsent /\ x = y
    BY DEF OneCopy
<1>2. ASSUME Sending(m)
      PROVE  \E x : HeldBySender(m, x) /\ x[1] = "sender"
    <2>1. PICK p \in Senders : sending[p].pc # "idle" /\ sending[p].msg = m
        BY <1>2 DEF Sending
    <2>2. HeldBySender(m, <<"sender", p, 0>>)
        BY <2>1 DEF HeldBySender
    <2> QED
        BY <2>2
<1>3. ASSUME Pending(m)
      PROVE  \E x : HeldPending(m, x) /\ x[1] = "pending"
    <2>1. PICK u \in Users : \E i \in 1..Len(pendingMessages[u]) : pendingMessages[u][i] = m
        BY <1>3 DEF Pending, In
    <2>2. PICK i \in 1..Len(pendingMessages[u]) : pendingMessages[u][i] = m
        BY <2>1
    <2>3. HeldPending(m, <<"pending", u, i>>)
        BY <2>2 DEF HeldPending
    <2> QED
        BY <2>3
<1>4. ASSUME Flushing(m)
      PROVE  \E x : HeldByFlush(m, x) /\ x[1] = "flush"
    <2>1. PICK c \in Conns : \E i \in 1..Len(flushing[c]) : flushing[c][i] = m
        BY <1>4 DEF Flushing, In
    <2>2. PICK i \in 1..Len(flushing[c]) : flushing[c][i] = m
        BY <2>1
    <2>3. HeldByFlush(m, <<"flush", c, i>>)
        BY <2>2 DEF HeldByFlush
    <2> QED
        BY <2>3
<1>5. ASSUME Delivered(m)
      PROVE  \E x : HeldByWire(m, x) /\ x[1] = "wire"
    <2>1. PICK c \in Conns : \E i \in 1..Len(wire[c]) : wire[c][i] = m
        BY <1>5 DEF Delivered, In
    <2>2. PICK i \in 1..Len(wire[c]) : wire[c][i] = m
        BY <2>1
    <2>3. HeldByWire(m, <<"wire", c, i>>)
        BY <2>2 DEF HeldByWire
    <2> QED
        BY <2>3
<1>6. ASSUME NEW p \in Senders, NEW r \in Senders,
             sending[p].pc # "idle" /\ sending[p].msg = m, sending[r].pc # "idle" /\ sending[r].msg = m
      PROVE  p = r
    <2>1. Held(m, <<"sender", p, 0>>) /\ Held(m, <<"sender", r, 0>>)
        BY <1>6 DEF HeldBySender, Held
    <2>2. <<"sender", p, 0>> = <<"sender", r, 0>>
        BY <1>1, <2>1
    <2> QED
        BY <2>2
<1>7. ASSUME NEW c \in Conns, NEW e \in Conns,
             NEW i \in 1..Len(flushing[c]), NEW j \in 1..Len(flushing[e]),
             flushing[c][i] = m, flushing[e][j] = m
      PROVE  c = e /\ i = j
    <2>1. Held(m, <<"flush", c, i>>) /\ Held(m, <<"flush", e, j>>)
        BY <1>7 DEF HeldByFlush, Held
    <2>2. <<"flush", c, i>> = <<"flush", e, j>>
        BY <1>1, <2>1
    <2> QED
        BY <2>2
<1>8. \A x : HeldBySender(m, x) \/ HeldPending(m, x) \/ HeldByFlush(m, x) \/ HeldByWire(m, x)
             => Held(m, x)
    BY DEF Held
<1>9. "sender" # "pending" /\ "sender" # "flush" /\ "sender" # "wire"
      /\ "pending" # "flush" /\ "pending" # "wire" /\ "flush" # "wire"
    OBVIOUS
<1>10. /\ Sending(m) => ~Pending(m) /\ ~Flushing(m) /\ ~Delivered(m)
       /\ Flushing(m) => ~Sending(m) /\ ~Pending(m) /\ ~Delivered(m)
    BY <1>1, <1>2, <1>3, <1>4, <1>5, <1>8, <1>9
<1>11. m \in unsent => ~Sending(m) /\ ~Pending(m) /\ ~Flushing(m) /\ ~Delivered(m)
    BY <1>1, <1>2, <1>3, <1>4, <1>5, <1>8
<1> QED
    BY <1>6, <1>7, <1>10, <1>11

OnItsWay(m) == Sending(m) \/ Pending(m) \/ Flushing(m)

LEMMA FateIs ==
    \A m : Fate(m) = IF m \in unsent THEN "unsent"
                     ELSE IF Delivered(m) THEN "delivered"
                     ELSE IF OnItsWay(m) THEN "kept" ELSE "lost"
    BY DEF Fate, OnItsWay

FatesAre ==
    \A m : Fate(m) = IF m \in unsent THEN "unsent"
                     ELSE IF Delivered(m) THEN "delivered"
                     ELSE IF OnItsWay(m) THEN "kept" ELSE "lost"

LEMMA FatesNow == FatesAre
    BY FateIs DEF FatesAre

LEMMA FatesNext == FatesAre'
    BY FatesNow, PTL

\* What the fate of a message depends on is as it was.
SameFate(m) ==
    /\ m \in unsent' <=> m \in unsent
    /\ Delivered(m)' <=> Delivered(m)
    /\ OnItsWay(m)' <=> OnItsWay(m)

LEMMA NoFateChanges ==
    ASSUME handler' = handler, \A m \in Msgs : SameFate(m)
    PROVE  UNCHANGED Mail!mailbox
<1>1. \A m \in Msgs : Fate(m)' = Fate(m)
    BY FatesNow, FatesNext DEF FatesAre, SameFate
<1>2. fate' = fate
    BY <1>1 DEF fate
<1>3. broken' = broken
    BY DEF broken
<1> QED
    BY <1>2, <1>3 DEF Mail!mailbox

LEMMA OneFateChanges ==
    ASSUME NEW m0 \in Msgs, handler' = handler, \A m \in Msgs \ {m0} : SameFate(m)
    PROVE  Mail!Become(m0, Fate(m0), Fate(m0)')
<1>1. \A m \in Msgs \ {m0} : Fate(m)' = Fate(m)
    BY FatesNow, FatesNext DEF FatesAre, SameFate
<1>2. fate' = [fate EXCEPT ![m0] = Fate(m0)'] /\ fate[m0] = Fate(m0)
    BY <1>1 DEF fate
<1>3. broken' = broken
    BY DEF broken
<1> QED
    BY <1>2, <1>3 DEF Mail!Become

LEMMA MailStart == Init => Mail!MailboxInit
<1> SUFFICES ASSUME Init PROVE Mail!MailboxInit
    OBVIOUS
<1>1. \A m \in Msgs : Fate(m) = "unsent"
    BY FatesNow DEF FatesAre, Init
<1>2. broken = {}
    BY DEF Init, broken
<1> QED
    BY <1>1, <1>2 DEF Mail!MailboxInit, fate

\* The pending messages that Add takes are all in the flush it starts.
LEMMA AddKeepsMail ==
    ASSUME KeptInv, NEW c \in Conns, Add(c)
    PROVE  UNCHANGED Mail!mailbox
<1> DEFINE u == UserOf[c]
<1>1. /\ handler[c] = "new" /\ handler' = [handler EXCEPT ![c] = "open"]
      /\ flushing' = [flushing EXCEPT ![c] = pendingMessages[u]]
      /\ pendingMessages' = [pendingMessages EXCEPT ![u] = <<>>]
      /\ UNCHANGED <<wire, sending, unsent>>
    BY DEF Add
<1>2. /\ u \in Users /\ pendingMessages \in [Users -> Seq(Msgs)] /\ flushing \in [Conns -> Seq(Msgs)]
      /\ handler \in [Conns -> {"new", "open", "closed", "removed"}]
    BY DEF KeptInv, IInv, TypeOK
<1>3. flushing[c] = <<>>
    BY <1>1 DEF KeptInv, Opened
<1>4. ASSUME NEW m \in Msgs PROVE SameFate(m)
    <2>1. Delivered(m)' <=> Delivered(m)
        BY <1>1 DEF Delivered
    <2>2. Sending(m)' <=> Sending(m)
        BY <1>1 DEF Sending
    <2>3. Pending(m) <=> In(m, pendingMessages[u]) \/ \E v \in Users \ {u} : In(m, pendingMessages[v])
        BY <1>2 DEF Pending
    <2>4. Pending(m)' <=> \E v \in Users \ {u} : In(m, pendingMessages[v])
        BY <1>1, <1>2, InNothing DEF Pending
    <2>5. Flushing(m) <=> \E e \in Conns \ {c} : In(m, flushing[e])
        BY <1>3, InNothing DEF Flushing
    <2>6. Flushing(m)' <=> In(m, pendingMessages[u]) \/ \E e \in Conns \ {c} : In(m, flushing[e])
        BY <1>1, <1>2 DEF Flushing
    <2> QED
        BY <1>1, <2>1, <2>2, <2>3, <2>4, <2>5, <2>6 DEF SameFate, OnItsWay
<1>5. \A m \in Msgs : Fate(m)' = Fate(m)
    BY <1>4, FatesNow, FatesNext DEF FatesAre, SameFate
<1>6. \A e \in Conns : handler'[e] \in {"closed", "removed"} <=> handler[e] \in {"closed", "removed"}
    BY <1>1, <1>2
<1>7. fate' = fate /\ broken' = broken
    BY <1>5, <1>6 DEF fate, broken
<1> QED
    BY <1>7 DEF Mail!mailbox

LEMMA CloseBreaks ==
    ASSUME KeptInv, NEW c \in Conns, Close(c)
    PROVE  Mail!Break(UserOf[c])
<1>1. /\ handler \in [Conns -> {"new", "open", "closed", "removed"}]
      /\ handler[c] = "open" /\ handler' = [handler EXCEPT ![c] = "closed"]
      /\ UNCHANGED <<connections, pendingMessages, flushing, wire, sending, unsent>>
    BY DEF KeptInv, IInv, TypeOK, Close
<1>2. \A m : Fate(m)' = Fate(m)
    BY <1>1 DEF Fate, Delivered, Sending, Pending, Flushing
<1>3. {e \in Conns : handler'[e] \in {"closed", "removed"}}
        = {e \in Conns : handler[e] \in {"closed", "removed"}} \cup {c}
    BY <1>1
<1>4. broken' = broken \cup {UserOf[c]}
    BY <1>3 DEF broken
<1>5. fate' = fate
    BY <1>2 DEF fate
<1> QED
    BY <1>4, <1>5 DEF Mail!Break

LEMMA RemoveKeepsMail ==
    ASSUME KeptInv, NEW c \in Conns, Remove(c)
    PROVE  UNCHANGED Mail!mailbox
<1>1. /\ handler \in [Conns -> {"new", "open", "closed", "removed"}]
      /\ handler[c] = "closed" /\ handler' = [handler EXCEPT ![c] = "removed"]
      /\ UNCHANGED <<pendingMessages, flushing, wire, sending, unsent>>
    BY DEF KeptInv, IInv, TypeOK, Remove
<1>2. \A m : Fate(m)' = Fate(m)
    BY <1>1 DEF Fate, Delivered, Sending, Pending, Flushing
<1>3. \A e \in Conns : handler'[e] \in {"closed", "removed"} <=> handler[e] \in {"closed", "removed"}
    BY <1>1
<1>4. fate' = fate /\ broken' = broken
    BY <1>2, <1>3 DEF fate, broken
<1> QED
    BY <1>4 DEF Mail!mailbox

LEMMA WriteDelivers ==
    ASSUME TypeOK, NEW c \in Conns, NEW m0 \in Msgs, WriteJSON(c, m0)
    PROVE  /\ \A m \in Msgs : m # m0 => (Delivered(m)' <=> Delivered(m))
           /\ Delivered(m0)' <=> handler[c] = "open" \/ Delivered(m0)
<1>1. wire \in [Conns -> Seq(Msgs)]
    BY DEF TypeOK
<1>2. CASE handler[c] = "open"
    <2>1. wire' = [wire EXCEPT ![c] = Append(wire[c], m0)] /\ wire[c] \in Seq(Msgs)
        BY <1>1, <1>2 DEF WriteJSON
    <2>2. ASSUME NEW m \in Msgs
          PROVE  Delivered(m)' <=> Delivered(m) \/ m = m0
        <3>1. In(m, Append(wire[c], m0)) <=> In(m, wire[c]) \/ m = m0
            BY <2>1, InAppend
        <3>2. Delivered(m) <=> In(m, wire[c]) \/ \E e \in Conns \ {c} : In(m, wire[e])
            BY DEF Delivered
        <3>3. Delivered(m)' <=> In(m, Append(wire[c], m0)) \/ \E e \in Conns \ {c} : In(m, wire[e])
            BY <1>1, <2>1 DEF Delivered
        <3> QED
            BY <3>1, <3>2, <3>3
    <2> QED
        BY <1>2, <2>2
<1>3. CASE handler[c] # "open"
    <2>1. wire' = wire
        BY <1>3 DEF WriteJSON
    <2> QED
        BY <1>3, <2>1 DEF Delivered
<1> QED
    BY <1>2, <1>3

\* The only copy of a message is written: it is delivered, or lost with a
\* connection that broke.
LEMMA WriteSettles ==
    ASSUME KeptInv, NEW c \in Conns, NEW m0 \in Msgs, WriteJSON(c, m0),
           handler[c] # "new", handler' = handler, unsent' = unsent, To[m0] = UserOf[c],
           m0 \notin unsent, OnItsWay(m0), ~Delivered(m0), ~OnItsWay(m0)',
           \A m \in Msgs \ {m0} : OnItsWay(m)' <=> OnItsWay(m)
    PROVE  Mail!MailboxNext
<1>1. \A m \in Msgs \ {m0} : SameFate(m)
    BY WriteDelivers DEF KeptInv, IInv, SameFate
<1>2. Mail!Become(m0, Fate(m0), Fate(m0)')
    BY <1>1, OneFateChanges
<1>3. Fate(m0) = "kept"
    BY FatesNow DEF FatesAre
<1>4. Delivered(m0)' <=> handler[c] = "open"
    BY WriteDelivers DEF KeptInv, IInv
<1>5. CASE handler[c] = "open"
    <2>1. Fate(m0)' = "delivered"
        BY <1>4, <1>5, FatesNext DEF FatesAre
    <2> QED
        BY <1>2, <1>3, <2>1 DEF Mail!MailboxNext
<1>6. CASE handler[c] # "open"
    <2>1. Fate(m0)' = "lost"
        BY <1>4, <1>6, FatesNext DEF FatesAre
    <2>2. handler[c] \in {"closed", "removed"}
        BY <1>6 DEF KeptInv, IInv, TypeOK
    <2>3. To[m0] \in broken
        BY <2>2 DEF broken
    <2> QED
        BY <1>2, <1>3, <2>1, <2>3 DEF Mail!MailboxNext
<1> QED
    BY <1>5, <1>6

LEMMA FlushSettles ==
    ASSUME KeptInv, NEW c \in Conns, Flush(c), NEW m0, m0 = Head(flushing[c])
    PROVE  Mail!MailboxNext
<1> DEFINE s == flushing[c]
<1>1. /\ s \in Seq(Msgs) /\ s # <<>> /\ WriteJSON(c, m0)
      /\ flushing \in [Conns -> Seq(Msgs)] /\ flushing' = [flushing EXCEPT ![c] = Tail(s)]
      /\ UNCHANGED <<connections, pendingMessages, handler, sending, unsent>>
    BY DEF Flush, KeptInv, IInv, TypeOK
<1>2. /\ m0 \in Msgs /\ m0 = s[1] /\ Tail(s) \in Seq(Msgs)
      /\ Len(s) \in Nat /\ Len(s) > 0 /\ Len(Tail(s)) = Len(s) - 1
      /\ \A i \in 1..Len(Tail(s)) : Tail(s)[i] = s[i + 1]
    BY <1>1, HeadTailProperties, EmptySeq
<1>3. To[m0] = UserOf[c] /\ handler[c] # "new"
    BY <1>1, <1>2 DEF KeptInv, IInv, OwnMessagesInFlight, Opened
<1>4. 1 \in 1..Len(s) /\ In(m0, s)
    BY <1>2 DEF In
<1>5. Flushing(m0)
    BY <1>4 DEF Flushing
<1>6. /\ m0 \notin unsent /\ ~Sending(m0) /\ ~Pending(m0) /\ ~Delivered(m0)
      /\ \A e \in Conns : \A j \in 1..Len(flushing[e]) : flushing[e][j] = m0 => e = c /\ j = 1
    <2>1. /\ m0 \in unsent => ~Flushing(m0)
          /\ Flushing(m0) => ~Sending(m0) /\ ~Pending(m0) /\ ~Delivered(m0)
          /\ \A d, e \in Conns : \A i \in 1..Len(flushing[d]) : \A j \in 1..Len(flushing[e]) :
                flushing[d][i] = m0 /\ flushing[e][j] = m0 => d = e /\ i = j
        BY <1>2, InOnePlaceOnly DEF KeptInv
    <2> QED
        BY <1>2, <1>4, <1>5, <2>1
<1>7. ~In(m0, Tail(s))
    <2>1. SUFFICES ASSUME NEW i \in 1..Len(Tail(s)), Tail(s)[i] = m0 PROVE FALSE
        BY DEF In
    <2>2. i + 1 \in 1..Len(s) /\ s[i + 1] = m0 /\ i + 1 # 1
        BY <1>2, <2>1
    <2> QED
        BY <1>6, <2>2
<1>8. ASSUME NEW e \in Conns, e # c
      PROVE  ~In(m0, flushing[e])
    BY <1>6, <1>8 DEF In
<1>9. /\ flushing'[c] = Tail(s)
      /\ \A e \in Conns \ {c} : flushing'[e] = flushing[e]
    BY <1>1
<1>10. ~Flushing(m0)'
    BY <1>7, <1>8, <1>9 DEF Flushing
<1>11. \A m : (Sending(m)' <=> Sending(m)) /\ (Pending(m)' <=> Pending(m))
    BY <1>1 DEF Sending, Pending
<1>12. ASSUME NEW m \in Msgs \ {m0}
       PROVE  Flushing(m)' <=> Flushing(m)
    <2>1. In(m, s) <=> In(m, Tail(s))
        BY <1>1, <1>12, InHeadTail
    <2>2. \A e \in Conns : In(m, flushing'[e]) <=> In(m, flushing[e])
        BY <1>9, <2>1
    <2> QED
        BY <2>2 DEF Flushing
<1>13. ~OnItsWay(m0)' /\ OnItsWay(m0) /\ \A m \in Msgs \ {m0} : OnItsWay(m)' <=> OnItsWay(m)
    BY <1>5, <1>6, <1>10, <1>11, <1>12 DEF OnItsWay
<1> HIDE DEF s
<1> QED
    BY <1>1, <1>2, <1>3, <1>6, <1>13, WriteSettles

\* Who still sends when a sender is done.
LEMMA SendingWithout ==
    ASSUME KeptInv, NEW p \in Senders, sending[p].pc # "idle",
           NEW m0, m0 = sending[p].msg, sending' = [sending EXCEPT ![p] = NotSending]
    PROVE  /\ \A m : m # m0 => (Sending(m)' <=> Sending(m))
           /\ Sending(m0) /\ ~Sending(m0)'
<1>1. sending \in [Senders -> Call \cup {NotSending}]
    BY DEF KeptInv, IInv, TypeOK
<1>2. m0 \in Msgs
    BY CallInProgress DEF KeptInv, IInv, Call
<1>3. /\ sending'[p].pc = "idle" 
      /\ \A r \in Senders : r # p => sending'[r] = sending[r]
    BY <1>1 DEF NotSending
<1>4. \A r \in Senders :
        sending[r].pc # "idle" /\ sending[r].msg = m0 => r = p
    BY <1>2, InOnePlaceOnly DEF KeptInv
<1> QED
    BY <1>3, <1>4 DEF Sending

LEMMA SenderWriteSettles ==
    ASSUME KeptInv, NEW p \in Senders, Write(p),
           NEW m0, m0 = sending[p].msg, NEW c, c = sending[p].conn
    PROVE  Mail!MailboxNext
<1>1. /\ sending[p].pc = "write" /\ WriteJSON(c, m0)
      /\ sending' = [sending EXCEPT ![p] = NotSending]
      /\ UNCHANGED <<connections, pendingMessages, flushing, handler, unsent>>
    BY DEF Write
<1>2. m0 \in Msgs /\ c \in Conns
    BY <1>1, CallInProgress DEF KeptInv, IInv, Call
<1>3. To[m0] = UserOf[c] /\ handler[c] # "new"
    BY <1>1 DEF KeptInv, IInv, OwnMessagesInFlight, Opened
<1>4. /\ \A m : m # m0 => (Sending(m)' <=> Sending(m))
      /\ Sending(m0) /\ ~Sending(m0)'
    BY <1>1, SendingWithout
<1>5. m0 \notin unsent /\ ~Pending(m0) /\ ~Flushing(m0) /\ ~Delivered(m0)
    BY <1>2, <1>4, InOnePlaceOnly DEF KeptInv
<1>6. \A m : (Pending(m)' <=> Pending(m)) /\ (Flushing(m)' <=> Flushing(m))
    BY <1>1 DEF Pending, Flushing
<1>7. ~OnItsWay(m0)' /\ OnItsWay(m0) /\ \A m \in Msgs \ {m0} : OnItsWay(m)' <=> OnItsWay(m)
    BY <1>4, <1>5, <1>6 DEF OnItsWay
<1> QED
    BY <1>1, <1>2, <1>3, <1>5, <1>7, WriteSettles

LEMMA QueueKeepsMail ==
    ASSUME KeptInv, NEW p \in Senders, Queue(p), NEW m0, m0 = sending[p].msg
    PROVE  UNCHANGED Mail!mailbox
<1> DEFINE u == To[m0]
           s == pendingMessages[u]
<1>1. /\ sending[p].pc = "queue"
      /\ pendingMessages' = [pendingMessages EXCEPT ![u] = Append(s, m0)]
      /\ sending' = [sending EXCEPT ![p] = NotSending]
      /\ UNCHANGED <<connections, flushing, wire, handler, unsent>>
    BY DEF Queue
<1>2. m0 \in Msgs
    BY <1>1, CallInProgress DEF KeptInv, IInv, Call
<1>3. u \in Users /\ s \in Seq(Msgs) /\ pendingMessages \in [Users -> Seq(Msgs)]
    BY <1>2 DEF KeptInv, IInv, TypeOK
<1>4. /\ \A m : m # m0 => (Sending(m)' <=> Sending(m))
      /\ Sending(m0)
    BY <1>1, SendingWithout
<1>5. /\ pendingMessages'[u] = Append(s, m0)
      /\ \A v \in Users : v # u => pendingMessages'[v] = pendingMessages[v]
    BY <1>1, <1>3
<1>6. \A m : In(m, Append(s, m0)) <=> In(m, s) \/ m = m0
    BY <1>2, <1>3, InAppend
<1>7. Pending(m0)'
    BY <1>3, <1>5, <1>6 DEF Pending
<1>8. ASSUME NEW m, m # m0
      PROVE  Pending(m)' <=> Pending(m)
    <2>1. \A v \in Users : In(m, pendingMessages'[v]) <=> In(m, pendingMessages[v])
        BY <1>5, <1>6, <1>8
    <2> QED
        BY <2>1 DEF Pending
<1>9. \A m : (Flushing(m)' <=> Flushing(m)) /\ (Delivered(m)' <=> Delivered(m))
    BY <1>1 DEF Flushing, Delivered
<1>10. \A m \in Msgs : SameFate(m)
    BY <1>1, <1>4, <1>7, <1>8, <1>9 DEF SameFate, OnItsWay
<1> QED
    BY <1>1, <1>10, NoFateChanges

LEMMA LookupKeepsMessage ==
    ASSUME KeptInv, NEW p \in Senders, NEW m0 \in Msgs, Lookup(p, m0)
    PROVE  Mail!MailboxNext
<1>1. PICK call : /\ sending' = [sending EXCEPT ![p] = call] /\ call.msg = m0 /\ call.pc # "idle"
                  /\ sending[p].pc = "idle" /\ m0 \in unsent /\ unsent' = unsent \ {m0}
                  /\ UNCHANGED <<connections, pendingMessages, flushing, wire, handler>>
    <2> DEFINE call == [pc |-> IF connections[To[m0]] = NoConn THEN "queue" ELSE "write",
                        msg |-> m0, conn |-> connections[To[m0]]]
    <2>1. call.msg = m0 /\ call.pc # "idle"
        OBVIOUS
    <2> QED
        BY <2>1 DEF Lookup
<1>2. sending \in [Senders -> Call \cup {NotSending}]
    BY DEF KeptInv, IInv, TypeOK
<1>3. sending'[p] = call /\ \A r \in Senders : r # p => sending'[r] = sending[r]
    BY <1>1, <1>2
<1>4. Sending(m0)' /\ \A m : m # m0 => (Sending(m)' <=> Sending(m))
    BY <1>1, <1>3 DEF Sending
<1>5. ~Delivered(m0)
    BY <1>1, InOnePlaceOnly DEF KeptInv
<1>6. \A m : /\ Pending(m)' <=> Pending(m)
             /\ Flushing(m)' <=> Flushing(m)
             /\ Delivered(m)' <=> Delivered(m)
    BY <1>1 DEF Pending, Flushing, Delivered
<1>7. \A m \in Msgs \ {m0} : SameFate(m)
    BY <1>1, <1>4, <1>6 DEF SameFate, OnItsWay
<1>8. Mail!Become(m0, Fate(m0), Fate(m0)')
    BY <1>1, <1>7, OneFateChanges
<1>9. Fate(m0) = "unsent"
    BY <1>1, FatesNow DEF FatesAre
<1>10. Fate(m0)' = "kept"
    BY <1>1, <1>4, <1>5, <1>6, FatesNext DEF FatesAre, OnItsWay
<1> QED
    BY <1>8, <1>9, <1>10 DEF Mail!MailboxNext

LEMMA MailNext ==
    ASSUME KeptInv, [Next]_cmVars
    PROVE  [Mail!MailboxNext]_Mail!mailbox
<1>1. CASE UNCHANGED cmVars
    <2>1. \A m : Fate(m)' = Fate(m)
        BY <1>1 DEF cmVars, Fate, Delivered, Sending, Pending, Flushing
    <2>2. fate' = fate /\ broken' = broken
        BY <1>1, <2>1 DEF cmVars, fate, broken
    <2> QED
        BY <2>2 DEF Mail!mailbox
<1>2. ASSUME NEW c \in Conns, Close(c)
      PROVE  Mail!MailboxNext
    BY <1>2, CloseBreaks DEF Mail!MailboxNext
<1>3. CASE \E c \in Conns : Add(c) \/ Close(c) \/ Remove(c) \/ Flush(c)
    BY <1>2, <1>3, AddKeepsMail, RemoveKeepsMail, FlushSettles
<1>4. CASE \E p \in Senders : Queue(p) \/ Write(p) \/ \E m \in Msgs : Lookup(p, m)
    BY <1>4, QueueKeepsMail, SenderWriteSettles, LookupKeepsMessage
<1> QED
    BY <1>1, <1>3, <1>4 DEF Next

\* What the gateway is given for a user it keeps until his page has it, and it
\* loses it only with a connection of his that broke.
THEOREM MessagesAreKeptForTheirUser == Spec => KeepsMessages
<1>1. KeptInv /\ [Next]_cmVars => [Mail!MailboxNext]_Mail!mailbox
    BY MailNext
<1> QED
    BY <1>1, KeptInvariance, MailStart, PTL DEF Spec, KeepsMessages, Mail!MailboxSpec

=============================================================================
