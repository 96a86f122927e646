------------------------- MODULE ConnectionManager --------------------------
(***************************************************************************)
(* shared/messaging/connection_manager.go between its locks: the handlers   *)
(* of the gateway's websockets add and remove connections while the seven   *)
(* queue consumers send and freshly added connections are flushed. Each     *)
(* action is one critical section.                                          *)
(***************************************************************************)
EXTENDS Naturals, Sequences, FiniteSets

CONSTANTS
    Users, Msgs, To,    \* messages and the user each is for
    Conns, UserOf,      \* websocket connections and the user each belongs to
    NoConn,
    Senders             \* goroutines that call SendMessage

ASSUME ConnAssumption ==
    /\ To \in [Msgs -> Users]
    /\ UserOf \in [Conns -> Users]
    /\ NoConn \notin Conns

VARIABLES
    connections,    \* user -> the connection it is reached by, or NoConn
    pendingMessages,\* user -> messages kept for its next connection
    flushing,       \* connection -> what its flush goroutine still has to write
    wire,           \* connection -> what has been written to it
    handler,        \* connection -> where its websocket handler is
    sending,        \* sender -> the SendMessage call it is in
    unsent          \* messages no sender has been given yet

cmVars == <<connections, pendingMessages, flushing, wire, handler, sending, unsent>>

NotSending == [pc |-> "idle"]

Init ==
    /\ connections = [u \in Users |-> NoConn]
    /\ pendingMessages = [u \in Users |-> <<>>]
    /\ flushing = [c \in Conns |-> <<>>]
    /\ wire = [c \in Conns |-> <<>>]
    /\ handler = [c \in Conns |-> "new"]
    /\ sending = [p \in Senders |-> NotSending]
    /\ unsent = Msgs

-----------------------------------------------------------------------------
\* Mutants: the pending messages are flushed and kept; cleared and not flushed.
AddKeepsPending(c) ==
    /\ handler[c] = "new"
    /\ handler' = [handler EXCEPT ![c] = "open"]
    /\ connections' = [connections EXCEPT ![UserOf[c]] = c]
    /\ flushing' = [flushing EXCEPT ![c] = pendingMessages[UserOf[c]]]
    /\ UNCHANGED <<pendingMessages, wire, sending, unsent>>

AddDropsPending(c) ==
    /\ handler[c] = "new"
    /\ handler' = [handler EXCEPT ![c] = "open"]
    /\ connections' = [connections EXCEPT ![UserOf[c]] = c]
    /\ pendingMessages' = [pendingMessages EXCEPT ![UserOf[c]] = <<>>]
    /\ UNCHANGED <<flushing, wire, sending, unsent>>

\* Add replaces the user's connection and takes its pending messages to flush.
Add(c) ==
    LET u == UserOf[c]
    IN  /\ handler[c] = "new"
        /\ handler' = [handler EXCEPT ![c] = "open"]
        /\ connections' = [connections EXCEPT ![u] = c]
        /\ flushing' = [flushing EXCEPT ![c] = pendingMessages[u]]
        /\ pendingMessages' = [pendingMessages EXCEPT ![u] = <<>>]
        /\ UNCHANGED <<wire, sending, unsent>>

\* The browser goes away: from now on writes to the connection fail.
Close(c) ==
    /\ handler[c] = "open"
    /\ handler' = [handler EXCEPT ![c] = "closed"]
    /\ UNCHANGED <<connections, pendingMessages, flushing, wire, sending, unsent>>

\* The handler's read fails and its deferred Remove deletes the user's entry,
\* whichever connection that is. (When RegisterDriver fails, Remove comes just
\* before the connection is closed; here as if it came just after.)
Remove(c) ==
    /\ handler[c] = "closed"
    /\ handler' = [handler EXCEPT ![c] = "removed"]
    /\ connections' = [connections EXCEPT ![UserOf[c]] = NoConn]
    /\ UNCHANGED <<pendingMessages, flushing, wire, sending, unsent>>

\* WriteJSON under the connection's own mutex; an error loses the message.
WriteJSON(c, m) ==
    wire' = IF handler[c] = "open" THEN [wire EXCEPT ![c] = Append(@, m)] ELSE wire

\* One round of Add's flush goroutine.
Flush(c) ==
    /\ flushing[c] # <<>>
    /\ WriteJSON(c, Head(flushing[c]))
    /\ flushing' = [flushing EXCEPT ![c] = Tail(@)]
    /\ UNCHANGED <<connections, pendingMessages, handler, sending, unsent>>

-----------------------------------------------------------------------------
\* Mutant: a missing entry is taken for a connection.
LookupUnchecked(p, m) ==
    /\ sending[p].pc = "idle"
    /\ m \in unsent
    /\ unsent' = unsent \ {m}
    /\ sending' = [sending EXCEPT ![p] =
            [pc |-> "write", msg |-> m, conn |-> connections[To[m]]]]
    /\ UNCHANGED <<connections, pendingMessages, flushing, wire, handler>>

\* SendMessage, first the lookup under the read lock...
Lookup(p, m) ==
    /\ sending[p].pc = "idle"
    /\ m \in unsent
    /\ unsent' = unsent \ {m}
    /\ sending' = [sending EXCEPT ![p] =
            [pc |-> IF connections[To[m]] = NoConn THEN "queue" ELSE "write",
             msg |-> m, conn |-> connections[To[m]]]]
    /\ UNCHANGED <<connections, pendingMessages, flushing, wire, handler>>

\* Mutant: the message is queued under the id of whoever waits first.
QueueAnywhere(p) ==
    LET m == sending[p].msg
    IN  /\ sending[p].pc = "queue"
        /\ \E u \in Users : pendingMessages' = [pendingMessages EXCEPT ![u] = Append(@, m)]
        /\ sending' = [sending EXCEPT ![p] = NotSending]
        /\ UNCHANGED <<connections, flushing, wire, handler, unsent>>

\* ... then, in another critical section, either the message is queued
Queue(p) ==
    LET m == sending[p].msg
    IN  /\ sending[p].pc = "queue"
        /\ pendingMessages' = [pendingMessages EXCEPT ![To[m]] = Append(@, m)]
        /\ sending' = [sending EXCEPT ![p] = NotSending]
        /\ UNCHANGED <<connections, flushing, wire, handler, unsent>>

\* Mutant: two senders share the variable that holds the connection.
WriteShared(p) ==
    /\ sending[p].pc = "write"
    /\ \E r \in Senders :
        sending[r].pc = "write" /\ WriteJSON(sending[r].conn, sending[p].msg)
    /\ sending' = [sending EXCEPT ![p] = NotSending]
    /\ UNCHANGED <<connections, pendingMessages, flushing, handler, unsent>>

\* ... or written to the connection that was found.
Write(p) ==
    /\ sending[p].pc = "write"
    /\ WriteJSON(sending[p].conn, sending[p].msg)
    /\ sending' = [sending EXCEPT ![p] = NotSending]
    /\ UNCHANGED <<connections, pendingMessages, flushing, handler, unsent>>

Next ==
    \/ \E c \in Conns : Add(c) \/ Close(c) \/ Remove(c) \/ Flush(c)
    \/ \E p \in Senders : Queue(p) \/ Write(p) \/ \E m \in Msgs : Lookup(p, m)

Spec == Init /\ [][Next]_cmVars

-----------------------------------------------------------------------------
In(m, s) == \E i \in 1..Len(s) : s[i] = m

Call == [pc : {"queue"}, msg : Msgs, conn : {NoConn}]
        \cup [pc : {"write"}, msg : Msgs, conn : Conns]

\* Every variable holds a value its Go counterpart can hold.
TypeOK ==
    /\ connections \in [Users -> Conns \cup {NoConn}]
    /\ pendingMessages \in [Users -> Seq(Msgs)]
    /\ flushing \in [Conns -> Seq(Msgs)]
    /\ wire \in [Conns -> Seq(Msgs)]
    /\ handler \in [Conns -> {"new", "open", "closed", "removed"}]
    /\ sending \in [Senders -> Call \cup {NotSending}]
    /\ unsent \subseteq Msgs

Sending(m) == \E p \in Senders : sending[p].pc # "idle" /\ sending[p].msg = m
Pending(m) == \E u \in Users : In(m, pendingMessages[u])
Flushing(m) == \E c \in Conns : In(m, flushing[c])
Delivered(m) == \E c \in Conns : In(m, wire[c])

\* No page is sent what is meant for another user: not by a flush, and not by a
\* sender that still holds a connection it looked up before it was replaced.
OwnMessagesOnly ==
    \A c \in Conns : \A i \in 1..Len(wire[c]) : To[wire[c][i]] = UserOf[c]

\* The same of everything that may still be written.
OwnMessagesInFlight ==
    /\ \A c \in Conns : \A i \in 1..Len(flushing[c]) : To[flushing[c][i]] = UserOf[c]
    /\ \A u \in Users :
        \A i \in 1..Len(pendingMessages[u]) : To[pendingMessages[u][i]] = u
    /\ \A u \in Users : connections[u] # NoConn => UserOf[connections[u]] = u
    /\ \A p \in Senders :
        sending[p].pc = "write" => UserOf[sending[p].conn] = To[sending[p].msg]

At(s, m) == {i \in 1..Len(s) : s[i] = m}

\* Every place that holds a copy of the message.
Copies(m) ==
    {<<"sender", p, 0>> : p \in {p \in Senders : sending[p].pc # "idle" /\ sending[p].msg = m}}
    \cup (UNION {{<<"pending", u, i>> : i \in At(pendingMessages[u], m)} : u \in Users})
    \cup (UNION {{<<"flush", c, i>> : i \in At(flushing[c], m)}
                 \cup {<<"wire", c, i>> : i \in At(wire[c], m)} : c \in Conns})

\* A message is in one place at most: Add hands the pending messages over once,
\* also when connections of the same user come and go beside its flush.
NoCopies ==
    \A m \in Msgs : Cardinality(Copies(m)) <= IF m \in unsent THEN 0 ELSE 1

\* The promise of Mailbox: kept until delivered, lost only with a connection.
Fate(m) ==
    CASE m \in unsent -> "unsent"
      [] m \notin unsent /\ Delivered(m) -> "delivered"
      [] m \notin unsent /\ ~Delivered(m) /\ (Sending(m) \/ Pending(m) \/ Flushing(m)) -> "kept"
      [] OTHER -> "lost"

fate == [m \in Msgs |-> Fate(m)]
broken == {UserOf[c] : c \in {c \in Conns : handler[c] \in {"closed", "removed"}}}

Mail == INSTANCE Mailbox

KeepsMessages == Mail!MailboxSpec

=============================================================================
