------------------------------ MODULE Mailbox -------------------------------
(***************************************************************************)
(* What the gateway's ConnectionManager promises to the queue consumers: a  *)
(* message given to SendMessage is kept until it is delivered, and delivered*)
(* to its own user; it may be lost only when a connection of that user      *)
(* broke.                                                                   *)
(***************************************************************************)
CONSTANTS Users, Msgs,
    To              \* message -> the user it is for

VARIABLES
    fate,           \* message -> what became of it
    broken          \* users a connection of which broke

mailbox == <<fate, broken>>

MailboxInit ==
    /\ fate = [m \in Msgs |-> "unsent"]
    /\ broken = {}

Become(m, from, to) ==
    /\ fate[m] = from
    /\ fate' = [fate EXCEPT ![m] = to]
    /\ UNCHANGED broken

Break(u) ==
    /\ broken' = broken \cup {u}
    /\ UNCHANGED fate

MailboxNext ==
    \/ \E m \in Msgs :
        \/ Become(m, "unsent", "kept")
        \/ Become(m, "kept", "delivered")
        \/ To[m] \in broken /\ Become(m, "kept", "lost")
    \/ \E u \in Users : Break(u)

MailboxSpec == MailboxInit /\ [][MailboxNext]_mailbox

=============================================================================
