------------------------------- MODULE Process -------------------------------
(***************************************************************************)
(* The life of a service's process, as far as the four main functions have  *)
(* it in common: Kubernetes starts it, it dials the broker, it works until   *)
(* it is told to stop or something ends it, it closes the broker, it exits,  *)
(* and it is started again.                                                 *)
(***************************************************************************)
EXTENDS AmqpConnection

CONSTANT MaxStarts      \* bound on the times the process is started

ASSUME StartsAssumption == MaxStarts \in Nat \ {0}

VARIABLES
    service,    \* which of the programs it runs; never changes
    main,       \* where its main function is, or "down"
    starts,     \* how often it was started
    told        \* whether the signal to stop has reached main's context

process == <<service, main, starts, told>>

ProcessInit ==
    /\ main = "down"
    /\ starts = 0
    /\ told = FALSE

-----------------------------------------------------------------------------
Goto(from, to) == main = from /\ main' = to

Begin(first) ==
    /\ Goto("down", first)
    /\ starts < MaxStarts
    /\ starts' = starts + 1
    /\ UNCHANGED <<service, told, connection>>

\* main is done with the broker's library, or the dial fails (log.Fatalf).
DialBroker(next) ==
    /\ Goto("dial", next)
    /\ Dial
    /\ UNCHANGED <<service, starts, told, faults>>

\* The deferred rabbitmq.Close.
CloseBroker ==
    /\ \/ Goto("close", "closing") /\ StartClose
       \/ Goto("close", "closed") /\ channel # "open" /\ UNCHANGED connection
    /\ UNCHANGED <<service, starts, told, faults>>

BrokerClosed ==
    /\ Goto("closing", "closed")
    /\ EndClose
    /\ UNCHANGED <<service, starts, told, faults>>

\* The process ends, whatever ends it.
Ends ==
    /\ main # "down"
    /\ main' = "down"
    /\ told' = FALSE
    /\ Abandon
    /\ UNCHANGED <<brokerSide, wire, service, starts>>

\* What goes on outside the process.
Network ==
    /\ BrokerReads \/ LinkBreaks \/ NoticeLoss \/ BrokerSeesEnd
    /\ UNCHANGED process

=============================================================================
