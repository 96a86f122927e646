--------------------------- MODULE DriverService ----------------------------
(***************************************************************************)
(* services/driver-service: the in-memory registry of connected drivers,    *)
(* the pendingTrips map and the two consumers. Each consumer has a          *)
(* goroutine of its own, and gRPC handlers run beside them.                 *)
(***************************************************************************)
EXTENDS Broker

CONSTANT DriverPackage      \* driver -> the package slug it connects with

VARIABLES
    drivers,        \* Service.drivers, by driver id: a driver registers once
    pendingTrips,   \* Service.pendingTrips: trip -> driver, or NoDriver
    finding,        \* the find_available_drivers handler: pc and its driver
    withdrawing     \* the trip_cancelled_driver handler: pc and its driver

driverVars == <<drivers, pendingTrips, finding, withdrawing>>

Idle == [pc |-> "idle", driver |-> NoDriver]

DriverInit ==
    /\ drivers = <<>>
    /\ pendingTrips = [t \in TripIds |-> NoDriver]
    /\ finding = Idle
    /\ withdrawing = Idle

-----------------------------------------------------------------------------
\* The gRPC handlers, under Service.mu.
RegisterDriver(d) == drivers' = Append(drivers, d)

\* The registry without the driver at position k.
RemovedAt(k) == SubSeq(drivers, 1, k - 1) \o SubSeq(drivers, k + 1, Len(drivers))

UnregisterDriver(d) ==
    \/ \E k \in 1..Len(drivers) : drivers[k] = d /\ drivers' = RemovedAt(k)
    \/ (\A k \in 1..Len(drivers) : drivers[k] # d) /\ UNCHANGED drivers

-----------------------------------------------------------------------------
\* Mutant: the package is not compared.
FirstOfAny(scan, pkg, d) ==
    IF scan = <<>> THEN d = NoDriver ELSE d = scan[1]

\* FindAvailableDrivers(pkg)[0], read from the registry contents "scan".
FirstSuitable(scan, pkg, d) ==
    \/ /\ d = NoDriver
       /\ \A i \in 1..Len(scan) : DriverPackage[scan[i]] # pkg
    \/ \E i \in 1..Len(scan) :
        /\ d = scan[i]
        /\ DriverPackage[scan[i]] = pkg
        /\ \A j \in 1..(i - 1) : DriverPackage[scan[j]] # pkg

\* Mutant: the driver is notified and not remembered.
SearchForgets(scan) ==
    LET q == "find_available_drivers"
    IN  /\ Ready(q)
        /\ \E d \in Drivers \cup {NoDriver} :
            /\ FirstSuitable(scan, Head(queues[q]).body.pkg, d)
            /\ finding' = [pc |-> "found", driver |-> d]
        /\ Deliver(q)
        /\ UNCHANGED <<pendingTrips, withdrawing, faults>>

\* handleFindAndNotifyDriver up to its publish: the first driver of the right
\* package is remembered as the trip's pending driver.
Search(scan) ==
    LET q == "find_available_drivers"
        data == Head(queues[q]).body
    IN  /\ Ready(q)
        /\ \E d \in Drivers \cup {NoDriver} :
            /\ FirstSuitable(scan, data.pkg, d)
            /\ finding' = [pc |-> "found", driver |-> d]
            /\ pendingTrips' = IF d = NoDriver THEN pendingTrips
                               ELSE [pendingTrips EXCEPT ![data.trip] = d]
        /\ Deliver(q)
        /\ UNCHANGED <<withdrawing, faults>>

FindDriver == Search(drivers) /\ UNCHANGED drivers

\* The scan takes no lock. While UnregisterDriver moves the tail of the slice
\* down, each slot it reads may hold its old content or the next driver's.
FindWhileUnregistering(d) ==
    /\ \E k \in 1..Len(drivers) :
        /\ drivers[k] = d
        /\ \E moved \in SUBSET (k..(Len(drivers) - 1)) :
            Search([i \in 1..Len(drivers) |->
                        IF i \in moved THEN drivers[i + 1] ELSE drivers[i]])
    /\ UnregisterDriver(d)

\* Mutant: nobody is told that there is no driver.
PublishFoundOrNothing ==
    /\ finding.pc = "found"
    /\ IF finding.driver = NoDriver THEN UNCHANGED queues
       ELSE Publish(Message("driver.cmd.trip_request", finding.driver,
                            Handling("find_available_drivers").body))
    /\ finding' = [finding EXCEPT !.pc = "done"]
    /\ UNCHANGED <<drivers, pendingTrips, withdrawing, unacked, faults>>

\* Offer the trip to the driver, or tell the rider there is none.
PublishFound ==
    LET m == Handling("find_available_drivers")
    IN  /\ finding.pc = "found"
        /\ Publish(IF finding.driver = NoDriver
                   THEN Message("trip.event.no_drivers_found", m.body.user, NoData)
                   ELSE Message("driver.cmd.trip_request", finding.driver, m.body))
        /\ finding' = [finding EXCEPT !.pc = "done"]
        /\ UNCHANGED <<drivers, pendingTrips, withdrawing, unacked, faults>>

\* Mutant: a search that was answered goes back to its queue.
AckFoundRequeues ==
    /\ finding.pc = "done"
    /\ Requeue({"find_available_drivers"})
    /\ finding' = Idle
    /\ UNCHANGED <<drivers, pendingTrips, withdrawing, faults>>

AckFound ==
    /\ finding.pc = "done"
    /\ Settle("find_available_drivers")
    /\ finding' = Idle
    /\ UNCHANGED <<drivers, pendingTrips, withdrawing, queues, faults>>

\* The publish fails: the pending driver stays recorded, the search is over.
FindFails ==
    /\ finding.pc = "found"
    /\ Fault
    /\ Settle("find_available_drivers")
    /\ finding' = Idle
    /\ UNCHANGED <<drivers, pendingTrips, withdrawing, queues>>

-----------------------------------------------------------------------------
\* Mutant: a cancellation empties pendingTrips.
WithdrawAll ==
    LET q == "trip_cancelled_driver"
        t == Head(queues[q]).body.trip
    IN  /\ Ready(q)
        /\ \/ /\ pendingTrips[t] # NoDriver
              /\ withdrawing' = [pc |-> "found", driver |-> pendingTrips[t]]
              /\ pendingTrips' = [x \in TripIds |-> NoDriver]
              /\ Deliver(q)
           \/ /\ pendingTrips[t] = NoDriver
              /\ Pop(q)
              /\ UNCHANGED <<withdrawing, pendingTrips, unacked>>
        /\ UNCHANGED <<drivers, finding, faults>>

\* ListenForCancellations: GetAndRemovePendingDriver. When the trip has no
\* pending driver there is nobody to tell and the event is acknowledged.
Withdraw ==
    LET q == "trip_cancelled_driver"
        t == Head(queues[q]).body.trip
    IN  /\ Ready(q)
        /\ \/ /\ pendingTrips[t] # NoDriver
              /\ withdrawing' = [pc |-> "found", driver |-> pendingTrips[t]]
              /\ pendingTrips' = [pendingTrips EXCEPT ![t] = NoDriver]
              /\ Deliver(q)
           \/ /\ pendingTrips[t] = NoDriver
              /\ Pop(q)
              /\ UNCHANGED <<withdrawing, pendingTrips, unacked>>
        /\ UNCHANGED <<drivers, finding, faults>>

\* The command names the driver and no trip.
PublishWithdrawn ==
    /\ withdrawing.pc = "found"
    /\ Publish(Message("driver.cmd.trip_cancelled", withdrawing.driver, NoData))
    /\ withdrawing' = [withdrawing EXCEPT !.pc = "done"]
    /\ UNCHANGED <<drivers, pendingTrips, finding, unacked, faults>>

AckWithdrawn ==
    /\ withdrawing.pc = "done"
    /\ Settle("trip_cancelled_driver")
    /\ withdrawing' = Idle
    /\ UNCHANGED <<drivers, pendingTrips, finding, queues, faults>>

WithdrawFails ==
    /\ withdrawing.pc = "found"
    /\ Fault
    /\ Settle("trip_cancelled_driver")
    /\ withdrawing' = Idle
    /\ UNCHANGED <<drivers, pendingTrips, finding, queues>>

-----------------------------------------------------------------------------
DriverQueues == {"find_available_drivers", "trip_cancelled_driver"}

RejectDriverMessage ==
    /\ \E q \in DriverQueues : Reject(q)
    /\ UNCHANGED driverVars

\* A crash (a registry read torn by a concurrent append can be one) forgets the
\* registry and the pending drivers; connected drivers are not registered again.
DriverServiceCrash ==
    /\ Fault
    /\ Requeue(DriverQueues)
    /\ drivers' = <<>>
    /\ pendingTrips' = [t \in TripIds |-> NoDriver]
    /\ finding' = Idle
    /\ withdrawing' = Idle

FindHandler == FindDriver \/ PublishFound \/ AckFound
WithdrawHandler == Withdraw \/ PublishWithdrawn \/ AckWithdrawn

DriverServiceFailure ==
    \/ FindFails \/ WithdrawFails \/ RejectDriverMessage \/ DriverServiceCrash

=============================================================================
