------------------------------ MODULE Registry ------------------------------
(***************************************************************************)
(* Service.drivers of services/driver-service/service.go as the Go slice it *)
(* is: a header over a backing array. RegisterDriver and UnregisterDriver   *)
(* run under Service.mu, one at a time; FindAvailableDrivers takes no lock, *)
(* copies the two words of the header it needs and reads the array slot by  *)
(* slot while they write.                                                   *)
(***************************************************************************)
EXTENDS Naturals, Sequences

CONSTANTS
    Drivers, NoDriver,
    Suitable,           \* the drivers of the package that is searched
    FreshIds,           \* whether an id is registered only while it is not
    MaxRegistrations    \* bound on the calls of RegisterDriver

ASSUME RegistryAssumption ==
    /\ NoDriver \notin Drivers
    /\ Suitable \subseteq Drivers
    /\ FreshIds \in BOOLEAN
    /\ MaxRegistrations \in Nat

VARIABLES
    arrays,     \* the backing arrays append has allocated, with all their slots
    array, len, \* header of Service.drivers: its array's index, its length
    scan,       \* the FindAvailableDrivers call that is running
    crashed,    \* what the process died of, or "no"
    calls,      \* calls of RegisterDriver so far
    present,    \* history: ids registered and not unregistered since
    steady,     \* history: ids present since the scan began
    seen,       \* history: ids present at some time since the scan began
    left        \* history: ids unregistered since the scan began

header == <<array, len>>
history == <<present, steady, seen, left>>
registryVars == <<arrays, header, scan, crashed, calls, history>>

Idle == [pc |-> "idle", array |-> 1, len |-> 0, next |-> 1, found |-> NoDriver]

Init ==
    /\ arrays = << <<>> >>
    /\ array = 1
    /\ len = 0
    /\ scan = Idle
    /\ crashed = "no"
    /\ calls = 0
    /\ present = {} /\ steady = {} /\ seen = {} /\ left = {}

-----------------------------------------------------------------------------
\* Mutant: the new array has no room for the new driver.
RegisterNoRoom(d) ==
    /\ calls < MaxRegistrations
    /\ FreshIds => d \notin present
    /\ calls' = calls + 1
    /\ IF len < Len(arrays[array])
       THEN arrays' = [arrays EXCEPT ![array][len + 1] = d] /\ UNCHANGED array
       ELSE arrays' = Append(arrays, arrays[array]) /\ array' = Len(arrays) + 1
    /\ len' = len + 1
    /\ present' = present \cup {d}
    /\ seen' = seen \cup {d}
    /\ UNCHANGED <<scan, crashed, steady, left>>

\* append: in place while the array has room, else into one of twice the size.
Register(d) ==
    /\ calls < MaxRegistrations
    /\ FreshIds => d \notin present
    /\ calls' = calls + 1
    /\ LET slots == arrays[array]
           room == [i \in 1..(IF len = 0 THEN 1 ELSE 2 * len) |->
                        IF i <= len THEN slots[i] ELSE NoDriver]
       IN  IF len < Len(slots)
           THEN /\ arrays' = [arrays EXCEPT ![array][len + 1] = d]
                /\ UNCHANGED array
           ELSE /\ arrays' = Append(arrays, [room EXCEPT ![len + 1] = d])
                /\ array' = Len(arrays) + 1
    /\ len' = len + 1
    /\ present' = present \cup {d}
    /\ seen' = seen \cup {d}
    /\ UNCHANGED <<scan, crashed, steady, left>>

\* Mutant: the shift starts one slot behind the driver that leaves.
RoundsOffByOne(d) ==
    LET i == CHOOSE i \in 1..len : arrays[array][i] = d
    IN  [slots |-> [j \in DOMAIN arrays[array] |->
                        IF j \in (i + 1)..(len - 1) THEN arrays[array][j + 1]
                        ELSE arrays[array][j]],
         len |-> len - 1, ok |-> TRUE]

\* One round of "range s.drivers", over the header it copied first: a match
\* shifts the tail down and shortens s.drivers, and a match beyond the shortened
\* end slices out of range.
Round(d, i, s) ==
    IF ~s.ok \/ s.slots[i] # d THEN s
    ELSE IF i > s.len THEN [s EXCEPT !.ok = FALSE]
    ELSE [slots |-> [j \in DOMAIN s.slots |->
                        IF j \in i..(s.len - 1) THEN s.slots[j + 1] ELSE s.slots[j]],
          len |-> s.len - 1, ok |-> TRUE]

\* What all its rounds leave.
Rounds(d) ==
    LET after[i \in 0..len] ==
        IF i = 0 THEN [slots |-> arrays[array], len |-> len, ok |-> TRUE]
        ELSE Round(d, i, after[i - 1])
    IN  after[len]

\* A scan beside it sees the shift between two of its reads. A shift seen slot
\* by slot would repeat a driver and change nothing a scan returns first.
Unregister(d) ==
    LET s == Rounds(d)
    IN  /\ d \in present
        /\ arrays' = [arrays EXCEPT ![array] = s.slots]
        /\ len' = s.len
        /\ crashed' = IF s.ok THEN "no" ELSE "unregister"
        /\ present' = present \ {d}
        /\ steady' = steady \ {d}
        /\ left' = left \cup {d}
        /\ UNCHANGED <<array, scan, calls, seen>>

-----------------------------------------------------------------------------
\* FindAvailableDrivers loads the array and the length with two reads, in
\* either order, and a write of the header may come in between.
LoadFirst ==
    /\ scan.pc \in {"idle", "done"}
    /\ scan' \in {[Idle EXCEPT !.pc = "array", !.array = array],
                  [Idle EXCEPT !.pc = "len", !.len = len]}
    /\ steady' = present
    /\ seen' = present
    /\ left' = {}
    /\ UNCHANGED <<arrays, header, crashed, calls, present>>

\* Mutant: the scan reads the whole array, past the slice's length.
LoadCapacity ==
    /\ scan.pc \in {"array", "len"}
    /\ scan' = [scan EXCEPT !.pc = "range", !.array = array, !.len = Len(arrays[array])]
    /\ UNCHANGED <<arrays, header, crashed, calls, history>>

LoadSecond ==
    /\ \/ scan.pc = "array" /\ scan' = [scan EXCEPT !.pc = "range", !.len = len]
       \/ scan.pc = "len" /\ scan' = [scan EXCEPT !.pc = "range", !.array = array]
    /\ UNCHANGED <<arrays, header, crashed, calls, history>>

\* One slot: the first suitable driver is the one that will be asked. Reading
\* behind the end of the array is reading foreign memory as a pointer.
ReadSlot ==
    /\ scan.pc = "range"
    /\ scan.next <= scan.len
    /\ \/ /\ scan.next > Len(arrays[scan.array])
          /\ crashed' = "scan"
          /\ UNCHANGED scan
       \/ /\ scan.next <= Len(arrays[scan.array])
          /\ LET d == arrays[scan.array][scan.next]
             IN  scan' = [scan EXCEPT !.next = @ + 1,
                            !.found = IF @ = NoDriver /\ d \in Suitable THEN d ELSE @]
          /\ UNCHANGED crashed
    /\ UNCHANGED <<arrays, header, calls, history>>

\* Mutant: the last slot is not read.
ReturnEarly ==
    /\ scan.pc = "range"
    /\ scan.next >= scan.len
    /\ scan' = [scan EXCEPT !.pc = "done"]
    /\ UNCHANGED <<arrays, header, crashed, calls, history>>

Return ==
    /\ scan.pc = "range"
    /\ scan.next > scan.len
    /\ scan' = [scan EXCEPT !.pc = "done"]
    /\ UNCHANGED <<arrays, header, crashed, calls, history>>

Next ==
    /\ crashed = "no"
    /\ \/ \E d \in Drivers : Register(d) \/ Unregister(d)
       \/ LoadFirst \/ LoadSecond \/ ReadSlot \/ Return

Spec == Init /\ [][Next]_registryVars

-----------------------------------------------------------------------------
Slots == Drivers \cup {NoDriver}

\* Every variable holds a value its Go counterpart can hold.
TypeOK ==
    /\ arrays \in Seq(Seq(Slots))
    /\ array \in 1..Len(arrays)
    /\ len \in 0..Len(arrays[array])
    /\ scan \in [pc : {"idle", "array", "len", "range", "done"}, array : 1..Len(arrays),
                 len : Nat, next : Nat \ {0}, found : Slots]
    /\ crashed \in {"no", "scan", "unregister"}
    /\ calls \in 0..MaxRegistrations
    /\ steady \subseteq present /\ present \subseteq seen /\ seen \subseteq Drivers
    /\ left \subseteq Drivers

\* Ids registered once at a time: after any sequence of appends, reallocations
\* and in-place removals the slice holds each present driver exactly once.
RegistryIsPresent ==
    FreshIds =>
        /\ crashed # "unregister"
        /\ {arrays[array][i] : i \in 1..len} = present
        /\ \A i, j \in 1..len : arrays[array][i] = arrays[array][j] => i = j

\* For all its races, a scan that returns a driver returns one of the package
\* that was registered while it ran, never one a slot was left with before.
FoundWasPresent ==
    FreshIds /\ scan.found # NoDriver => scan.found \in Suitable \cap seen

\* A scan beside an append, reallocated or not, misses nobody; it can miss a
\* driver who was registered throughout only while another one is unregistered.
OverlookedOnlyBesideRemovals ==
    FreshIds /\ scan.pc = "done" /\ scan.found = NoDriver /\ left = {}
        => steady \cap Suitable = {}

-----------------------------------------------------------------------------
\* ARCHITECTURE.md: UnRegisterDriver is "called by the gateway on WebSocket
\* connect/disconnect" - the call takes the driver out and returns.
UnregisterReturns == crashed # "unregister"

=============================================================================
