--------------------------- MODULE RegistryProofs ---------------------------
(***************************************************************************)
(* For any number of drivers and registrations: the slice of the driver     *)
(* registry, under appends, reallocations and in-place removals, beside a   *)
(* scan that reads it without a lock. What a scan may still read was        *)
(* registered while it ran, and as long as nobody leaves, whoever stays is  *)
(* ahead of it.                                                             *)
(***************************************************************************)
EXTENDS Registry, SequenceTheorems, WellFoundedInduction, TLAPS

USE RegistryAssumption

\* What the slots that a scan may still read hold.
SlotsAreSeen ==
    /\ scan.pc = "array" =>
        \/ scan.array = array
        \/ \A i \in 1..Len(arrays[scan.array]) : arrays[scan.array][i] \in seen \cup {NoDriver}
    /\ scan.pc = "len" =>
        \A i \in 1..Len(arrays[array]) :
            i <= scan.len => arrays[array][i] \in seen \cup {NoDriver}
    /\ scan.pc = "range" =>
        \A i \in 1..Len(arrays[scan.array]) :
            i <= scan.len => arrays[scan.array][i] \in seen \cup {NoDriver}

\* A scan that has not begun to read has found nobody.
FoundIsSeen ==
    /\ scan.pc \in {"array", "len"} => scan.found = NoDriver /\ scan.next = 1
    /\ scan.found # NoDriver => scan.found \in Suitable \cap seen

\* Where a driver who stays is, as long as nobody leaves.
SteadyAreAhead ==
    left = {} =>
        /\ scan.pc \in {"len", "range"} => scan.len <= len
        /\ scan.pc = "array" =>
            \A d \in steady : \E i \in 1..Len(arrays[scan.array]) :
                i <= len /\ arrays[scan.array][i] = d
        /\ scan.pc = "len" =>
            \A d \in steady : \E i \in 1..Len(arrays[array]) :
                i <= scan.len /\ arrays[array][i] = d
        /\ scan.pc = "range" /\ scan.found = NoDriver =>
            \A d \in steady \cap Suitable : \E i \in 1..Len(arrays[scan.array]) :
                scan.next <= i /\ i <= scan.len /\ arrays[scan.array][i] = d

Entries ==
    /\ RegistryIsPresent
    /\ SlotsAreSeen
    /\ FoundIsSeen
    /\ SteadyAreAhead
    /\ OverlookedOnlyBesideRemovals

IInv == TypeOK /\ (FreshIds => Entries)

-----------------------------------------------------------------------------
(***************************************************************************)
(* The rounds of UnregisterDriver, a recursive function of their number.    *)
(***************************************************************************)
LEMMA Least ==
    ASSUME NEW T, T \subseteq Nat, T # {}
    PROVE  \E x \in T : \A y \in T : x <= y
<1> DEFINE R == {ss \in Nat \X Nat : ss[1] < ss[2]}
<1>1. IsWellFoundedOn(R, Nat)
    BY NatLessThanWellFounded DEF OpToRel
<1>2. \E x \in T : \A y \in T : ~ (<<y, x>> \in R)
    <2> HIDE DEF R
    <2> QED
        BY <1>1, WFMin
<1>3. PICK x \in T : \A y \in T : ~ (<<y, x>> \in R)
    BY <1>2
<1>4. ASSUME NEW y \in T PROVE x <= y
    <2>1. x \in Nat /\ y \in Nat /\ <<y, x>> \in Nat \X Nat
        OBVIOUS
    <2>2. ~(y < x)
        BY <1>3, <2>1
    <2> QED
        BY <2>1, <2>2
<1> QED
    BY <1>4

Start == [slots |-> arrays[array], len |-> len, ok |-> TRUE]

\* f holds what each of the first n rounds leaves.
AfterRounds(f, n, d) ==
    f = [i \in 0..n |-> IF i = 0 THEN Start ELSE Round(d, i, f[i - 1])]

LEMMA RoundsExist == \A n \in Nat : \A d : \E f : AfterRounds(f, n, d)
<1> SUFFICES ASSUME NEW d PROVE \A n \in Nat : \E f : AfterRounds(f, n, d)
    OBVIOUS
<1> DEFINE T == {n \in Nat : ~ \E f : AfterRounds(f, n, d)}
<1>1. SUFFICES ASSUME T # {} PROVE FALSE
    OBVIOUS
<1>2. PICK n \in T : \A k \in T : n <= k
    <2>1. T \subseteq Nat
        OBVIOUS
    <2> HIDE DEF T
    <2> QED
        BY <1>1, <2>1, Least
<1>3. CASE n = 0
    <2> DEFINE f == [i \in 0..n |-> Start]
    <2>1. \A i \in 0..n : i = 0
        BY <1>3
    <2>2. AfterRounds(f, n, d)
        BY <2>1 DEF AfterRounds
    <2> QED
        BY <2>2
<1>4. CASE n # 0
    <2>1. n \in Nat /\ n - 1 \in Nat /\ ~(n <= n - 1)
        BY <1>4
    <2>2. n - 1 \notin T
        BY <1>2, <2>1
    <2>3. PICK f : AfterRounds(f, n - 1, d)
        BY <2>1, <2>2
    <2> DEFINE g == [i \in 0..n |-> IF i < n THEN f[i] ELSE Round(d, i, f[i - 1])]
    <2>4. \A i \in 0..(n - 1) : f[i] = IF i = 0 THEN Start ELSE Round(d, i, f[i - 1])
        BY <2>3, Zenon DEF AfterRounds
    <2>5. ASSUME NEW i \in 0..n
          PROVE  g[i] = IF i = 0 THEN Start ELSE Round(d, i, g[i - 1])
        <3>1. CASE i = n
            <4>1. n - 1 \in 0..n /\ n - 1 < n
                BY <2>1
            <4> QED
                BY <3>1, <4>1, <1>4
        <3>2. CASE i # n /\ i # 0
            <4>1. i \in 0..(n - 1) /\ i - 1 \in 0..n /\ i - 1 < n /\ i < n
                BY <2>1, <3>2
            <4> QED
                BY <2>4, <3>2, <4>1
        <3>3. CASE i = 0 /\ i # n
            <4>1. i \in 0..(n - 1) /\ i < n
                BY <2>1, <3>3
            <4> QED
                BY <2>4, <3>3, <4>1
        <3> QED
            BY <3>1, <3>2, <3>3
    <2>6. g = [i \in 0..n |-> IF i = 0 THEN Start ELSE Round(d, i, g[i - 1])]
        BY <2>5
    <2>7. AfterRounds(g, n, d)
        BY <2>6, Zenon DEF AfterRounds
    <2> QED
        BY <2>7
<1> QED
    BY <1>3, <1>4

Lists(f, d) ==
    /\ Rounds(d) = f[len] /\ f[0] = Start
    /\ \A i \in 1..len : f[i] = Round(d, i, f[i - 1])

LEMMA RoundsAre ==
    ASSUME NEW d, len \in Nat
    PROVE  \E f : Lists(f, d)
<1> DEFINE f == CHOOSE f : AfterRounds(f, len, d)
<1>1. AfterRounds(f, len, d)
    BY RoundsExist
<1>2. Rounds(d) = f[len]
    BY Zenon DEF Rounds, AfterRounds, Start
<1>3. \A i \in 0..len : f[i] = IF i = 0 THEN Start ELSE Round(d, i, f[i - 1])
    <2> HIDE DEF f
    <2> QED
        BY <1>1, Zenon DEF AfterRounds
<1>4. 0 \in 0..len /\ \A i \in 1..len : i \in 0..len /\ i # 0
    OBVIOUS
<1> HIDE DEF f
<1> QED
    BY <1>2, <1>3, <1>4 DEF Lists

\* Whatever ids are registered, the rounds stay within the array and the length.
Sound(s) ==
    /\ s.slots \in [1..Len(arrays[array]) -> Slots]
    /\ s.len \in 0..len
    /\ s.ok \in BOOLEAN

LEMMA RoundIsSound ==
    ASSUME TypeOK, NEW d, NEW i \in 1..len, NEW s, Sound(s)
    PROVE  Sound(Round(d, i, s))
<1>1. len \in Nat /\ Len(arrays[array]) \in Nat
    BY DEF TypeOK
<1>2. CASE ~s.ok \/ s.slots[i] # d
    BY <1>2 DEF Round
<1>3. CASE s.ok /\ s.slots[i] = d /\ i > s.len
    BY <1>3 DEF Round, Sound
<1>4. CASE s.ok /\ s.slots[i] = d /\ i <= s.len
    <2> DEFINE shifted == [j \in DOMAIN s.slots |->
                            IF j \in i..(s.len - 1) THEN s.slots[j + 1] ELSE s.slots[j]]
    <2>1. /\ s.len \in 0..len /\ s.len - 1 \in 0..len
          /\ DOMAIN s.slots = 1..Len(arrays[array])
        BY <1>1, <1>4 DEF Sound
    <2>2. len <= Len(arrays[array])
        BY <1>1 DEF TypeOK
    <2>3. shifted \in [1..Len(arrays[array]) -> Slots]
        <3>1. ASSUME NEW j \in 1..Len(arrays[array]), j \in i..(s.len - 1)
              PROVE  j + 1 \in 1..Len(arrays[array])
            BY <1>1, <2>1, <2>2, <3>1
        <3> QED
            BY <2>1, <3>1 DEF Sound
    <2>4. Round(d, i, s) = [slots |-> shifted, len |-> s.len - 1, ok |-> TRUE]
        BY <1>4, <2>1 DEF Round
    <2> QED
        BY <2>1, <2>3, <2>4 DEF Sound
<1>5. i \in Nat /\ s.len \in Nat
    BY <1>1 DEF Sound
<1> QED
    BY <1>2, <1>3, <1>4, <1>5 DEF Sound

LEMMA RoundsAreSound ==
    ASSUME TypeOK, NEW d
    PROVE  Sound(Rounds(d))
<1>1. len \in Nat /\ arrays[array] \in Seq(Slots)
    BY DEF TypeOK
<1>2. PICK f : Lists(f, d)
    BY <1>1, RoundsAre
<1>3. Sound(Start)
    BY <1>1 DEF Start, Sound
<1> DEFINE T == {i \in 0..len : ~Sound(f[i])}
<1>4. T = {}
    <2>1. SUFFICES ASSUME T # {} PROVE FALSE
        OBVIOUS
    <2>2. PICK i \in T : \A k \in T : i <= k
        <3>1. T \subseteq Nat
            BY <1>1
        <3> HIDE DEF T
        <3> QED
            BY <2>1, <3>1, Least
    <2>3. i # 0 /\ i \in 1..len
        BY <1>1, <1>2, <1>3, <2>2 DEF Lists
    <2>4. i - 1 \in 0..len /\ ~(i <= i - 1)
        BY <1>1, <2>3
    <2>5. Sound(f[i - 1])
        BY <2>2, <2>4
    <2>6. Sound(f[i])
        BY <1>2, <2>3, <2>5, RoundIsSound DEF Lists
    <2> QED
        BY <2>2, <2>6
<1>5. len \in 0..len
    BY <1>1
<1> QED
    BY <1>2, <1>4, <1>5 DEF Lists

\* A driver registered once is taken out, and the ones behind move up.
Without(k) ==
    [slots |-> [j \in 1..Len(arrays[array]) |->
                    IF j \in k..(len - 1) THEN arrays[array][j + 1] ELSE arrays[array][j]],
     len |-> len - 1, ok |-> TRUE]

LEMMA RoundsRemove ==
    ASSUME TypeOK, NEW d, NEW k \in 1..len, arrays[array][k] = d,
           \A i \in 1..len : arrays[array][i] = d => i = k
    PROVE  Rounds(d) = Without(k)
<1>1. /\ len \in Nat /\ arrays[array] \in Seq(Slots) /\ len <= Len(arrays[array])
      /\ Len(arrays[array]) \in Nat
      /\ DOMAIN arrays[array] = 1..Len(arrays[array])
    BY DEF TypeOK
<1>2. PICK f : Lists(f, d)
    BY <1>1, RoundsAre
<1> DEFINE T == {i \in 0..len : f[i] # IF i < k THEN Start ELSE Without(k)}
<1>3. T = {}
    <2>1. SUFFICES ASSUME T # {} PROVE FALSE
        OBVIOUS
    <2>2. PICK i \in T : \A j \in T : i <= j
        <3>1. T \subseteq Nat
            BY <1>1
        <3> HIDE DEF T
        <3> QED
            BY <2>1, <3>1, Least
    <2>3. i # 0 /\ i \in 1..len
        BY <1>1, <1>2, <2>2 DEF Lists
    <2>4. i - 1 \in 0..len /\ ~(i <= i - 1)
        BY <1>1, <2>3
    <2>5. f[i - 1] = IF i - 1 < k THEN Start ELSE Without(k)
        BY <2>2, <2>4
    <2>6. f[i] = Round(d, i, f[i - 1])
        BY <1>2, <2>3 DEF Lists
    <2>7. CASE i < k
        <3>1. f[i - 1] = Start /\ arrays[array][i] # d
            BY <1>1, <2>3, <2>5, <2>7
        <3>2. f[i] = Start
            BY <2>6, <3>1 DEF Round, Start
        <3> QED
            BY <2>2, <2>7, <3>2
    <2>8. CASE i = k
        <3>1. f[i - 1] = Start
            BY <1>1, <2>3, <2>5, <2>8
        <3>2. Round(d, k, Start) = Without(k)
            <4>1. /\ Start.slots = arrays[array] /\ Start.len = len /\ Start.ok = TRUE
                  /\ Start.slots[k] = d /\ ~(k > Start.len)
                BY <1>1 DEF Start
            <4>2. Round(d, k, Start) =
                    [slots |-> [j \in DOMAIN Start.slots |->
                                IF j \in k..(Start.len - 1) THEN Start.slots[j + 1] ELSE Start.slots[j]],
                     len |-> Start.len - 1, ok |-> TRUE]
                BY <4>1 DEF Round
            <4> QED
                BY <1>1, <4>1, <4>2 DEF Without
        <3> QED
            BY <2>2, <2>6, <2>8, <3>1, <3>2
    <2>9. CASE i > k
        <3>1. f[i - 1] = Without(k)
            BY <1>1, <2>3, <2>5, <2>9
        <3>2. Without(k).ok /\ Without(k).slots[i] # d
            <4>1. i \in 1..Len(arrays[array])
                BY <1>1, <2>3
            <4>2. CASE i <= len - 1
                <5>1. i \in k..(len - 1) /\ i + 1 \in 1..len /\ i + 1 # k
                    BY <1>1, <2>3, <2>9, <4>2
                <5> QED
                    BY <4>1, <5>1 DEF Without
            <4>3. CASE ~(i <= len - 1)
                <5>1. i \notin k..(len - 1) /\ i # k
                    BY <1>1, <2>3, <2>9, <4>3
                <5> QED
                    BY <2>3, <4>1, <5>1 DEF Without
            <4> QED
                BY <4>2, <4>3
        <3>3. f[i] = Without(k)
            BY <2>6, <3>1, <3>2 DEF Round
        <3>4. ~(i < k)
            BY <1>1, <2>3, <2>9
        <3> QED
            BY <2>2, <3>3, <3>4
    <2>10. i < k \/ i = k \/ i > k
        BY <1>1, <2>3
    <2> QED
        BY <2>7, <2>8, <2>9, <2>10
<1>4. len \in 0..len /\ ~(len < k)
    BY <1>1
<1> QED
    BY <1>2, <1>3, <1>4 DEF Lists

-----------------------------------------------------------------------------
(***************************************************************************)
(* What a write does to the arrays: the ones append has given up stay as    *)
(* they are, and of the current one, or the one that replaces it, each slot *)
(* is as it was, the new driver's, or empty.                                *)
(***************************************************************************)
InPlace(d) ==
    /\ array' = array /\ len < Len(arrays[array]) /\ Len(arrays') = Len(arrays)
    /\ Len(arrays'[array]) = Len(arrays[array])
    /\ \A i \in 1..Len(arrays[array]) :
        arrays'[array][i] = IF i = len + 1 THEN d ELSE arrays[array][i]

Reallocated(d) ==
    /\ array' = Len(arrays) + 1 /\ len = Len(arrays[array]) /\ Len(arrays') = Len(arrays) + 1
    /\ arrays'[array] = arrays[array]
    /\ Len(arrays'[array']) \in Nat /\ len + 1 <= Len(arrays'[array'])
    /\ \A i \in 1..Len(arrays'[array']) :
        arrays'[array'][i] = IF i <= len THEN arrays[array][i]
                             ELSE IF i = len + 1 THEN d ELSE NoDriver

LEMMA Registered ==
    ASSUME TypeOK, NEW d \in Drivers, Register(d)
    PROVE  /\ arrays' \in Seq(Seq(Slots)) /\ len' = len + 1
           /\ InPlace(d) \/ Reallocated(d)
           /\ \A a \in 1..Len(arrays) : a # array => arrays'[a] = arrays[a]
<1> DEFINE slots == arrays[array]
           size == IF len = 0 THEN 1 ELSE 2 * len
           room == [i \in 1..size |-> IF i <= len THEN slots[i] ELSE NoDriver]
           new == [room EXCEPT ![len + 1] = d]
<1>1. /\ len \in Nat /\ slots \in Seq(Slots) /\ Len(slots) \in Nat /\ len <= Len(slots)
      /\ arrays \in Seq(Seq(Slots)) /\ array \in 1..Len(arrays) /\ Len(arrays) \in Nat
      /\ d \in Slots /\ NoDriver \in Slots
    BY DEF TypeOK, Slots
<1>2. len' = len + 1
    BY DEF Register
<1>3. CASE len < Len(slots)
    <2>1. arrays' = [arrays EXCEPT ![array] = [slots EXCEPT ![len + 1] = d]] /\ array' = array
        BY <1>3 DEF Register
    <2>2. [slots EXCEPT ![len + 1] = d] \in Seq(Slots)
          /\ Len([slots EXCEPT ![len + 1] = d]) = Len(slots)
          /\ \A i \in 1..Len(slots) :
                [slots EXCEPT ![len + 1] = d][i] = IF i = len + 1 THEN d ELSE slots[i]
        <3>1. len + 1 \in 1..Len(slots)
            BY <1>1, <1>3
        <3> HIDE DEF slots
        <3> QED
            BY <1>1, <3>1, ExceptSeq
    <2> HIDE DEF slots
    <2> DEFINE written == [slots EXCEPT ![len + 1] = d]
    <2> HIDE DEF written
    <2>3. /\ arrays' \in Seq(Seq(Slots)) /\ Len(arrays') = Len(arrays)
          /\ arrays'[array] = written
          /\ \A a \in 1..Len(arrays) : a # array => arrays'[a] = arrays[a]
        BY <1>1, <2>1, <2>2 DEF written
    <2>4. InPlace(d)
        BY <1>1, <1>3, <2>1, <2>2, <2>3 DEF written, slots, InPlace
    <2> QED
        BY <1>2, <2>3, <2>4
<1>4. CASE ~(len < Len(slots))
    <2>1. arrays' = Append(arrays, new) /\ array' = Len(arrays) + 1
        BY <1>4 DEF Register
    <2>2. size \in Nat /\ len + 1 \in 1..size /\ len + 1 <= size
        BY <1>1
    <2>3. \A i \in 1..size : i <= len => slots[i] \in Slots
        BY <1>1, <1>4, <2>2
    <2>4. new \in [1..size -> Slots]
        <3> HIDE DEF size
        <3> QED
            BY <1>1, <2>2, <2>3
    <2>5. \A i \in 1..size : new[i] = IF i <= len THEN slots[i] ELSE IF i = len + 1 THEN d ELSE NoDriver
        <3> HIDE DEF size
        <3> QED
            BY <1>1, <2>2
    <2>6. new \in Seq(Slots) /\ Len(new) = size
        <3> HIDE DEF new, size
        <3> QED
            BY <2>2, <2>4
    <2> HIDE DEF new, size
    <2>7. /\ arrays' \in Seq(Seq(Slots)) /\ Len(arrays') = Len(arrays) + 1
          /\ arrays'[Len(arrays) + 1] = new
          /\ \A a \in 1..Len(arrays) : arrays'[a] = arrays[a]
        BY <1>1, <2>1, <2>6
    <2>8. Reallocated(d)
        BY <1>1, <1>4, <2>1, <2>2, <2>5, <2>6, <2>7 DEF Reallocated
    <2> QED
        BY <1>2, <2>7, <2>8
<1> QED
    BY <1>3, <1>4

LEMMA Unregistered ==
    ASSUME TypeOK, NEW d \in Drivers, Unregister(d)
    PROVE  /\ arrays' \in Seq(Seq(Slots)) /\ Len(arrays') = Len(arrays)
           /\ array' = array /\ len' \in 0..len
           /\ arrays'[array] = Rounds(d).slots /\ len' = Rounds(d).len
           /\ Len(arrays'[array]) = Len(arrays[array])
           /\ \A a \in 1..Len(arrays) : a # array => arrays'[a] = arrays[a]
<1> DEFINE s == Rounds(d)
<1>1. /\ arrays \in Seq(Seq(Slots)) /\ array \in 1..Len(arrays)
      /\ arrays' = [arrays EXCEPT ![array] = s.slots] /\ array' = array /\ len' = s.len
    BY DEF TypeOK, Unregister
<1>2. s.slots \in [1..Len(arrays[array]) -> Slots] /\ s.len \in 0..len
    BY RoundsAreSound DEF Sound
<1>3. s.slots \in Seq(Slots) /\ Len(s.slots) = Len(arrays[array])
    <2>1. Len(arrays[array]) \in Nat
        BY <1>1
    <2> HIDE DEF s
    <2> QED
        BY <1>2, <2>1
<1> HIDE DEF s
<1>4. /\ arrays' \in Seq(Seq(Slots)) /\ Len(arrays') = Len(arrays)
      /\ arrays'[array] = s.slots
      /\ \A a \in 1..Len(arrays) : a # array => arrays'[a] = arrays[a]
    BY <1>1, <1>3
<1> QED
    BY <1>1, <1>2, <1>3, <1>4 DEF s

LEMMA TypesStart == Init => TypeOK
<1> SUFFICES ASSUME Init PROVE TypeOK
    OBVIOUS
<1>1. <<>> \in Seq(Slots) /\ Len(<<>>) = 0
    BY EmptySeq
<1>2. << <<>> >> \in Seq(Seq(Slots)) /\ Len(<< <<>> >>) = 1 /\ << <<>> >>[1] = <<>>
    BY <1>1
<1>3. Idle \in [pc : {"idle", "array", "len", "range", "done"}, array : 1..1,
                len : Nat, next : Nat \ {0}, found : Slots]
    BY DEF Idle, Slots
<1> QED
    BY <1>1, <1>2, <1>3 DEF Init, TypeOK

Scans(n) == [pc : {"idle", "array", "len", "range", "done"}, array : 1..n,
             len : Nat, next : Nat \ {0}, found : Slots]

LEMMA TypesNext == TypeOK /\ [Next]_registryVars => TypeOK'
<1> SUFFICES ASSUME TypeOK, [Next]_registryVars PROVE TypeOK'
    OBVIOUS
<1>1. CASE UNCHANGED registryVars
    BY <1>1 DEF registryVars, header, history, TypeOK
<1>2. ASSUME NEW d \in Drivers, Register(d)
      PROVE  TypeOK'
    <2>1. /\ calls' = calls + 1 /\ calls < MaxRegistrations
          /\ present' = present \cup {d} /\ seen' = seen \cup {d}
          /\ UNCHANGED <<scan, crashed, steady, left>>
        BY <1>2 DEF Register
    <2>2. arrays' \in Seq(Seq(Slots)) /\ len' = len + 1 /\ (InPlace(d) \/ Reallocated(d))
        BY <1>2, Registered
    <2>3. /\ array' \in 1..Len(arrays') /\ len' \in 0..Len(arrays'[array'])
          /\ Len(arrays) <= Len(arrays') /\ Len(arrays) \in Nat /\ Len(arrays') \in Nat
        <3>1. len \in Nat /\ Len(arrays) \in Nat /\ array \in 1..Len(arrays) /\ Len(arrays[array]) \in Nat
            BY DEF TypeOK
        <3>2. CASE InPlace(d)
            BY <2>2, <3>1, <3>2 DEF InPlace
        <3>3. CASE Reallocated(d)
            BY <2>2, <3>1, <3>3 DEF Reallocated
        <3> QED
            BY <2>2, <3>2, <3>3
    <2>4. scan' \in Scans(Len(arrays'))
        BY <2>1, <2>3 DEF TypeOK, Scans
    <2> QED
        BY <2>1, <2>2, <2>3, <2>4 DEF TypeOK, Scans
<1>3. ASSUME NEW d \in Drivers, Unregister(d)
      PROVE  TypeOK'
    <2>1. /\ crashed' \in {"no", "unregister"}
          /\ present' = present \ {d} /\ steady' = steady \ {d} /\ left' = left \cup {d}
          /\ UNCHANGED <<array, scan, calls, seen>>
        BY <1>3 DEF Unregister
    <2>2. /\ arrays' \in Seq(Seq(Slots)) /\ Len(arrays') = Len(arrays) /\ len' \in 0..len
          /\ Len(arrays'[array]) = Len(arrays[array])
        BY <1>3, Unregistered
    <2>3. len \in 0..Len(arrays[array]) /\ Len(arrays[array]) \in Nat
        BY DEF TypeOK
    <2>4. len' \in 0..Len(arrays'[array'])
        BY <2>1, <2>2, <2>3
    <2> QED
        BY <2>1, <2>2, <2>4 DEF TypeOK
<1>4. CASE LoadFirst
    <2>1. /\ UNCHANGED <<arrays, array, len, crashed, calls, present>>
          /\ steady' = present /\ seen' = present /\ left' = {}
        BY <1>4 DEF LoadFirst, header
    <2>3. /\ array \in 1..Len(arrays) /\ len \in Nat /\ NoDriver \in Slots
          /\ 1 \in 1..Len(arrays) /\ 0 \in Nat /\ 1 \in Nat \ {0}
        BY DEF TypeOK, Slots
    <2>2. scan' \in Scans(Len(arrays))
        <3>1. CASE scan' = [Idle EXCEPT !.pc = "array", !.array = array]
            <4>1. scan' = [pc |-> "array", array |-> array, len |-> 0, next |-> 1, found |-> NoDriver]
                BY <3>1 DEF Idle
            <4> QED
                BY <2>3, <4>1 DEF Scans
        <3>2. CASE scan' = [Idle EXCEPT !.pc = "len", !.len = len]
            <4>1. scan' = [pc |-> "len", array |-> 1, len |-> len, next |-> 1, found |-> NoDriver]
                BY <3>2 DEF Idle
            <4> QED
                BY <2>3, <4>1 DEF Scans
        <3> QED
            BY <1>4, <3>1, <3>2 DEF LoadFirst
    <2> QED
        BY <2>1, <2>2 DEF TypeOK, Scans
<1>5. CASE LoadSecond
    <2>1. UNCHANGED <<arrays, array, len, crashed, calls, present, steady, seen, left>>
        BY <1>5 DEF LoadSecond, header, history
    <2>2. scan \in Scans(Len(arrays)) /\ array \in 1..Len(arrays) /\ len \in Nat
        BY DEF TypeOK, Scans
    <2>3. scan' \in Scans(Len(arrays))
        <3>1. CASE scan' = [scan EXCEPT !.pc = "range", !.len = len]
            BY <2>2, <3>1 DEF Scans
        <3>2. CASE scan' = [scan EXCEPT !.pc = "range", !.array = array]
            BY <2>2, <3>2 DEF Scans
        <3> QED
            BY <1>5, <3>1, <3>2 DEF LoadSecond
    <2> QED
        BY <2>1, <2>3 DEF TypeOK, Scans
<1>6. CASE ReadSlot
    <2>1. UNCHANGED <<arrays, array, len, calls, present, steady, seen, left>>
        BY <1>6 DEF ReadSlot, header, history
    <2>2. scan \in Scans(Len(arrays)) /\ arrays \in Seq(Seq(Slots)) /\ scan.array \in 1..Len(arrays)
          /\ scan.next \in Nat \ {0}
        BY DEF TypeOK, Scans
    <2>3. scan' \in Scans(Len(arrays)) /\ crashed' \in {"scan", crashed}
        <3>1. CASE crashed' = "scan" /\ scan' = scan
            BY <2>2, <3>1
        <3>2. CASE crashed' # "scan" \/ scan' # scan
            <4> DEFINE d == arrays[scan.array][scan.next]
                       found == IF scan.found = NoDriver /\ d \in Suitable THEN d ELSE scan.found
            <4>1. crashed' = crashed /\ scan' = [scan EXCEPT !.next = @ + 1, !.found = found]
                BY <1>6, <3>2 DEF ReadSlot
            <4>2. found \in Slots
                BY <2>2 DEF Scans, Slots
            <4>3. scan.next + 1 \in Nat \ {0}
                BY <2>2
            <4> HIDE DEF found
            <4> QED
                BY <2>2, <4>1, <4>2, <4>3 DEF Scans
        <3> QED
            BY <3>1, <3>2
    <2> QED
        BY <2>1, <2>3 DEF TypeOK, Scans
<1>7. CASE Return
    <2>1. UNCHANGED <<arrays, array, len, crashed, calls, present, steady, seen, left>>
        BY <1>7 DEF Return, header, history
    <2>2. scan' \in Scans(Len(arrays))
        BY <1>7 DEF Return, TypeOK, Scans
    <2> QED
        BY <2>1, <2>2 DEF TypeOK, Scans
<1> QED
    BY <1>1, <1>2, <1>3, <1>4, <1>5, <1>6, <1>7 DEF Next

-----------------------------------------------------------------------------
(***************************************************************************)
(* A registration, in place or not: the slots that were there stay, and the *)
(* new driver comes behind them.                                            *)
(***************************************************************************)
LEMMA RegisterWrites ==
    ASSUME TypeOK, NEW d \in Drivers, Register(d)
    PROVE  /\ \A a \in 1..Len(arrays) :
                /\ Len(arrays'[a]) = Len(arrays[a])
                /\ \A i \in 1..Len(arrays[a]) :
                    \/ arrays'[a][i] = arrays[a][i]
                    \/ a = array /\ i = len + 1 /\ arrays'[a][i] = d
           /\ len + 1 \in 1..Len(arrays'[array']) /\ arrays'[array'][len + 1] = d
           /\ \A i \in 1..len : /\ i \in 1..Len(arrays'[array'])
                                /\ arrays'[array'][i] = arrays[array][i]
           /\ \A i \in 1..Len(arrays'[array']) :
                \/ arrays'[array'][i] \in {d, NoDriver}
                \/ i \in 1..Len(arrays[array]) /\ arrays'[array'][i] = arrays[array][i]
           /\ array' = array \/ \A i \in 1..Len(arrays[array]) : i <= len
<1>1. /\ len \in Nat /\ array \in 1..Len(arrays) /\ Len(arrays) \in Nat
      /\ Len(arrays[array]) \in Nat /\ len <= Len(arrays[array])
    BY DEF TypeOK
<1>2. /\ InPlace(d) \/ Reallocated(d)
      /\ \A a \in 1..Len(arrays) : a # array => arrays'[a] = arrays[a]
    BY Registered
<1>3. CASE InPlace(d)
    <2>1. /\ array' = array /\ len < Len(arrays[array])
          /\ Len(arrays'[array]) = Len(arrays[array])
          /\ \A i \in 1..Len(arrays[array]) :
                arrays'[array][i] = IF i = len + 1 THEN d ELSE arrays[array][i]
        BY <1>3 DEF InPlace
    <2>2. ASSUME NEW a \in 1..Len(arrays)
          PROVE  /\ Len(arrays'[a]) = Len(arrays[a])
                 /\ \A i \in 1..Len(arrays[a]) :
                    \/ arrays'[a][i] = arrays[a][i]
                    \/ a = array /\ i = len + 1 /\ arrays'[a][i] = d
        BY <1>2, <2>1
    <2>3. len + 1 \in 1..Len(arrays[array])
        BY <1>1, <2>1
    <2>4. \A i \in 1..len : i \in 1..Len(arrays[array]) /\ i # len + 1
        BY <1>1, <2>1
    <2> QED
        BY <2>1, <2>2, <2>3, <2>4
<1>4. CASE Reallocated(d)
    <2>1. /\ array' = Len(arrays) + 1 /\ len = Len(arrays[array])
          /\ arrays'[array] = arrays[array]
          /\ Len(arrays'[array']) \in Nat /\ len + 1 <= Len(arrays'[array'])
          /\ \A i \in 1..Len(arrays'[array']) :
                arrays'[array'][i] = IF i <= len THEN arrays[array][i]
                                     ELSE IF i = len + 1 THEN d ELSE NoDriver
        BY <1>4 DEF Reallocated
    <2>2. \A a \in 1..Len(arrays) : arrays'[a] = arrays[a]
        BY <1>2, <2>1
    <2>3. len + 1 \in 1..Len(arrays'[array']) /\ ~(len + 1 <= len)
        BY <1>1, <2>1
    <2>4. \A i \in 1..len : i \in 1..Len(arrays'[array']) /\ i <= len
        BY <1>1, <2>1
    <2>5. \A i \in 1..Len(arrays'[array']) : i <= len => i \in 1..Len(arrays[array])
        BY <1>1, <2>1
    <2>6. \A i \in 1..Len(arrays[array]) : i <= len
        BY <1>1, <2>1
    <2>7. arrays'[array'][len + 1] = d /\ \A i \in 1..len : arrays'[array'][i] = arrays[array][i]
        BY <2>1, <2>3, <2>4
    <2>8. \A i \in 1..Len(arrays'[array']) :
            \/ arrays'[array'][i] \in {d, NoDriver}
            \/ i \in 1..Len(arrays[array]) /\ arrays'[array'][i] = arrays[array][i]
        BY <2>1, <2>5
    <2> QED
        BY <2>2, <2>3, <2>4, <2>6, <2>7, <2>8
<1> QED
    BY <1>2, <1>3, <1>4

\* The slice holds who is present, each once.
LEMMA PresentSlots ==
    ASSUME FreshIds
    PROVE  RegistryIsPresent <=>
            /\ crashed # "unregister"
            /\ \A i \in 1..len : arrays[array][i] \in present
            /\ \A d \in present : \E i \in 1..len : arrays[array][i] = d
            /\ \A i, j \in 1..len : arrays[array][i] = arrays[array][j] => i = j
    BY DEF RegistryIsPresent

PresentOnce ==
    /\ crashed # "unregister"
    /\ \A i \in 1..len : arrays[array][i] \in present
    /\ \A d \in present : \E i \in 1..len : arrays[array][i] = d
    /\ \A i, j \in 1..len : arrays[array][i] = arrays[array][j] => i = j

PresentIsOnce == FreshIds => (RegistryIsPresent <=> PresentOnce)

LEMMA PresentNow == PresentIsOnce
    BY PresentSlots DEF PresentIsOnce, PresentOnce

LEMMA PresentNext == PresentIsOnce'
    BY PresentNow, PTL

LEMMA RegisterKeeps ==
    ASSUME TypeOK, FreshIds, Entries, NEW d \in Drivers, Register(d)
    PROVE  Entries'
<1>1. /\ d \notin present /\ len' = len + 1
      /\ present' = present \cup {d} /\ seen' = seen \cup {d}
      /\ UNCHANGED <<scan, crashed, steady, left>>
    BY DEF Register
<1>2. /\ len \in Nat /\ array \in 1..Len(arrays) /\ scan.array \in 1..Len(arrays)
      /\ steady \subseteq present /\ present \subseteq seen /\ NoDriver \notin Drivers
      /\ seen \subseteq Drivers
      /\ scan.len \in Nat /\ scan.next \in Nat
    BY DEF TypeOK
<1>3. PresentOnce
    BY PresentNow DEF Entries, PresentIsOnce
<1> DEFINE Kept == \A a \in 1..Len(arrays) :
                        /\ Len(arrays'[a]) = Len(arrays[a])
                        /\ \A i \in 1..Len(arrays[a]) :
                            \/ arrays'[a][i] = arrays[a][i]
                            \/ a = array /\ i = len + 1 /\ arrays'[a][i] = d
           Last == len + 1 \in 1..Len(arrays'[array']) /\ arrays'[array'][len + 1] = d
           Front == \A i \in 1..len : /\ i \in 1..Len(arrays'[array'])
                                      /\ arrays'[array'][i] = arrays[array][i]
           Known == \A i \in 1..Len(arrays'[array']) :
                        \/ arrays'[array'][i] \in {d, NoDriver}
                        \/ i \in 1..Len(arrays[array]) /\ arrays'[array'][i] = arrays[array][i]
           Full == array' = array \/ \A i \in 1..Len(arrays[array]) : i <= len
<1>4. Kept /\ Last /\ Front /\ Known /\ Full
    BY RegisterWrites
<1>5. RegistryIsPresent'
    <2>1. \A i \in 1..len' : i \in 1..len \/ i = len + 1
        BY <1>1, <1>2
    <2>2. 1..len \subseteq 1..len' /\ len + 1 \in 1..len'
        BY <1>1, <1>2
    <2>3. \A i \in 1..len' :
            arrays'[array'][i] = IF i \in 1..len THEN arrays[array][i] ELSE d
        BY <1>4, <2>1
    <2>4. \A i \in 1..len : arrays[array][i] \in present /\ arrays[array][i] # d
        BY <1>1, <1>3 DEF PresentOnce
    <2>5. \A i \in 1..len' : arrays'[array'][i] \in present'
        BY <1>1, <2>3, <2>4
    <2>6. ASSUME NEW e \in present'
          PROVE  \E i \in 1..len' : arrays'[array'][i] = e
        <3>1. CASE e = d
            BY <1>4, <2>2, <3>1
        <3>2. CASE e \in present
            BY <1>3, <2>2, <2>3, <3>2 DEF PresentOnce
        <3> QED
            BY <1>1, <3>1, <3>2
    <2>7. ASSUME NEW i \in 1..len', NEW j \in 1..len', arrays'[array'][i] = arrays'[array'][j]
          PROVE  i = j
        <3>1. CASE i \in 1..len /\ j \in 1..len
            BY <1>3, <2>3, <2>7, <3>1 DEF PresentOnce
        <3>2. CASE i \notin 1..len \/ j \notin 1..len
            BY <2>1, <2>3, <2>4, <2>7, <3>2
        <3> QED
            BY <3>1, <3>2
    <2>8. crashed' # "unregister"
        BY <1>1, <1>3 DEF PresentOnce
    <2>9. PresentOnce'
        BY <2>5, <2>6, <2>7, <2>8 DEF PresentOnce
    <2> QED
        BY <2>9, PresentNext DEF PresentIsOnce
<1>6. SlotsAreSeen'
    <2>1. ASSUME scan.pc = "array", array' # scan.array, NEW i \in 1..Len(arrays'[scan.array])
          PROVE  arrays'[scan.array][i] \in seen' \cup {NoDriver}
        <3>1. i \in 1..Len(arrays[scan.array])
            BY <1>2, <1>4, <2>1
        <3>2. CASE scan.array = array
            <4>1. i \in 1..len
                BY <1>2, <1>4, <2>1, <3>1, <3>2
            <4>2. arrays[array][i] \in present
                BY <1>3, <4>1 DEF PresentOnce
            <4> QED
                BY <1>1, <1>2, <1>4, <3>1, <3>2, <4>2
        <3>3. CASE scan.array # array
            <4>1. arrays[scan.array][i] \in seen \cup {NoDriver}
                BY <2>1, <3>1, <3>3 DEF Entries, SlotsAreSeen
            <4> QED
                BY <1>1, <1>2, <1>4, <3>1, <3>3, <4>1
        <3> QED
            BY <3>2, <3>3
    <2>2. ASSUME scan.pc = "len", NEW i \in 1..Len(arrays'[array']), i <= scan.len
          PROVE  arrays'[array'][i] \in seen' \cup {NoDriver}
        BY <1>1, <1>4, <2>2 DEF Entries, SlotsAreSeen
    <2>3. ASSUME scan.pc = "range", NEW i \in 1..Len(arrays'[scan.array]), i <= scan.len
          PROVE  arrays'[scan.array][i] \in seen' \cup {NoDriver}
        <3>1. i \in 1..Len(arrays[scan.array])
            BY <1>2, <1>4, <2>3
        <3>2. arrays[scan.array][i] \in seen \cup {NoDriver}
            BY <2>3, <3>1 DEF Entries, SlotsAreSeen
        <3> QED
            BY <1>1, <1>2, <1>4, <3>1, <3>2
    <2> QED
        BY <1>1, <2>1, <2>2, <2>3 DEF SlotsAreSeen
<1>7. FoundIsSeen'
    BY <1>1 DEF Entries, FoundIsSeen
<1>8. SteadyAreAhead'
    <2>1. SUFFICES ASSUME left = {} PROVE SteadyAreAhead'
        BY <1>1 DEF SteadyAreAhead
    <2>2. scan.pc \in {"len", "range"} => scan.len <= len
        BY <2>1 DEF Entries, SteadyAreAhead
    <2>3. scan.pc \in {"len", "range"} => scan.len <= len'
        BY <1>1, <1>2, <2>2
    <2>4. \A i \in 1..Len(arrays[scan.array]) :
            i <= len => /\ i \in 1..Len(arrays'[scan.array])
                        /\ arrays'[scan.array][i] = arrays[scan.array][i]
        BY <1>2, <1>4
    <2>5. ASSUME scan.pc = "array", NEW e \in steady
          PROVE  \E i \in 1..Len(arrays'[scan.array]) : i <= len' /\ arrays'[scan.array][i] = e
        <3>1. PICK i \in 1..Len(arrays[scan.array]) : i <= len /\ arrays[scan.array][i] = e
            BY <2>1, <2>5 DEF Entries, SteadyAreAhead
        <3>2. i <= len'
            BY <1>1, <1>2, <3>1
        <3> QED
            BY <2>4, <3>1, <3>2
    <2>6. ASSUME scan.pc = "len", NEW e \in steady
          PROVE  \E i \in 1..Len(arrays'[array']) : i <= scan.len /\ arrays'[array'][i] = e
        <3>1. PICK i \in 1..Len(arrays[array]) : i <= scan.len /\ arrays[array][i] = e
            BY <2>1, <2>6 DEF Entries, SteadyAreAhead
        <3>2. i \in 1..len
            BY <1>2, <2>2, <2>6, <3>1
        <3> QED
            BY <1>4, <3>1, <3>2
    <2>7. ASSUME scan.pc = "range", scan.found = NoDriver, NEW e \in steady \cap Suitable
          PROVE  \E i \in 1..Len(arrays'[scan.array]) :
                    scan.next <= i /\ i <= scan.len /\ arrays'[scan.array][i] = e
        <3>1. PICK i \in 1..Len(arrays[scan.array]) :
                scan.next <= i /\ i <= scan.len /\ arrays[scan.array][i] = e
            BY <2>1, <2>7 DEF Entries, SteadyAreAhead
        <3>2. i <= len
            BY <1>2, <2>2, <2>7, <3>1
        <3> QED
            BY <2>4, <3>1, <3>2
    <2> QED
        BY <1>1, <2>3, <2>5, <2>6, <2>7 DEF SteadyAreAhead
<1>9. OverlookedOnlyBesideRemovals'
    BY <1>1 DEF Entries, OverlookedOnlyBesideRemovals
<1> QED
    BY <1>5, <1>6, <1>7, <1>8, <1>9 DEF Entries

\* A removal: the only slot of the driver is closed, and every other one keeps
\* its driver or takes the next one's.
LEMMA UnregisterKeeps ==
    ASSUME TypeOK, FreshIds, Entries, NEW d \in Drivers, Unregister(d)
    PROVE  Entries'
<1>1. /\ d \in present /\ present' = present \ {d}
      /\ steady' = steady \ {d} /\ left' = left \cup {d}
      /\ crashed' = IF Rounds(d).ok THEN "no" ELSE "unregister"
      /\ UNCHANGED <<array, scan, calls, seen>>
    BY DEF Unregister
<1>2. /\ len \in Nat /\ array \in 1..Len(arrays) /\ scan.array \in 1..Len(arrays)
      /\ present \subseteq seen /\ len <= Len(arrays[array]) /\ Len(arrays[array]) \in Nat
    BY DEF TypeOK
<1>3. PresentOnce
    BY PresentNow DEF Entries, PresentIsOnce
<1>4. PICK k \in 1..len : arrays[array][k] = d
    BY <1>1, <1>3 DEF PresentOnce
<1>5. \A i \in 1..len : arrays[array][i] = d => i = k
    BY <1>3, <1>4 DEF PresentOnce
<1>6. Rounds(d) = Without(k)
    BY <1>4, <1>5, RoundsRemove
<1>7. /\ len' = len - 1 /\ crashed' = "no"
      /\ Len(arrays'[array]) = Len(arrays[array])
      /\ \A i \in 1..Len(arrays[array]) :
            arrays'[array][i] = IF i \in k..(len - 1) THEN arrays[array][i + 1] ELSE arrays[array][i]
      /\ \A a \in 1..Len(arrays) : a # array => arrays'[a] = arrays[a]
    <2>1. /\ arrays'[array] = Rounds(d).slots /\ len' = Rounds(d).len
          /\ Len(arrays'[array]) = Len(arrays[array])
          /\ \A a \in 1..Len(arrays) : a # array => arrays'[a] = arrays[a]
        BY Unregistered
    <2> QED
        BY <1>1, <1>6, <2>1 DEF Without
<1>8. RegistryIsPresent'
    <2>1. ASSUME NEW i \in 1..(len - 1)
          PROVE  \/ i < k /\ i \in 1..len /\ arrays'[array][i] = arrays[array][i]
                 \/ i >= k /\ i + 1 \in 1..len /\ arrays'[array][i] = arrays[array][i + 1]
        <3>1. i \in 1..Len(arrays[array]) /\ i \in 1..len /\ i + 1 \in 1..len
            BY <1>2
        <3>2. i \in k..(len - 1) <=> i >= k
            BY <1>2
        <3> QED
            BY <1>2, <1>7, <3>1, <3>2
    <2>2. ASSUME NEW i \in 1..(len - 1)
          PROVE  arrays'[array][i] \in present \ {d}
        <3>1. \A j \in 1..len : j # k => arrays[array][j] \in present \ {d}
            BY <1>3, <1>5 DEF PresentOnce
        <3>2. i < k => i # k
            BY <1>2
        <3>3. i >= k => i + 1 # k
            BY <1>2
        <3> QED
            BY <2>1, <3>1, <3>2, <3>3
    <2>3. ASSUME NEW e \in present \ {d}
          PROVE  \E i \in 1..(len - 1) : arrays'[array][i] = e
        <3>1. PICK i \in 1..len : arrays[array][i] = e
            BY <1>3 DEF PresentOnce
        <3>2. CASE i < k
            <4>1. i \in 1..(len - 1) /\ ~(i >= k)
                BY <1>2, <3>2
            <4> QED
                BY <2>1, <3>1, <4>1
        <3>3. CASE i > k
            <4>1. i - 1 \in 1..(len - 1) /\ ~(i - 1 < k) /\ (i - 1) + 1 = i
                BY <1>2, <3>3
            <4>2. arrays'[array][i - 1] = arrays[array][(i - 1) + 1]
                BY <2>1, <4>1
            <4> QED
                BY <3>1, <4>1, <4>2
        <3> QED
            BY <1>2, <1>4, <3>1, <3>2, <3>3
    <2>4. ASSUME NEW i \in 1..(len - 1), NEW j \in 1..(len - 1), arrays'[array][i] = arrays'[array][j]
          PROVE  i = j
        <3> DEFINE old(x) == IF x < k THEN x ELSE x + 1
        <3>1. /\ old(i) \in 1..len /\ arrays'[array][i] = arrays[array][old(i)]
              /\ old(j) \in 1..len /\ arrays'[array][j] = arrays[array][old(j)]
            BY <1>2, <2>1
        <3>2. old(i) = old(j)
            <4> HIDE DEF old
            <4> QED
                BY <1>3, <2>4, <3>1 DEF PresentOnce
        <3> QED
            BY <1>2, <3>2
    <2>5. PresentOnce'
        BY <1>1, <1>7, <2>2, <2>3, <2>4 DEF PresentOnce
    <2> QED
        BY <2>5, PresentNext DEF PresentIsOnce
<1>9. SlotsAreSeen'
    <2>1. ASSUME NEW a \in 1..Len(arrays), NEW i \in 1..Len(arrays'[a]), arrays[a][i] \in seen \cup {NoDriver}
          PROVE  arrays'[a][i] \in seen \cup {NoDriver}
        <3>1. CASE a = array /\ i \in k..(len - 1)
            <4>1. i \in 1..Len(arrays[array]) /\ i + 1 \in 1..len
                BY <1>2, <1>7, <3>1
            <4> QED
                BY <1>2, <1>3, <1>7, <3>1, <4>1 DEF PresentOnce
        <3>2. CASE ~(a = array /\ i \in k..(len - 1))
            BY <1>7, <2>1, <3>2
        <3> QED
            BY <3>1, <3>2
    <2>2. \A a \in 1..Len(arrays) : Len(arrays'[a]) = Len(arrays[a])
        BY <1>7
    <2>3. SlotsAreSeen
        BY DEF Entries
    <2>4. scan'.pc = "array" =>
            \/ scan'.array = array'
            \/ \A i \in 1..Len(arrays'[scan'.array]) : arrays'[scan'.array][i] \in seen' \cup {NoDriver}
        BY <1>1, <1>2, <2>1, <2>2, <2>3 DEF SlotsAreSeen
    <2>5. scan'.pc = "len" =>
            \A i \in 1..Len(arrays'[array']) :
                i <= scan'.len => arrays'[array'][i] \in seen' \cup {NoDriver}
        BY <1>1, <1>2, <2>1, <2>2, <2>3 DEF SlotsAreSeen
    <2>6. scan'.pc = "range" =>
            \A i \in 1..Len(arrays'[scan'.array]) :
                i <= scan'.len => arrays'[scan'.array][i] \in seen' \cup {NoDriver}
        BY <1>1, <1>2, <2>1, <2>2, <2>3 DEF SlotsAreSeen
    <2> QED
        BY <2>4, <2>5, <2>6 DEF SlotsAreSeen
<1>10. FoundIsSeen'
    BY <1>1 DEF Entries, FoundIsSeen
<1>11. SteadyAreAhead' /\ OverlookedOnlyBesideRemovals'
    BY <1>1 DEF SteadyAreAhead, OverlookedOnlyBesideRemovals
<1> QED
    BY <1>8, <1>9, <1>10, <1>11 DEF Entries

-----------------------------------------------------------------------------
\* The slice itself stands still while a scan takes a step.
SliceStandsStill == UNCHANGED <<arrays, array, len, present>>

LEMMA SliceStays ==
    ASSUME FreshIds, Entries, SliceStandsStill, crashed' # "unregister"
    PROVE  RegistryIsPresent'
    BY DEF SliceStandsStill, Entries, RegistryIsPresent

\* A scan begins: whoever is present is in a slot below the length.
LEMMA LoadFirstKeeps ==
    ASSUME TypeOK, FreshIds, Entries, LoadFirst
    PROVE  Entries'
<1>1. /\ SliceStandsStill /\ crashed' = crashed
      /\ steady' = present /\ seen' = present /\ left' = {}
    BY DEF LoadFirst, SliceStandsStill, header
<1>2. PresentOnce
    BY PresentNow DEF Entries, PresentIsOnce
<1>3. /\ len \in Nat /\ Len(arrays[array]) \in Nat /\ len <= Len(arrays[array])
    BY DEF TypeOK
<1>4. RegistryIsPresent'
    BY <1>1, <1>2, SliceStays DEF PresentOnce
<1>5. ASSUME NEW d \in present
      PROVE  \E i \in 1..Len(arrays[array]) : i <= len /\ arrays[array][i] = d
    <2>1. PICK i \in 1..len : arrays[array][i] = d
        BY <1>2 DEF PresentOnce
    <2>2. i \in 1..Len(arrays[array]) /\ i <= len
        BY <1>3
    <2> QED
        BY <2>1, <2>2
<1>6. \A i \in 1..Len(arrays[array]) : i <= len => arrays[array][i] \in present
    BY <1>2, <1>3 DEF PresentOnce
<1>7. CASE scan' = [Idle EXCEPT !.pc = "array", !.array = array]
    <2>1. scan'.pc = "array" /\ scan'.array = array /\ scan'.found = NoDriver /\ scan'.next = 1
        BY <1>7 DEF Idle
    <2> QED
        BY <1>1, <1>4, <1>5, <2>1 DEF SliceStandsStill, Entries, SlotsAreSeen, FoundIsSeen,
            SteadyAreAhead, OverlookedOnlyBesideRemovals
<1>8. CASE scan' = [Idle EXCEPT !.pc = "len", !.len = len]
    <2>1. scan'.pc = "len" /\ scan'.len = len /\ scan'.found = NoDriver /\ scan'.next = 1
        BY <1>8 DEF Idle
    <2>2. len <= len
        BY <1>3
    <2> QED
        BY <1>1, <1>4, <1>5, <1>6, <2>1, <2>2 DEF SliceStandsStill, Entries, SlotsAreSeen, FoundIsSeen,
            SteadyAreAhead, OverlookedOnlyBesideRemovals
<1> QED
    BY <1>7, <1>8 DEF LoadFirst

\* The second read of the header, of the length or of the array.
LEMMA LoadSecondKeeps ==
    ASSUME TypeOK, FreshIds, Entries, LoadSecond
    PROVE  Entries'
<1>1. /\ SliceStandsStill /\ UNCHANGED <<crashed, steady, seen, left>>
    BY DEF LoadSecond, SliceStandsStill, header, history
<1>2. PresentOnce
    BY PresentNow DEF Entries, PresentIsOnce
<1>3. /\ len \in Nat /\ array \in 1..Len(arrays) /\ Len(arrays[array]) \in Nat
      /\ len <= Len(arrays[array]) /\ present \subseteq seen
      /\ scan \in Scans(Len(arrays))
    BY DEF TypeOK, Scans
<1>4. RegistryIsPresent'
    BY <1>1, <1>2, SliceStays DEF PresentOnce
<1>5. CASE scan.pc = "array" /\ scan' = [scan EXCEPT !.pc = "range", !.len = len]
    <2>1. /\ scan'.pc = "range" /\ scan'.len = len /\ scan'.array = scan.array
          /\ scan'.found = scan.found /\ scan'.next = scan.next
        BY <1>3, <1>5 DEF Scans
    <2>2. scan.found = NoDriver /\ FoundIsSeen'
        BY <1>1, <1>5, <2>1 DEF Entries, FoundIsSeen
    <2>3. SlotsAreSeen'
        <3>1. ASSUME NEW i \in 1..Len(arrays[scan.array]), i <= len
              PROVE  arrays[scan.array][i] \in seen \cup {NoDriver}
            <4>1. CASE scan.array = array
                <5>1. i \in 1..len
                    BY <1>3, <3>1, <4>1
                <5> QED
                    BY <1>2, <1>3, <4>1, <5>1 DEF PresentOnce
            <4>2. CASE scan.array # array
                BY <1>5, <3>1, <4>2 DEF Entries, SlotsAreSeen
            <4> QED
                BY <4>1, <4>2
        <3> QED
            BY <1>1, <2>1, <3>1 DEF SlotsAreSeen, SliceStandsStill
    <2>4. SteadyAreAhead'
        <3>1. SUFFICES ASSUME left = {} PROVE SteadyAreAhead'
            BY <1>1 DEF SteadyAreAhead
        <3>2. len <= len
            BY <1>3
        <3>4. ASSUME NEW d \in steady \cap Suitable
              PROVE  \E i \in 1..Len(arrays[scan.array]) :
                        scan.next <= i /\ i <= len /\ arrays[scan.array][i] = d
            <4>1. PICK i \in 1..Len(arrays[scan.array]) : i <= len /\ arrays[scan.array][i] = d
                BY <1>5, <3>1 DEF Entries, SteadyAreAhead
            <4>2. scan.next <= i
                BY <1>3, <1>5, <4>1 DEF Entries, FoundIsSeen, TypeOK
            <4> QED
                BY <4>1, <4>2
        <3> QED
            BY <1>1, <2>1, <3>2, <3>4 DEF SteadyAreAhead, SliceStandsStill
    <2> QED
        BY <1>4, <2>1, <2>2, <2>3, <2>4 DEF Entries, OverlookedOnlyBesideRemovals
<1>6. CASE scan.pc = "len" /\ scan' = [scan EXCEPT !.pc = "range", !.array = array]
    <2>1. /\ scan'.pc = "range" /\ scan'.len = scan.len /\ scan'.array = array
          /\ scan'.found = scan.found /\ scan'.next = scan.next
        BY <1>3, <1>6 DEF Scans
    <2>2. scan.found = NoDriver /\ FoundIsSeen'
        BY <1>1, <1>6, <2>1 DEF Entries, FoundIsSeen
    <2>3. SlotsAreSeen'
        BY <1>1, <1>6, <2>1 DEF Entries, SlotsAreSeen, SliceStandsStill
    <2>4. SteadyAreAhead'
        <3>1. SUFFICES ASSUME left = {} PROVE SteadyAreAhead'
            BY <1>1 DEF SteadyAreAhead
        <3>2. scan.len <= len
            BY <1>6, <3>1 DEF Entries, SteadyAreAhead
        <3>3. ASSUME NEW d \in steady \cap Suitable
              PROVE  \E i \in 1..Len(arrays[array]) :
                        scan.next <= i /\ i <= scan.len /\ arrays[array][i] = d
            <4>1. PICK i \in 1..Len(arrays[array]) : i <= scan.len /\ arrays[array][i] = d
                BY <1>6, <3>1 DEF Entries, SteadyAreAhead
            <4>2. scan.next <= i
                BY <1>3, <1>6, <4>1 DEF Entries, FoundIsSeen, TypeOK
            <4> QED
                BY <4>1, <4>2
        <3> QED
            BY <1>1, <2>1, <3>2, <3>3 DEF SteadyAreAhead, SliceStandsStill
    <2> QED
        BY <1>4, <2>1, <2>2, <2>3, <2>4 DEF Entries, OverlookedOnlyBesideRemovals
<1> QED
    BY <1>5, <1>6 DEF LoadSecond

\* One slot is read: what it holds was seen, and who is ahead stays ahead unless
\* he is the one found.
LEMMA ReadSlotKeeps ==
    ASSUME TypeOK, FreshIds, Entries, ReadSlot
    PROVE  Entries'
<1>1. /\ SliceStandsStill /\ UNCHANGED <<calls, steady, seen, left>>
      /\ scan.pc = "range" /\ scan.next <= scan.len /\ crashed' \in {"scan", crashed}
    BY DEF ReadSlot, SliceStandsStill, header, history
<1>2. /\ scan \in Scans(Len(arrays)) /\ NoDriver \notin Suitable
      /\ steady \subseteq Drivers
    BY DEF TypeOK, Scans
<1>3. RegistryIsPresent'
    BY <1>1, PresentNow, SliceStays DEF Entries, PresentIsOnce, PresentOnce
<1>4. CASE scan' = scan
    BY <1>1, <1>3, <1>4 DEF SliceStandsStill, Entries, SlotsAreSeen, FoundIsSeen, SteadyAreAhead,
        OverlookedOnlyBesideRemovals
<1>5. CASE scan' # scan
    <2> DEFINE d == arrays[scan.array][scan.next]
               found == IF scan.found = NoDriver /\ d \in Suitable THEN d ELSE scan.found
    <2>1. scan.next <= Len(arrays[scan.array]) /\ scan' = [scan EXCEPT !.next = @ + 1, !.found = found]
        BY <1>5 DEF ReadSlot
    <2>2. /\ scan'.pc = "range" /\ scan'.len = scan.len /\ scan'.array = scan.array
          /\ scan'.next = scan.next + 1 /\ scan'.found = found
        <3> HIDE DEF found
        <3> QED
            BY <1>1, <1>2, <2>1 DEF Scans
    <2>3. /\ scan.next \in Nat \ {0} /\ scan.len \in Nat /\ Len(arrays[scan.array]) \in Nat
        BY <1>2 DEF Scans, TypeOK
    <2>4. SlotsAreSeen'
        BY <1>1, <2>2 DEF Entries, SlotsAreSeen, SliceStandsStill
    <2>5. d \in seen \cup {NoDriver}
        BY <1>1, <2>1, <2>3 DEF Entries, SlotsAreSeen
    <2>6. FoundIsSeen'
        BY <1>1, <1>2, <2>2, <2>5 DEF Entries, FoundIsSeen
    <2>7. SteadyAreAhead'
        <3>1. SUFFICES ASSUME left = {} PROVE SteadyAreAhead'
            BY <1>1 DEF SteadyAreAhead
        <3>2. scan.len <= len
            BY <1>1, <3>1 DEF Entries, SteadyAreAhead
        <3>3. ASSUME found = NoDriver, NEW e \in steady \cap Suitable
              PROVE  \E i \in 1..Len(arrays[scan.array]) :
                        scan.next + 1 <= i /\ i <= scan.len /\ arrays[scan.array][i] = e
            <4>1. scan.found = NoDriver /\ d \notin Suitable
                BY <1>2, <3>3
            <4>2. PICK i \in 1..Len(arrays[scan.array]) :
                    scan.next <= i /\ i <= scan.len /\ arrays[scan.array][i] = e
                BY <1>1, <3>1, <4>1 DEF Entries, SteadyAreAhead
            <4>3. i # scan.next
                BY <4>1, <4>2
            <4>4. scan.next + 1 <= i
                BY <2>3, <4>2, <4>3
            <4> QED
                BY <4>2, <4>4
        <3> QED
            BY <1>1, <2>2, <3>2, <3>3 DEF SteadyAreAhead, SliceStandsStill
    <2> QED
        BY <1>3, <2>2, <2>4, <2>6, <2>7 DEF Entries, OverlookedOnlyBesideRemovals
<1> QED
    BY <1>4, <1>5

\* Nobody is ahead of a scan that has read its last slot.
LEMMA ReturnKeeps ==
    ASSUME TypeOK, FreshIds, Entries, Return
    PROVE  Entries'
<1>1. /\ SliceStandsStill /\ UNCHANGED <<crashed, steady, seen, left>>
      /\ scan.pc = "range" /\ scan.next > scan.len /\ scan' = [scan EXCEPT !.pc = "done"]
    BY DEF Return, SliceStandsStill, header, history
<1>2. scan \in Scans(Len(arrays)) /\ Len(arrays[scan.array]) \in Nat
    BY DEF TypeOK, Scans
<1>3. scan'.pc = "done" /\ scan'.found = scan.found
    BY <1>1, <1>2 DEF Scans
<1>4. scan.next \in Nat /\ scan.len \in Nat
    BY <1>2 DEF Scans
<1>5. RegistryIsPresent'
    BY <1>1, PresentNow, SliceStays DEF Entries, PresentIsOnce, PresentOnce
<1>6. SlotsAreSeen' /\ FoundIsSeen' /\ SteadyAreAhead'
    BY <1>1, <1>3 DEF Entries, SlotsAreSeen, FoundIsSeen, SteadyAreAhead
<1>7. OverlookedOnlyBesideRemovals'
    <2>1. SUFFICES ASSUME scan.found = NoDriver, left = {} PROVE steady \cap Suitable = {}
        BY <1>1, <1>3 DEF OverlookedOnlyBesideRemovals
    <2>2. ASSUME NEW d \in steady \cap Suitable PROVE FALSE
        <3>1. PICK i \in 1..Len(arrays[scan.array]) : scan.next <= i /\ i <= scan.len
            BY <1>1, <2>1, <2>2 DEF Entries, SteadyAreAhead
        <3> QED
            BY <1>1, <1>2, <1>4, <3>1
    <2> QED
        BY <2>2
<1> QED
    BY <1>5, <1>6, <1>7 DEF Entries

-----------------------------------------------------------------------------
LEMMA EntriesStart == Init => (FreshIds => Entries)
<1> SUFFICES ASSUME Init, FreshIds PROVE Entries
    OBVIOUS
<1>1. /\ scan.pc = "idle" /\ scan.found = NoDriver /\ crashed = "no" /\ len = 0 /\ present = {}
    BY DEF Init, Idle
<1>2. PresentOnce
    BY <1>1 DEF PresentOnce
<1>3. RegistryIsPresent
    BY <1>2, PresentNow DEF PresentIsOnce
<1> QED
    BY <1>1, <1>3 DEF Entries, SlotsAreSeen, FoundIsSeen, SteadyAreAhead, OverlookedOnlyBesideRemovals

LEMMA EntriesNext ==
    ASSUME TypeOK, FreshIds, Entries, [Next]_registryVars
    PROVE  Entries'
<1>1. CASE UNCHANGED registryVars
    BY <1>1 DEF registryVars, header, history, Entries, RegistryIsPresent, SlotsAreSeen, FoundIsSeen,
        SteadyAreAhead, OverlookedOnlyBesideRemovals
<1>2. CASE Next
    BY <1>2, RegisterKeeps, UnregisterKeeps, LoadFirstKeeps, LoadSecondKeeps, ReadSlotKeeps, ReturnKeeps
       DEF Next
<1> QED
    BY <1>1, <1>2

LEMMA InvariantStart == Init => IInv
    BY TypesStart, EntriesStart DEF IInv

LEMMA InvariantNext == IInv /\ [Next]_registryVars => IInv'
    BY TypesNext, EntriesNext DEF IInv

LEMMA Invariance == Spec => []IInv
    BY InvariantStart, InvariantNext, PTL DEF Spec

\* Every variable of the slice, its arrays and a scan holds a value of its type,
\* also when ids are registered twice and the process dies of it.
THEOREM TypeCorrectness == Spec => []TypeOK
    BY Invariance, PTL DEF IInv

\* After any sequence of appends, reallocations and in-place removals the slice
\* holds each driver who is registered, once.
THEOREM RegistryHoldsThePresent == Spec => []RegistryIsPresent
<1>1. IInv => RegistryIsPresent
    BY DEF IInv, Entries, RegistryIsPresent
<1> QED
    BY <1>1, Invariance, PTL

\* A scan, which takes no lock, never returns a driver who was not registered
\* while it ran.
THEOREM ScansFindThePresent == Spec => []FoundWasPresent
<1>1. IInv => FoundWasPresent
    BY DEF IInv, Entries, FoundIsSeen, FoundWasPresent
<1> QED
    BY <1>1, Invariance, PTL

\* A scan beside registrations only misses nobody who was there all along.
THEOREM ScansMissNobodyWhoStays == Spec => []OverlookedOnlyBesideRemovals
<1>1. IInv => OverlookedOnlyBesideRemovals
    BY DEF IInv, Entries, OverlookedOnlyBesideRemovals
<1> QED
    BY <1>1, Invariance, PTL

=============================================================================
