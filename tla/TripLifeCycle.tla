---------------------------- MODULE TripLifeCycle -----------------------------
(***************************************************************************)
(* What the services promise together about one trip, with queues, handlers *)
(* and pages left out: a trip is searched for, or is one driver's to answer, *)
(* or nobody's any more; a driver who takes it keeps it; it is charged once, *)
(* then payed. Two things never happen to a trip at the same time.          *)
(***************************************************************************)
CONSTANTS Trips, People,
    Dispatch,       \* the bearer of a trip that is looking for a driver
    Nobody          \* the taker of a trip nobody has taken

VARIABLE
    life            \* trip -> its phase, whoever its fate lies with, its taker

Lives ==
    [phase : {"unknown", "waiting", "taken", "charged", "payed"},
     bearers : SUBSET (People \cup {Dispatch}), taker : People \cup {Nobody}]

LifeInit ==
    life = [t \in Trips |-> [phase |-> "unknown", bearers |-> {}, taker |-> Nobody]]

-----------------------------------------------------------------------------
\* The steps of one trip, from life a to life b.
Advances(a, b, from, to) == a.phase = from /\ b.phase = to
Passes(a, b, from, to) == a.bearers = from /\ b.bearers = to

Request(a, b) ==
    /\ Advances(a, b, "unknown", "waiting")
    /\ Passes(a, b, {}, {Dispatch})
    /\ b.taker = a.taker

Offer(a, b) ==
    /\ \E d \in People : Passes(a, b, {Dispatch}, {d})
    /\ b.phase = a.phase /\ b.taker = a.taker

Refuse(a, b) ==
    /\ \E d \in People : Passes(a, b, {d}, {Dispatch})
    /\ b.phase = a.phase /\ b.taker = a.taker

\* No driver was found, or the offer is gone from the page that showed it.
GiveUp(a, b) ==
    /\ \E x \in People \cup {Dispatch} : Passes(a, b, {x}, {})
    /\ b.phase = a.phase /\ b.taker = a.taker

Take(a, b) ==
    /\ Advances(a, b, "waiting", "taken")
    /\ Passes(a, b, {b.taker}, {})
    /\ b.taker \in People

Charge(a, b) ==
    Advances(a, b, "taken", "charged") /\ b = [a EXCEPT !.phase = "charged"]

Pay(a, b) ==
    Advances(a, b, "charged", "payed") /\ b = [a EXCEPT !.phase = "payed"]

Step(a, b) ==
    \/ Request(a, b) \/ Offer(a, b) \/ Refuse(a, b) \/ GiveUp(a, b)
    \/ Take(a, b) \/ Charge(a, b) \/ Pay(a, b)

LifeNext ==
    \E t \in Trips :
        LET a == life[t]
            b == life'[t]
        IN  /\ a # b
            /\ Step(a, b)
            /\ b \in Lives
            /\ life' = [life EXCEPT ![t] = b]

LifeSpec == LifeInit /\ [][LifeNext]_life

=============================================================================
