--------------------- MODULE RideSharingLifeCycleProofs ---------------------
(***************************************************************************)
(* The platform implements the life cycle of a trip for as long as nothing  *)
(* fails: the mapping takes every step of a service, a page or a person to  *)
(* one step of one trip's life, or to none.                                 *)
(***************************************************************************)
EXTENDS RideSharingLifeCycle, RideSharingOffersProofs

-----------------------------------------------------------------------------
\* Whom the messages about a trip are for.

LEMMA OwnersPopped ==
    ASSUME IInv, NEW q \in Queues, queues[q] # <<>>, Pop(q), Once(q)
    PROVE  LET m == Head(queues[q])
               t == m.body.trip
           IN  /\ m \in TrueMessages /\ m.key \in Bindings[q] /\ t \in TripsIn(q)
               /\ OwnersIn(q, t) = {m.owner}
               /\ \A x : OwnersIn(q, x)' = IF x = t THEN {} ELSE OwnersIn(q, x)
               /\ TripsIn(q)' = TripsIn(q) \ {t}
               /\ \A p \in Queues : p # q => queues'[p] = queues[p]
<1> DEFINE m == Head(queues[q])
           t == m.body.trip
           n == Len(queues'[q])
<1>1. /\ DOMAIN queues = Queues /\ queues[q] \in Seq(TrueMessages)
      /\ \A i \in 1..Len(queues[q]) :
            queues[q][i] \in TrueMessages /\ queues[q][i].key \in Bindings[q]
    BY QueuesHoldMessages
<1>2. /\ m = queues[q][1] /\ 1 \in 1..Len(queues[q])
      /\ \A i \in 1..n :
            i + 1 \in 1..Len(queues[q]) /\ queues'[q][i] = queues[q][i + 1]
      /\ t \in TripsIn(q) /\ TripsIn(q)' \subseteq TripsIn(q) /\ t \notin TripsIn(q)'
      /\ \A p \in Queues : p # q => queues'[p] = queues[p]
    BY <1>1, Popped
<1>3. \A j \in 1..Len(queues[q]) :
        j = 1 \/ (j - 1 \in 1..n /\ queues'[q][j - 1] = queues[q][j])
    <2>1. n = Len(queues[q]) - 1 /\ Len(queues[q]) \in Nat
        BY <1>1, EmptySeq DEF Pop
    <2>2. ASSUME NEW j \in 1..Len(queues[q]), j # 1
          PROVE  j - 1 \in 1..n /\ queues'[q][j - 1] = queues[q][j]
        <3>1. j - 1 \in 1..n /\ (j - 1) + 1 = j
            BY <2>1, <2>2
        <3> QED
            BY <1>2, <3>1
    <2> QED
        BY <2>2
<1>4. \A j \in 1..Len(queues[q]) : queues[q][j].body.trip = t => j = 1
    BY <1>2 DEF Once
<1>5. OwnersIn(q, t) = {m.owner}
    BY <1>2, <1>4 DEF OwnersIn
<1>6. ASSUME NEW x, x = t PROVE OwnersIn(q, x)' = {}
    BY <1>2, <1>6 DEF OwnersIn, TripsIn
<1>7. ASSUME NEW x, x # t PROVE OwnersIn(q, x)' = OwnersIn(q, x)
    <2>1. ASSUME NEW o \in OwnersIn(q, x)' PROVE o \in OwnersIn(q, x)
        <3>1. PICK i \in 1..n : queues'[q][i].body.trip = x /\ o = queues'[q][i].owner
            BY <2>1 DEF OwnersIn
        <3>2. i + 1 \in 1..Len(queues[q]) /\ queues'[q][i] = queues[q][i + 1]
            BY <1>2, <3>1
        <3> QED
            BY <3>1, <3>2 DEF OwnersIn
    <2>2. OwnersIn(q, x) \subseteq OwnersIn(q, x)'
        BY <1>2, <1>3, <1>7 DEF OwnersIn
    <2> QED
        BY <2>1, <2>2
<1>8. ASSUME NEW x \in TripsIn(q), x # t PROVE x \in TripsIn(q)'
    <2>1. PICK j \in 1..Len(queues[q]) : x = queues[q][j].body.trip
        BY <1>8 DEF TripsIn
    <2>2. j - 1 \in 1..n /\ queues'[q][j - 1] = queues[q][j]
        BY <1>2, <1>3, <1>8, <2>1
    <2> QED
        BY <2>1, <2>2 DEF TripsIn
<1> QED
    BY <1>1, <1>2, <1>5, <1>6, <1>7, <1>8

LEMMA OwnersSent ==
    ASSUME IInv, NEW q \in Queues, NEW m, Publish(m), m.key \in Bindings[q], NEW x
    PROVE  OwnersIn(q, x)' = OwnersIn(q, x) \cup {o \in {m.owner} : x = m.body.trip}
<1> DEFINE n == Len(queues[q])
<1>1. queues'[q] = Append(queues[q], m) /\ queues[q] \in Seq(TrueMessages)
    BY Published, QueuesHoldMessages
<1>2. /\ n \in Nat /\ 1..Len(queues'[q]) = 1..n \cup {n + 1}
      /\ \A i \in 1..n : queues'[q][i] = queues[q][i]
      /\ queues'[q][n + 1] = m
    BY <1>1
<1> QED
    BY <1>2 DEF OwnersIn

LEMMA OwnersStay ==
    ASSUME NEW q, queues'[q] = queues[q], NEW x
    PROVE  OwnersIn(q, x)' = OwnersIn(q, x)
    BY DEF OwnersIn

\* Nobody is asked about a trip that no message of the queue is about.
LEMMA NoOwners ==
    ASSUME NEW q, NEW x
    PROVE  /\ x \notin TripsIn(q) <=> OwnersIn(q, x) = {}
           /\ x \notin Shown <=> ShownRequests(x) = {}
    BY DEF OwnersIn, TripsIn, Shown, ShownRequests

\* Requests and answers are a driver's.
LEMMA OwnersAreDrivers ==
    ASSUME IInv, NEW x
    PROVE  WithDriver(x) \subseteq Drivers
<1>1. ASSUME NEW q \in {"driver_cmd_trip_request", "driver_cmd_trip_response"},
             NEW i \in 1..Len(queues[q])
      PROVE  queues[q][i].owner \in Drivers
    <2>1. queues[q][i] \in TrueMessages /\ queues[q][i].key \in Bindings[q] /\ q \in Queues
        BY QueuesHoldMessages, QueueKeys
    <2>2. queues[q][i] \in Requests \cup Answers
        BY <2>1, TrueMessagesByKey, QueueKeys
    <2> QED
        BY <2>2 DEF Requests, Answers, Message, Fits
<1> QED
    BY <1>1 DEF WithDriver, OwnersIn, ShownRequests

-----------------------------------------------------------------------------
\* The life of a trip.

LifeOK == \A t \in TripIds : LifeOf(t) \in LifeCycle!Lives

LEMMA LivesAreLives == IInv => LifeOK
<1> SUFFICES ASSUME IInv, NEW t \in TripIds PROVE LifeOf(t) \in LifeCycle!Lives
    BY DEF LifeOK
<1>1. BearersOf(t) \subseteq Drivers \cup {Dispatch}
    BY OwnersAreDrivers DEF BearersOf
<1>2. t \in DOMAIN trips => trips[t] \in Trip
    BY DEF IInv, TripsInv
<1>3. PhaseOf(t) \in {"unknown", "waiting", "taken", "charged", "payed"}
    BY <1>2 DEF PhaseOf, Trip
<1> QED
    BY <1>1, <1>2, <1>3 DEF LifeOf, LifeCycle!Lives, Trip

LEMMA LivesStayLives == IInv' => LifeOK'
    BY LivesAreLives, PTL

\* What leaves it alone.
LEMMA LifeStays ==
    ASSUME NEW x, x \in DOMAIN trips' <=> x \in DOMAIN trips,
           x \in DOMAIN trips => trips'[x] = trips[x],
           x \in Charged' <=> x \in Charged,
           Searching(x)' <=> Searching(x), WithDriver(x)' = WithDriver(x)
    PROVE  LifeOf(x)' = LifeOf(x)
<1>1. BearersOf(x)' = BearersOf(x)
    BY DEF BearersOf
<1>2. PhaseOf(x)' = PhaseOf(x)
    BY DEF PhaseOf
<1> QED
    BY <1>1, <1>2 DEF LifeOf

\* What makes a step of the life cycle.
LEMMA OneLives ==
    ASSUME IInv', NEW t \in TripIds,
           \A x \in TripIds : x # t => LifeOf(x)' = LifeOf(x),
           LifeOf(t)' = LifeOf(t) \/ LifeCycle!Step(LifeOf(t), LifeOf(t)')
    PROVE  [LifeCycle!LifeNext]_life
<1>1. LifeOf(t)' \in LifeCycle!Lives
    BY LivesStayLives DEF LifeOK, LifeCycle!Lives
<1>2. life' = [life EXCEPT ![t] = LifeOf(t)']
    BY DEF life
<1>3. life[t] = LifeOf(t) /\ life'[t] = LifeOf(t)'
    BY DEF life
<1>4. CASE LifeOf(t)' = LifeOf(t)
    BY <1>4 DEF life
<1>5. CASE LifeOf(t)' # LifeOf(t)
    BY <1>1, <1>2, <1>3, <1>5 DEF LifeCycle!LifeNext
<1> QED
    BY <1>4, <1>5

\* A trip that is searched for is with no driver, and the other way round; what
\* is neither is nobody's.
LEMMA OneBearer ==
    ASSUME InOnePlace, NEW x
    PROVE  /\ Searching(x) => WithDriver(x) = {} /\ BearersOf(x) = {Dispatch}
           /\ x \in Requested =>
                /\ ~Searching(x) /\ BearersOf(x) = OwnersIn("driver_cmd_trip_request", x)
                /\ ShownRequests(x) = {} /\ OwnersIn("driver_cmd_trip_response", x) = {}
           /\ x \in Shown =>
                /\ ~Searching(x) /\ BearersOf(x) = ShownRequests(x)
                /\ OwnersIn("driver_cmd_trip_request", x) = {}
                /\ OwnersIn("driver_cmd_trip_response", x) = {}
           /\ x \in Replied =>
                /\ ~Searching(x) /\ BearersOf(x) = OwnersIn("driver_cmd_trip_response", x)
                /\ ShownRequests(x) = {} /\ OwnersIn("driver_cmd_trip_request", x) = {}
<1>1. /\ x \notin Requested <=> OwnersIn("driver_cmd_trip_request", x) = {}
      /\ x \notin Replied <=> OwnersIn("driver_cmd_trip_response", x) = {}
      /\ x \notin Shown <=> ShownRequests(x) = {}
    BY NoOwners DEF Requested, Replied
<1>2. \A i, j \in 1..7 : i < j => ~(x \in Places[i] /\ x \in Places[j])
    BY DEF InOnePlace, Apart
<1>3. /\ Searching(x) => x \notin Requested /\ x \notin Shown /\ x \notin Replied
      /\ x \notin Requested \/ x \notin Shown
      /\ x \notin Requested \/ x \notin Replied
      /\ x \notin Shown \/ x \notin Replied
    BY <1>2, PlaceNames DEF Searching
<1> QED
    BY <1>1, <1>3 DEF BearersOf, WithDriver

-----------------------------------------------------------------------------
\* The steps of the platform.

LEMMA StillLives ==
    ASSUME StandsStill, UNCHANGED trips
    PROVE  UNCHANGED life
<1>1. /\ Created' = Created /\ Searched' = Searched /\ Chosen' = Chosen
      /\ Refused' = Refused /\ Charged' = Charged /\ UNCHANGED offer
      /\ queues'["driver_cmd_trip_request"] = queues["driver_cmd_trip_request"]
      /\ queues'["driver_cmd_trip_response"] = queues["driver_cmd_trip_response"]
    BY PlaceNames DEF StandsStill
<1>2. ASSUME NEW x \in TripIds PROVE LifeOf(x)' = LifeOf(x)
    <2>1. WithDriver(x)' = WithDriver(x)
        BY <1>1 DEF WithDriver, OwnersIn, ShownRequests
    <2> QED
        BY <1>1, <2>1, LifeStays DEF Searching
<1> QED
    BY <1>2 DEF life

\* A step that searches for the same trips and asks the same drivers about them,
\* and neither changes nor charges a trip.
LEMMA SameLives ==
    ASSUME \A x \in TripIds : Searching(x)' <=> Searching(x),
           \A x \in TripIds : WithDriver(x)' = WithDriver(x),
           UNCHANGED trips, Charged' = Charged
    PROVE  UNCHANGED life
    BY LifeStays DEF life

\* The life of a trip that only changes hands.
LEMMA ChangesHands ==
    ASSUME UNCHANGED trips, Charged' = Charged, NEW x
    PROVE  /\ LifeOf(x)'.phase = LifeOf(x).phase /\ LifeOf(x)'.taker = LifeOf(x).taker
           /\ LifeOf(x).bearers = BearersOf(x) /\ LifeOf(x)'.bearers = BearersOf(x)'
<1>1. PhaseOf(x)' = PhaseOf(x)
    BY DEF PhaseOf
<1> QED
    BY <1>1 DEF LifeOf

LEMMA StartTripLives ==
    ASSUME IInv, IInv', NEW t \in TripIds, NEW u \in Riders, NEW f \in Fares,
           StartTrip(t, u, f)
    PROVE  [LifeCycle!LifeNext]_life
<1> USE DEF StartTrip, CreateTrip, brokerVars, driverVars, paymentVars, gatewayVars
<1>1. t \notin DOMAIN trips
    BY DEF IInv, TripsInv
<1>2. \A i \in 1..10 : t \notin Places[i]
    BY <1>1, PlacesKnowTrips
<1>3. Created' = Created \cup {t}
    BY DEF Created, IInv, TripsInv
<1>4. /\ Searched' = Searched /\ Chosen' = Chosen /\ Refused' = Refused /\ Charged' = Charged
    BY PlacesStay
<1>5. \A x : WithDriver(x)' = WithDriver(x)
    BY DEF WithDriver, OwnersIn, ShownRequests
<1>6. ASSUME NEW x \in TripIds, x # t PROVE LifeOf(x)' = LifeOf(x)
    BY <1>3, <1>4, <1>5, <1>6, LifeStays DEF Searching
<1>7. ~Searching(t) /\ WithDriver(t) = {} /\ t \notin Charged
    BY <1>2, PlaceNames, NoOwners DEF Searching, WithDriver, Requested, Replied
<1>8. LifeOf(t) = [phase |-> "unknown", bearers |-> {}, taker |-> NoDriver]
    BY <1>1, <1>7 DEF LifeOf, PhaseOf, BearersOf
<1>9. /\ t \in DOMAIN trips' /\ trips'[t].status = "pending" /\ trips'[t].driver = NoDriver
      /\ Searching(t)' /\ WithDriver(t)' = {}
    BY <1>3, <1>5, <1>7 DEF Searching
<1>10. LifeOf(t)' = [phase |-> "waiting", bearers |-> {Dispatch}, taker |-> NoDriver]
    BY <1>9 DEF LifeOf, PhaseOf, BearersOf
<1>11. LifeCycle!Request(LifeOf(t), LifeOf(t)')
    BY <1>8, <1>10 DEF LifeCycle!Request, LifeCycle!Advances, LifeCycle!Passes
<1> QED
    BY <1>6, <1>11, OneLives DEF LifeCycle!Step

LEMMA CreateWorkLives ==
    ASSUME IInv, NEW t \in TripIds, CreateWork(t)
    PROVE  UNCHANGED life
<1> USE DEF CreateWork, PublishTripCreated, driverVars, paymentVars, gatewayVars
<1> DEFINE m == Message("trip.event.created", trips[t].user, TripData(t))
<1>1. Publish(m) /\ m.key = "trip.event.created" /\ m.body.trip = t
    BY DEF Message, TripData
<1>2. t \in Created /\ Created' = Created \ {t}
    BY DEF Created, IInv, TripsInv
<1>3. Searched' = Searched \cup {t}
    BY <1>1, Published, QueueKeys DEF Searched
<1>4. \A p \in {"driver_cmd_trip_request", "driver_cmd_trip_response"} : queues'[p] = queues[p]
    BY <1>1, KeysApart, QueueKeys
<1>5. Chosen' = Chosen /\ Refused' = Refused /\ Charged' = Charged
    BY PlacesStay
<1> QED
    BY <1>2, <1>3, <1>4, <1>5, SameLives DEF Searching, WithDriver, OwnersIn, ShownRequests

LEMMA SearchLives ==
    ASSUME IInv, InOnePlace, NEW scan, Search(scan),
           UNCHANGED <<tripVars, paymentVars, offer>>
    PROVE  UNCHANGED life
<1> USE DEF tripVars, paymentVars
<1> DEFINE q == "find_available_drivers"
           t == Head(queues[q]).body.trip
<1>1. Ready(q) /\ Pop(q) /\ Deliver(q) /\ q \in Queues /\ finding'.pc = "found"
    BY QueueKeys DEF Search, Deliver
<1>2. Once(q) /\ queues[q] # <<>>
    BY <1>1 DEF InOnePlace, Alone, Ready
<1>3. /\ t \in Searched /\ Searched' = Searched \ {t}
      /\ \A p \in Queues : p # q => queues'[p] = queues[p]
    BY <1>1, <1>2, OwnersPopped DEF Searched
<1>4. Chosen = {} /\ Chosen' = {t}
    BY <1>1, ReadyIsIdle, Delivered DEF Chosen, InHand
<1>5. \A p \in {"driver_cmd_trip_request", "driver_cmd_trip_response"} : queues'[p] = queues[p]
    BY <1>3, QueueKeys
<1>6. Created' = Created /\ Refused' = Refused /\ Charged' = Charged
    <2>1. unacked'["driver_cmd_trip_response"] = unacked["driver_cmd_trip_response"]
        BY <1>1, Delivered, QueueKeys
    <2> QED
        BY <2>1, PlacesStay
<1> QED
    BY <1>3, <1>4, <1>5, <1>6, SameLives DEF Searching, WithDriver, OwnersIn, ShownRequests

LEMMA PublishFoundLives ==
    ASSUME IInv, IInv', InOnePlace, PublishFound,
           UNCHANGED <<tripVars, paymentVars, gatewayVars>>
    PROVE  [LifeCycle!LifeNext]_life
<1> USE DEF tripVars, paymentVars, gatewayVars
<1> DEFINE h == Handling("find_available_drivers")
           asked == "driver_cmd_trip_request"
<1>1. /\ finding.pc = "found" /\ finding' = [finding EXCEPT !.pc = "done"]
      /\ UNCHANGED <<pendingTrips, unacked>>
    BY DEF PublishFound
<1>2. PICK t : t = h.body.trip
    OBVIOUS
<1>3. Chosen = {t} /\ Chosen' = {}
    BY <1>1, <1>2 DEF Chosen, InHand, IInv, FindInv
<1>4. t \in TripIds
    BY <1>3, InHandKnown DEF IInv, TripsInv
<1>5. Searching(t) /\ WithDriver(t) = {} /\ BearersOf(t) = {Dispatch}
    BY <1>3, OneBearer DEF Searching
<1>6. t \notin Created /\ t \notin Searched /\ t \notin Refused
    BY <1>3, PlaceNames DEF InOnePlace, Apart
<1>7. CASE finding.driver = NoDriver
    <2>1. Aside
        BY <1>7, NoticesAreAside DEF PublishFound, Message
    <2>2. /\ Created' = Created /\ Searched' = Searched
          /\ Refused' = Refused /\ Charged' = Charged
        BY <1>1, <2>1, PlacesStay DEF Aside
    <2>3. \A x : WithDriver(x)' = WithDriver(x)
        BY <2>1 DEF Aside, WithDriver, OwnersIn, ShownRequests
    <2>4. ASSUME NEW x \in TripIds, x # t PROVE LifeOf(x)' = LifeOf(x)
        BY <1>3, <2>2, <2>3, <2>4, LifeStays DEF Searching
    <2>5. BearersOf(t)' = {}
        BY <1>3, <1>5, <1>6, <2>2, <2>3 DEF BearersOf, Searching
    <2>6. LifeCycle!GiveUp(LifeOf(t), LifeOf(t)')
        BY <1>5, <2>2, <2>5, ChangesHands DEF LifeCycle!GiveUp, LifeCycle!Passes
    <2> QED
        BY <1>4, <2>4, <2>6, OneLives DEF LifeCycle!Step
<1>8. CASE finding.driver # NoDriver
    <2> DEFINE m == Message("driver.cmd.trip_request", finding.driver, h.body)
    <2>1. Publish(m) /\ m.key = "driver.cmd.trip_request" /\ m.body.trip = t
          /\ m.owner = finding.driver
        BY <1>2, <1>8 DEF PublishFound, Message
    <2>2. finding.driver \in Drivers
        BY <1>8 DEF IInv, FindInv
    <2>3. \A x : OwnersIn(asked, x)' = OwnersIn(asked, x) \cup {o \in {finding.driver} : x = t}
        BY <2>1, OwnersSent, QueueKeys
    <2>4. \A p \in {"find_available_drivers", "driver_cmd_trip_response"} : queues'[p] = queues[p]
        BY <2>1, KeysApart, QueueKeys
    <2>5. /\ Created' = Created /\ Searched' = Searched
          /\ Refused' = Refused /\ Charged' = Charged
        BY <1>1, <2>4, PlacesStay
    <2>6. \A x : WithDriver(x)' = WithDriver(x) \cup {o \in {finding.driver} : x = t}
        <3>1. \A x : OwnersIn("driver_cmd_trip_response", x)'
                        = OwnersIn("driver_cmd_trip_response", x)
            BY <2>4, OwnersStay
        <3>2. \A x : ShownRequests(x)' = ShownRequests(x)
            BY DEF ShownRequests
        <3> QED
            BY <2>3, <3>1, <3>2 DEF WithDriver
    <2>7. ASSUME NEW x \in TripIds, x # t PROVE LifeOf(x)' = LifeOf(x)
        BY <1>3, <2>5, <2>6, <2>7, LifeStays DEF Searching
    <2>8. BearersOf(t)' = {finding.driver}
        BY <1>3, <1>5, <1>6, <2>5, <2>6 DEF BearersOf, Searching
    <2>9. LifeCycle!Offer(LifeOf(t), LifeOf(t)')
        BY <1>5, <2>2, <2>5, <2>8, ChangesHands DEF LifeCycle!Offer, LifeCycle!Passes
    <2> QED
        BY <1>4, <2>7, <2>9, OneLives DEF LifeCycle!Step
<1> QED
    BY <1>7, <1>8

-----------------------------------------------------------------------------
\* An answer is taken up, turned into a search or into a charge.

LEMMA AcceptLives ==
    ASSUME IInv, IInv', InOnePlace, Accept, UNCHANGED <<driverVars, paymentVars, gatewayVars>>
    PROVE  [LifeCycle!LifeNext]_life
<1> USE DEF driverVars, paymentVars, gatewayVars
<1> DEFINE q == "driver_cmd_trip_response"
           m == Head(queues[q])
<1>1. PICK t, d : t = m.body.trip /\ d = m.body.driver
    OBVIOUS
<1>2. Ready(q) /\ Pop(q) /\ q \in Queues /\ UNCHANGED calls /\ m.key = "driver.cmd.trip_accept"
    BY QueueKeys DEF Accept, Deliver
<1>3. Once(q) /\ queues[q] # <<>>
    BY <1>2 DEF InOnePlace, Alone, Ready
<1>4. /\ m \in TrueMessages /\ t \in Replied /\ OwnersIn(q, t) = {m.owner}
      /\ \A x : OwnersIn(q, x)' = IF x = t THEN {} ELSE OwnersIn(q, x)
      /\ \A p \in Queues : p # q => queues'[p] = queues[p]
    BY <1>1, <1>2, <1>3, OwnersPopped DEF Replied
<1>5. m.owner = d /\ d \in Drivers /\ t \in DOMAIN trips
    BY <1>1, <1>2, <1>4, TrueMessagesByKey DEF Answers, Fits, Message
<1>6. t \in TripIds /\ trips[t] \in Trip
    BY <1>5 DEF IInv, TripsInv
<1>7. trips[t].status = "pending" /\ t \notin Charged
    BY <1>4, PlaceNames DEF InOnePlace, StillPending, Apart
<1>8. /\ trips' = [trips EXCEPT ![t] = Accepted(t, d)] /\ answer' = "updated" /\ Deliver(q)
    <2>1. Modifies(t, Accepted(t, d))
        BY <1>5, <1>6, <1>7 DEF Modifies, Accepted, Trip
    <2> QED
        BY <1>1, <2>1 DEF Accept
<1>9. Refused' = Refused
    BY <1>2, <1>8, ReadyIsIdle DEF Refused, InHand
<1>10. /\ Created' = Created /\ Searched' = Searched /\ Chosen' = Chosen /\ Charged' = Charged
    <2>1. /\ queues'["find_available_drivers"] = queues["find_available_drivers"]
          /\ unacked'["find_available_drivers"] = unacked["find_available_drivers"]
        BY <1>2, <1>4, <1>8, Delivered, QueueKeys
    <2> QED
        BY <1>2, <2>1, PlacesStay
<1>11. \A x : WithDriver(x)' = IF x = t THEN {} ELSE WithDriver(x)
    <2>1. \A x : OwnersIn("driver_cmd_trip_request", x)' = OwnersIn("driver_cmd_trip_request", x)
        BY <1>4, OwnersStay, QueueKeys
    <2>2. \A x : ShownRequests(x)' = ShownRequests(x)
        BY DEF ShownRequests
    <2>3. OwnersIn("driver_cmd_trip_request", t) = {} /\ ShownRequests(t) = {}
        BY <1>4, OneBearer
    <2> QED
        BY <1>4, <2>1, <2>2, <2>3 DEF WithDriver
<1>12. trips = [x \in DOMAIN trips |-> trips[x]]
    BY DEF IInv, TripsInv
<1>13. ASSUME NEW x \in TripIds, x # t PROVE LifeOf(x)' = LifeOf(x)
    BY <1>8, <1>9, <1>10, <1>11, <1>12, <1>13, LifeStays DEF Searching
<1>14. ~Searching(t) /\ BearersOf(t) = {d}
    BY <1>4, <1>5, OneBearer
<1>15. LifeOf(t).phase = "waiting" /\ LifeOf(t).bearers = {d}
    BY <1>5, <1>7, <1>14 DEF LifeOf, PhaseOf
<1>16. t \in DOMAIN trips' /\ trips'[t].status = "accepted" /\ trips'[t].driver = d
    BY <1>5, <1>6, <1>8, <1>12 DEF Accepted, Trip
<1>17. ~Searching(t)' /\ WithDriver(t)' = {}
    BY <1>9, <1>10, <1>11, <1>14 DEF Searching
<1>18. LifeOf(t)' = [phase |-> "taken", bearers |-> {}, taker |-> d]
    BY <1>7, <1>10, <1>16, <1>17 DEF LifeOf, PhaseOf, BearersOf
<1>19. LifeCycle!Take(LifeOf(t), LifeOf(t)')
    BY <1>5, <1>15, <1>18 DEF LifeCycle!Take, LifeCycle!Advances, LifeCycle!Passes
<1> QED
    BY <1>6, <1>13, <1>19, OneLives DEF LifeCycle!Step

LEMMA DeclineLives ==
    ASSUME IInv, IInv', InOnePlace, Decline, UNCHANGED <<driverVars, paymentVars, gatewayVars>>
    PROVE  [LifeCycle!LifeNext]_life
<1> USE DEF driverVars, paymentVars, gatewayVars
<1> DEFINE q == "driver_cmd_trip_response"
           m == Head(queues[q])
<1>1. PICK t, d : t = m.body.trip /\ d = m.owner
    OBVIOUS
<1>2. /\ Ready(q) /\ Pop(q) /\ Deliver(q) /\ q \in Queues /\ answer' = "declining"
      /\ m.key = "driver.cmd.trip_decline" /\ UNCHANGED <<calls, trips>>
    BY QueueKeys DEF Decline, Deliver
<1>3. Once(q) /\ queues[q] # <<>>
    BY <1>2 DEF InOnePlace, Alone, Ready
<1>4. /\ m \in TrueMessages /\ t \in Replied /\ OwnersIn(q, t) = {d}
      /\ \A x : OwnersIn(q, x)' = IF x = t THEN {} ELSE OwnersIn(q, x)
      /\ \A p \in Queues : p # q => queues'[p] = queues[p]
    BY <1>1, <1>2, <1>3, OwnersPopped DEF Replied
<1>5. d \in Drivers /\ t \in TripIds
    <2>1. d \in Drivers /\ t \in DOMAIN trips
        BY <1>1, <1>2, <1>4, TrueMessagesByKey DEF Answers, Fits, Message
    <2> QED
        BY <2>1 DEF IInv, TripsInv
<1>6. Refused = {} /\ Refused' = {t}
    BY <1>1, <1>2, ReadyIsIdle, Delivered DEF Refused, InHand
<1>7. /\ Created' = Created /\ Searched' = Searched /\ Chosen' = Chosen /\ Charged' = Charged
    <2>1. /\ queues'["find_available_drivers"] = queues["find_available_drivers"]
          /\ unacked'["find_available_drivers"] = unacked["find_available_drivers"]
        BY <1>2, <1>4, Delivered, QueueKeys
    <2> QED
        BY <1>2, <2>1, PlacesStay
<1>8. \A x : WithDriver(x)' = IF x = t THEN {} ELSE WithDriver(x)
    <2>1. \A x : OwnersIn("driver_cmd_trip_request", x)' = OwnersIn("driver_cmd_trip_request", x)
        BY <1>4, OwnersStay, QueueKeys
    <2>2. \A x : ShownRequests(x)' = ShownRequests(x)
        BY DEF ShownRequests
    <2>3. OwnersIn("driver_cmd_trip_request", t) = {} /\ ShownRequests(t) = {}
        BY <1>4, OneBearer
    <2> QED
        BY <1>4, <2>1, <2>2, <2>3 DEF WithDriver
<1>9. ASSUME NEW x \in TripIds, x # t PROVE LifeOf(x)' = LifeOf(x)
    BY <1>2, <1>6, <1>7, <1>8, <1>9, LifeStays DEF Searching
<1>10. BearersOf(t) = {d} /\ BearersOf(t)' = {Dispatch}
    BY <1>4, <1>6, <1>8, OneBearer DEF BearersOf, Searching
<1>11. LifeCycle!Refuse(LifeOf(t), LifeOf(t)')
    BY <1>2, <1>5, <1>7, <1>10, ChangesHands DEF LifeCycle!Refuse, LifeCycle!Passes
<1> QED
    BY <1>5, <1>9, <1>11, OneLives DEF LifeCycle!Step

LEMMA PublishNotInterestedLives ==
    ASSUME IInv, PublishNotInterested, UNCHANGED <<driverVars, paymentVars, gatewayVars>>
    PROVE  UNCHANGED life
<1> USE DEF driverVars, paymentVars, gatewayVars
<1> DEFINE h == Handling("driver_cmd_trip_response")
           t == h.body.trip
           m == Message("trip.event.driver_not_interested", h.body.user, TripData(t))
<1>1. /\ answer = "declining" /\ answer' = "done" /\ Publish(m)
      /\ m.key = "trip.event.driver_not_interested" /\ m.body.trip = t
      /\ UNCHANGED <<trips, calls, unacked>>
    BY DEF PublishNotInterested, Message, TripData
<1>2. Refused = {t} /\ Refused' = {}
    BY <1>1 DEF Refused, InHand
<1>3. Searched' = Searched \cup {t}
    BY <1>1, Published, QueueKeys DEF Searched
<1>4. \A p \in {"driver_cmd_trip_request", "driver_cmd_trip_response"} : queues'[p] = queues[p]
    BY <1>1, KeysApart, QueueKeys
<1>5. Created' = Created /\ Chosen' = Chosen /\ Charged' = Charged
    BY <1>1, PlacesStay
<1> QED
    BY <1>1, <1>2, <1>3, <1>4, <1>5, SameLives DEF Searching, WithDriver, OwnersIn, ShownRequests

LEMMA PublishCreateSessionLives ==
    ASSUME IInv, PublishCreateSession, UNCHANGED <<driverVars, paymentVars, gatewayVars>>
    PROVE  UNCHANGED life
<1> USE DEF driverVars, paymentVars, gatewayVars
<1>1. PICK m : Publish(m) /\ m.key = "payment.cmd.create_session"
    BY DEF PublishCreateSession, Message
<1>2. /\ answer = "assigned" /\ answer' = "done" /\ UNCHANGED <<trips, calls, unacked>>
    BY DEF PublishCreateSession
<1>3. Refused = {} /\ Refused' = {}
    BY <1>2 DEF Refused, InHand
<1>4. \A p \in {"find_available_drivers", "driver_cmd_trip_request",
                "driver_cmd_trip_response"} : queues'[p] = queues[p]
    BY <1>1, KeysApart, QueueKeys
<1>5. Created' = Created /\ Searched' = Searched /\ Chosen' = Chosen /\ Charged' = Charged
    BY <1>2, <1>4, PlacesStay
<1> QED
    BY <1>2, <1>3, <1>4, <1>5, SameLives DEF Searching, WithDriver, OwnersIn, ShownRequests

\* A charge meets a trip that was taken and not charged before.
LEMMA CreateSessionLives ==
    ASSUME IInv, IInv', InOnePlace, CreateSession, UNCHANGED <<tripVars, driverVars, gatewayVars>>
    PROVE  [LifeCycle!LifeNext]_life
<1> USE DEF tripVars, driverVars, gatewayVars
<1> DEFINE q == "payment_trip_response"
           m == Head(queues[q])
           n == Len(sessions)
<1>1. PICK t : t = m.body.trip
    OBVIOUS
<1>2. Ready(q) /\ Pop(q) /\ Deliver(q) /\ q \in Queues
    BY QueueKeys DEF CreateSession, Deliver
<1>3. Once(q) /\ queues[q] # <<>>
    BY <1>2 DEF InOnePlace, Alone, Ready
<1>4. t \in Due /\ \A p \in Queues : p # q => queues'[p] = queues[p]
    BY <1>1, <1>2, <1>3, OwnersPopped DEF Due
<1>5. t \notin Charged
    BY <1>4, PlaceNames DEF InOnePlace, Apart
<1>6. /\ n \in Nat /\ 1..Len(sessions') = 1..n \cup {n + 1}
      /\ \A i \in 1..n : sessions'[i] = sessions[i]
      /\ sessions'[n + 1].trip = t
    BY <1>1 DEF CreateSession, IInv, SessionsInv
<1>7. Charged' = Charged \cup {t}
    BY <1>6 DEF Charged
<1>8. t \in DOMAIN trips /\ t \in TripIds /\ trips[t] \in Trip
    BY <1>4, QueuesKnowTrips DEF IInv, TripsInv
<1>9. trips[t].status = "accepted"
    <2>1. trips[t].status # "pending"
        BY <1>6 DEF IInv, SessionsInv, SessionsMatchTrips
    <2>2. trips[t].status # "payed"
        BY <1>5, <1>8 DEF IInv, TripsInv, PaidTripsWereCharged, ChargesFor, Charged
    <2> QED
        BY <1>8, <2>1, <2>2 DEF Trip
<1>10. \A p \in {"find_available_drivers", "driver_cmd_trip_request",
                "driver_cmd_trip_response"} : queues'[p] = queues[p]
    BY <1>4, QueueKeys
<1>11. /\ unacked'["find_available_drivers"] = unacked["find_available_drivers"]
       /\ unacked'["driver_cmd_trip_response"] = unacked["driver_cmd_trip_response"]
    BY <1>2, Delivered, QueueKeys
<1>12. Created' = Created /\ Searched' = Searched /\ Chosen' = Chosen /\ Refused' = Refused
    BY <1>10, <1>11, PlacesStay
<1>13. \A x : (Searching(x)' <=> Searching(x)) /\ WithDriver(x)' = WithDriver(x)
    BY <1>10, <1>12 DEF Searching, WithDriver, OwnersIn, ShownRequests
<1>14. ASSUME NEW x \in TripIds, x # t PROVE LifeOf(x)' = LifeOf(x)
    BY <1>7, <1>13, <1>14, LifeStays
<1>15. BearersOf(t)' = BearersOf(t)
    BY <1>13 DEF BearersOf
<1>16. PhaseOf(t) = "taken" /\ PhaseOf(t)' = "charged"
    BY <1>5, <1>7, <1>8, <1>9 DEF PhaseOf
<1>17. LifeCycle!Charge(LifeOf(t), LifeOf(t)')
    BY <1>15, <1>16 DEF LifeOf, LifeCycle!Charge, LifeCycle!Advances
<1> QED
    BY <1>8, <1>14, <1>17, OneLives DEF LifeCycle!Step

LEMMA PayStepLives ==
    ASSUME IInv, IInv', PayStep
    PROVE  [LifeCycle!LifeNext]_life
<1> USE DEF PayStep, driverVars, paymentVars, gatewayVars
<1> DEFINE q == "payment_success"
           m == Head(queues[q])
<1>1. PICK t : t = m.body.trip
    OBVIOUS
<1>2. StandsStill
    BY MarkPayedAside
<1>3. Ready(q)
    BY DEF MarkPayed
<1>4. m \in Payments
    BY <1>3, CarriedNow, HeadIsCarried, QueueKeys, TrueMessagesByKey DEF Ready
<1>5. PICK i \in 1..Len(sessions) : sessions[i].trip = t
    BY <1>1, <1>4 DEF Payments, Message
<1>6. /\ t \in Charged /\ t \in DOMAIN trips /\ t \in TripIds
      /\ trips[t] \in Trip /\ trips[t].status # "pending"
    BY <1>5 DEF Charged, IInv, SessionsInv, SessionsMatchTrips, TripsInv
<1>7. CASE ~Modifies(t, Payed(t))
    BY <1>1, <1>2, <1>7, StillLives DEF MarkPayed
<1>8. CASE Modifies(t, Payed(t))
    <2>1. trips' = [trips EXCEPT ![t] = Payed(t)] /\ trips[t] # Payed(t)
        BY <1>1, <1>8 DEF MarkPayed, Modifies
    <2>2. trips = [x \in DOMAIN trips |-> trips[x]]
        BY DEF IInv, TripsInv
    <2>3. trips[t].status = "accepted"
        BY <1>6, <2>1 DEF Payed, Trip
    <2>4. /\ Created' = Created /\ Searched' = Searched /\ Chosen' = Chosen
          /\ Refused' = Refused /\ Charged' = Charged /\ UNCHANGED offer
          /\ queues'["driver_cmd_trip_request"] = queues["driver_cmd_trip_request"]
          /\ queues'["driver_cmd_trip_response"] = queues["driver_cmd_trip_response"]
        BY <1>2, PlaceNames DEF StandsStill
    <2>5. \A x : (Searching(x)' <=> Searching(x)) /\ WithDriver(x)' = WithDriver(x)
        BY <2>4 DEF Searching, WithDriver, OwnersIn, ShownRequests
    <2>6. ASSUME NEW x \in TripIds, x # t PROVE LifeOf(x)' = LifeOf(x)
        BY <2>1, <2>2, <2>4, <2>5, <2>6, LifeStays
    <2>7. BearersOf(t)' = BearersOf(t)
        BY <2>5 DEF BearersOf
    <2>8. /\ t \in DOMAIN trips' /\ trips'[t].status = "payed"
          /\ trips'[t].driver = trips[t].driver
        BY <1>6, <2>1, <2>2 DEF Payed, Trip
    <2>9. PhaseOf(t) = "charged" /\ PhaseOf(t)' = "payed"
        BY <1>6, <2>3, <2>8 DEF PhaseOf
    <2>10. LifeCycle!Pay(LifeOf(t), LifeOf(t)')
        BY <1>6, <2>7, <2>8, <2>9 DEF LifeOf, LifeCycle!Pay, LifeCycle!Advances
    <2> QED
        BY <1>6, <2>6, <2>10, OneLives DEF LifeCycle!Step
<1> QED
    BY <1>7, <1>8

-----------------------------------------------------------------------------
\* The pages of the drivers.

\* A page that loses its request to another, or to nothing: the trip of the
\* request is nobody's from then on.
LEMMA PageLosesRequest ==
    ASSUME IInv, IInv', InOnePlace, UNCHANGED trips, Charged' = Charged,
           \A x : Searching(x)' <=> Searching(x),
           NEW d \in Drivers, offer[d].status = "request",
           \A x \in TripIds : x # offer[d].trip => WithDriver(x)' = WithDriver(x),
           NEW y, y = offer[d].trip, WithDriver(y)' = {}
    PROVE  [LifeCycle!LifeNext]_life
<1>1. y \in Shown /\ y \in TripIds
    BY DEF Shown, IInv, DriverPagesInv
<1>2. ShownRequests(y) = {d}
    BY DEF ShownRequests, InOnePlace, Alone, OnePage
<1>3. BearersOf(y) = {d} /\ BearersOf(y)' = {}
    BY <1>1, <1>2, OneBearer DEF BearersOf
<1>4. ASSUME NEW x \in TripIds, x # y PROVE LifeOf(x)' = LifeOf(x)
    BY <1>4, LifeStays
<1>5. LifeCycle!GiveUp(LifeOf(y), LifeOf(y)')
    BY <1>3, ChangesHands DEF LifeCycle!GiveUp, LifeCycle!Passes
<1> QED
    BY <1>1, <1>4, <1>5, OneLives DEF LifeCycle!Step

LEMMA ShowRequestLives ==
    ASSUME IInv, IInv', InOnePlace, PushRequest
    PROVE  [LifeCycle!LifeNext]_life
<1> USE DEF PushRequest, ShowRequest, tripVars, driverVars, paymentVars, riderPages
<1> DEFINE q == "driver_cmd_trip_request"
           m == Head(queues[q])
<1>1. PICK t, d : t = m.body.trip /\ d = m.owner
    OBVIOUS
<1>2. q \in Queues /\ Pop(q) /\ queues[q] # <<>> /\ Once(q)
    BY QueueKeys DEF InOnePlace, Alone
<1>3. /\ m \in TrueMessages /\ m.key \in Bindings[q]
      /\ t \in Requested /\ OwnersIn(q, t) = {d}
      /\ \A x : OwnersIn(q, x)' = IF x = t THEN {} ELSE OwnersIn(q, x)
      /\ \A p \in Queues : p # q => queues'[p] = queues[p]
    BY <1>1, <1>2, OwnersPopped DEF Requested
<1>4. d \in Drivers /\ t \in TripIds
    BY <1>1, <1>3, QueueKeys, MessagesKnowTrips DEF IInv, TripsInv
<1>5. /\ ~Searching(t) /\ BearersOf(t) = {d} /\ ShownRequests(t) = {} /\ t \notin Shown
      /\ OwnersIn("driver_cmd_trip_response", t) = {}
    BY <1>3, OneBearer, NoOwners
<1>6. \A p \in {"find_available_drivers", "driver_cmd_trip_response"} : queues'[p] = queues[p]
    BY <1>3, QueueKeys
<1>7. /\ Charged' = Charged /\ UNCHANGED trips
      /\ \A x : Searching(x)' <=> Searching(x)
    BY <1>6, PlacesStay DEF Searching
<1>8. \A x : OwnersIn("driver_cmd_trip_response", x)' = OwnersIn("driver_cmd_trip_response", x)
    BY <1>6, OwnersStay
<1>9. CASE ~Connected(d)
    <2>1. \A x : ShownRequests(x)' = ShownRequests(x)
        BY <1>1, <1>9 DEF ShownRequests
    <2>2. ASSUME NEW x \in TripIds, x # t PROVE LifeOf(x)' = LifeOf(x)
        BY <1>3, <1>7, <1>8, <2>1, <2>2, LifeStays DEF WithDriver
    <2>3. BearersOf(t)' = {}
        BY <1>3, <1>5, <1>7, <1>8, <2>1 DEF BearersOf, WithDriver
    <2>4. LifeCycle!GiveUp(LifeOf(t), LifeOf(t)')
        BY <1>4, <1>5, <1>7, <2>3, ChangesHands DEF LifeCycle!GiveUp, LifeCycle!Passes
    <2> QED
        BY <1>4, <2>2, <2>4, OneLives DEF LifeCycle!Step
<1>10. CASE Connected(d)
    <2>1. /\ offer'[d].status = "request" /\ offer'[d].trip = t
          /\ \A e \in Drivers : e # d => offer'[e] = offer[e]
        BY <1>1, <1>4, <1>10 DEF IInv, DriverPagesInv
    <2>2. ShownRequests(t)' = {d}
        BY <1>4, <1>5, <2>1 DEF ShownRequests
    <2>3. WithDriver(t) = {d} /\ WithDriver(t)' = {d}
        BY <1>3, <1>5, <1>8, <2>2 DEF WithDriver
    <2>4. \A x : x # t => ShownRequests(x)' = ShownRequests(x) \ {d}
        BY <1>4, <2>1 DEF ShownRequests
    <2>5. CASE offer[d].status = "request"
        <3>1. PICK y : y = offer[d].trip
            OBVIOUS
        <3>2. y # t /\ y \in Shown /\ ShownRequests(y) = {d}
            BY <1>4, <1>5, <2>5, <3>1 DEF Shown, ShownRequests, InOnePlace, Alone, OnePage
        <3>3. \A x : x # y => d \notin ShownRequests(x)
            BY <3>1 DEF ShownRequests
        <3>4. \A x : x # y => WithDriver(x)' = WithDriver(x)
            BY <1>3, <1>8, <2>3, <2>4, <3>3 DEF WithDriver
        <3>5. /\ OwnersIn(q, y) = {} /\ OwnersIn("driver_cmd_trip_response", y) = {}
            BY <3>2, OneBearer
        <3>6. WithDriver(y)' = {}
            BY <1>3, <1>8, <2>4, <3>2, <3>5 DEF WithDriver
        <3> QED
            BY <1>4, <1>7, <2>5, <3>1, <3>4, <3>6, PageLosesRequest
    <2>6. CASE offer[d].status # "request"
        <3>1. \A x : x # t => ShownRequests(x)' = ShownRequests(x)
            BY <2>4, <2>6 DEF ShownRequests
        <3>2. \A x : WithDriver(x)' = WithDriver(x)
            BY <1>3, <1>8, <2>3, <3>1 DEF WithDriver
        <3> QED
            BY <1>7, <3>2, SameLives
    <2> QED
        BY <2>5, <2>6
<1> QED
    BY <1>9, <1>10

LEMMA ShowWithdrawnLives ==
    ASSUME IInv, IInv', InOnePlace, PushWithdrawn
    PROVE  [LifeCycle!LifeNext]_life
<1> USE DEF PushWithdrawn, ShowWithdrawn, tripVars, driverVars, paymentVars, riderPages
<1>1. PICK d : d = Head(queues["driver_cmd_trip_cancelled"]).owner
    OBVIOUS
<1>2. Aside
    BY QueueKeys, CarriedNow DEF Pop, Aside, Carried
<1>3. /\ Charged' = Charged /\ UNCHANGED trips
      /\ \A x : Searching(x)' <=> Searching(x)
    BY <1>2, PlacesStay DEF Aside, Searching
<1>4. /\ \A x : OwnersIn("driver_cmd_trip_response", x)' = OwnersIn("driver_cmd_trip_response", x)
      /\ \A x : OwnersIn("driver_cmd_trip_request", x)' = OwnersIn("driver_cmd_trip_request", x)
    BY <1>2, OwnersStay DEF Aside
<1>5. CASE d \in Drivers /\ Connected(d) /\ offer[d].status = "request"
    <2>1. PICK y : y = offer[d].trip
        OBVIOUS
    <2>2. /\ offer'[d].status # "request"
          /\ \A e \in Drivers : e # d => offer'[e] = offer[e]
        BY <1>1, <1>5 DEF IInv, DriverPagesInv
    <2>3. \A x : ShownRequests(x)' = ShownRequests(x) \ {d}
        BY <1>5, <2>2 DEF ShownRequests
    <2>4. y \in Shown /\ ShownRequests(y) = {d} /\ \A x : x # y => d \notin ShownRequests(x)
        BY <1>5, <2>1 DEF Shown, ShownRequests, InOnePlace, Alone, OnePage
    <2>5. /\ OwnersIn("driver_cmd_trip_request", y) = {}
          /\ OwnersIn("driver_cmd_trip_response", y) = {}
        BY <2>4, OneBearer
    <2>6. WithDriver(y)' = {} /\ \A x : x # y => WithDriver(x)' = WithDriver(x)
        BY <1>4, <2>3, <2>4, <2>5 DEF WithDriver
    <2> QED
        BY <1>3, <1>5, <2>1, <2>6, PageLosesRequest
<1>6. CASE ~(d \in Drivers /\ Connected(d) /\ offer[d].status = "request")
    <2>1. \A e \in Drivers :
            offer'[e] = offer[e] \/ (offer[e].status # "request" /\ offer'[e].status # "request")
        BY <1>1, <1>6 DEF IInv, DriverPagesInv
    <2>2. \A x : ShownRequests(x)' = ShownRequests(x)
        BY <2>1 DEF ShownRequests
    <2> QED
        BY <1>3, <1>4, <2>2, SameLives DEF WithDriver
<1> QED
    BY <1>5, <1>6

\* The request leaves the page with the answer to it.
LEMMA SendAnswerLives ==
    ASSUME IInv, InOnePlace, NEW d \in Drivers, SendAccept(d) \/ SendDecline(d),
           UNCHANGED <<tripVars, driverVars, paymentVars>>
    PROVE  UNCHANGED life
<1> USE DEF tripVars, driverVars, paymentVars, riderPages
<1>1. PICK t : t = offer[d].trip
    OBVIOUS
<1>2. PICK k \in {"driver.cmd.trip_accept", "driver.cmd.trip_decline"} :
        Publish(Answer(d, k))
    BY DEF SendAccept, SendDecline
<1>3. offer[d].status = "request" /\ UNCHANGED unacked
    BY DEF SendAccept, SendDecline, MayAnswer
<1>4. Answer(d, k).key = k /\ Answer(d, k).body.trip = t /\ Answer(d, k).owner = d
    BY <1>1 DEF Answer, Message
<1>5. /\ offer'[d].status # "request"
      /\ \A e \in Drivers \ {d} : offer'[e] = offer[e]
    <2>1. DOMAIN offer = Drivers /\ offer[d] \in [trip : TripIds, user : Riders, status : {"request"}]
        BY <1>3 DEF IInv, DriverPagesInv
    <2> QED
        BY <2>1 DEF SendAccept, SendDecline, NoOffer
<1>6. ShownRequests(t) = {d} /\ ShownRequests(t)' = {}
    BY <1>1, <1>3, <1>5 DEF ShownRequests, InOnePlace, Alone, OnePage
<1>7. \A x : x # t => ShownRequests(x)' = ShownRequests(x)
    BY <1>1, <1>3, <1>5 DEF ShownRequests
<1>8. \A x : OwnersIn("driver_cmd_trip_response", x)'
                = OwnersIn("driver_cmd_trip_response", x) \cup {o \in {d} : x = t}
    BY <1>2, <1>4, OwnersSent, QueueKeys
<1>9. \A p \in {"find_available_drivers", "driver_cmd_trip_request"} : queues'[p] = queues[p]
    BY <1>2, <1>4, KeysApart, QueueKeys
<1>10. \A x : OwnersIn("driver_cmd_trip_request", x)' = OwnersIn("driver_cmd_trip_request", x)
    BY <1>9, OwnersStay
<1>11. \A x : WithDriver(x)' = WithDriver(x)
    BY <1>6, <1>7, <1>8, <1>10 DEF WithDriver
<1>12. Charged' = Charged /\ \A x : Searching(x)' <=> Searching(x)
    BY <1>3, <1>9, PlacesStay DEF Searching
<1> QED
    BY <1>11, <1>12, SameLives

-----------------------------------------------------------------------------
\* All steps together.

LEMMA LifeStart == Init => LifeCycle!LifeInit
<1> SUFFICES ASSUME Init, NEW t \in TripIds
             PROVE  LifeOf(t) = [phase |-> "unknown", bearers |-> {}, taker |-> NoDriver]
    BY DEF LifeCycle!LifeInit, life
<1>1. IInv /\ InOnePlace
    BY InitEstablishes, OffersStart DEF OffersInv, Init, BrokerInit
<1>2. t \notin DOMAIN trips
    BY DEF Init, TripInit
<1>3. ~Searching(t) /\ WithDriver(t) = {}
    <2>1. \A i \in 1..10 : t \notin Places[i]
        BY <1>1, <1>2, PlacesKnowTrips
    <2> QED
        BY <2>1, PlaceNames, NoOwners DEF Searching, WithDriver, Requested, Replied
<1> QED
    BY <1>2, <1>3 DEF LifeOf, PhaseOf, BearersOf

Faultless == faults = 0

LEMMA LifeGoesOn ==
    IInv /\ IInv' /\ OffersInv /\ Faultless' /\ [Next]_vars => [LifeCycle!LifeNext]_life
<1> SUFFICES ASSUME IInv, IInv', OffersInv, faults' = 0, [Next]_vars
             PROVE  [LifeCycle!LifeNext]_life
    BY DEF Faultless
<1>1. StillStep \/ MovingStep \/ PayStep
    BY StepsWithoutFailure
<1>2. InOnePlace
    BY <1>1, FaultsStay DEF OffersInv
<1>3. CASE StillStep
    BY <1>2, <1>3, StillStepsStandStill, StillLives DEF InOnePlace, Recallable
<1>4. CASE MovingStep
    <2>1. CASE FindDriver /\ UNCHANGED <<tripVars, paymentVars, gatewayVars>>
        BY <1>2, <2>1, SearchLives DEF FindDriver, gatewayVars
    <2>2. ASSUME NEW d \in Drivers, Unregister(d), FindWhileUnregistering(d)
          PROVE  UNCHANGED life
        BY <1>2, <2>2, SearchLives
        DEF FindWhileUnregistering, Unregister, DriverGone, riderPages
    <2> QED
        BY <1>2, <1>4, <2>1, <2>2, StartTripLives, CreateWorkLives, PublishFoundLives,
           ShowRequestLives, ShowWithdrawnLives, SendAnswerLives, AcceptLives, DeclineLives,
           PublishNotInterestedLives, PublishCreateSessionLives, CreateSessionLives
        DEF MovingStep
<1> QED
    BY <1>1, <1>2, <1>3, <1>4, PayStepLives

\* The services and the pages together implement the life cycle of a trip in
\* every behaviour in which nothing fails, so in every one when MaxFaults is 0.
THEOREM LifeCycleIsFollowed == Spec /\ [](faults = 0) => FollowsLifeCycle
<1>1. Spec => [](IInv /\ OffersInv)
    BY Invariance, OnePlacePerTrip, PTL
<1>2. faults = 0 => Faultless
    BY DEF Faultless
<1> QED
    BY <1>1, <1>2, LifeStart, LifeGoesOn, PTL DEF Spec, FollowsLifeCycle, LifeCycle!LifeSpec

=============================================================================
