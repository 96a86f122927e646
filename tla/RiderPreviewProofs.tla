------------------------- MODULE RiderPreviewProofs -------------------------
(***************************************************************************)
(* A fare the page lists is in the database, with the price of its route,   *)
(* and a page that waits for one thing at a time knows the trip it started, *)
(* for every number of requests, trips, cancellations and places.           *)
(***************************************************************************)
EXTENDS RiderPreview, TLAPS

\* What a call has saved is in the collection, and it answers only after all.
SavedInv ==
    \A r \in 1..Len(requests) :
        /\ \A i \in 1..requests[r].saved : Fare(r, i) \in fares
        /\ requests[r].pc \in {"routing", "saving"} => requests[r].saved < Len(BaseFares)
        /\ requests[r].pc \in {"answered", "shown"} => requests[r].saved = Len(BaseFares)

\* What the page shows, and what it started a trip with, was answered.
ShownInv ==
    /\ trip.request # 0 => requests[trip.request].pc = "shown"
    /\ \A s \in 1..Len(starts) : requests[starts[s].request].pc = "shown"

PageInv == TypeOK /\ SavedInv /\ ShownInv

\* Until two answers race, a page with a trip waits for no preview and no other
\* start, and a cancellation it waits for is its trip's.
OneThingAtATime ==
    trip.id # 0 =>
        /\ ~PreviewUnderWay
        /\ \A s \in 1..Len(starts) : starts[s].pc \notin {"sent", "created"}
        /\ leaving > 0 => trip.id \in cancelled

KnownInv == TripsAreKept /\ (raced \/ OneThingAtATime)

-----------------------------------------------------------------------------
LEMMA BaseFaresType ==
    /\ Len(BaseFares) = 4
    /\ \A i \in 1..Len(BaseFares) : BaseFares[i].price \in Nat
BY DEF BaseFares

\* The fare of a request and a package is one the collection may hold.
LEMMA FareType ==
    ASSUME TypeOK, NEW r \in 1..Len(requests), NEW i \in 1..Len(BaseFares)
    PROVE  Fare(r, i) \in [request : 1..Len(requests), price : Nat,
                           slug : Slugs]
<1>1. requests[r].to \in Places
  <2>1. requests \in Seq(Request)
    BY DEF TypeOK
  <2>2. requests[r] \in Request
    BY <2>1
  <2> QED
    BY <2>2 DEF Request
<1>2. Metres[requests[r].to] \in Nat /\ Seconds[requests[r].to] \in Nat
  BY <1>1, PlacesAssumption
<1>3. Estimate(i, requests[r].to) \in Nat
  <2>1. \A p, m, t \in Nat : 100 * p + 150 * m + 25 * t \in Nat
    OBVIOUS
  <2>2. BaseFares[i].price \in Nat
    BY BaseFaresType
  <2> QED
    BY <1>2, <2>1, <2>2 DEF Estimate
<1> QED
  BY <1>3 DEF Fare, Slugs

\* A fare depends on where its request goes and on nothing else.
LEMMA FareStays ==
    ASSUME NEW r, requests'[r].to = requests[r].to, NEW i
    PROVE  Fare(r, i)' = Fare(r, i)
BY DEF Fare, Estimate, BaseFares

\* A listed fare was stored before the page was answered.
LEMMA PageInvImplies == PageInv => ListedFaresExist
<1> SUFFICES ASSUME PageInv, trip.request # 0, NEW i \in 1..Len(BaseFares)
             PROVE  Fare(trip.request, i) \in fares
  BY DEF ListedFaresExist
<1>1. trip.request \in 1..Len(requests)
  BY DEF PageInv, TypeOK
<1>2. requests[trip.request].saved = Len(BaseFares)
  BY <1>1 DEF PageInv, SavedInv, ShownInv
<1> QED
  BY <1>1, <1>2 DEF PageInv, SavedInv

LEMMA InitPage == Init => PageInv
<1> SUFFICES ASSUME Init PROVE PageInv
  OBVIOUS
<1>1. Len(requests) = 0 /\ Len(starts) = 0
  BY DEF Init
<1>2. TypeOK
  <2>1. requests \in Seq(Request) /\ starts \in Seq(Start)
    BY DEF Init
  <2>2. fares \subseteq [request : 1..Len(requests), slug : Slugs, price : Nat]
    BY DEF Init
  <2>3. trip \in [request : 0..Len(requests), id : 0..Len(starts)]
    BY <1>1 DEF Init, NoPreview
  <2>4. 0 \in 0..MaxCancels /\ cancelled \subseteq 1..Len(starts)
    BY BoundsAssumption DEF Init
  <2> QED
    BY <2>1, <2>2, <2>3, <2>4 DEF Init, TypeOK
<1> QED
  BY <1>1, <1>2 DEF PageInv, SavedInv, ShownInv, Init, NoPreview

\* The stored fares do not depend on the rest of the page.
LEMMA SavedStays ==
    ASSUME SavedInv, UNCHANGED <<fares, requests>>
    PROVE  SavedInv'
<1> SUFFICES ASSUME NEW r \in 1..Len(requests)
             PROVE  /\ \A i \in 1..requests[r].saved : Fare(r, i)' \in fares
                    /\ requests[r].pc \in {"routing", "saving"} =>
                           requests[r].saved < Len(BaseFares)
                    /\ requests[r].pc \in {"answered", "shown"} =>
                           requests[r].saved = Len(BaseFares)
  BY DEF SavedInv, BaseFares
<1> QED
  BY FareStays DEF SavedInv

\* Everything a page knows of its requests is typed alike when more are sent.
LEMMA StartsStay ==
    ASSUME starts \in Seq(Start), Len(requests') \in Nat, Len(requests) \in Nat,
           Len(requests) <= Len(requests'), UNCHANGED starts
    PROVE  starts' \in Seq(Start)'
<1>1. Start \subseteq Start'
  BY DEF Start, BaseFares
<1> QED
  BY <1>1

\* One step of trip-service or of the page on request r.
LEMMA ServeKeeps ==
    ASSUME PageInv,
           NEW r \in 1..Len(requests), NEW e \in Request,
           requests' = [requests EXCEPT ![r] = e],
           requests[r].pc # "shown", e.to = requests[r].to,
           fares \subseteq fares',
           fares' \subseteq [request : 1..Len(requests), slug : Slugs, price : Nat],
           \A i \in 1..e.saved : Fare(r, i) \in fares',
           e.pc \in {"routing", "saving"} => e.saved < Len(BaseFares),
           e.pc \in {"answered", "shown"} => e.saved = Len(BaseFares),
           trip' = trip \/ (trip' = [request |-> r, id |-> 0] /\ e.pc = "shown"),
           UNCHANGED <<starts, timer, status, leaving, cancelled, raced>>
    PROVE  PageInv'
<1>1. requests \in Seq(Request) /\ starts \in Seq(Start)
  BY DEF PageInv, TypeOK
<1>2. requests' \in Seq(Request) /\ Len(requests') = Len(requests)
  BY <1>1
<1>3. \A k \in 1..Len(requests) : requests'[k] = IF k = r THEN e ELSE requests[k]
  BY <1>1
<1>4. TypeOK'
  <2>1. starts' \in Seq(Start)'
    BY <1>1, <1>2, StartsStay
  <2>2. Request' = Request /\ Slugs' = Slugs
    BY DEF Request, Slugs, BaseFares
  <2>3. trip' \in [request : 0..Len(requests), id : 0..Len(starts)]
    BY <1>1 DEF PageInv, TypeOK
  <2> QED
    BY <1>2, <2>1, <2>2, <2>3 DEF PageInv, TypeOK
<1>5. SavedInv'
  <2> SUFFICES ASSUME NEW k \in 1..Len(requests)
               PROVE  /\ \A i \in 1..requests'[k].saved : Fare(k, i)' \in fares'
                      /\ requests'[k].pc \in {"routing", "saving"} =>
                             requests'[k].saved < Len(BaseFares)
                      /\ requests'[k].pc \in {"answered", "shown"} =>
                             requests'[k].saved = Len(BaseFares)
    BY <1>2 DEF SavedInv, BaseFares
  <2>1. \A i : Fare(k, i)' = Fare(k, i)
    BY <1>3, FareStays
  <2>2. CASE k = r
    BY <1>3, <2>1, <2>2
  <2>3. CASE k # r
    BY <1>3, <2>1, <2>3 DEF PageInv, SavedInv
  <2> QED
    BY <2>2, <2>3
<1>6. ShownInv'
  <2>1. ASSUME NEW k \in 1..Len(requests), requests[k].pc = "shown"
        PROVE  requests'[k].pc = "shown"
    BY <1>3, <2>1
  <2>2. \A s \in 1..Len(starts) : starts[s].request \in 1..Len(requests)
    <3>1. \A s \in 1..Len(starts) : starts[s] \in Start
      BY <1>1
    <3> QED
      BY <3>1 DEF Start
  <2>3. trip'.request # 0 => requests'[trip'.request].pc = "shown"
    <3>1. CASE trip' = trip
      BY <2>1, <3>1 DEF PageInv, TypeOK, ShownInv
    <3>2. CASE trip' = [request |-> r, id |-> 0] /\ e.pc = "shown"
      BY <1>3, <3>2
    <3> QED
      BY <3>1, <3>2
  <2> QED
    BY <2>1, <2>2, <2>3 DEF PageInv, ShownInv
<1> QED
  BY <1>4, <1>5, <1>6 DEF PageInv

\* A call of a known request is a Request, and its number is one of them.
LEMMA RequestType ==
    ASSUME TypeOK, NEW r \in 1..Len(requests)
    PROVE  requests[r] \in Request
<1>1. requests \in Seq(Request)
  BY DEF TypeOK
<1> QED
  BY <1>1

LEMMA StartType ==
    ASSUME TypeOK, NEW s \in 1..Len(starts)
    PROVE  starts[s] \in Start
<1>1. starts \in Seq(Start)
  BY DEF TypeOK
<1> QED
  BY <1>1

LEMMA FindRouteKeeps ==
    ASSUME PageInv, NEW r \in 1..Len(requests), FindRoute(r)
    PROVE  PageInv'
<1> DEFINE e == [requests[r] EXCEPT !.pc = "saving"]
<1>1. requests[r] \in Request /\ requests[r].pc = "routing"
  BY RequestType DEF PageInv, FindRoute
<1>2. e \in Request /\ e.to = requests[r].to /\ e.saved = requests[r].saved
      /\ e.pc = "saving"
  BY <1>1 DEF Request
<1>3. requests' = [requests EXCEPT ![r] = e]
  BY DEF FindRoute
<1>4. fares' = fares
      /\ UNCHANGED <<trip, starts, timer, status, leaving, cancelled, raced>>
  BY DEF FindRoute
<1>5. (\A i \in 1..e.saved : Fare(r, i) \in fares') /\ e.saved < Len(BaseFares)
  BY <1>1, <1>2, <1>4 DEF PageInv, SavedInv
<1>6. fares' \subseteq [request : 1..Len(requests), slug : Slugs, price : Nat]
  BY <1>4 DEF PageInv, TypeOK
<1> HIDE DEF e
<1> QED
  BY <1>1, <1>2, <1>3, <1>4, <1>5, <1>6, ServeKeeps

LEMMA PreviewFailsKeeps ==
    ASSUME PageInv, NEW r \in 1..Len(requests), PreviewFails(r)
    PROVE  PageInv'
<1> DEFINE e == [requests[r] EXCEPT !.pc = "failed"]
<1>1. requests[r] \in Request /\ requests[r].pc \in {"routing", "saving"}
  BY RequestType DEF PageInv, PreviewFails
<1>2. e \in Request /\ e.to = requests[r].to /\ e.saved = requests[r].saved
      /\ e.pc = "failed"
  BY <1>1 DEF Request
<1>3. requests' = [requests EXCEPT ![r] = e]
  BY DEF PreviewFails
<1>4. fares' = fares
      /\ UNCHANGED <<trip, starts, timer, status, leaving, cancelled, raced>>
  BY DEF PreviewFails
<1>5. \A i \in 1..e.saved : Fare(r, i) \in fares'
  BY <1>2, <1>4 DEF PageInv, SavedInv
<1>6. fares' \subseteq [request : 1..Len(requests), slug : Slugs, price : Nat]
  BY <1>4 DEF PageInv, TypeOK
<1> HIDE DEF e
<1> QED
  BY <1>1, <1>2, <1>3, <1>4, <1>5, <1>6, ServeKeeps

LEMMA ShowPreviewKeeps ==
    ASSUME PageInv, NEW r \in 1..Len(requests), ShowPreview(r)
    PROVE  PageInv'
<1> DEFINE e == [requests[r] EXCEPT !.pc = "shown"]
<1>1. requests[r] \in Request /\ requests[r].pc = "answered"
  BY RequestType DEF PageInv, ShowPreview
<1>2. e \in Request /\ e.to = requests[r].to /\ e.saved = requests[r].saved
      /\ e.pc = "shown"
  BY <1>1 DEF Request
<1>3. requests' = [requests EXCEPT ![r] = e]
  BY DEF ShowPreview
<1>4. fares' = fares /\ trip' = [request |-> r, id |-> 0]
      /\ UNCHANGED <<starts, timer, status, leaving, cancelled, raced>>
  BY DEF ShowPreview
<1>5. /\ \A i \in 1..e.saved : Fare(r, i) \in fares'
      /\ e.saved = Len(BaseFares)
  BY <1>1, <1>2, <1>4 DEF PageInv, SavedInv
<1>6. fares' \subseteq [request : 1..Len(requests), slug : Slugs, price : Nat]
  BY <1>4 DEF PageInv, TypeOK
<1> HIDE DEF e
<1> QED
  BY <1>1, <1>2, <1>3, <1>4, <1>5, <1>6, ServeKeeps

LEMMA SaveFareKeeps ==
    ASSUME PageInv, NEW r \in 1..Len(requests), SaveFare(r)
    PROVE  PageInv'
<1> DEFINE k == requests[r].saved + 1
           p == IF k = Len(BaseFares) THEN "answered" ELSE "saving"
           e == [requests[r] EXCEPT !.saved = k, !.pc = p]
<1>1. requests[r] \in Request /\ requests[r].pc = "saving"
  BY RequestType DEF PageInv, SaveFare
<1>2. requests[r].saved \in 0..Len(BaseFares) /\ requests[r].saved < Len(BaseFares)
  BY <1>1 DEF PageInv, SavedInv, Request
<1>3. Len(BaseFares) \in Nat
  BY BaseFaresType
<1>4. k \in 1..Len(BaseFares)
  BY <1>2, <1>3
<1>5. /\ e \in Request /\ e.to = requests[r].to /\ e.saved = k
      /\ e.pc = p
  <2>1. k \in 0..Len(BaseFares)
    BY <1>3, <1>4
  <2>2. p \in {"answered", "saving"}
    OBVIOUS
  <2> HIDE DEF k, p
  <2> QED
    BY <1>1, <2>1, <2>2 DEF Request
<1>6. requests' = [requests EXCEPT ![r] = e] /\ fares' = fares \cup {Fare(r, k)}
  BY DEF SaveFare
<1>7. UNCHANGED <<trip, starts, timer, status, leaving, cancelled, raced>>
  BY DEF SaveFare
<1>8. \A i \in 1..e.saved : Fare(r, i) \in fares'
  <2>1. \A i \in 1..requests[r].saved : Fare(r, i) \in fares
    BY DEF PageInv, SavedInv
  <2>2. \A i \in 1..k : i = k \/ i \in 1..requests[r].saved
    BY <1>2, <1>3
  <2> HIDE DEF k, e
  <2> QED
    BY <1>5, <1>6, <2>1, <2>2
<1>9. fares' \subseteq [request : 1..Len(requests), slug : Slugs, price : Nat]
  BY <1>4, <1>6, FareType DEF PageInv, TypeOK
<1> HIDE DEF e, p, k
<1>10. (e.pc \in {"routing", "saving"} => e.saved < Len(BaseFares))
       /\ (e.pc \in {"answered", "shown"} => e.saved = Len(BaseFares))
  BY <1>3, <1>4, <1>5 DEF p
<1> QED
  BY <1>1, <1>5, <1>6, <1>7, <1>8, <1>9, <1>10, ServeKeeps

\* A new request has saved nothing and is shown nowhere.
LEMMA RequestPreviewKeeps ==
    ASSUME PageInv, RequestPreview
    PROVE  PageInv'
<1> DEFINE e == [to |-> timer, pc |-> "routing", saved |-> 0]
           n == Len(requests)
<1>1. requests \in Seq(Request) /\ starts \in Seq(Start) /\ n \in Nat
  BY DEF PageInv, TypeOK
<1>2. e \in Request /\ requests' = Append(requests, e)
  BY BaseFaresType DEF PageInv, TypeOK, RequestPreview, Request
<1>3. UNCHANGED <<fares, starts, trip, status, leaving, cancelled, raced>>
  BY DEF RequestPreview
<1>4. /\ requests' \in Seq(Request) /\ Len(requests') = n + 1
      /\ \A k \in 1..n : requests'[k] = requests[k]
      /\ requests'[n + 1] = e
  BY <1>1, <1>2
<1>5. TypeOK'
  <2>1. starts' \in Seq(Start)'
    BY <1>1, <1>3, <1>4, StartsStay
  <2>2. Request' = Request /\ Slugs' = Slugs
    BY DEF Request, Slugs, BaseFares
  <2>3. trip \in [request : 0..(n + 1), id : 0..Len(starts)]
    BY <1>1 DEF PageInv, TypeOK
  <2>4. fares \subseteq [request : 1..(n + 1), slug : Slugs, price : Nat]
    <3>1. fares \subseteq [request : 1..n, slug : Slugs, price : Nat]
      BY DEF PageInv, TypeOK
    <3>2. 1..n \subseteq 1..(n + 1)
      BY <1>1
    <3> QED
      BY <3>1, <3>2
  <2>5. timer' \in Places \cup {NoPlace}
    BY DEF RequestPreview
  <2> HIDE DEF n
  <2> QED
    BY <1>3, <1>4, <2>1, <2>2, <2>3, <2>4, <2>5 DEF PageInv, TypeOK
<1>6. SavedInv'
  <2> SUFFICES ASSUME NEW k \in 1..(n + 1)
               PROVE  /\ \A i \in 1..requests'[k].saved : Fare(k, i)' \in fares
                      /\ requests'[k].pc \in {"routing", "saving"} =>
                             requests'[k].saved < Len(BaseFares)
                      /\ requests'[k].pc \in {"answered", "shown"} =>
                             requests'[k].saved = Len(BaseFares)
    BY <1>3, <1>4 DEF SavedInv, BaseFares
  <2>1. CASE k = n + 1
    BY <1>4, <2>1, BaseFaresType
  <2>2. CASE k # n + 1
    <3>1. k \in 1..n
      BY <1>1, <2>2
    <3>2. \A i : Fare(k, i)' = Fare(k, i)
      BY <1>4, <3>1, FareStays
    <3> QED
      BY <1>4, <3>1, <3>2 DEF PageInv, SavedInv
  <2> QED
    BY <2>1, <2>2
<1>7. ShownInv'
  <2>1. \A s \in 1..Len(starts) : starts[s].request \in 1..n
    BY StartType DEF PageInv, Start
  <2>2. trip.request \in 0..n
    BY DEF PageInv, TypeOK
  <2> HIDE DEF n
  <2>3. trip.request # 0 => trip.request \in 1..n
    BY <1>1, <2>2
  <2> QED
    BY <1>3, <1>4, <2>1, <2>3 DEF PageInv, ShownInv
<1> QED
  BY <1>5, <1>6, <1>7 DEF PageInv

\* The panic fails calls that are under way, and none of them was shown.
LEMMA PanicWithoutRouteKeeps ==
    ASSUME PageInv, NEW r \in 1..Len(requests), PanicWithoutRoute(r)
    PROVE  PageInv'
<1> DEFINE Fail(c) == IF InService(c) THEN [c EXCEPT !.pc = "failed"] ELSE c
<1>1. /\ requests' = [k \in 1..Len(requests) |-> Fail(requests[k])]
      /\ starts' = [k \in 1..Len(starts) |-> Fail(starts[k])]
      /\ UNCHANGED <<fares, timer, trip, status, leaving, cancelled, raced>>
  BY DEF PanicWithoutRoute
<1>2. Len(requests) \in Nat /\ Len(starts) \in Nat
  BY DEF PageInv, TypeOK
<1>3. \A k \in 1..Len(requests) : requests[k] \in Request
  BY RequestType DEF PageInv
<1>4. \A k \in 1..Len(starts) : starts[k] \in Start
  BY StartType DEF PageInv
<1>5. \A k \in 1..Len(requests) :
        /\ Fail(requests[k]) \in Request
        /\ Fail(requests[k]).to = requests[k].to
        /\ Fail(requests[k]).saved = requests[k].saved
        /\ Fail(requests[k]).pc = requests[k].pc \/ Fail(requests[k]).pc = "failed"
        /\ requests[k].pc = "shown" => Fail(requests[k]).pc = "shown"
  BY <1>3 DEF Request, InService
<1>6. \A k \in 1..Len(starts) :
        /\ Fail(starts[k]) \in Start
        /\ Fail(starts[k]).request = starts[k].request
  BY <1>4 DEF Start, InService
<1> HIDE DEF Fail
<1>7. /\ requests' \in Seq(Request) /\ Len(requests') = Len(requests)
      /\ starts' \in Seq(Start) /\ Len(starts') = Len(starts)
  BY <1>1, <1>2, <1>5, <1>6
<1>8. TypeOK'
  <2>1. Request' = Request /\ Start' = Start /\ Slugs' = Slugs
    BY <1>7 DEF Request, Start, Slugs, BaseFares
  <2> QED
    BY <1>1, <1>7, <2>1 DEF PageInv, TypeOK
<1>9. SavedInv'
  <2> SUFFICES ASSUME NEW k \in 1..Len(requests)
               PROVE  /\ \A i \in 1..requests'[k].saved : Fare(k, i)' \in fares
                      /\ requests'[k].pc \in {"routing", "saving"} =>
                             requests'[k].saved < Len(BaseFares)
                      /\ requests'[k].pc \in {"answered", "shown"} =>
                             requests'[k].saved = Len(BaseFares)
    BY <1>1, <1>7 DEF SavedInv, BaseFares
  <2>1. requests'[k] = Fail(requests[k])
    BY <1>1
  <2>2. \A i : Fare(k, i)' = Fare(k, i)
    BY <1>5, <2>1, FareStays
  <2> QED
    BY <1>5, <2>1, <2>2 DEF PageInv, SavedInv
<1>10. ShownInv'
  <2>1. \A k \in 1..Len(requests) :
            requests[k].pc = "shown" => requests'[k].pc = "shown"
    BY <1>1, <1>5
  <2>2. \A s \in 1..Len(starts) :
            starts'[s].request = starts[s].request /\ starts[s].request \in 1..Len(requests)
    BY <1>1, <1>4, <1>6 DEF Start
  <2>3. trip.request # 0 => trip.request \in 1..Len(requests)
    BY <1>2 DEF PageInv, TypeOK
  <2> QED
    BY <1>1, <1>7, <2>1, <2>2, <2>3 DEF PageInv, ShownInv
<1> QED
  BY <1>8, <1>9, <1>10 DEF PageInv

\* One step of CreateTrip, or of the page on its answer.
LEMMA ServeStartKeeps ==
    ASSUME PageInv,
           NEW s \in 1..Len(starts), NEW e \in Start,
           starts' = [starts EXCEPT ![s] = e], e.request = starts[s].request,
           trip' = trip \/ trip' = [request |-> starts[s].request, id |-> s],
           raced' \in BOOLEAN,
           UNCHANGED <<fares, requests, timer, status, leaving, cancelled>>
    PROVE  PageInv'
<1>1. starts \in Seq(Start) /\ Len(starts) \in Nat /\ Len(requests) \in Nat
  BY DEF PageInv, TypeOK
<1>2. starts' \in Seq(Start) /\ Len(starts') = Len(starts)
  BY <1>1
<1>3. \A k \in 1..Len(starts) : starts'[k] = IF k = s THEN e ELSE starts[k]
  BY <1>1
<1>4. starts[s].request \in 1..Len(requests)
  BY StartType DEF PageInv, Start
<1>5. TypeOK'
  <2>1. Request' = Request /\ Start' = Start /\ Slugs' = Slugs
    BY DEF Request, Start, Slugs, BaseFares
  <2>2. trip' \in [request : 0..Len(requests), id : 0..Len(starts)]
    BY <1>1, <1>4 DEF PageInv, TypeOK
  <2> QED
    BY <1>2, <2>1, <2>2 DEF PageInv, TypeOK
<1>6. SavedInv'
  BY SavedStays DEF PageInv
<1>7. ShownInv'
  BY <1>2, <1>3 DEF PageInv, ShownInv
<1> QED
  BY <1>5, <1>6, <1>7 DEF PageInv

LEMMA SelectPackageKeeps ==
    ASSUME PageInv, NEW i \in 1..Len(BaseFares), SelectPackage(i)
    PROVE  PageInv'
<1> DEFINE e == [request |-> trip.request, package |-> i, pc |-> "sent", created |-> FALSE]
           n == Len(starts)
<1>1. starts \in Seq(Start) /\ n \in Nat /\ Len(requests) \in Nat
  BY DEF PageInv, TypeOK
<1>2. starts' = Append(starts, e)
      /\ UNCHANGED <<fares, requests, timer, trip, status, leaving, cancelled, raced>>
  BY DEF SelectPackage
<1>3. trip.request \in 1..Len(requests)
  BY <1>1 DEF PageInv, TypeOK, SelectPackage, Listing
<1>4. e \in Start
  BY <1>3 DEF Start
<1>5. /\ starts' \in Seq(Start) /\ Len(starts') = n + 1
      /\ \A k \in 1..(n + 1) : starts'[k] = IF k = n + 1 THEN e ELSE starts[k]
  BY <1>1, <1>2, <1>4
<1>6. TypeOK'
  <2>1. Request' = Request /\ Start' = Start /\ Slugs' = Slugs
    BY <1>2 DEF Request, Start, Slugs, BaseFares
  <2>2. trip \in [request : 0..Len(requests), id : 0..(n + 1)]
    BY <1>1 DEF PageInv, TypeOK
  <2>3. cancelled \subseteq 1..(n + 1)
    BY <1>1 DEF PageInv, TypeOK
  <2> HIDE DEF n
  <2> QED
    BY <1>2, <1>5, <2>1, <2>2, <2>3 DEF PageInv, TypeOK
<1>7. SavedInv'
  BY <1>2, SavedStays DEF PageInv
<1>8. ShownInv'
  <2>1. requests[trip.request].pc = "shown"
    BY <1>3 DEF PageInv, ShownInv
  <2> QED
    BY <1>1, <1>2, <1>5, <2>1 DEF PageInv, ShownInv
<1> QED
  BY <1>6, <1>7, <1>8 DEF PageInv

LEMMA CreateTripKeeps ==
    ASSUME PageInv, NEW s \in 1..Len(starts), CreateTrip(s)
    PROVE  PageInv'
<1>1. UNCHANGED <<fares, requests, timer, trip, status, leaving, cancelled, raced>>
  BY DEF CreateTrip
<1>2. starts[s] \in Start /\ raced \in BOOLEAN
  BY StartType DEF PageInv, TypeOK
<1>3. CASE starts' = [starts EXCEPT ![s] = [@ EXCEPT !.pc = "created", !.created = TRUE]]
  <2> DEFINE e == [starts[s] EXCEPT !.pc = "created", !.created = TRUE]
  <2>1. e \in Start /\ e.request = starts[s].request
    BY <1>2 DEF Start
  <2>2. starts' = [starts EXCEPT ![s] = e]
    BY <1>3
  <2> HIDE DEF e
  <2> QED
    BY <1>1, <1>2, <2>1, <2>2, ServeStartKeeps
<1>4. CASE starts' = [starts EXCEPT ![s].pc = "failed"]
  <2> DEFINE e == [starts[s] EXCEPT !.pc = "failed"]
  <2>1. e \in Start /\ e.request = starts[s].request
    BY <1>2 DEF Start
  <2>2. starts' = [starts EXCEPT ![s] = e]
    BY <1>4
  <2> HIDE DEF e
  <2> QED
    BY <1>1, <1>2, <2>1, <2>2, ServeStartKeeps
<1> QED
  BY <1>3, <1>4 DEF CreateTrip

LEMMA StartFailsKeeps ==
    ASSUME PageInv, NEW s \in 1..Len(starts), StartFails(s)
    PROVE  PageInv'
<1> DEFINE e == [starts[s] EXCEPT !.pc = "failed"]
<1>1. starts[s] \in Start /\ raced \in BOOLEAN
  BY StartType DEF PageInv, TypeOK
<1>2. e \in Start /\ e.request = starts[s].request
  BY <1>1 DEF Start
<1>3. starts' = [starts EXCEPT ![s] = e]
      /\ UNCHANGED <<fares, requests, timer, trip, status, leaving, cancelled, raced>>
  BY DEF StartFails
<1> HIDE DEF e
<1> QED
  BY <1>1, <1>2, <1>3, ServeStartKeeps

LEMMA LearnTripKeeps ==
    ASSUME PageInv, NEW s \in 1..Len(starts), LearnTrip(s)
    PROVE  PageInv'
<1> DEFINE e == [starts[s] EXCEPT !.pc = "done"]
<1>1. starts[s] \in Start /\ raced \in BOOLEAN
  BY StartType DEF PageInv, TypeOK
<1>2. e \in Start /\ e.request = starts[s].request
  BY <1>1 DEF Start
<1>3. starts' = [starts EXCEPT ![s] = e]
      /\ trip' = [request |-> starts[s].request, id |-> s]
      /\ UNCHANGED <<fares, requests, timer, status, leaving, cancelled>>
  BY DEF LearnTrip
<1>4. raced' \in BOOLEAN
  BY <1>1 DEF LearnTrip
<1> HIDE DEF e
<1> QED
  BY <1>2, <1>3, <1>4, ServeStartKeeps

\* The rider's clicks, the notices and the end of a cancellation.
LEMMA PageKeeps ==
    ASSUME PageInv, (\E p \in Places : ClickMap(p))
                    \/ (\E s \in 1..Len(starts) : TripNotice(s))
                    \/ CancelTrip \/ CancelAnswered \/ BackToMap
    PROVE  PageInv'
<1>1. UNCHANGED <<fares, requests, starts>>
  BY DEF ClickMap, TripNotice, CancelTrip, CancelAnswered, BackToMap
<1>2. trip' = trip \/ trip' = NoPreview
  BY DEF ClickMap, TripNotice, CancelTrip, CancelAnswered, BackToMap, Reset
<1>3. Len(starts) \in Nat /\ Len(requests) \in Nat
  BY DEF PageInv, TypeOK
<1>4. TypeOK'
  <2>1. Request' = Request /\ Start' = Start /\ Slugs' = Slugs
    BY <1>1 DEF Request, Start, Slugs, BaseFares
  <2>2. trip' \in [request : 0..Len(requests), id : 0..Len(starts)]
    BY <1>2, <1>3 DEF NoPreview, PageInv, TypeOK
  <2>3. timer' \in Places \cup {NoPlace} /\ status' \in {"none", "told"}
    BY DEF PageInv, TypeOK, ClickMap, TripNotice, CancelTrip, CancelAnswered, BackToMap,
           Reset
  <2>4. leaving' \in 0..MaxCancels
    <3>1. leaving \in 0..MaxCancels
      BY DEF PageInv, TypeOK
    <3> QED
      BY <3>1, BoundsAssumption
      DEF ClickMap, TripNotice, CancelTrip, CancelAnswered, BackToMap
  <2>5. cancelled' \subseteq 1..Len(starts)
    <3>1. cancelled \subseteq 1..Len(starts) /\ trip.id \in 0..Len(starts)
      BY DEF PageInv, TypeOK
    <3>2. trip.id # 0 => trip.id \in 1..Len(starts)
      BY <1>3, <3>1
    <3> QED
      BY <3>1, <3>2 DEF ClickMap, TripNotice, CancelTrip, CancelAnswered, BackToMap
  <2>6. raced' \in BOOLEAN
    BY DEF PageInv, TypeOK, ClickMap, TripNotice, CancelTrip, CancelAnswered, BackToMap,
           Reset
  <2> QED
    BY <1>1, <2>1, <2>2, <2>3, <2>4, <2>5, <2>6 DEF PageInv, TypeOK
<1>5. SavedInv'
  BY <1>1, SavedStays DEF PageInv
<1>6. ShownInv'
  BY <1>1, <1>2 DEF PageInv, ShownInv, NoPreview
<1> QED
  BY <1>4, <1>5, <1>6 DEF PageInv

-----------------------------------------------------------------------------
LEMMA NextKeepsPage == PageInv /\ [Next]_vars => PageInv'
<1> SUFFICES ASSUME PageInv, [Next]_vars PROVE PageInv'
  OBVIOUS
<1>1. CASE RequestPreview
  BY <1>1, RequestPreviewKeeps
<1>2. ASSUME NEW r \in 1..Len(requests), ServeRequest(r) \/ PreviewFails(r)
      PROVE  PageInv'
  BY <1>2, FindRouteKeeps, PanicWithoutRouteKeeps, SaveFareKeeps, ShowPreviewKeeps,
     PreviewFailsKeeps DEF ServeRequest
<1>3. ASSUME NEW i \in 1..Len(BaseFares), SelectPackage(i)
      PROVE  PageInv'
  BY <1>3, SelectPackageKeeps
<1>4. ASSUME NEW s \in 1..Len(starts), ServeStart(s) \/ StartFails(s)
      PROVE  PageInv'
  BY <1>4, CreateTripKeeps, LearnTripKeeps, StartFailsKeeps DEF ServeStart
<1>5. CASE (\E p \in Places : ClickMap(p))
           \/ (\E s \in 1..Len(starts) : TripNotice(s))
           \/ CancelTrip \/ CancelAnswered \/ BackToMap
  BY <1>5, PageKeeps
<1>6. CASE UNCHANGED vars
  <2>1. TypeOK' /\ ShownInv'
    BY <1>6 DEF vars, PageInv, TypeOK, ShownInv, Request, Start, Slugs, BaseFares
  <2> QED
    BY <1>6, <2>1, SavedStays DEF vars, PageInv
<1> QED
  BY <1>1, <1>2, <1>3, <1>4, <1>5, <1>6 DEF Next

\* Every variable of a rider's page and of its calls holds a value of its type,
\* and the calls have saved what their place in GenerateTripFares says.
THEOREM PageInvariance == Spec => []PageInv
  BY InitPage, NextKeepsPage, PTL DEF Spec

\* Types of RiderMap's state, of the PreviewTrip and CreateTrip calls and of the
\* ride_fares collection.
THEOREM PageTypes == Spec => []TypeOK
<1>1. PageInv => TypeOK
  BY DEF PageInv
<1> QED
  BY PageInvariance, <1>1, PTL

\* A fare the page lists was stored by GenerateTripFares with the price of the
\* route it was requested for: CreateTrip finds it however many previews,
\* failures and panics of trip-service came in between.
THEOREM ListedFaresAreStored == Spec => []ListedFaresExist
  BY PageInvariance, PageInvImplies, PTL

-----------------------------------------------------------------------------
\* The page knows its trips as long as its calls only go on: no start comes back
\* to life, and a preview is under way only if one was, or if there is no trip.
LEMMA KnownStays ==
    ASSUME KnownInv, raced => raced',
           Len(starts') = Len(starts),
           \A s \in 1..Len(starts) :
               /\ starts'[s].pc = "done" => starts[s].pc = "done"
               /\ starts'[s].pc \in {"sent", "created"} =>
                      starts[s].pc \in {"sent", "created"},
           trip.id # 0 /\ PreviewUnderWay' => PreviewUnderWay,
           trip'.id = trip.id,
           leaving' > 0 => leaving > 0 \/ trip.id \in cancelled',
           cancelled \subseteq cancelled'
    PROVE  KnownInv'
<1> SUFFICES ASSUME ~raced' PROVE KnownInv'
  BY DEF KnownInv, TripsAreKept
<1>1. ~raced /\ OneThingAtATime
  BY DEF KnownInv
<1>2. \A s \in 1..Len(starts) : starts[s].pc = "done" => trip.id = s \/ s \in cancelled
  BY <1>1 DEF KnownInv, TripsAreKept
<1>3. TripsAreKept'
  BY <1>2 DEF TripsAreKept
<1>4. OneThingAtATime'
  BY <1>1 DEF OneThingAtATime
<1> QED
  BY <1>3, <1>4 DEF KnownInv

\* A page without a trip waits for whatever it likes, when every trip it started
\* is the one it drops or cancelled.
LEMMA PageWithoutTrip ==
    ASSUME KnownInv, trip'.id = 0, raced => raced', UNCHANGED starts,
           cancelled' = cancelled, ~raced => trip.id = 0 \/ trip.id \in cancelled
    PROVE  KnownInv'
<1>1. OneThingAtATime'
  BY DEF OneThingAtATime
<1>2. TripsAreKept'
  BY DEF KnownInv, TripsAreKept
<1> QED
  BY <1>1, <1>2 DEF KnownInv

\* The previews come from and go to a page without a trip.
LEMMA PreviewsKeepTrips ==
    ASSUME PageInv, KnownInv, NEW r \in 1..Len(requests),
           FindRoute(r) \/ SaveFare(r) \/ PreviewFails(r)
    PROVE  KnownInv'
<1>1. requests \in Seq(Request) /\ Len(requests) \in Nat
  BY DEF PageInv, TypeOK
<1>2. UNCHANGED <<starts, timer, trip, leaving, cancelled, raced>>
  BY DEF FindRoute, SaveFare, PreviewFails
<1>3. requests[r].pc \in {"routing", "saving"}
  BY DEF FindRoute, SaveFare, PreviewFails
<1>4. Len(requests') = Len(requests)
  BY <1>1 DEF FindRoute, SaveFare, PreviewFails
<1>5. PreviewUnderWay
  BY <1>3 DEF PreviewUnderWay
<1> QED
  BY <1>2, <1>5, KnownStays

LEMMA ShowPreviewKeepsTrips ==
    ASSUME PageInv, KnownInv, NEW r \in 1..Len(requests), ShowPreview(r)
    PROVE  KnownInv'
<1>1. /\ UNCHANGED <<starts, leaving, cancelled, raced>>
      /\ trip'.id = 0
      /\ requests[r].pc = "answered"
  BY DEF ShowPreview
<1>2. PreviewUnderWay
  BY <1>1 DEF PreviewUnderWay
<1>3. ~raced => trip.id = 0
  BY <1>2 DEF KnownInv, OneThingAtATime
<1> QED
  BY <1>1, <1>3, PageWithoutTrip

LEMMA RequestKeepsTrips ==
    ASSUME PageInv, KnownInv, RequestPreview
    PROVE  KnownInv'
<1>1. UNCHANGED <<starts, trip, leaving, cancelled, raced>> /\ timer # NoPlace
  BY DEF RequestPreview
<1>2. PreviewUnderWay
  BY <1>1 DEF PreviewUnderWay
<1> QED
  BY <1>1, <1>2, KnownStays

\* The panic of trip-service answers no start and starts no preview.
LEMMA PanicKeepsTrips ==
    ASSUME PageInv, KnownInv, NEW r \in 1..Len(requests), PanicWithoutRoute(r)
    PROVE  KnownInv'
<1> DEFINE Fail(c) == IF InService(c) THEN [c EXCEPT !.pc = "failed"] ELSE c
<1>1. /\ starts' = [k \in 1..Len(starts) |-> Fail(starts[k])]
      /\ UNCHANGED <<timer, trip, leaving, cancelled, raced>>
      /\ requests[r].pc = "routing"
  BY DEF PanicWithoutRoute
<1>2. Len(starts) \in Nat /\ \A k \in 1..Len(starts) : starts[k] \in Start
  BY StartType DEF PageInv, TypeOK
<1>3. PreviewUnderWay
  BY <1>1 DEF PreviewUnderWay
<1>4. \A k \in 1..Len(starts) :
        /\ Fail(starts[k]) \in Start
        /\ Fail(starts[k]).pc = starts[k].pc \/ Fail(starts[k]).pc = "failed"
  BY <1>2 DEF Start, InService
<1> HIDE DEF Fail
<1>5. starts' \in Seq(Start) /\ Len(starts') = Len(starts)
  BY <1>1, <1>2, <1>4
<1>6. \A k \in 1..Len(starts) : starts'[k].pc \in {starts[k].pc, "failed"}
  BY <1>1, <1>4
<1> QED
  BY <1>1, <1>3, <1>5, <1>6, KnownStays

\* A start is sent from a page without a trip.
LEMMA SelectPackageKeepsTrips ==
    ASSUME PageInv, KnownInv, NEW i \in 1..Len(BaseFares), SelectPackage(i)
    PROVE  KnownInv'
<1>1. UNCHANGED <<trip, cancelled, raced>> /\ trip.id = 0
  BY DEF SelectPackage, Listing
<1>2. starts \in Seq(Start) /\ Len(starts) \in Nat
  BY DEF PageInv, TypeOK
<1>3. /\ Len(starts') = Len(starts) + 1
      /\ \A s \in 1..Len(starts) : starts'[s] = starts[s]
      /\ starts'[Len(starts) + 1].pc = "sent"
  BY <1>2 DEF SelectPackage
<1>4. OneThingAtATime'
  BY <1>1 DEF OneThingAtATime
<1>5. TripsAreKept'
  <2> SUFFICES ASSUME ~raced, NEW s \in 1..Len(starts'), starts'[s].pc = "done"
               PROVE  trip.id = s \/ s \in cancelled
    BY <1>1 DEF TripsAreKept
  <2>1. s \in 1..Len(starts)
    BY <1>2, <1>3
  <2> QED
    BY <1>3, <2>1 DEF KnownInv, TripsAreKept
<1> QED
  BY <1>4, <1>5 DEF KnownInv

\* One call of CreateTrip goes on without an answer.
LEMMA StartsKeepTrips ==
    ASSUME PageInv, KnownInv, NEW s \in 1..Len(starts), CreateTrip(s) \/ StartFails(s)
    PROVE  KnownInv'
<1>1. UNCHANGED <<requests, timer, trip, leaving, cancelled, raced>>
  BY DEF CreateTrip, StartFails
<1>2. starts \in Seq(Start) /\ Len(starts) \in Nat /\ starts[s] \in Start
  BY StartType DEF PageInv, TypeOK
<1>3. starts[s].pc \in {"sent", "created"}
  BY DEF CreateTrip, StartFails
<1>4. PICK e \in Start : e.pc \in {"created", "failed"} /\ starts' = [starts EXCEPT ![s] = e]
  <2>1. [starts[s] EXCEPT !.pc = "failed"] \in Start
    BY <1>2 DEF Start
  <2>2. [starts[s] EXCEPT !.pc = "failed"].pc = "failed"
    BY <1>2 DEF Start
  <2>3. [starts[s] EXCEPT !.pc = "created", !.created = TRUE] \in Start
    BY <1>2 DEF Start
  <2>4. [starts[s] EXCEPT !.pc = "created", !.created = TRUE].pc = "created"
    BY <1>2 DEF Start
  <2>5. \/ starts' = [starts EXCEPT ![s] = [starts[s] EXCEPT !.pc = "failed"]]
        \/ starts' = [starts EXCEPT ![s] =
               [starts[s] EXCEPT !.pc = "created", !.created = TRUE]]
    BY DEF CreateTrip, StartFails
  <2> QED
    BY <2>1, <2>2, <2>3, <2>4, <2>5
<1>5. Len(starts') = Len(starts)
      /\ \A k \in 1..Len(starts) : starts'[k] = IF k = s THEN e ELSE starts[k]
  BY <1>2, <1>4
<1>6. PreviewUnderWay' = PreviewUnderWay
  BY <1>1 DEF PreviewUnderWay
<1>7. \A k \in 1..Len(starts) :
        /\ starts'[k].pc = "done" => starts[k].pc = "done"
        /\ starts'[k].pc \in {"sent", "created"} => starts[k].pc \in {"sent", "created"}
  BY <1>3, <1>4, <1>5
<1> QED
  BY <1>1, <1>5, <1>6, <1>7, KnownStays

\* The answer of a start comes to a page without a trip, or races with another.
LEMMA LearnTripKeepsTrips ==
    ASSUME PageInv, KnownInv, NEW s \in 1..Len(starts), LearnTrip(s)
    PROVE  KnownInv'
<1> SUFFICES ASSUME ~raced' PROVE KnownInv'
  BY DEF KnownInv, TripsAreKept
<1>1. starts \in Seq(Start) /\ Len(starts) \in Nat /\ starts[s] \in Start
  BY StartType DEF PageInv, TypeOK
<1>2. /\ starts[s].pc = "created"
      /\ trip'.id = s
      /\ UNCHANGED <<requests, timer, leaving, cancelled>>
      /\ ~raced /\ ~PreviewUnderWay /\ ~(leaving > 0)
      /\ \A x \in 1..Len(starts) : x # s => ~StartUnderWay(x)
  BY DEF LearnTrip
<1>3. Len(starts') = Len(starts)
      /\ \A k \in 1..Len(starts) :
             IF k = s THEN starts'[k].pc = "done" ELSE starts'[k] = starts[k]
  BY <1>1 DEF LearnTrip, Start
<1>4. trip.id = 0
  BY <1>2 DEF KnownInv, OneThingAtATime
<1>5. TripsAreKept'
  <2> SUFFICES ASSUME NEW k \in 1..Len(starts), starts'[k].pc = "done"
               PROVE  trip'.id = k \/ k \in cancelled
    BY <1>2, <1>3 DEF TripsAreKept
  <2>1. CASE k = s
    BY <1>2, <2>1
  <2>2. CASE k # s
    BY <1>1, <1>2, <1>3, <1>4, <2>2 DEF KnownInv, TripsAreKept
  <2> QED
    BY <2>1, <2>2
<1>6. OneThingAtATime'
  <2>1. ~PreviewUnderWay'
    BY <1>2 DEF PreviewUnderWay
  <2>2. \A k \in 1..Len(starts) : starts'[k].pc \notin {"sent", "created"}
    BY <1>2, <1>3 DEF StartUnderWay
  <2> QED
    BY <1>2, <1>3, <2>1, <2>2 DEF OneThingAtATime
<1> QED
  BY <1>5, <1>6 DEF KnownInv

\* A click is heard, and a start button pressed, only without a trip; what a
\* cancellation's answer resets is a cancelled trip.
LEMMA PageKeepsTrips ==
    ASSUME PageInv, KnownInv,
           (\E p \in Places : ClickMap(p))
           \/ (\E s \in 1..Len(starts) : TripNotice(s))
           \/ CancelTrip \/ CancelAnswered \/ BackToMap
    PROVE  KnownInv'
<1>1. ASSUME NEW p \in Places, ClickMap(p) PROVE KnownInv'
  <2>1. UNCHANGED <<starts, trip, leaving, cancelled, raced>> /\ trip.id = 0
    BY <1>1 DEF ClickMap
  <2> QED
    BY <2>1, PageWithoutTrip
<1>2. ASSUME NEW s \in 1..Len(starts), TripNotice(s) PROVE KnownInv'
  <2>1. UNCHANGED <<requests, starts, timer, trip, leaving, cancelled, raced>>
    BY <1>2 DEF TripNotice
  <2>2. PreviewUnderWay' = PreviewUnderWay
    BY <2>1 DEF PreviewUnderWay
  <2> QED
    BY <2>1, <2>2, KnownStays
<1>3. CASE CancelTrip
  <2>1. /\ UNCHANGED <<requests, starts, timer, trip, raced>>
        /\ cancelled' = cancelled \cup {trip.id}
    BY <1>3 DEF CancelTrip
  <2>2. PreviewUnderWay' = PreviewUnderWay
    BY <2>1 DEF PreviewUnderWay
  <2> QED
    BY <2>1, <2>2, KnownStays
<1>4. CASE CancelAnswered
  <2>1. UNCHANGED <<starts, cancelled>> /\ trip'.id = 0 /\ (raced => raced') /\ leaving > 0
    BY <1>4 DEF CancelAnswered, Reset, NoPreview
  <2>2. ~raced => trip.id = 0 \/ trip.id \in cancelled
    BY <2>1 DEF KnownInv, OneThingAtATime
  <2> QED
    BY <2>1, <2>2, PageWithoutTrip
<1>5. CASE BackToMap
  <2>1. UNCHANGED <<starts, cancelled>> /\ trip'.id = 0 /\ (raced => raced') /\ trip.id = 0
    BY <1>5 DEF BackToMap, Reset, NoPreview
  <2> QED
    BY <2>1, PageWithoutTrip
<1> QED
  BY <1>1, <1>2, <1>3, <1>4, <1>5

LEMMA InitKnown == Init => KnownInv
<1> SUFFICES ASSUME Init PROVE KnownInv
  OBVIOUS
<1>1. Len(starts) = 0 /\ trip.id = 0
  BY DEF Init, NoPreview
<1> QED
  BY <1>1 DEF KnownInv, TripsAreKept, OneThingAtATime

LEMMA NextKeepsTrips == PageInv /\ KnownInv /\ [Next]_vars => KnownInv'
<1> SUFFICES ASSUME PageInv, KnownInv, [Next]_vars PROVE KnownInv'
  OBVIOUS
<1>1. CASE RequestPreview
  BY <1>1, RequestKeepsTrips
<1>2. ASSUME NEW r \in 1..Len(requests), ServeRequest(r) \/ PreviewFails(r)
      PROVE  KnownInv'
  BY <1>2, PreviewsKeepTrips, ShowPreviewKeepsTrips, PanicKeepsTrips DEF ServeRequest
<1>3. ASSUME NEW i \in 1..Len(BaseFares), SelectPackage(i)
      PROVE  KnownInv'
  BY <1>3, SelectPackageKeepsTrips
<1>4. ASSUME NEW s \in 1..Len(starts), ServeStart(s) \/ StartFails(s)
      PROVE  KnownInv'
  BY <1>4, StartsKeepTrips, LearnTripKeepsTrips DEF ServeStart
<1>5. CASE (\E p \in Places : ClickMap(p))
           \/ (\E s \in 1..Len(starts) : TripNotice(s))
           \/ CancelTrip \/ CancelAnswered \/ BackToMap
  BY <1>5, PageKeepsTrips
<1>6. CASE UNCHANGED vars
  BY <1>6 DEF vars, KnownInv, TripsAreKept, OneThingAtATime, PreviewUnderWay
<1> QED
  BY <1>1, <1>2, <1>3, <1>4, <1>5, <1>6 DEF Next

\* As long as no answer of RiderMap's requests arrives while another is awaited,
\* every trip the page was told to have started is the one handleCancelTrip would
\* cancel, or was cancelled: the panics, failures, notices and double clicks on
\* the way lose none.
THEOREM TripsStayKnown == Spec => []TripsAreKept
<1>1. KnownInv => TripsAreKept
  BY DEF KnownInv
<1> QED
  BY PageInvariance, InitKnown, NextKeepsTrips, <1>1, PTL DEF Spec

=============================================================================
