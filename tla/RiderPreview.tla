---------------------------- MODULE RiderPreview ----------------------------
(***************************************************************************)
(* What happens on a rider's page around a trip: map clicks, previews, the  *)
(* choice of a package and the cancel button (RiderMap.tsx), with the       *)
(* PreviewTrip and CreateTrip calls behind them. Every request of the page  *)
(* is asynchronous and nothing orders or cancels their answers.             *)
(***************************************************************************)
EXTENDS Naturals, Sequences

CONSTANTS
    Places, NoPlace,
    Unreachable,        \* the places OSRM answers with no route
    Metres, Seconds,    \* place -> distance and duration of its route
    MaxRequests, MaxStarts, MaxCancels  \* bounds on what the page sends

ASSUME PlacesAssumption ==
    /\ NoPlace \notin Places
    /\ Unreachable \subseteq Places
    /\ Metres \in [Places -> Nat] /\ Seconds \in [Places -> Nat]
ASSUME BoundsAssumption ==
    MaxRequests \in Nat /\ MaxStarts \in Nat /\ MaxCancels \in Nat

VARIABLES
    fares,      \* the ride_fares collection
    requests,   \* the PreviewTrip calls, by the order of their requests
    starts,     \* the CreateTrip calls; a trip's id is its call's index
    timer,      \* the click the page's debounce timer is waiting for
    trip,       \* the page's trip: the preview it shows, its trip id or 0
    status,     \* tripStatus: whether the page was told of one of its trips
    leaving,    \* cancellations posted and not yet answered
    cancelled,  \* history: the trips a cancellation was posted for
    raced       \* history: an answer came while another one was under way

vars == <<fares, requests, starts, timer, trip, status, leaving, cancelled, raced>>

NoPreview == [request |-> 0, id |-> 0]

Init ==
    /\ fares = {}
    /\ requests = <<>>
    /\ starts = <<>>
    /\ timer = NoPlace
    /\ trip = NoPreview
    /\ status = "none"
    /\ leaving = 0
    /\ cancelled = {}
    /\ raced = FALSE

-----------------------------------------------------------------------------
\* getBaseFares, in cents.
BaseFares ==
    << [slug |-> "suv", price |-> 200], [slug |-> "sedan", price |-> 350],
       [slug |-> "van", price |-> 400], [slug |-> "luxury", price |-> 1000] >>

\* estimateFareRoute with DefaultPricingConfig, in hundredths of a cent: it
\* multiplies what OSRM returns, metres and seconds.
Estimate(i, to) == 100 * BaseFares[i].price + 150 * Metres[to] + 25 * Seconds[to]

\* The RiderFareModel of package i that request r stores.
Fare(r, i) ==
    [request |-> r, slug |-> BaseFares[i].slug, price |-> Estimate(i, requests[r].to)]

-----------------------------------------------------------------------------
\* Mutant: the page listens to clicks while it has a trip.
ClickMapAnytime(p) ==
    /\ timer' = p
    /\ UNCHANGED <<fares, requests, starts, trip, status, leaving, cancelled, raced>>

\* handleMapClick: ignored while the page has a trip, else the debounce timer
\* starts again with this click.
ClickMap(p) ==
    /\ trip.id = 0
    /\ timer' = p
    /\ UNCHANGED <<fares, requests, starts, trip, status, leaving, cancelled, raced>>

\* The timer fires, whatever the page has become: requestRidePreview.
RequestPreview ==
    /\ timer # NoPlace
    /\ Len(requests) < MaxRequests
    /\ requests' = Append(requests, [to |-> timer, pc |-> "routing", saved |-> 0])
    /\ timer' = NoPlace
    /\ UNCHANGED <<fares, starts, trip, status, leaving, cancelled, raced>>

FindRoute(r) ==
    /\ requests[r].pc = "routing"
    /\ requests[r].to \notin Unreachable
    /\ requests' = [requests EXCEPT ![r].pc = "saving"]
    /\ UNCHANGED <<fares, starts, timer, trip, status, leaving, cancelled, raced>>

InService(call) == call.pc \in {"routing", "saving", "sent", "created"}

\* A route without routes: estimateFareRoute indexes an empty slice. The panic
\* ends the process and every call it is in.
PanicWithoutRoute(r) ==
    LET Fail(calls) ==
            [k \in 1..Len(calls) |->
                IF InService(calls[k]) THEN [calls[k] EXCEPT !.pc = "failed"] ELSE calls[k]]
    IN  /\ requests[r].pc = "routing"
        /\ requests[r].to \in Unreachable
        /\ requests' = Fail(requests)
        /\ starts' = Fail(starts)
        /\ UNCHANGED <<fares, timer, trip, status, leaving, cancelled, raced>>

\* Mutant: the call answers after the first fare.
SaveFirstFare(r) ==
    /\ requests[r].pc = "saving"
    /\ fares' = fares \cup {Fare(r, 1)}
    /\ requests' = [requests EXCEPT ![r].saved = 1, ![r].pc = "answered"]
    /\ UNCHANGED <<starts, timer, trip, status, leaving, cancelled, raced>>

\* Mutant: the last fare is saved over and over.
SaveFareForever(r) ==
    LET k == requests[r].saved + 1
    IN  /\ requests[r].pc = "saving"
        /\ k < Len(BaseFares)
        /\ fares' = fares \cup {Fare(r, k)}
        /\ requests' = [requests EXCEPT ![r].saved = k]
        /\ UNCHANGED <<starts, timer, trip, status, leaving, cancelled, raced>>

\* One round of GenerateTripFares; after the last one the call returns.
SaveFare(r) ==
    LET k == requests[r].saved + 1
    IN  /\ requests[r].pc = "saving"
        /\ fares' = fares \cup {Fare(r, k)}
        /\ requests' = [requests EXCEPT ![r] =
                [@ EXCEPT !.saved = k,
                          !.pc = IF k = Len(BaseFares) THEN "answered" ELSE "saving"]]
        /\ UNCHANGED <<starts, timer, trip, status, leaving, cancelled, raced>>

\* The OSRM request or an insert fails: the gateway answers 500, the page's
\* handler throws, what was saved stays.
PreviewFails(r) ==
    /\ requests[r].pc \in {"routing", "saving"}
    /\ requests' = [requests EXCEPT ![r].pc = "failed"]
    /\ UNCHANGED <<fares, starts, timer, trip, status, leaving, cancelled, raced>>

\* The answer arrives and becomes the page's trip, whatever it was.
ShowPreview(r) ==
    /\ requests[r].pc = "answered"
    /\ requests' = [requests EXCEPT ![r].pc = "shown"]
    /\ trip' = [request |-> r, id |-> 0]
    /\ UNCHANGED <<fares, starts, timer, status, leaving, cancelled, raced>>

-----------------------------------------------------------------------------
\* Mutant: the packages are listed before a preview.
ListingWithoutPreview == trip.id = 0 /\ status = "none"

\* RiderTripOverview shows the DriverList.
Listing == trip.request # 0 /\ trip.id = 0 /\ status = "none"

\* handleStartTrip for package i, with the trip its closure holds.
SelectPackage(i) ==
    /\ Listing
    /\ Len(starts) < MaxStarts
    /\ starts' = Append(starts,
            [request |-> trip.request, package |-> i, pc |-> "sent", created |-> FALSE])
    /\ UNCHANGED <<fares, requests, timer, trip, status, leaving, cancelled, raced>>

\* CreateTrip: GetAndValidateFare fails unless the fare is there.
CreateTrip(s) ==
    LET fare == Fare(starts[s].request, starts[s].package)
    IN  /\ starts[s].pc = "sent"
        /\ \/ /\ fare \in fares
              /\ starts' = [starts EXCEPT ![s] = [@ EXCEPT !.pc = "created", !.created = TRUE]]
           \/ /\ fare \notin fares
              /\ starts' = [starts EXCEPT ![s].pc = "failed"]
        /\ UNCHANGED <<fares, requests, timer, trip, status, leaving, cancelled, raced>>

\* The database, the broker or the way back fails: the page learns nothing.
StartFails(s) ==
    /\ starts[s].pc \in {"sent", "created"}
    /\ starts' = [starts EXCEPT ![s].pc = "failed"]
    /\ UNCHANGED <<fares, requests, timer, trip, status, leaving, cancelled, raced>>

\* The websocket brings trip.event.created, or a later notice whose card has a
\* cancel button too, of one of the page's trips.
TripNotice(s) ==
    /\ starts[s].created
    /\ status' = "told"
    /\ UNCHANGED <<fares, requests, starts, timer, trip, leaving, cancelled, raced>>

PreviewUnderWay ==
    timer # NoPlace
    \/ \E r \in 1..Len(requests) : requests[r].pc \in {"routing", "saving", "answered"}
StartUnderWay(s) == s \in 1..Len(starts) /\ starts[s].pc \in {"sent", "created"}

\* The answer puts the id into the trip the closure held.
LearnTrip(s) ==
    /\ starts[s].pc = "created"
    /\ starts' = [starts EXCEPT ![s].pc = "done"]
    /\ trip' = [request |-> starts[s].request, id |-> s]
    /\ raced' = (raced \/ PreviewUnderWay \/ leaving > 0
                    \/ \E x \in 1..Len(starts) : x # s /\ StartUnderWay(x))
    /\ UNCHANGED <<fares, requests, timer, status, leaving, cancelled>>

-----------------------------------------------------------------------------
\* The end of handleCancelTrip; the timer and the calls under way go on.
Reset ==
    /\ trip' = NoPreview
    /\ status' = "none"
    /\ raced' = (raced \/ \E s \in 1..Len(starts) : StartUnderWay(s))

\* A card with a button for handleCancelTrip; the one for a payment without a
\* trip is left out.
MayCancel == Listing \/ (trip.request # 0 /\ status = "told")

\* POST /trip/cancel; the page stays as it is until it is answered.
CancelTrip ==
    /\ MayCancel
    /\ trip.id # 0
    /\ leaving < MaxCancels
    /\ leaving' = leaving + 1
    /\ cancelled' = cancelled \cup {trip.id}
    /\ UNCHANGED <<fares, requests, starts, timer, trip, status, raced>>

\* The answer, or its failure.
CancelAnswered ==
    /\ leaving > 0
    /\ leaving' = leaving - 1
    /\ Reset
    /\ UNCHANGED <<fares, requests, starts, timer, cancelled>>

\* Without an id there is nothing to post.
BackToMap ==
    /\ MayCancel
    /\ trip.id = 0
    /\ Reset
    /\ UNCHANGED <<fares, requests, starts, timer, leaving, cancelled>>

-----------------------------------------------------------------------------
\* What goes on by itself with request r, and with start s.
ServeRequest(r) ==
    FindRoute(r) \/ PanicWithoutRoute(r) \/ SaveFare(r) \/ ShowPreview(r)
ServeStart(s) == CreateTrip(s) \/ LearnTrip(s)

Next ==
    \/ \E p \in Places : ClickMap(p)
    \/ RequestPreview
    \/ \E r \in 1..Len(requests) : ServeRequest(r) \/ PreviewFails(r)
    \/ \E i \in 1..Len(BaseFares) : SelectPackage(i)
    \/ \E s \in 1..Len(starts) : ServeStart(s) \/ StartFails(s) \/ TripNotice(s)
    \/ CancelTrip \/ CancelAnswered \/ BackToMap

Spec == Init /\ [][Next]_vars

\* The calls of trip-service and the page's handlers of their answers go on.
Fairness ==
    /\ \A r \in 1..MaxRequests : WF_vars(r <= Len(requests) /\ ServeRequest(r))
    /\ \A s \in 1..MaxStarts : WF_vars(s <= Len(starts) /\ ServeStart(s))

FairSpec == Spec /\ Fairness

-----------------------------------------------------------------------------
Request == [to : Places,
            pc : {"routing", "saving", "answered", "shown", "failed"},
            saved : 0..Len(BaseFares)]
Slugs == {BaseFares[i].slug : i \in 1..Len(BaseFares)}
Start == [request : 1..Len(requests), package : 1..Len(BaseFares),
          pc : {"sent", "created", "done", "failed"}, created : BOOLEAN]

\* Every variable holds a value its counterpart in the code can hold.
TypeOK ==
    /\ fares \subseteq [request : 1..Len(requests), slug : Slugs, price : Nat]
    /\ requests \in Seq(Request)
    /\ starts \in Seq(Start)
    /\ timer \in Places \cup {NoPlace}
    /\ trip \in [request : 0..Len(requests), id : 0..Len(starts)]
    /\ status \in {"none", "told"}
    /\ leaving \in 0..MaxCancels
    /\ cancelled \subseteq 1..Len(starts)
    /\ raced \in BOOLEAN

\* Whatever fails half-way and however late a preview arrives, every fare the
\* page lists is stored with the price of the route it was requested for, so
\* that CreateTrip will find it.
ListedFaresExist ==
    trip.request # 0 =>
        \A i \in 1..Len(BaseFares) : Fare(trip.request, i) \in fares

\* As long as the page waits for one thing at a time, it knows the trip it
\* started or has had it cancelled: no trip goes on behind the rider's back.
TripsAreKept ==
    raced \/ \A s \in 1..Len(starts) :
        starts[s].pc = "done" => trip.id = s \/ s \in cancelled

\* Every preview is answered or fails, though other previews end its process.
PreviewEnds ==
    \A r \in 1..MaxRequests :
        r <= Len(requests) ~>
            r <= Len(requests) /\ requests[r].pc \in {"shown", "failed"}

=============================================================================
