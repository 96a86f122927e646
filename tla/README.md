# Verification of the ride-sharing platform

TLA+ models of the services in this repository, TLC configurations that check
them on small instances, and theorems that TLAPS proves for every instance. The
code is the reference: where `ARCHITECTURE.md` and the code differ, the modules
follow the code and the difference is listed under *Disagreements* below.

## The system

A rider's browser asks for a trip; a driver's browser accepts or declines it; the
rider pays through Stripe. Four Go services communicate through gRPC (gateway to
trip-service and driver-service) and through one RabbitMQ topic exchange with
twelve durable queues. MongoDB holds fares and trips.

| Component | State | Operations | What is hard |
|---|---|---|---|
| `shared/messaging`: broker client | queues, one unacknowledged delivery per manual-ack consumer | publish, consume with prefetch 1 and ack / nack without requeue (`ConsumeMessages`), consume with auto-ack (`QueueConsumer`) | queues are ordered, but nothing orders messages of different queues; a crash redelivers; a failed handler loses its message |
| trip-service | trips collection, position of its RPCs and two consumers | `CreateTrip`, accept, decline, payment | writes and publishes are separate steps; no status is checked before an update |
| driver-service | registry slice, `pendingTrips`, two consumers | register, unregister, search, cancellation | both consumers run at the same time; the search reads the registry without its lock; everything is in memory |
| payment-service, Stripe | checkout sessions | create session, webhook | no idempotency key; webhooks are repeated |
| api-gateway | websocket handlers, seven queue consumers | HTTP and websocket endpoints | five goroutines push to one page in any order |
| `ConnectionManager` | connections, pending messages | `Add`, `Remove`, `SendMessage`, flush | lookup and queueing are two critical sections; old and new connections of one user overlap |
| web pages | a rider's trip id, status and session; a driver's request and status | start, cancel, pay; accept, decline | a page keeps only the last thing it was told |
| the four processes | where `main` is, listener, gRPC or HTTP server, database client, one AMQP connection, the consumers' loops | start, serve, stop, die, start again | a signal comes at any moment, publishes and acks are unconfirmed, nothing reconnects, a stop waits for some goroutines and not for others |
| PreviewTrip and the map page | `ride_fares`; previews, starts, the debounce timer | click, preview (route, estimate, four inserts), choose a package, cancel | every request of the page is asynchronous; an answer without routes panics in trip-service |

What makes them correct, in short: a trip is offered to one driver at a time, and
whoever holds a live request can be recalled; a rider is asked once, for his own
trip, at its price in whole cents, for a driver of the package he chose; a payed trip was
paid for and stays payed; nothing a message says has become false when it is
handled; a page receives its own user's messages only, each at most once; every
trip is searched for, every accepted trip charged and every payment recorded; a
fare the rider can click is stored, and no trip runs that his page forgot; no
stop, crash or broken connection loses a message, an accepted call or an answer
that was reported as published.

## Modules

    Broker            queues, bindings, publish, deliver, settle, requeue
     |- TripService   CreateTrip, answers, payments
     |- DriverService registry, pendingTrips, search, cancellation
     |- PaymentService  checkout sessions, webhooks
     |- Gateway       driver sockets, pages, buttons, pushes
    RideSharing       EXTENDS the four: Next, fairness, properties
     |- RideSharingInvariant   the inductive invariant
     |- RideSharingProofs      (with BrokerProofs) its proof and the theorems
     |- RideSharingOffers      the invariant of the platform without failures
     |- RideSharingOffersProofs     its proof and the theorems
     |- RideSharingLifeCycle   how the platform implements TripLifeCycle
     |- RideSharingLifeCycleProofs  the proof that it does
     |- MCRideSharing          instances for TLC
    TripLifeCycle     the abstract life of a trip
    ConnectionManager the critical sections of connection_manager.go
     |- Mailbox                what it promises (INSTANCE ... WITH)
     |- ConnectionManagerProofs, MCConnectionManager
    Registry          Service.drivers as a Go slice, with an unlocked scan
     |- RegistryProofs, MCRegistry
    RiderPreview      RiderMap.tsx with PreviewTrip and CreateTrip behind it
     |- RiderPreviewProofs, MCRiderPreview
    AmqpConnection    one process's connection: frames under way, loss, close
     |- Process       starting, dialling, closing and ending, for every program
         |- ServiceProcess  main, gRPC server and consumers of the three services
         |- GatewayProcess  main, HTTP server, handlers, consumers of api-gateway
    Processes         EXTENDS the two: any one of the four programs
     |- ProcessesInvariant     the inductive invariant
     |- ProcessesProofs        its proof and the theorems
     |- MCProcesses

**Broker.** `queues` and `unacked` are the broker's view of each queue. A handler
starts with `Deliver` (its first effect is in the same action) and ends with
`Settle`. Ack and nack are one operator because there is no dead-letter exchange
and `Nack(false, false)` discards. A handler that fails before it did anything is
`Reject`; a process that dies is `Requeue`, which puts unacknowledged deliveries
back at the front. A delivery and a following read that has no effect are one step.

**TripService.** `calls` follows each `CreateTrip` RPC through insert, publish
and return. `answer` is where the `driver_cmd_trip_response` handler is:
`Accept` is `UpdateTrip` (a `$set` that fails unless it modified a document,
`Modifies`), then `PublishAssigned`, `PublishCreateSession` and `AckAnswer`.
`MarkPayed` is the payment consumer. Crashes and failing publishes leave the
collection as it is.

**DriverService.** `FindDriver` reads the registry and records the pending driver
in one step, `PublishFound` sends the request or `no_drivers_found`.
`FindWhileUnregistering` is the scan beside `UnregisterDriver`: each slot it reads
may be old or already shifted. `Withdraw` is `GetAndRemovePendingDriver`. A data
race that corrupts memory is a crash (`DriverServiceCrash`), which forgets
registry and pending drivers.

**PaymentService.** Prices are in tenths of a cent so that `int64(payload.Amount)`
can truncate (`Cents`). `CompleteCheckout` is Stripe's own and external.

**Gateway.** The driver's websocket handler goes `new`, `added`, `open`,
`removed`, `gone`. The pages are what `useDriverStreamConnection.ts` and
`useRiderStreamConnection.ts` keep. Two history variables, `declined` and
`cancelled`, serve properties only.

**ConnectionManager.** One action per critical section: `Add`, `Remove`, one
`Flush` round, and `SendMessage` as `Lookup` followed by `Queue` or `Write`. A write
to a connection whose browser has gone is lost.

**Registry.** A slice header over backing arrays that `append` allocates.
`Rounds(d)` is the loop of `UnregisterDriver`, which ranges over the header it
copied first, and `Round` one of its rounds, which shifts and shortens. The scan
loads the two header words separately and reads slot by slot.

**RiderPreview.** One rider's page. `requests` and `starts` follow each
`PreviewTrip` and `CreateTrip` call from the `fetch` to the page's handler;
`SaveFare` is one round of `GenerateTripFares`, `PanicWithoutRoute` is
`route.Routes[0]` on an empty slice and fails every call trip-service is serving.
`ClickMap` and `RequestPreview` are the two ends of the debounce timer, `CancelTrip`
and `CancelAnswered` those of `handleCancelTrip`. A handler uses the trip its
closure held, so `LearnTrip` brings back the preview its trip was started from.
Prices are in hundredths of a cent. `raced` and `cancelled` are history.

**TripLifeCycle, RideSharingLifeCycle.** The abstract life of a trip is a phase
(unknown, waiting, taken, charged, payed), with the driver its request lies with, or
`Dispatch` while one is looked for, and the driver who took it. `LifeOf` computes it
from the ten places of `RideSharingOffers` where something that is to be done
about the trip can be written down - an RPC, a queue, a handler, a page, a
session - and `FollowsLifeCycle` says that every step, as long as nothing fails,
is a step of the abstract life or leaves it alone.

**AmqpConnection.** `wire` holds the frames a process has written and the broker
has not read; a publish, an ack and the closing handshake travel in that order.
`link` is the connection at the broker, `channel` the one the process believes it
has: between `LinkBreaks` and `NoticeLoss` everything written is lost without an
error. A connection that ends puts unacknowledged deliveries back (`PutBack`).
`NewRabbitMQ` is `Dial`; there is no second `Dial` in a process, as in the code.

**Process, ServiceProcess.** `main` is where the main function is, from `listen`
through `wait` to `exit`; `Begin` and `Ends` are what Kubernetes and the operating
system do. One action stands for each call of `main` that can fail or wait, in its
order, deferred calls included. `server` and `consumer[q]` are the goroutines `main` starts. A
handler is its effect (`Store`, or `Withdraw` for a cancellation), each message it
publishes (`PublishAssigned` and `Answer`: an acceptance has two) and its ack or
nack (`Settle`). `Refuses` is `UpdateTrip`, which is an error when it modifies
nothing; a decline updates nothing. `StoreFails` is MongoDB or Stripe failing, the
trip that cannot be read back after its update included. `pending` is
`pendingTrips`, which ends with its process. An RPC is `AcceptCall`, for PreviewTrip
the wait for OSRM (`RouteArrives`, `RouteFails`), `StoreCall` and `PublishCall`.
`stored` is what MongoDB, Stripe and the recalls have seen; `failed`, `forgotten`
and `unowed` are history. Whom a message is for is in `RideSharing`.

**GatewayProcess.** `Arrive` decodes and validates a request or refuses it; a body
is the set of fields it has, whether it decodes and whether it has an unknown key.
`Call` is an RPC on a client of its own, `PublishRequest` what `/trip/cancel` and
the webhook publish. `Shutdown` and `ShutdownEnds` are the two ends of
`server.Shutdown`; after `ShutdownEnds` a handler may still run, with its client
cut off. One queue stands for the seven the gateway consumes.

## Runs

All runs set `CHECK_DEADLOCK FALSE`: people may stop acting, drivers connect once,
and the bounds on trips, sessions, webhooks, faults and registrations end every
behaviour.

| Run | Instance | Shows |
|---|---|---|
| OneTrip | 1 trip, 2 drivers, 2 sessions, 2 webhooks, no fault | `OffersInv` (the invariant of the proofs), `OneOfferAtATime`, `OneSessionPerTrip`, `RequestsAreRecalled`, `PayedIsFinal`, `FollowsLifeCycle` |
| TwoTrips | 2 trips, 1 driver, no session, no fault | `RequestsAreRecalled`, `FollowsLifeCycle` when requests replace each other on a page and a rider starts twice |
| Safety | 1 trip, 2 riders with fares of two packages, 1 driver, 1 session, 1 fault | `IInv` and the five properties proved from it |
| Progress | 1 trip, 1 driver, 1 session, no fault, fair | `SearchIsAnswered`, `AcceptedIsCharged`, `PaymentIsRecorded` |
| Connections | 3 connections of 2 users, 3 messages, 2 senders | `OwnMessagesOnly`, `OwnMessagesInFlight`, `NoCopies`, `KeepsMessages` (the refinement of `Mailbox`) |
| Slice | 3 drivers, 4 registrations | `RegistryIsPresent`, `FoundWasPresent`, `OverlookedOnlyBesideRemovals` |
| Previews | 2 requests to a town or an island without routes, 2 starts, 2 cancellations, fair | `ListedFaresExist`, `TripsAreKept`, `PreviewEnds` |
| Processes | each program in turn: 2 starts, 1 fault, any number of signals; 1 or 2 messages per queue, a declining and an accepting answer, 1 RPC, 1 request with any of 7 bodies, 1 driver; fair | `IInv`, `NothingIsLost`, `ConfirmedIsPublished`, `StopsAreGraceful`, `RequestsAreAnswered`, `NoticesInOrder`, `LeaversAreUnregistered`, `StopsWhenTold`, `MessagesAreHandled` |
| NextDriver, Recalled, Duplicates, LostAnswers | the smallest that show it | a violation each, see *Disagreements* |

*Bounds.* `TripIds`, `Drivers` and `Riders` are the only sources of new actors.
A second driver matters for the choice of the search, a second trip for competing
requests, a second rider and package for mixing riders up; these are in
different runs because their product is too large, and what has to hold for all
of them together is proved. `MaxSessions` is two where a second session is the
error looked for. `MaxWebhooks` two is one repetition. One fault is enough for a
handler to run twice. Three connections let two of one user overlap while
another user's is there; two senders let one hold a connection the other made
stale. Four registrations force two reallocations and reuse of a freed slot. Two
requests, starts and cancellations let each answer meet a later request of its
kind; one place without routes is enough for the panic. In `Processes` a second
start is what a redelivery needs; a third only repeats it. One fault at any point
is a kill, a broken connection, a failed listen, dial, database or Stripe call;
stops are not faults and come at any point as well. Two messages wait in one
manual-ack queue, for prefetch, and in the gateway's, for order. One answer
declines and one accepts, which differ in what they store and publish; the one
cancellation is about the trip that is searched for, so that it comes before the
search, after it, and after a restart has forgotten it. This run, the largest, has
about 827 000 states.
Symmetry is used for safety properties only, over trips and drivers whose fare and
package are all the same.

*Without failures.* `OffersInv`, `OneOfferAtATime`, `OneSessionPerTrip`,
`RequestsAreRecalled` and `PayedIsFinal` say `faults = 0`, and the theorem about
`FollowsLifeCycle` says so of its whole behaviour. A crash between a publish and its
acknowledgement repeats the publish: the trip is offered to two drivers, both may
accept, the rider gets two sessions, and a payed trip goes back to accepted. The
properties say that only failures do this, never an ordering of healthy
processes.

*One thing at a time.* `TripsAreKept` does not speak of a page once an answer came
while another one was awaited (`raced`): there a late preview or a second start
does make the page forget a running trip. As long as the rider waits, it says
that neither the debounce timer nor the two-step cancellation loses one.

*Stops and crashes.* In `RideSharing` a process that ends, gracefully or not, is
a fault and its message is redelivered as one step; that this is what ends of
processes come to - nothing acknowledged that was not handled - is what `Processes` shows,
where a process may end between any two steps of a handler, also between the two
publishes about an accepted trip. It shows which messages such an end loses
(`CutShort`): an answer whose trip was updated before is refused afterwards, even
if only one of its two messages was published (`RideSharing` has the nack as a
failed handler); and a cancellation whose driver was withdrawn, but not yet told,
or was forgotten with the process, finds nobody afterwards
(`DriverServiceCrash`). `NothingIsLost` names these, messages whose handler
MongoDB or Stripe failed (`failed`), which are nacked and discarded, and nothing
else. A cancellation that nobody had been asked for (`unowed`) has nothing to do.

*Stops.* `StopsWhenTold` says that a process that is told to stop ends, whatever calls,
requests and messages it is busy with, provided that OSRM answers. The provision
is the code's: `GracefulStop` has no limit, and PreviewTrip asks OSRM with `http.Get`,
without a timeout or a context (`service.go:54`), so that one request can keep
trip-service from ending. api-gateway's `Shutdown` has its 10 s.
`MessagesAreHandled` exempts a process that waits, or is kept from ending like
this, without its consumers (`Zombie`). `PreviewEnds` rests on OSRM answering as well.
`RequestsAreAnswered` exempts faults, requests cut
off after the 10 s of `Shutdown`, and addresses gRPC cannot parse.
`LeaversAreUnregistered` holds until the gateway first ends: its websocket
handlers are not waited for, and their drivers stay in driver-service's registry.

*Fairness.* Weak fairness for every goroutine: each queue consumer handles what
its queue holds, each gRPC call ends, each websocket handler finishes its
registration or its deferred removal, and Stripe repeats an event until it is
answered. People's actions (start, connect, leave, accept, decline, cancel, pay)
and failures are not fair; in `Previews` each call and the handler of its answer
go on, while clicks, cancellations and the timer need not. In `Processes` each
`main`, each consumer, each RPC handler of a service, the notifier and the network
go on, and Kubernetes starts what has ended; OSRM's answers, the RPCs the gateway
waits for, and signals, are not fair. `Progress` runs without failures because a nacked
message is gone: nothing in the code repeats it.

## Theorems

`RideSharingProofs` proves, with no bound on trips, riders, drivers, fares,
sessions, webhooks or faults:

| Theorem | States |
|---|---|
| `Invariance` | `Spec => []IInv` |
| `TypeCorrectness` | `[]TypeOK` |
| `StaleMessagesAreHarmless` | `[]MessagesStayTrue` |
| `NoTripIsPayedUncharged` | `[]PaidTripsWereCharged` |
| `NoSessionIsWrong` | `[]SessionsMatchTrips` |
| `NoRiderPaysForAnother` | `[]RidersPayTheirOwn` |

`RideSharingOffersProofs` and `RideSharingLifeCycleProofs` prove, for the same
instances, what holds as long as nothing fails:

| Theorem | States |
|---|---|
| `OnePlacePerTrip` | `[]OffersInv` |
| `OneDriverAtATime` | `[]OneOfferAtATime` |
| `ChargedOnce` | `[]OneSessionPerTrip` |
| `CancellationsFindTheirDriver` | `[]RequestsAreRecalled` |
| `PayedForGood` | `Spec => PayedIsFinal` |
| `LifeCycleIsFollowed` | `Spec /\ [](faults = 0) => FollowsLifeCycle`, the refinement of `TripLifeCycle` |

`ConnectionManagerProofs` proves, for any users, connections, messages and senders:

| Theorem | States |
|---|---|
| `TypeCorrectness` | `[]TypeOK` |
| `NobodyReadsOthersMail` | `[]OwnMessagesOnly` |
| `MessagesOnTheirWay` | `[]OwnMessagesInFlight` |
| `NothingIsCopied` | `[]NoCopies` |
| `MessagesAreKeptForTheirUser` | `Spec => KeepsMessages`, the refinement of `Mailbox` |

`RegistryProofs` proves, for any drivers and any number of registrations:

| Theorem | States |
|---|---|
| `TypeCorrectness` | `[]TypeOK`, with ids registered twice as well |
| `RegistryHoldsThePresent` | `[]RegistryIsPresent` |
| `ScansFindThePresent` | `[]FoundWasPresent` |
| `ScansMissNobodyWhoStays` | `[]OverlookedOnlyBesideRemovals` |

The last three say `FreshIds`: nobody is registered who already is. Without it the
run `Duplicates` shows what happens.

`RiderPreviewProofs` proves `PageTypes` (`[]TypeOK`), `ListedFaresAreStored`
(`[]ListedFaresExist`) and `TripsStayKnown` (`[]TripsAreKept`) for any places and
any number of requests, starts and cancellations. The invariant
`PageInv` adds how many fares a call has stored at each place in its code
(`SavedInv`) and that what the page shows, or started a trip from, was answered
(`ShownInv`): without the second, `LearnTrip` could bring back a preview nothing
is known of. For `TripsAreKept`, `OneThingAtATime` adds that, until two answers
have raced, a page with a trip awaits no preview and no other start, so that
nothing can replace its trip, and that a cancellation it awaits is its trip's, so
that the reset forgets a cancelled one.

`ProcessesProofs` proves, with no bound on messages, calls, requests, drivers,
starts or faults:

| Theorem | States |
|---|---|
| `Invariance` | `Spec => []IInv` |
| `TypeCorrectness` | `[]TypeOK` |
| `MessagesAreKept` | `[]NothingIsLost` |
| `EventsArePublished` | `[]ConfirmedIsPublished` |
| `StopsAnswerCalls` | `[]StopsAreGraceful` |
| `StopsAnswerRequests` | `Spec => RequestsAreAnswered` |
| `NoticesStayInOrder` | `[]NoticesInOrder` |
| `LeaversUnregister` | `[]LeaversAreUnregistered` |

*Assumptions.* Fares have an owner among the riders and a natural price;
`NoTrip`, `NoDriver` and `Dispatch` are not names of trips and drivers; the bounds are
naturals; connections and messages belong to users; a program's consumers are of
queues there are, whose inboxes are sequences of distinct messages, and `MaxStarts`
is positive. TLC evaluates each of them.

*The argument for trips and money.* `PaidTripsWereCharged` alone is not inductive: `MarkPayed`
believes its message. So the invariant says what messages may say.
`TrueMessages` is the set of all messages the present database and the present
sessions justify, and `Carried(TrueMessages, queues, unacked)` that every queue
and every delivery holds such messages only, each of a key its queue is bound
to. Trips are only added, never change rider or fare, and never return to
pending; sessions are only added, never change but from open to paid. Therefore
`TrueMessages` only grows (`TrueMessagesGrow`), and a message that was true when
it was published is true however late, and however often, it is handled. What
remains for each action is that what it publishes is true
(`CarriedPublish`, `CarriedDeliver`, `CarriedRequeue`, ... in `BrokerProofs`) and
that what a handler relies on between its steps still holds (`AnswerInv`,
`FindInv`, `ChargeInv`) and the same of the pages a person acts on
(`DriverPagesInv`, `RiderPagesInv`). There is one lemma per action, and
`NextKeeps` combines them.

*The argument for one driver at a time.* None of `OneOfferAtATime`,
`OneSessionPerTrip` and `RequestsAreRecalled` is inductive: a second answer for a
trip would charge it twice, a second search would ask a second driver, and that
there is none depends on every step before. `OffersInv` says where what is to be
done about a trip can be written down: `CreateTrip` that has not published, a
waiting search, a search that has chosen, a waiting request, a page, a waiting
answer, the two halves of its handler, a waiting charge, a session. No trip is in two
of the ten (`Apart`) nor twice in one (`Alone`); in the first seven it is still
pending (`StillPending`); and whoever is asked is the pending driver
(`Recallable`). Each step takes one trip from one place to another (`Moves`) or
stands still, whatever messages of other keys come and go; only a failure, whose
redelivery leaves the trip in its old place as well, puts it into two. A trip is
charged from `Due` only, so `ChargedOnce`; a payed trip has its session and is in
none of the other nine, so `PayedForGood`. When a request replaces another one on a
page, the replaced trip is nowhere any more, which the abstract life allows.

*The argument for the life cycle.* The mapping reads the phase from the database
and the sessions and the bearer from the same places. With `OffersInv` a move
between two places is one abstract step of one trip, and each other step leaves
every life as it is. The theorem is about behaviours in which `faults` stays 0
- every behaviour, when `MaxFaults` is 0 - and is a refinement proof: initial
states map to initial states, steps to steps or stutters.

*The argument for the connection manager.* `OneCopy` follows a message through
senders, pending messages, flushes and connections: it is in one position of one
of them at most, and in none before it is given to a sender. Each critical section
moves one message (`Moved`) or, in `Add`, hands the pending ones of a user to a flush. With its only
copy written, waiting or gone, a message changes its fate as `Mailbox` allows;
`Opened` says that nothing is written to a connection before its `Add`.

*The argument for the registry.* `SlotsAreSeen`: whatever slot a scan may still
read, in the array it loaded or in a present one, holds a driver who was registered
since it began, since a removal shifts drivers in place and an append writes beyond
the old length or into a new array. `SteadyAreAhead`: as long as nobody leaves,
whoever was there from the beginning has a slot the scan has not passed. What
`UnregisterDriver` leaves is a recursive function of its rounds; that it exists,
keeps its types and, for an id that is there once, removes just that slot
(`RoundsRemove`) is proved by the least round that would break it, because the
library's induction theorems cannot be used here.

*The argument for stops and crashes.* `NothingIsLost` speaks of the queue and of
what was done; between the two a message is in a handler, or its ack is on the
wire. `DeliveryInv` follows it there. `BacklogInv`: each message is in the broker's
backlog (unacknowledged delivery, then waiting ones) exactly once, unless it is
done. `HandlerInv`: while they are connected, the handler's message is the one
the broker waits for, and what it owes is sent (`Sent`: it has arrived or is on
the wire) as far as the handler says. `AcksInv`: an ack
under way is the only one of its queue, and its message is done or everything
owed is ahead of it on the same connection (`SentBefore`). That is why order on the wire matters: when
the broker reads the ack, it has read the answer. A broken connection drops
answer and ack together, and the delivery goes back to the backlog. `FreshInv`
says that the first process has stored nothing of what still waits, so that only
a later one can meet `CutShort`, and that nothing is forgotten before a
process has ended. `LinkInv` ties the frames to where `main` is and
`CallsInv` and `RequestsInv` say which goroutines can run there: a service's calls
only before the broker is closed, the gateway's handlers after it only when the
10 s are over (`cut`) or something failed. The proof splits a step into what it does to
the types, the link, the calls, the requests, and each of the queue's parts;
most actions touch one queue, or only append to the wire. `NoticesInv` says of
what the gateway gave on, of what it was sent ahead and of what the broker still has
that each is in the order of the queue and ahead of the next; a stop forgets the
second. `VisitorsInv` says that nobody's handler runs in a process that is down, and
that nobody is registered before the first.

*Only model-checked.* The liveness properties (`SearchIsAnswered`,
`AcceptedIsCharged`, `PaymentIsRecorded`, `PreviewEnds`, `StopsWhenTold`,
`MessagesAreHandled`), which rest on fairness and are out of this prover's reach.
Every invariant, action property and refinement of the passing runs is proved.

## Disagreements between the code and its documentation

Each is a run that TLC ends with a counterexample.

* **NextDriver** (`driver-service/trip_consumer.go:65`): after a decline the
  search takes the first suitable driver of the registry again, who is the one
  that declined. `ARCHITECTURE.md:329`: "the driver-service tries the next
  available driver".
* **Recalled** (`driver-service/trip_consumer.go:112`): a cancellation handled
  before its trip's search finds no pending driver; the request that follows is
  never recalled. `ARCHITECTURE.md:467`: "notify the pending driver".
* **LostAnswers** (`driver_consumer.go:71`): trip-service is told to stop, or dies,
  after `UpdateTrip` and before the publishes. The answer is delivered again,
  `UpdateTrip` modifies nothing and fails, and the nack discards the answer: the
  trip is accepted, and its rider and payment-service never hear of it.
  `ARCHITECTURE.md:104`: "on accept updates the trip's status and driver fields in
  MongoDB and publishes `trip.event.driver_assigned` + `payment.cmd.create_session`".
* **Duplicates** (`driver-service/service.go:97`): unregistering an id that was
  registered twice panics. The driver page opens two sockets with one id when
  its effect runs twice, since its cleanup closes an open socket only
  (`useDriverStreamConnection.ts:85`). `ARCHITECTURE.md:136`: "called by the
  gateway on WebSocket connect/disconnect".

Seen while reading, without a run: `driver_assigned` that comes after
`session_created` takes the payment button away again
(`useRiderStreamConnection.ts:59`); the unlocked scan of the registry can miss a
driver who is registered throughout (`driver-service/service.go:48`), beside a
removal only, as `OverlookedOnlyBesideRemovals` shows; `enableCORS` answers
preflights (`middleware.go:13`) that the mux, which has only `POST` patterns for
its endpoints (`main.go:38`), never routes to it; without a webhook key Stripe is
told that its event was handled (`http.go:166`); payment-service does not look at
the error of `Listen` (`cmd/main.go:78`); the two driver-service consumers are said to
"run sequentially in a single goroutine" (`ARCHITECTURE.md:141`), but each
`ConsumeMessages` starts its own; a message queued by `SendMessage` just after its
user connected waits for the next connection, which `Mailbox` allows (it is kept);
trip statuses are "accepted" and "payed", not "assigned" and "paid" (`:524`);
trip-service does not publish `payment.event.success` back (`:105`);
no dead-letter queue is declared, so that a nack discards (`dead_letter_queue` of
`:247`); `QueueConsumer` does not wrap `ConsumeMessages` (`:557`); the fare formula
multiplies metres and seconds (`:125`); `ConnectionManager.Remove` deletes the
user's entry even when it is a newer connection's (`connection_manager.go:79`,
against the "map of `userID → *websocket.Conn`" of `:556`).

## Abstractions

* In `RideSharing` fares are constants and `CreateTrip` checks their owner;
  how they come to be is `RiderPreview`, with one rider and no trip life cycle.
* A driver id connects once, as each page load takes a new id. Riders stay
  connected and the gateway does not restart in `RideSharing`; reconnecting users
  are the subject of `ConnectionManager`.
* In `RideSharing` a rider's cancellation and the reset of his page are one step;
  `RiderPreview` has the two, and the answers that come between them.
* `RiderPreview` shows any notice as "told"; of the cards, those without a cancel
  button are left out, and so are the one for a payment without a trip
  (`RiderTripOverview.tsx:31-50`) and the page's reload from local storage.
* A pushed message reaches an open page at once. What the gateway pushes after a
  driver is registered (`driver.cmd.register`, `ws.go:131`) is left out. It sets the
  page's status and hides a request that came before it
  (`useDriverStreamConnection.ts:69`), which is to the others as if the driver left
  that request alone.
* `ConnectionManager`: when `RegisterDriver` fails, `Remove` runs just before the
  connection is closed (`ws.go:103-129`); the model has it just after.
* Route geometry, ETA, locations, profiles and formatting are left out.
* In `Processes` there is one process at a time: a new one dials when the broker
  is done with the old one's connection, and rolling updates, where two overlap,
  are left out. A second signal is ignored, as in the code. Timeouts may fire at
  any time. A signal before `signal.Notify` kills the gateway; in the services
  this window, a few instructions at the start, is left out.
* In `Processes` an RPC's effect is one write, PreviewTrip's four inserts included
  (`RiderPreview` has each); an OSRM answer without routes, whose panic ends
  trip-service, and one that cannot be read count as faults; a fare that is not the
  caller's is left out; a driver's registration fails by a fault only.
* In `Processes` a search finds a driver or none, whatever the registry holds; a
  cancellation that comes before its search is the subject of `Recalled`.
* Not modelled: the in-memory repository, the HTTP handler of trip-service and the
  retry helper, which no program calls; CORS headers and the middleware; the
  wording of errors; environment lookups; generated code, the scaffolding tool and
  deployment.

## Plan

Done: the composed system, the connection manager, the registry, previews and
their theorems; the abstract life of a trip and its refinement; the life cycles
of the four processes with lost broker connections; and a theorem for every
safety property and refinement of these.

Left:

1. In the model: the rider page's reload after a payment; the gateway's restart and
   riders that reconnect in `RideSharing`; rolling updates, where an old and a new
   process of one service consume the same queues.
2. In the proofs: how the two models of a stop fit together - that what
   `Processes` lets happen to one message is what `RideSharing` takes for granted
   of each handler.
