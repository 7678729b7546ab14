# Ride-hailing: specifications

TLA+ models of the services under `src/services`, the TLC runs that check them on small
instances, and TLAPS proofs of the properties that matter most. Paths and line numbers are those
of the repository; `PROJECT.json` maps every definition to its lines.

## 1. The system

Six Go services: `gateway` (HTTP), `user`, `ride`, `matching`, `location`, `notify`. They talk
by gRPC, by events on NATS JetStream and through one Redis; `user` and `ride` keep their tables
in PostgreSQL. Production runs two replicas of each (`k8s/overlays/prod`), so every handler
below runs concurrently with itself.

```
 clients -> gateway --gRPC--> user, ride, matching, location
            ride    --outbox--> JetStream --> matching (requested, offer outcomes), notify (ride.*)
            matching --gRPC--> ride (CreateOffer, CancelRide)      location --> JetStream
            ride    --gRPC, breaker--> user (GetUserProfile)
            matching, location, gateway <--> Redis                 notify --SSE--> clients
```

| component | state | operations | hard behaviour | what makes it correct |
|---|---|---|---|---|
| ride: use cases | tables `rides`, `ride_offers`, `idempotency_keys`, `outbox` | 5 ride and 4 offer operations, offer expiry, key cleanup | optimistic updates of two replicas; a key looked up outside the transaction; errors of `Save` dropped; contexts that end; expiry racing an answer | each operation is one atomic edge of a state machine with its event; one outcome per offer; one effect per key; overdue offers are settled |
| ride: outbox relay | rows' status, attempts, `available_at` | claim, publish, mark, clean up, replay | replicas claim together; crash between claim, publish and mark; a lost event or ack holds its worker | a row in one batch at a time; SENT means stored; bounded duplicates; at least once |
| ride: breaker, user client | breaker state and counters under a mutex | Execute, retries, OnStateChange | stale results, non-reentrant mutex | bounded probes; never stuck rejecting; calls return |
| ride: gRPC handlers, interceptors | none of their own | internal token, mapping of errors, recovery, GracefulStop | replies lost at a stop or crash | the answer tells what was done |
| matching | Redis keys per ride and per driver | handlers of ride.requested and of offer outcomes, sendNextOffer | redelivery, racing handlers, expiring keys, lost replies, errors dropped | drivers are asked one after the other, each once per search; a ride is given up only when nobody wants it; a request ends, unless other rides hold its drivers |
| notify | SSE hub: subscribers, histories, event ids | subscribe with replay, broadcast, consume | id, history and send in separate critical sections; one durable consumer for all replicas; restarts | short of named incidents a client misses nothing, and sees a number at most twice (an event that is redelivered gets a new number); a message gets out |
| location | Redis: `driver:location`, its `last` key, `drivers:geo`, a rate limit | UpdateDriverLocation, ListNearbyDrivers, CleanStaleGeo; matching's consumer writes the same `drivers:geo` | a pipeline that is cut; store, then publish; list, check, then remove; events applied late | a live driver is found, at its last position; one that stopped is gone in the end |
| user | users, sessions, refresh tokens, verification codes | register, verify, login, refresh, logouts | count-then-create, refresh twice, lost counter updates, statements that fail without an error, calls the gateway repeats | session limit; a reused token, and no other, ends the sessions; logged out stays logged out; lockout; a user can be verified |
| gateway | none but its requests | 18 routes to gRPC: limits, roles, scopes, validation, retries under one deadline | retries of calls without a key; a key that is lost with its caller; replies lost at connections, stops and crashes; refusals after an effect | effects bounded by the calls that were lost; answers are true; every request is answered |
| rate limiters (gateway, user) | a counter with a time to live in Redis | Allow | EXPIRE with each request; INCR without EXPIRE; errors of Redis | a limit per sliding window; only a busy key is refused |
| cache, readiness, user proxy | cached "ok" of readiness | | | no request depends on it |
| configuration, telemetry, protobuf, manifests | none that decides anything | | | |

## 2. Modules

| module | models | source |
|---|---|---|
| `RideLifecycle` | abstract: every operation is one step on `ride`, `offer`, `outbox` | `ride/internal/domain`, the use cases as a whole |
| `RideService` | the steps of each use case, over all replicas | `ride/internal/app/usecase/ride_service.go`, `adapters/db`, `workers`, `handlers` |
| `Outbox` | the relay's workers | `outbox_repo.go`, `outbox_worker.go`, `outbox_cleanup_worker.go` |
| `CircuitBreaker` | the breaker and `callWithRetry` | `circuit_breaker.go`, `user_client.go` |
| `Matching` | handlers and Redis memory; extends `RideLifecycle` | `matching_service.go`, `driver_repo.go`, `jetstream_consumer.go` |
| `LocationIndex` | reports, matching's consumer, the two removers of stale members | `location_service.go`, `location_repo.go`, `HandleDriverLocation` |
| `NotifyHub` | pull loops, hub, SSE connections | `notify/internal/app/hub.go`, `event_consumer.go`, `cmd/notify/serve.go`, the gateway's `notify.go` |
| `UserSessions` | login, refresh and the logouts of one user | `user/internal/app/usecase/service.go`, `adapters/db/repo.go`, `security.go`, the gateway's retries |
| `UserAccounts` | registration and verification; extends `UserSessions` | the same, and `verification_codes` |
| `SlidingWindow` | abstract: at most `Limit` admissions in any `Window` | what both limiters are for |
| `RateLimiter` | the counters in Redis; implements `SlidingWindow` | `redis_limiter.go` of the gateway, the limiter of `user` |
| `Gateway` | a request from client to replica and back; extends `RateLimiter` | the gateway's handlers, middleware, `clients.go`, `errors.go`; the services' interceptors and `mapError` |
| `MC…` | constants, request sets and symmetry for TLC | |
| `…Proofs` | theorems | |

**RideService and the code.** `call[w]` is what one goroutine knows: `pc` is the next statement
of `withIdempotency` and the operation in it (lookup, `Get` and `Transition`,
`UpdateStatusIfCurrent` or insert, `Save`, `Commit`), `seen` the status read, `saved` what
`idem.Save` did. A transaction's writes are kept in `call` until `Commit`, which publishes row,
event and key together; before that they show only as locks (`LockedByOther`, and the wait in
`SaveKey`), as READ COMMITTED has it. `Abort` is any error, ended context or crash; `SkipKey` is
a context that ends after the event was enqueued. `batch` and `due` are the expiry worker's list
and the passing of `expires_at`; `history` is a ghost that counts effects and answers per key.
The profile check of `loadRide` is a call of the module `CircuitBreaker` and decides nothing
here: a call of it that hangs, as in `breaker_callback`, holds the transaction open, which
`CallsReturn` of this module does not see. `MarksOffered` lets a write of OFFERED happen as the
use case's test does it; no service writes that status, so without it DRIVER_ASSIGNED is
unreachable.

**RideLifecycle** is what clients may assume. `RideService` implements it: only `Commit` and
`MarkOffered` change the tables, and each is one abstract step. The refinement mapping is the
identity on the three variables both modules share.

**Outbox.** `Select` and `Claim` are the two statements of `Claim`'s transaction; `locked` are
the rows of its `FOR UPDATE SKIP LOCKED`. `todo` is the batch in memory, `hand` the row between
its publish and its mark. `PublishFails` is an error that Publish returns: no stream answers, or
the request cannot be sent. An event or an acknowledgement that is lost returns none
(`PublishHangs`): Publish waits with the worker's context, which `serve.go:122` makes without a
deadline, and `PublishWithTimeout` has no caller; only a connection that is given up ends the
wait (`ConnectionCloses`), and nothing says that it will be. `stream` is JetStream's log
(external). Rows are in the order in which they are committed to the table; `created_at`, by
which a batch is chosen, is the clock of the replica (`outbox_repo.go:43`), and the skew between
two replicas' clocks is not modelled.

**CircuitBreaker.** One action per branch of `beforeRequest` and `afterRequest`, each under the
mutex; the request itself is outside it. `lock` is held between two steps only by the callback
of `setState`. `probes` is a ghost: the calls in flight that the half-open period admitted.

**Matching.** One step per Redis command (a pipeline is one) and per RPC. The outbox of
`RideLifecycle` is the queue; `done` are the events acknowledged. Failures, crashes, expiring
keys, redeliveries and status updates are `Incident`s of a kind, counted, so that a property can
say which incidents it survives (`AtMostOneBut`). Nearby's result, filters and jittered ranking
are an arbitrary choice and order of available drivers. `driverOffer` is one key per driver,
whichever ride set it, so a search meets the offers of other rides (`HasOffer`), those of
`Rides` and those that are not in the model (`OtherRideAsks`).

**NotifyHub.** `Hub.Broadcast` takes the lock three times, so it is three actions: `NextID`,
`AppendHistory`, `Send`. `numbered[r]` is the order in which `nextID` gave out numbers (its
length is the counter), `stream` JetStream's view of each message. `Connect` is the one critical
section of `SubscribeWithReplay`; a client that has received nothing has no number to send and
starts afresh (`since`). `excuse` is a ghost that collects the incidents after which a client
may miss something: a full channel (`overflow`), a history shorter than the absence (`trimmed`),
a number of another hub or of an earlier life of it (`moved`), and a consumer that overtakes
another between numbering and sending (`overlap`). A message that is no JSON is Nak'd at once
and is `again` in `stream`; `Fetch` serves those before the waiting ones, in any order, as the
server does. Properties speak of numbers: an event whose Ack is lost with its loop is broadcast
again under a new one. Redelivery of a message whose handler exceeds AckWait is not modelled
(the handler does not block).

**UserSessions.** A session is a row of `refresh_tokens`, in the order of `created_at`. Each
action is one statement, committed by itself, since neither `Login` nor `Refresh` opens a
transaction; `Statement` is one whose error the handler drops. `Break` ends a call at any
statement and lets the gateway repeat it, whatever the call is (`clients.go` retries on
Unavailable). `held` is the token each client stores. `tally` and the fields `shown`, `root` and
`late` of a row are ghosts. Access tokens are signed and not stored: they outlive every logout
until they expire, and are outside the module.

**UserAccounts** puts the statements of `Register` and `Verify` before and among those of
`UserSessions`, for one person, who may have a user at the start or not (`Newcomers`). An error
of `GetUserByEmail` counts as "no such user", so only the unique indices keep `users` at one
row. `code` is the row of `verification_codes`; its value is told in the reply of `register` and
nowhere else (`known`). `spoilt` is a ghost that names what kept the person from being verified.

**LocationIndex.** Positions are numbers of reports. `Upsert`'s pipeline is three steps, since
it is no transaction and a crash or a lost connection cuts it (`Cut`); `UpsertLast` joins EXPIRE
and SET. `events` is the JetStream consumer's view. A remover (cleanup loop or
`ListNearbyDrivers`) lists, asks for the `last` keys and removes in three steps. The cursor of a
cleanup is `todo`, which the next tick takes up. `disturbed` and `slow` are ghosts: drivers
whose reports were reordered, repeated or cut, and drivers removed on knowledge older than their
own event.

**RateLimiter.** One action is one request: INCR and EXPIRE, atomic in the gateway, where they
are a transaction; keys of the user service (`Plain`) may lose the EXPIRE (`IncrAlone`), and
then the counter lives on (`kept`) until a later request renews it. The ghosts `asked` and
`admitted` are the times the properties speak of; the refinement maps the abstract `log` to
`admitted`.

**Gateway.** `stage[h]` is how far the gateway has a request: global limit, authorization, the
route's limit, binding and validation, then `Send` and `Receive` for each try of `callWithRetry`
until an answer or the `Deadline`. `Routes` is the router's table: roles, scope, limit, where
its key comes from, what the service does with an operation that has taken effect and comes
again (a ride or offer that has the status asked for is updated once more; a location report is
too early or its gap is over; a used token raises the alarm), and with which errors it may
answer after an effect (`verify` uses the code up before it reads the user and compares the
target, and then refuses). The key is the header Idempotency-Key, for a cancellation
X-Request-Id, which is drawn for a request that has none; it is not scoped by user or operation.
`Effect` stores the key in the transaction of the effect; a caller that is gone (`Orphan`)
leaves an effect without it, since `Save` then fails and its error is dropped
(`ride_service.go:314`, `:363`). `calls` are calls at the replicas and replies on their way;
`Disconnect`, `Crash` and a `Stop` after the shutdown timeout lose them. Clients that repeat a
request are two requests with one `op`. The services' states are reduced to `took`, `used` and
`revoked`: their own modules are about the rest.

**How they fit.** `RideService` shows that the tables behave as `RideLifecycle`, and `Matching`
is built on `RideLifecycle`. `Gateway` contains `RateLimiter`, and each behaviour of it is one
of the limiter (`GatewayLimits`); what `Gateway` assumes of a service is what the modules of the
services show in detail: a key that is stored replays (`AnswersAgree`, `OneUsePerKey`), one
whose caller is gone may not have been stored (`ride_key_skipped`), a repetition is refused or
made again.

## 3. Runs

| run | question | states (about) | bounds |
|---|---|---|---|
| `ride` | do the transactions implement the lifecycle; do events tell the rows; accept against decline against expiry; keys that race; do calls return and overdue offers settle? | 82 k | 1 ride, 1 offer, 1 driver, 1 key, 2 handlers, 1 sweeper, 4 calls, 1 fault, 1 cleanup |
| `ride_key_skipped` | is a request idempotent? **violated** | | 3 calls, 1 fault |
| `outbox` | claims, marks, duplicates, dead letters, order within a ride; every event is settled | 419 k | 2 workers, 3 rows (2 of one ride), batch 2, 2 attempts, 2 broker failures (an error or no answer), 1 fault, 2 failures in all, 1 replay |
| `outbox_crash` | at-least-once with a crash? **violated** | | 2 rows, 1 fault |
| `breaker` | probes of a half-open period; calls return, half-open ends | 77 k | 3 callers, 3 calls, 1 probe allowed, 1 retry |
| `breaker_callback` | do calls return with the callback of `serve.go`? **violated** | | 3 calls |
| `matching_offers` | which promises survive which single incident; does a request end? | 821 k | 1 ride, others that may ask any driver first, 2 drivers, 3 offers, 2 handlers, 1 incident of any of 9 kinds, `MaxOffers` 1 or 2 |
| `matching_again` | an accepted ride is kept when an event is redelivered? **violated** | | 3 drivers, 1 redelivery |
| `location` | is a live driver found where it is, and a silent one gone? | 266 k | 1 driver, 2 calls, 1 cleanup, 1 lookup, 2 consumers, 2 reports, 2 faults |
| `notify` | what a client that reconnects misses or sees twice; does a malformed message hold others up while it leaves room in a batch? | 410 k | 1 replica with 2 consumers, 1 client with 2 connections, 4 events (one malformed, one about another user), channel and history of 1, batch 2, 1 fault |
| `sessions` | session limit, lockout, logout, reuse detection and verification under racing calls | 4.1 M | 2 devices, 2 calls at a time, 4 in all (3 of a newcomer), limit 1, lock after 2, 1 retry, 1 fault, 1 expiry |
| `gateway` | effects, answers and limits of requests that are retried, repeated, refused and cut off | 518 k | each of the 18 routes alone, one of them with a key, clients without the role, an operation sent twice under its key, a key used for two operations, 3 requests at one limiter; 1 replica, 1 retry, 2 breaks, clock to 2, 1 fault of Redis |

Every bound is a constant with "bound" in its comment. They are enough because each hazard needs
few participants: a lost update needs two writers and one reader between them, a key race two
calls and a third that replays; two batches compete for a row with two workers, and a row is
dead-lettered after two attempts. Four calls do not take a ride to its completion; the theorems
of section 4 cover its whole life. Two handlers make two searches of one ride race; two drivers
let one decline and the other be asked after it; the accepted ride that is lost needs a third
driver. Other rides may take one of its two drivers or both, at any moment between two commands
of a handler, so that a handler with two tries may run out of them. Two reports of one driver,
applied by two consumers, show every reordering, since positions are compared with the last one
only, and the entries of drivers are independent; matching's batches are taken one event at a
time, and with one driver a pass of the cleanup is one Scan, so that an entry comes to be behind
its cursor only by being added again after its removal. For the hub two consumers interleave
within one replica, and a channel or history of one overflows with two events; the numbers of a
second replica matter to a client only as those of a hub that is not the one it knew, which a
restart provides too; two malformed messages fill a batch of two as twenty fill one of twenty.
For sessions two racing calls and two to follow show the limit exceeded, a token used twice and
a logout overtaken; `Calls` are symmetric, and the run has no liveness property. One lost call
and its repetition show every second effect. The clock shows one window of a limiter end; longer
histories are left to the theorems, which hold for any. Deadlock is not checked: clients may
stop asking and bounds are used up. That nobody hangs is `CallsReturn`, `RequestEnds` and
`Answered`.

### What the runs show

*Holds:*

- *Ride:* Concurrent operations, whatever fault occurs, implement the lifecycle: no lost update,
  no event without its change. A duplicate key is safe although `Save`'s error is dropped,
  because PostgreSQL refuses to commit a transaction in which a statement failed
  (`AnswersAgree`, `OneUsePerKey`).
- *Outbox:* Events of a ride are stored in order except past one that was claimed earlier and is
  held or waits for its retry. Short of a crash, a failing mark and a replay each is stored or
  dead-lettered, however often Publish returns an error, unless its batch is in the hands of a
  worker whose Publish never returns, or that befell all workers (`EventuallySettled`).
- *Breaker:* A half-open breaker may have `MaxRequests + 1` probes (the call that opens it is
  not counted) and never rejects for ever, although late results are counted in a period they do
  not belong to.
- *Matching:* Drivers are asked one at a time through any single failing command, expired key,
  crash or status update; and a driver at most once per search, whatever happens. A requested
  ride is accepted or cancelled, unless a handler used its tries up on drivers who were asked
  for another ride (`PassedOver`) or one of five kinds of incident strands it (`Stalls`).
- *Location:* A driver is found where its last report put it once its events are handled,
  although matching puts older positions back in between and a cleanup may take the entry out
  between its check and its removal: the report's own event repairs both.
- *Notify:* A client that reconnects to the hub it knew misses nothing unless one of the four
  incidents befell it; each of the four is needed (`NoGap` fails when any is left out of the
  excuses). Without `overlap` and `moved` it receives a number at most twice, and twice only
  after a replay. Messages that cannot be parsed are redelivered for ever, before all others,
  and hold no other up for ever while they are fewer than a batch holds (`GetsOut`).
- *User:* Logins that race exceed the limit of sessions by at most the sessions created since
  the login looked, so the next login that runs alone restores it. After `logout_all` no session
  comes back but through a login or refresh that was already under way. Reuse detection is never
  raised for a token that merely expired.
- *Gateway and limiters:* A request takes effect at most once more than calls of it were lost. A
  key does no more than that: of two requests under one key, at most one takes effect more often
  than its calls were lost, so together they take effect once and as often again as a call
  outlived its caller. A refusal of a request none of whose calls was lost says that nothing was
  done, except by `verify`, which may have used the code up; 200 says that it was done, or
  another operation under the same key. A request is refused by a limiter only if its key was
  busy for a window, and a limit holds in every window although the counter's own window moves
  and commands fail, as long as Redis keeps its keys.

*Does not hold* (the `violation` runs; each quotes the line it contradicts in `PROJECT.json`):

1. A context that ends before `Save` commits the operation without its key; sent again, the
   request takes effect twice.
2. A worker that stops after its claim leaves rows PROCESSING that nothing claims again.
3. The callback given to the breaker reads `Stats()` with the mutex held: the first change of
   state hangs its caller and all later ones.
4. `ride.requested` delivered again after its keys are gone starts a second search, which may
   cancel a ride that a driver accepted.

*Seen while modelling*, and kept out of the promises above by named conditions.

- *Matching:* a lost reply of CreateOffer or a decline delivered twice makes two drivers be
  asked at once (`AtMostOneBut`); a ride whose candidates are all asked for other rides is
  passed over without any fault: the handler skips them, returns nil, and the event is
  acknowledged with nobody asked (`PassedOver`), against the "drivers get matched" of the
  repository's README; a decline that arrives before the offer is stored as active is dropped
  and the ride waits for ever (incident `early`); a failing `SetActiveOffer`, or an error of
  `FindCandidates` that keeps the lock, has the same end; `MaxOffers` can be exceeded by one,
  the count being read before the previous handler has written it; a ride its rider cancelled
  goes on being offered. Any error of `Fetch` but a timeout ends a consumer, and nothing
  recovers a panic of a handler.
- *Outbox:* one event or acknowledgement that is lost between the relay and JetStream holds a
  worker and its batch for as long as the connection lives, and with one replica the relay
  (`Hung`); a row replayed by `outbox-replay` keeps its attempts and is never claimed
  (`GivenUpAtTheEnd`).
- *Notify:* as many malformed messages as a batch holds come again with every pull, and no other
  message of their consumer is ever handled (the condition on `Batch` in `GetsOut`).
- *User:* reuse detection has false alarms, which `AlarmIsEarned` lists: a refresh whose answer
  was lost and that the gateway repeats, and a token that the session limit or `logout_device`
  revoked; when its device refreshes, all sessions of the user end, although the login
  elsewhere, or the logout of one device, was meant to end one. Increments of failed logins that
  race are lost (`raced` in `LocksInTime`). A register whose reply is lost is repeated and
  answered with 409, and its code is lost with it: no call issues another, so that user can
  never be verified; a code is consumed before its target is compared (`spoilt`).
- *Gateway:* a key used for another operation, or by another user, is answered 200 with the
  reply of the first and no effect. `verify` answers 401 after the code is used up. A location
  update whose reply was lost is repeated and answered with 429 although the position is stored
  (`AnswersTrue` allows it after a lost call only). `drivers.go:47` and `:88` send no internal
  token, so with `MATCHING_INTERNAL_AUTH_ENABLED=true`, as in production, the status routes
  always end in 401; the admin routes need a scope that `signJWT` never issues. `ErrConflict`
  becomes Aborted and then 500, and `respondAuthError` turns Unavailable into 500.
  `timeoutUnaryInterceptor` does not set its timeout, since `RequestTimeout` has set a deadline,
  except for a request with `Accept: text/event-stream`, which `RequestTimeout` leaves alone.
  The server has no ReadTimeout, so a body that is never finished holds its request in binding,
  before any deadline that `Answered` relies on. The handler writes its body before
  `RequestTimeout` would write 504. `X-RateLimit-Reset` is computed from the time to live before
  EXPIRE renews it.
- *Location:* a call that is cut between HSET and EXPIRE leaves a hash without a time to live,
  and a remover that slept past the driver's own event leaves it missing until its next report
  (`slow`).
- *Process:* with `ConnectRequired=false` an error of `NewClients` leaves a nil pointer that
  `serve.go:69` follows; workers are not awaited at shutdown.

### Fairness

- `RideService`, `Outbox`: weak fairness of each goroutine's steps (the scheduler runs it; a
  statement ends) and of the tickers; none for clients, faults or operators, and none for a
  connection that is given up, so a Publish that waits may wait for ever. A lock wait ends
  because the holder's steps are fair.
- `CircuitBreaker`: strong fairness of each caller's steps, since a `sync.Mutex` that starves a
  waiter hands itself over (starvation mode); weak for the timeout. The user service answers or
  the context ends, so `Result` is fair.
- `Matching`: weak fairness of each consumer's "step or pull", and of the expiry of a pending
  offer, which is what `OverdueOffersSettle` shows of the ride service.
- `LocationIndex`: weak fairness of each call's handler, each pull loop of matching and each
  cleanup loop. None for lookups: nobody has to ask who is near.
- `Gateway`: weak fairness of each request's goroutine, which works on or meets its deadline
  (`context.WithTimeout`); none for replicas, so that `Answered` holds even if none ever
  replies.
- `NotifyHub`: weak fairness of each consumer's step: its goroutine runs as long as its loop
  does. None for clients, crashes or failures of Fetch, which end the loop for good.
- `UserAccounts`: none, all its properties are safety.

## 4. Proofs

All for every value of the constants, under the named assumptions, which TLC evaluates:
`IdsDiffer` (ids of rides and offers are disjoint, None is neither), `ServiceAssumption`
(requests are well formed, handlers are not sweepers), `OutboxAssumption` (positive batch size
and attempts), `BreakerAssumption` (natural settings, finitely many callers),
`MatchingAssumption` (positive limits, finitely many handlers, no offer of `Rides` is one of
other rides), `DevicesAssumption`, `LimitsAssumption` and `NewcomersAssumption` of the user
service, `LimitAssumption`, `WindowAssumption`, `PlainAssumption` and `TimeAssumption` of the
limiter (positive limits and windows, times are natural), and `KeysAssumption`,
`MixesAssumption`, `NoKeyAssumption` and `RetryAssumption` of the gateway (requests are well
formed, none is sent under an id that the gateway generates for another, and the keys of the
limiters have limits), `NobodyAssumption` and `BoundsAssumption` of location, and
`SizesAssumption`, `EventsAssumption`, `NoReplicaAssumption` and `ConsumersAssumption` of the
hub (channels and batches hold something, a history may hold nothing, the events are finitely
many positive numbers, and a replica starts two pull loops, `serve.go:206` and `:222`; only
`Repeats` needs the last).

- `RideServiceProofs`, the abstract part: `DriverMatchesStatus` and `StartedRideIsFixed` by
  induction over the steps of the lifecycle; `OutboxTellsStatus`, which is inductive with the
  types; `OneOutcome` by the strengthening `OutcomeIsFinal` (an outcome in the outbox is the
  offer's present status, and that has no edge to another).
- `RideServiceProofs`, the transactions: `IInv == TypeOK /\ TransactionsOK`. `OneUsePerKey` is
  not inductive: a commit must know that no other transaction holds its row or its key, that the
  row still has the status it read, and that the key is not stored; that is what
  `RowLocksExclusive`, `KeyLocksExclusive`, `CallOK` and `KeysOK` say. With it each step maps to
  a step of the lifecycle or to a stutter (`ServiceImplementsLifecycle`), and the abstract
  theorems carry over to the code's transactions.
- `OutboxProofs`: `IInv` ties each phase to the worker's batch (`PhaseOK`, `BatchOK`), keeps the
  batches of two workers `Apart`, each row's attempts within `MaxAttempts` (`RowsOK`) and the
  copies in the stream below the claims (`StreamOK`, where a row that is held and not yet
  published leaves room for one). `RelayInOrder` (`InOrder`) needs `OrderInv` besides: each row
  is in the table once (`InPlace`), a row never claimed is pending and waits for no retry
  (`Untouched`), and without a fault the rows of a ride older than one in a batch are claimed or
  locked (`OlderFirst`). It holds because a batch takes the oldest claimable rows, so it leaves
  out none that is older than one of its own, and because a commit puts a row behind the others
  of its ride.
- `CircuitBreakerProofs`: `IInv` says who holds the mutex, and accounts for the probes: in
  HALF_OPEN the probes in flight and the successes counted make up the admissions.
  `ProbesBounded` and `RejectsWhileProbed` follow.
- `MatchingProofs`: `TypeInv` says that rows and events refer to each other and that every
  handler fits the event it works on. Every step is one of the surroundings (`World`), the start
  of a handler (`Takes`), or a step of one handler (`Shape`), of which only that handler and the
  keys of its ride matter (`NextKinds`). `AskInv` is a budget: a driver of a ride is asked, in a
  handler's hand or listed at most as often as candidates were stored (`rounds`), and no list
  holds anybody twice; popping moves one unit from the list to the hand, CreateOffer from the
  hand to the offers. `SearchInv`: without a repeated event each event is in one hand; with one
  repeated it is in at most two, offers exist only after a search was `Opened`, and a search
  holds the lock or comes too late, so no two search at once. `SequelInv`, for
  `SequentialOffers` and `GivesUpUnwanted`, follows what is claimed of a ride: the offer in a
  handler's hand, an ended offer whose event waits, the key of the active offer. All claims are
  one offer, in the hands of one handler at most (`ChainInv`); a search that has not begun
  finds none (`FreshInv`), and after a crash the lock keeps a second one out while there is any
  (`Over`); an accepted offer is the last one, and a handler that gives up leaves nothing
  claimed and nothing accepted (`Kept`).
- `UserAccountsProofs`: the rows of sessions only age or are inserted (`RowsStep`), which every
  invariant uses. `AccountsTypes` includes the unique index on a device's active session.
  `LockInv` counts failed logins, `LogoutInv` follows descent through the calls under way,
  `AlarmInv` says why a token in use may be revoked, `CodeInv` and `HopeInv` follow the code
  from its issue to the mark, and `LimitInv` with the lemma `Latest` counts the sessions that
  are newer than a login's look.
- `GatewayProofs`, the limiter: the refinement of `SlidingWindow`. `LimiterInv` relates the
  counter to the admissions: a counter that lives has counted every admission since the last gap
  of a window, and the time to live outlives the last request by a window (`Outlived`,
  `Forgotten`, `Chained`); so an admission finds the `Limit`-th last out of the window.
  `LimiterSpaced` is the counting form of the abstract specification, and
  `LimiterRejectsOnlyBusy` the other direction: a refusal means `Limit` requests without a pause
  of a window.
- `GatewayProofs`, the requests: each behaviour is one of the limiter (`GatewayLimits`), which
  carries the limiter's theorems over. `GatewayInv` with `Counted` says that each try of a
  request is known, lost or pending (`Attempts`, `OnePerTry`) and that as long as a key is not
  in `used`, all that a request under it did it did in calls that were lost (`UnusedIsBare`: its
  effects and the calls `Adrift`, which nobody waits for, are no more than its lost calls). An
  effect that stores the key is thus the first that a waiting caller sees (`OnePerKey`), which
  gives `EffectsBounded`. `Truth` says that a refusal of any route but `verify` comes from a try
  without effect (`Refusals`), and that an OK comes from an operation that was done or from a
  key that one has used (`Successes`, `UsedKeys`), which gives `AnswersTrue`.
- `LocationIndexProofs`: `SettledPosition` and `LiveIsFound` speak of a driver whose calls and
  events are over, so the invariant says what holds on the way. A driver that nothing disturbed
  has one call at a time and its events are handled one after the other (`Orderly`); the hash is
  the position of that call or of the newest event (`Remembered`); only the newest event can be
  the last to write drivers:geo (`Placed`); and once it has, a remover that would still take the
  driver out saw it alive, or was slow (`Kept`). An event being handled is in one hand (`Held`),
  which is why no second consumer writes behind it.
- `NotifyHubProofs`: `NoGap` speaks of what a client has; for a client without an excuse at the
  hub it knows, the invariant (`AtHomeInv`) speaks of its cursor, its channel and the history
  too. No number that is appended after the client's first connection is overtaken by one still
  under way (`NoneOvertaken`), so each number appended is larger than all before it and the
  history from `since` on is sorted (`HistorySorted`) and lacks only numbers older than all it
  holds (`HistoryReaches`). So a history that has lost a number after the client's last one
  holds only newer ones, and counting them shows that the client has the excuse `trimmed`. What
  was received up to the cursor, what the channel holds up to each of its entries, and what has
  been sent in all is complete (`CompleteToCursor`, `CompleteChannel`, `Complete`).
- `NotifyHubProofs`, how often: `RepeatsInv` is about the client's `Line`, what it has and then
  what its channel holds. The numbers of a line do not fall, no three are equal, and without a
  replay no two (`Repeating`); what a worker has still to send is larger than the whole line,
  except that a number replayed before it was sent may be its last (`Sound`). A send keeps that
  if the history above the number sent is sorted and nothing in flight is behind it
  (`FineAbove`), which is where the two pull loops matter: of two numbers in hand the larger is
  the last the replica gave out (`TwoInHand`), so the history above the smaller one is sorted
  (`SortedBehind`). With three loops the invariant and `Repeats` fail.

Only model-checked: the liveness properties (`EventuallySettled`, `CallsReturn`, `HalfOpenEnds`,
`OverdueOffersSettle`, `RequestEnds`, `GetsOut`, `GoneInTheEnd`, `Answered`), as the prover does
not handle fairness and ENABLED. Every other property of a passing run is also a theorem.

## 5. Not modelled, and the plan

Left out:

- field validation beyond "well formed or not", logs, request ids and metrics, which keep no
  state; contents of events beyond topic and id; distances and prices; the order of
  `ListNearbyDrivers` and matching's ranking (an arbitrary order);
- user: profiles, which are written once with the user, and access tokens, which are signed and
  not stored: they outlive every logout until they expire;
- gateway: the cache and readiness, which no request depends on, and `ProxyUser`, which nothing
  installs; `OutboxReplayer.ReplayFailed` has no caller;
- generated code, manifests and configuration, whose values are the constants here;
- two hazards have no property, and one only a part of one. Handlers of two rides may send one
  driver two offers (`matching_service.go:323`): nothing prevents it and nothing promises
  otherwise; what other rides do to a request is in `RequestEnds`. All replicas of notify share
  one durable consumer (`serve.go:199`), so a client elsewhere gets nothing: `NoGap` speaks of
  the hub it is connected to. Two goroutines write one response (`serve.go:131`): a race on
  bytes, below the level of `NotifyHub`.

Plan:

1. An abstract specification of what the hub promises a client, one sorted line of numbers with
   its holes excused, which `NotifyHub` implements: `NoGap` and `Repeats` in one refinement.
2. The same for the relay: one queue for each ride, from which a fault lets a row fall out.
3. Two whole rides in a run of `Matching`, and a second replica in that of `notify`.

Each run is kept below three minutes and answers one question.
