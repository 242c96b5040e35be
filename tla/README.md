# Polyester Go SDK: verification of the realtime, signing and trading core

This directory holds TLA+ models of the hand-written core of the SDK, the TLC
configurations that check them on small instances, and TLAPS proofs of the
properties that matter most for every value of the constants. `PROJECT.json`
maps every definition to the lines it models and lists runs, mutants, findings,
hazards and theorems. Nothing here is generated: each definition is a
translation of the Go source at this commit.

## 1. Inventory

The SDK is a client library. `gen/` (protobuf, about 82 000 lines) is generated;
most of `services/`, `codecs/` and `models/` is stateless request building and
response decoding. What keeps state and runs concurrently is small and carries
the correctness of the library:

| Component | State | Operations | Hard behaviour |
|---|---|---|---|
| `realtime.SnapshotThenStream` (`realtime/client.go` 511-1056) | `ready`, `disposed`, `generation`, `pending`, `refreshRun/Next`, the run context | `Start`, `run`, `handlePublication`, `RefreshSnapshot`, `RequestSnapshotRefresh`, `Stop`, `Close`, `failClosed` | four kinds of goroutines call user callbacks without the lock; fetches fail and are retried; reconnects; bounded buffer |
| `realtime.Client`, `subscribeProto`, `Subscription` (`realtime/client.go` 1-510, `subscription.go`, `backoff.go`) | registry of subscriptions, bounded queue, terminal error, latch of resubscribes, reconnect attempt | `SubscribeProto*`, run loop, `enqueue`, `fail`, `SetOnError`, `TakeResubscribed`, `Close` | overflow, close racing the handshake, publications before the reply, auto-reconnect without a cursor |
| `realtime/resubscribe.go` | access updates seen, attempts, the shared read, the next slot | `attemptAfter`, `noteUpdate`, `awaitResume`, `read`, `reserveAttempt` | resume after a server unsubscribe: bounded attempts, one REST read that answers several, slots across the client |
| `realtime/renewal.go` | timers, outstanding commands, a WaitGroup | `schedule`, `renew`, `handleReply`, `stop` | a renewal racing the connection's end; an answer before its write has returned |
| `realtime/private_orders.go`, `order_stream.go` | shared session, consumers, cursor and order map, request ids, timers | `subscribe`, `onFrame`, `offer`, `reauthenticate`, `refresh`, `onClosed`, `shutdown` | one connection shared by many consumers; resume from a cursor; late frames of an old session |
| Order-book stream (`services/orderbook.go`, `orderbook/`) | local book, sequence, availability, consumer queue, recheck timer | snapshot and delta callbacks of the coordinator; bucketing and cutting of a side | sequence gaps, resets, malformed deltas, lagging snapshots, slow consumer, overflow of `int` |
| Market overview (`services/market_overview.go`, `marketoverview/`) | rows by symbol (a plain map), consumer queue | same coordinator | two goroutines in one map; an old row over a newer snapshot |
| Signing timestamps (`auth/timestamps.go`) | last timestamp (atomic) | `automaticSigningTimestamp` | lock-free allocation under contention, backpressure, clock steps |
| Transport (`transport/`, `services/connect.go`, `read_retry.go`, `wire/errors.go`) | none but a budget | signing interceptor, error classification, read retry | retry of what may already have been done |
| Catalogs (`catalogs/`) | hydrated configuration | `Hydrate*`, lookups, `PatchZipperSupply` | readers during a re-hydration |
| Trading services (`services/orders.go`, `triggers.go`, `stop_all_trading.go`, `withdraw.go`) | none of their own | operations of several calls: stop-all, batch-replace wait, trade completion wait | one of several calls fails; paging; clocks that differ |
| Money and scaled integers (`models/money.go`, `codecs/money.go`, `scalars.go`) | none | parsing, rescaling, formatting | 64-bit overflow, exactness |
| Chain (`chain/`) | none | calldata, user operations, fees | hashing and ABI layout (out of TLC's reach) |

Interactions: a service builds a `SnapshotThenStream` with callbacks over its own
state and hands the user a subscription whose `Close`/`Fail` call back into the
coordinator; the coordinator asks `realtime.Client` for raw subscriptions;
`Client.Close` closes the subscriptions that exist at that moment. A private
raw subscription fetches tokens through the signing transport, which takes a
timestamp from the allocator; each of its connections has a renewer; and when the
server ends it, it resumes by the client's shared `subaccountAccess`. Services
with several calls rely on the classification of each call's error.

What makes each component correct:

- *Coordinator*: every publication reaches the callbacks once and in order; none is
  lost while the stream says it is ready; buffers keep their bounds by failing the
  stream closed; a disposed stream stays disposed; refresh requests are served;
  `Start` and `Close` return.
- *Order book*: an available book is the server's book at its sequence; the consumer
  sees no view before a snapshot; an unavailable book is asked for again; the book
  catches up after gaps, resets and malformed deltas; a view is exact or refused.
- *Market overview*: the rows follow the server; the end of the stream, and why it
  ended, reach the consumer.
- *Private orders*: views and resume cursor neither miss nor repeat a change;
  consumers of one account agree, whenever they joined; no server subscription is left
  behind; whatever fails a bounded number of times, the stream recovers or ends.
- *Raw subscription*: items in order, each at most once; what is missing was announced,
  or ends the subscription with its error; every call returns.
- *Resume and renewal*: a bounded number of resumes that access updates may not
  multiply, on answers that are fresh; a token is renewed once at a time and no failure
  is unknown; nothing runs after the connection's end.
- *Signing timestamps*: distinct and increasing for a key, at most the allowed lead
  ahead of the clock, and every call returns.
- *Transport*: only a request that cannot have been executed is sent again, and an
  unknown outcome is reported as unknown (the code fails this for a success that
  connect-go cannot read, section 6).
- *Trading services*: stop-all reports what it could not cancel; the waits end, with a
  result that is true, within their windows.
- *Codecs and money*: exact, or refused; never rounded or wrapped silently.
- *Catalogs*: a reader sees one hydration or another, never half of one.

## 2. Modules

| Module | Models | State in TLA+ ↔ in Go |
|---|---|---|
| `SnapshotThenStream` | the coordinator, with the realtime client as far as it sees it | `s`: the fields under `s.mu`; `w`: the place in `run` and `handlePublication`; `r`: each call of `RefreshSnapshot` with its locals; `sub`: the current `Subscription`; `spc`: `Start`; `env`: what the server and the user did. `delivered` and `view` are history |
| `OrderbookStream` (EXTENDS `SnapshotThenStream`) | `CreateSubscription`'s callbacks, the local book, the user's subscription, the recheck timer | `book`: the variables under `mu`; `cb`: each goroutine's place in the callbacks; `out`: the subscription's channel; `timers`: the recheck goroutines |
| `LocalBook` | `BucketSide`, its checked arithmetic, `sideToLevels` | operators; a visit of a side is an order of its prices; `Half` values of `int` are negative |
| `MarketOverviewStream` (EXTENDS `SnapshotThenStream`) | `CreateSubscription` of the overview and its subscription | `rows`: `bySymbolID`; `cb`: who is in the map or at the queue; `out`: the user's subscription; `crashed`: the runtime found two goroutines in the map |
| `SignalledFeed` | what a raw subscription promises (abstract) | `fed`, `gap`, `over` |
| `ProtoSubscription` | `subscribeProto`, `runSubscriptionOnce`, `Subscription` | `w`: the worker's place and locals; `sub`, `queue`: the subscription's fields; `caller`: `SubscribeProto`; `closers`: calls of `Close`, also through the registry; `cb`: `SetOnError`; `srv`, `wire`, `lost`: the connection; `seen`: the consumer; `fed`, `mark` are history |
| `SubaccountAccess` | `resubscribe.go` | `removed`, `calls`, `next`, `readIn`, `slotIn`: `subaccountAccess`, its reads and its two deadlines as countdowns; `sub`: each `awaitResume` with `resubscribeAttempt`; `access`, `updates`: the server |
| `TokenRenewal` | `tokenRenewer` with the reader that owns it | `timers`, `wg`, `pending`, `nextID`, `stopped`: its fields; `runs`: each timer and the goroutine it starts; `writer`: `writeMu`; `reader` |
| `PrivateOrderStream` | the shared private session | `k`: the fields under `p.mu`, the token fetches and the messages sent; `srv`: the server's end; `log`: the changes of each account |
| `SigningTimestamps` | the lock-free allocator | `last`: the atomics; `caller`: each caller's place and locals; `clock`; `issued` is history |
| `CallOutcome` | the error a caller gets for each failed answer, and what it says | operators over answers: REST status and code class, Connect code and detail class, a success that cannot be read |
| `TradingStop` (EXTENDS `CallOutcome`) | a create that is repeated while `IsRetryable`, then `StopAllTrading` | `pc` and its locals; `live`, `open`, `inflight`: the service; `created`, `unread` (successes that connect-go could not read) are history |
| `OrderWaits` (EXTENDS `CallOutcome`) | `WaitBatchReplace`, `WaitForOrderTradesComplete` with `getOrderExecutionPages` | `wait`, `trades`: the two calls and their locals; `batch`, `order`: the service; `now`, `skew`: the clocks |
| `ScaledAmounts` | decimals to scaled integers and back | operators; `Half` and `MaxBig` are the ranges of the integers, `Ten` the powers of ten |
| `SnapshotThenStreamProofs`, `OrderbookProofs`, `OverviewProofs`, `CredentialsProofs`, `SubaccountAccessProofs`, `ProtoSubscriptionProofs`, `TradingProofs`, `PrivateOrderProofs` | theorems and their lemmas | |
| `MCSnapshot`, `MCOverview`, `MCOrderbook`, `MCPrivateOrders`, `MCSubscription`, `MCAccess`, `MCCredentials`, `MCTrading` | the values TLC's instances need | |

Compositions. `OrderbookStream` and `MarketOverviewStream` compose the coordinator with a
client each: the coordinator's callbacks, single steps in `SnapshotThenStream` that may do
anything the library allows (`Outcomes`), become sequences of critical sections of the
service's own locks (or, for the overview, of unlocked uses of its map), which interleave
with the coordinator and with the user. `MCOverview` checks the coordinator's own
invariants there. `MCCredentials` and `MCTrading` put components side by side that share no
state (`op` says which one a behaviour is about); they are one run each, not a composition.

Refinement. `ProtoSubscription` implements `SignalledFeed` (`KeepsPromise == Feed!Spec`):
the items enqueued are the feed's, `gap` is that something was announced since the last
of them (`Announced # mark`: the latch that `TakeResubscribed` reads, counted), and
`over` is `done`. The abstract feed may leave out items only after an announcement and
feeds nothing after its end.

Granularity. In most modules a step is one critical section, one callback, one channel
operation or one atomic access. In `PrivateOrderStream` it is a whole handler, because
every handler holds `p.mu` from beginning to end. A handler is written there as a
function from the stream's state to its next state, so that calls nest as in the code:
`offer` may overflow the last queue, tear the subscription down and end the run in the
middle of a handler that then goes on. In `TradingStop` and `OrderWaits` a step is one call
or its answer, or one wake-up.

Data. A publication is its number; a snapshot is the number of publications (or, for the
book, of events) it covers; a price level is the event that last set it; an
account's orders are a position in the log of its changes, where a change in `Unseen`
touches no order and is reported as Covered; a market's row is the publication it is of.
Deltas may carry several events, reset the book, or be malformed. A raw publication decodes
to one or more items, numbered in the channel's order (the assumption `Numbered`). Error
codes are classes of codes that the classification tells apart.

What surrounds the code is as nondeterministic as its interface allows:

- *Coordinator*: fetches and handshakes succeed or fail; a subscription ends with or
  without a terminal error at any moment; a snapshot covers exactly the publications
  sent when the fetch returns; callbacks succeed, ask for a refresh, stop the stream or
  panic. The user's operations begin once `Start` has succeeded, except for the run that
  asks about an early `Stop`. For the book the snapshot is finer: `Lag` events behind, up
  to the middle of the next publication.
- *Raw subscription*: the server confirms, publishes before it confirms, ends the
  subscription temporarily or for good, sends what cannot be read, and loses connections;
  the user closes, cancels and installs the callback at any moment.
- *Resume*: the server grants and removes access, its updates arrive in order, late or
  never; reads and tokens fail or are refused; backoffs and requests last as long as they like.
- *Renewal*: token requests and writes succeed, fail or hang until they are cancelled; the
  server answers before the write has returned, late, with an error, or never.
- *Private orders*: the server confirms, refuses or ignores a request, resumes or refuses
  a cursor (free of charge), sends short snapshots, loses or repeats a frame, ends or expires
  a subscription, closes with a fatal or a retryable code. A lost frame is followed by
  another one: with nothing behind it a gap cannot be noticed before the heartbeat, which
  is a lost connection here. A consumer's queue has room (`Many`), or, when the
  consumer is slow, zero or one place left. An acknowledgement timer fires for free once the
  server has dropped the request, and at a cost while the answer is under way.
- *Signing*: the clock stalls, ticks, or steps either way, and may stand near the end
  of the integers.
- *Trading*: a call fails with every answer `CallOutcome` knows, before or after it was
  applied, and a lost request may be applied later. A success (HTTP 200) may fail too: over
  the read limit or not to be decompressed or unmarshalled (`Unread`: connect-go's error, which
  has one of two codes), or refused by the SDK's decoder (`Garbled`); triggers fire and end meanwhile; page
  tokens of triggers may repeat; an order fills while it is read, its trades are recorded late, and
  its client id may pass to a successor between two pages.

## 3. Runs

Bounds are constants of the modules, named with their meaning where they are declared.

| Run | Checks | Instance |
|---|---|---|
| `overview` | `TypeOK`, `MergedOnceInOrder`, `NothingLostWhenLive`, `RowsFollow`, `DisposedIsFinal`, `EndIsReported` | 3 publications of 2 markets, one of them not selected; 2 subscriptions; one place in each buffer and in the consumer's channel; a user's refresh; stop and panic outcomes; Stop, cancel, Client.Close. `OneDisturbance`: a behaviour has a refresh by the user or a reconnect, not both |
| `snapshot_liveness` | `RequestIsServed`, `ShutdownCompletes`, `StartReturns` | two instances, `case` says which: on a quiet market 2 subscriptions and 2 requests by callbacks, timers or a user's refresh; and 1 subscription with a publication, a user's refresh, callbacks that stop the stream or panic, Stop, cancel and Client.Close. 0.34 M states |
| `orderbook_safety` | `BookIsServers`, `NoViewBeforeSnapshot` | 3 deltas over 4 events, one of them a reset; a snapshot one event behind; 3 refresh requests; a one-place consumer channel; SetBucket; render failures and panics. 4.6 M states |
| `orderbook_live` | `DisplayIsExact`, `RecheckContinues`, `CatchesUp` | a malformed delta, 2 unavailable answers, 3 requests, 0.3 M states; every side of up to 3 levels with prices 1..7 and quantities 1, 3, 7 at every bucket size and depth, in every order of visiting it, on 4-bit integers (`Half = 8`) |
| `private_orders` | `ViewsFollow`, `ConsumersAgree`, `NothingLeaks` (with `TypeOK`) | 2 consumers of one account, 2 changes, 1 lost connection and 1 of 14 failures. 2.9 M states |
| `private_orders_recover` | `Recovers` | 1 consumer, the same failures. 0.1 M states |
| `subscription` | `TypeOK`, `NoSilentLoss`, `EndIsTold`, `ErrorIsFinal`, `KeepsPromise`, `CallsReturn` | 3 publications, the last of 2 items; 2 connections, 1 unsubscribe or unreadable frame; one-place queue and setup buffer; Close by the user and by the client; with and without auto-reconnect. 0.91 M states |
| `access` | `TypeOK`, `FreshAnswer`, `ResumesLimited`, `ReadsPaced`, `WaitsEnd` | 2 subscriptions of one account, 2 attempts, stable after 2 ticks, slots 2 apart, reads 1 apart, 1 change of access. Time is in countdowns and has no bound. 0.70 M states |
| `credentials` | `CredentialsTypeOK`, `TimestampsAreValid`, `StopIsExact`, `EachRenewalOnce`, `CredentialsReturn` | 2 callers, integers up to 4, a clock that reads -1, 1, 3 or 4; 5 renewals and 2 pings. 0.38 M states |
| `trading` | `MutationsAreKnown`, `NothingLeftBehind`, `ResultsAreTrue`, `WindowIsKept`, `ConversionsExact`, `OperationsReturn` | 1 old trigger, a create sent twice at most, pages of 1, 2 read attempts; a batch of 2 items, a window of 5, clocks 2 behind to 1 ahead; 3 trades on pages of 1; 8-bit integers (`Half = 128`), scales 0..3, decimals up to 260 with up to 4 places. 0.44 M states |
| `snapshot_early_stop`, `unreadable_answers` | `StartReturns`, `OutcomeIsTold`: violated, see section 6 | |

Why these bounds are enough to be interesting. Three publications and one-place
buffers let a publication be in the queue, in the worker's hand and in `pending` at one
time, and let each buffer overflow; two subscriptions give a first connection and a
reconnect. One delta that skips events and a snapshot that lags give every relation of
a delta to the book: stale, next, gap, reset. Two consumers give a joiner at every
moment of another's life; two changes give a view that can miss one, repeat one, or see
them swapped; one lost connection and one further failure let any failure fall into a
reconnect. A publication of two items lets the queue overflow in the middle of one. Two
subscriptions that ask are enough to join a read, to be too late for it, and to compete
for a slot. Five renewals let both kinds be renewed, replaced by a reply and stopped at
any point of their lives. Pages of one make every listing a matter of several calls.
In `snapshot_liveness` the
second request can be made while the refresh for the first is under way; `RequestIsServed`
asks that the gap goroutine takes it for a refresh that has not begun (`RequestTaken`), and
that this one, or its retry, gets as far as ready. In the conversions the products and
powers of ten pass the eight bits from below and above. Larger buffers only postpone the overflow. Every property has a mutant in
`PROJECT.json`: a plausible slip in one mapped definition under which TLC finds the
property violated in the same run.

Two accounts on one connection are in `PrivateOrderStream` (`Accounts`, `AccountOf`),
but no run instantiates them yet. Deadlock is checked where a system cannot stop; in the
other runs a system that has returned everything may rest.

## 4. Fairness

One weak fairness condition per goroutine, and none for the server, the transport or the
user, so that a liveness property must hold when no publication ever arrives.

- *Coordinator and order book*: Go schedules runnable goroutines; callbacks and timers
  return; a handshake and a fetch end, at the latest by their timeouts (with any outcome).
- *Raw subscription* (`CallsReturn`): the worker, `SubscribeProto`, each caller of `Close`,
  and the error callback, which must return. A read of the connection ends by a frame, a
  loss, or the cancellation of the context; the server need never say anything.
- *Resume* (`WaitsEnd`): each waiting subscription, the goroutine of each read, and time.
- *Renewal* (`CredentialsReturn`): the reader, the shutdown, and the goroutines of the
  renewals; a request or write under way ends because stop cancels it, not because a
  server answers.
- *Signing* (`CredentialsReturn`): callers are scheduled and time passes; the clock need
  not advance.
- *Trading* (`OperationsReturn`): the caller goes on, a call ends by its own timeout, time
  passes. That the tokens of an order's pages go on is assumed of the service (section 6).
- *Private orders* (`Recovers`): besides the program (goroutines, token fetches, timers,
  consumers that resume reading) a server that answers and streams what it has, outside
  the `MaxFaults` failures and `MaxLosses` closes. Without that assumption a silent server
  would refute it trivially.

## 5. Proofs

TLAPS checks these for every value of the constants that satisfies the named
assumptions of the modules; every leaf is checked and nothing is assumed besides. The
assumptions are what the code or Go gives: names of goroutines that differ, capacities
that are naturals, finitely many accounts and subscriptions (`SubaccountAccess`), ids
given once (`TradingStop`'s `Given`: the ids that exist before the operation). Bounds of
the environment (`MaxPubs`, `MaxConns`, ...) are any naturals.

A listed theorem that states a run's property is named in `PROJECT.json`; here is along
which argument each holds.

*Coordinator* (`SnapshotThenStreamProofs`).

- `TypeCorrect`: `Spec => []TypeOK`. Its content is the capacity of `pending` and of the
  queue for every size of both.
- `DeliveryOrder`: `Spec => []MergedOnceInOrder`. The property says nothing of where a
  publication waits before it is delivered. The inductive invariant is
  `TypeOK /\ Exclusive /\ Ordered`. `Ordered` lists the places a publication passes
  through (queue, the worker's hand, `pending`, a refresher's buffer, delivered) and says
  that each is ascending and that they are ordered among each other. `Exclusive` is the
  argument why two goroutines may call the callbacks without the coordinator's lock: one
  refresher at a time is in its section, a ready stream has nothing buffered, and while
  the worker delivers live nothing is buffered anywhere. The sequence lemmas (`AppendSeq`,
  `TailSeq`, `ConcatSeq`, ...) move publications between places.
- `DisposedStays`, `NothingIsLost`: `DisposedIsFinal` and `NothingLostWhenLive`. Order is
  not enough for the second: the places must be shown to be all there are. `Kept` says
  that what was published on the current subscription and is not in the view is in one of
  them; `Seen` and `Latest` bound what a refresher's snapshot covers, so that marking the
  stream ready loses nothing; `Early`, `Reconnecting` and `Emptied` are the states before
  the first snapshot, between two subscriptions, and after the queue was drained.
  `CoordInv` is all of these together.

*Order book* (`OrderbookProofs`, from `BookAssumptions` besides).

- `BookInheritsOrder`, `BookInheritsDisposal`: the coordinator's invariants under the book's
  callbacks. Each step of the book is a step of the coordinator, leaves it alone, or stops
  it (`BookStepsAreNext`): the callbacks of `SnapshotThenStream`, which may do anything at
  one point, cover what the book's sequences of critical sections do. So `CoordInv` is
  inherited, and no step of the book had to be looked at again.
- `BookExact`: `BookIsServers`. Inductive with the book's type alone (`BookOK`), because a
  delta is applied only when its range begins at the book's sequence plus one or before,
  and a snapshot replaces the book as a whole. The server's book at a sequence is defined by
  the last event at each level; that this is the level's old event or one of the delta's
  needs a greatest element, for which induction over a predicate is not available; it is had
  from the well-foundedness of the naturals (`LeastOf`, `MaxOf`).
- `ViewsAreExact`: `DisplayIsExact`, for every width of `int`, every side, bucket size and
  depth, and in whatever order a side is visited. The checked addition refuses exactly the
  sums that do not fit (`SumChecked`), the product that the bucket needs always fits
  (`ProductKept`), so a bucket is refused only if it is above the integers (`BucketIs`).
  `SideBucketed`: after each price of a visit the book is the exact aggregation of the
  prices visited so far, or one of its sums does not fit and neither does the whole side's,
  because quantities are positive (`PartGrows`, `LevelAdded`). What is displayed are the
  best buckets, best first (`SortedIs`, `SideShown`); bids are rounded down and asks up, so
  that a book that is not crossed is not displayed crossed (`BooksSafe`).
- `ViewsAreStored`: `NoViewBeforeSnapshot`. `Stored` follows the book's first snapshot to
  everything rendered after it: if the coordinator has left a fetch (`Fetched`), the book has
  one, and so has each view in a caller's hand, in the channel, and read.

*Market overview* (`OverviewProofs`, from `OverviewAssumptions` besides).

- `OverviewInheritsOrder`, `OverviewInheritsDisposal`: in the same way.
- `OverviewRowsFollow`: `RowsFollow`. The rows have no sequence numbers and two goroutines
  write them, so an old row may be written over a newer one at any time; the claim is that
  this is put right before all was handled. While the first subscription is open, `Closed`:
  with a publication that is still to be applied every later one is too; `Covered`: what a
  snapshot on its way does not have is still to be applied; `Good`: a market's row is the last
  one, or that one is still to be applied or in such a snapshot. After a reconnect `Closed` is
  what fails, and old rows can stay: section 6 has the trace.
- `OverviewEndIsReported`: `EndIsReported`, from `Reported`: a disposed coordinator has an
  error, its subscription has, the user closed it, or `Start` is failing. `Blameless` says
  which of the coordinator's steps dispose it with an error recorded, `WorkerEnds` why the
  worker can return.

*Private orders* (`PrivateOrderProofs`, from `StreamAssumptions`): `ViewsFollowAlways`,
`ConsumersAlwaysAgree`, `NothingEverLeaks`, all three from one invariant, `StreamInv`. A handler
runs several of the small steps (a teardown inside an offer inside a report), so the
invariant is shown for the helpers first and for the actions then.

- The argument for the views. A server's subscription can resume, start over or be ended while
  frames of it are under way, so the cursor cannot be compared with the server's
  present position. `Positions` instead gives each server subscription the position it has
  after each of its frames; `StreamInv` says that one such function exists. `ServerFits`: each
  frame under way is at its sequence what the function says, and so is the server's own
  position. `Settled`: a record that holds a subscription and has taken its first n frames
  has the cursor that the function gives for n. A frame in order moves both, and one out of
  order drops the subscription, with the cursor kept; the subscribe
  under way carries that cursor, and the subscription its answer announces begins there
  (`Resumes`).
- The argument for the consumers. `Agree` fails inside a handler: detach and resubscribe clear
  a record's readiness before its consumers are told of the disconnect. `Nearly` is what
  still holds there, and each helper is shown to lead from the one to the other. A queue that
  overflows halfway may tear the record down (`Offered`, `Touches`).
- The argument for leaks. `Held`: a server subscription is used by a record, its unsubscribe is
  in the messages on their way (`Owned`), or the answer that announces it is; `Keeps`: no
  handler drops one of these without putting another in its place.
- The folds over the accounts (`ReportAll`, `TerminateAll`, `ForAll`) are functions on sets of
  accounts. `FoldSound` has what they do from a smallest set of accounts that would be
  a counterexample (`LeastOf`), which is why `Accounts` is assumed finite.

*Signing* (`CredentialsProofs`, from `AllocatorAssumptions`): `Valid` is `TimestampsAreValid`,
for any number of callers, any clock and any width of the integers; `Bounded` also is type
correctness. The inductive invariant adds `IssuedUpToLast` (nothing issued is above the
atomic) and what a caller knows between its load and its swap, which stays true although
others move the atomic, because the swap compares.

*Renewal* (`CredentialsProofs`, from `RenewerAssumptions`).

- `StopExact`: `StopIsExact`. The WaitGroup is the cardinality of the live runs: each step of
  schedule, replacement, firing, stop and return adds or removes one run and counts by one.
- `RenewedOnce`: `EachRenewalOnce`, from `OnceInv`. At each place of a kind's renewal exactly one
  thing stands for it: a kind still to be scheduled, a timer, a run under way, a command that
  waits for its answer, or the reply in the reader's hand (`Single`, `Timed`, `Sent`). That ids
  are not used twice is the count of `nextID` (`Counts`).
- `CredentialsTyped`: `CredentialsTypeOK`, for both components.

*Resume* (`SubaccountAccessProofs`, from `Assumptions`): `TypeCorrect`; `Fresh`, `Limited` (from
`Bounded` and `Apart`) and `Paced`. The inductive invariant: `OneSleeps` (the read that can
be joined is the one that sleeps, and wakes no sooner than allowed), `Waits` and `Judged`
(who waits asked before the list was made), `Slots` (a slot taken lies before the next
one), `Budgeted` (the budget covers the resumes, at each place of the loop).

*Raw subscription* (`ProtoSubscriptionProofs`, from `Assumptions` and `Numbered`).

- `TypeCorrect`: `TypeOK`, with the capacities of the queue and of the setup buffer.
- `ErrorStays` and `EndTold`: `ErrorIsFinal`, and `EndIsTold` from `ToldOnce` and
  `EndsForAReason`. The invariant follows a failure from `fail` to the callback (`Failing`,
  `Telling`) and the end to whoever asked for it (`Ending`).
- `Implements`: `Spec => KeepsPromise`. Initial states map to initial states, and each step
  to a step or a stutter of `SignalledFeed`. The invariant `RInv` says what items are
  where: `Chain` (the messages under way are consecutive publications), `Hand` and `Between`
  (what the worker holds back or has in hand continues what was fed), `Told` (a hole is
  behind an announcement).
- `NothingSilent`: `Spec => []NoSilentLoss`, from `Whole`, `Sorted` and `Filled`: the received
  items and the queue are the fed ones in order, and each hole is covered by a refresh or
  still latched.

*Trading* (`TradingProofs`, from `StopAssumptions` and `WaitAssumptions`).

- `KnownMutations`: `MutationsAreKnown`. What an error says of the outcome is a fact about the
  two classifications, for every status, code and detail (`KnownIsRefused`), but
  not for a success that connect-go fails with a code of its own. The property counts these (`unread`): a caller who is told of a
  refusal has exactly these copies applied and none under way, and no other copy is ever
  applied twice. `OneCopy`: besides them, at most one copy is under way or applied as long as
  the create may be sent again. The stronger `OutcomeIsTold`, without the exception, is what
  the documentation says and the code does not do (section 6).
- `NothingLeft`: `NothingLeftBehind`. `Walked`: what was live when `StopAllTrading` began is
  canceled, reported, in hand, or on a page not read yet, also when pages and tokens repeat.
- `RefusedReadsAreFinal`: `RefusedReadsReturn`, the safety part of `OperationsReturn`.
- `WindowKept`: `WindowIsKept`. `DeadlineInv`: the deadline is the client's window or, once a status
  tells when the batch was accepted, the service's, brought to the client's clock.
- `SettledStaysTrue`: `SettledIsTrue`, the first conjunct of `ResultsAreTrue`: a status is behind the
  batch (`Behind`), and what is settled does not change.
- `WaitsTellTheTruth`: `ResultsAreTrue`, with `CompleteIsTrue` besides: an order's trades are
  reported complete only if they are all there, each once. The code compares an amount, and
  `AmountTells` is why that is enough: quantities are positive, so distinct trades of the order
  that sum to its total are all of them. That they are distinct and of one order is
  `TradesInv`: the trades of one listing fall from page to page, also when trades are recorded
  between two pages or a successor takes the client id, because the pages that follow are asked
  for by the id of the order that the first one found (`Listing`). `Judged` keeps the verdict.
- `ConversionsAreExact`: `ConversionsExact`, for every width, scale and decimal. A decimal is
  trimmed to the shortest form of the same value (`TrimIs`); at a scale it is an integer exactly
  if that form has no more places than the scale, and then it is the one the code computes
  (`ToScaled`, `ExactlyIs`); rescaling commutes with that (`Rescales`), and what is formatted is
  parsed as the same integer (`FormatsBack`). Base quantities at the widest scale are exact if
  they fit an int64 and otherwise refused or negative, never a wrong positive number.

Sums and powers. The library states induction with an operator as parameter, which the
provers cannot instantiate. Where a proof is about a fold over a set or a recursive function
(the sums of `SumFunctionOnSet`, `Ten`, the books of a visit, the folds over accounts), the
function is shown to exist and to satisfy its equation, or the claim to hold, by looking at
a smallest counterexample: a least number (`LeastOf`) or a minimal subset of a finite set
(`Minimal`), which cannot be one. No model has a RECURSIVE operator.

Only model-checked: all liveness (`RequestIsServed`, `ShutdownCompletes`, `StartReturns`,
`RecheckContinues`, `CatchesUp`, `Recovers`, `CallsReturn`, `WaitsEnd`, `CredentialsReturn`,
`OperationsReturn`). Fairness and ENABLED are out of the prover's reach. Every invariant and
every action property that a passing run checks is stated by a theorem.

## 6. Where the code and its documentation part

Checked by runs that expect a violation:

- `StartReturns` (`snapshot_early_stop`): a `Stop` that comes before `run`'s first check leaves
  `Start` waiting for a signal that this one return of `run` does not send.
- `OutcomeIsTold` (`unreadable_answers`): a create is applied and answered with 200; connect-go
  cannot unmarshal the answer and fails the call with `invalid_argument`, or finds it above
  the limit of `WithReadMaxBytes` (`transport/transport.go:74`) and fails it with
  `resource_exhausted`. `MapConnectError` takes the codes for the server's: the caller gets a
  `ValidationError` (`wire/errors.go:368`) or a `RateLimitError` (`:360`), of which
  `MutationOutcomeUnknown` says that nothing was applied, and `IsRetryable` that the second may
  be sent again. A message that could be read and is refused by the SDK's decoder has an
  unknown outcome, as it should.

Met while modelling, with traces found by TLC in the named module under a property that is
not kept as a run:

- `SnapshotThenStream`: when the refresh of a reconnect fails twice, `run` ends and closes
  `Done` (`realtime/client.go:742`), but `disposed` stays false and `Err()` nil, and a
  `RefreshSnapshot` in flight may still set `ready`.
- `SnapshotThenStream`: after `Client.Close` a managed stream goes on backing off and being
  refused with `ErrClientClosed`, for ever (`realtime/client.go:84`, `:794`).
- `OrderbookStream`: `emit` renders under the lock and enqueues after it
  (`services/orderbook.go:158`); a view rendered before a refresh may be enqueued after
  the refresh's own, and on a quiet market remain the last one.
- `PrivateOrderStream`: a subscription that joins an account already ready is told
  `OrderReady` at once (`private_orders.go:238`), on the strength of an older subscribe; an
  order acknowledged before the joiner's own subscribe may be missing.
- `MarketOverviewStream`: `Crash` is reachable. After a reconnect the worker may apply
  publications live, because `Start`'s refresh or a user's set `ready`, while the reconnect's
  refresh is in `ApplySnapshot` on the same map (`market_overview.go:194`).
- `MarketOverviewStream`: rows may be old after a reconnect (`RowsAreCurrent`, with one user, one
  refresh of theirs and two publications of one market). The stream is ready; the user calls
  `RefreshSnapshot`, publication 1 arrives and is buffered, the connection is lost and
  publication 2 with it; the user's fetch fails, which they are told; the reconnect's refresh
  fetches a list that has 2 and merges the buffered 1 over it (`market_overview.go:224`). No
  call is under way then and the stream is ready, with row 1 until the market's next
  publication. `RowsFollow`, which holds, is the same statement until the first reconnect. No
  document promises that rows are current, so that this is no finding. The order book is
  spared: its deltas carry sequence numbers.

Seen in the code and not reached by a property, because a model that excludes them checks
the rest:

- `ResolveQtyScaled` at scale 18 parses a uint64 and converts it to int64
  (`codecs/money.go:67`): a decimal above about 9.22 becomes negative. The quote path looks
  at the sign again. `ConversionsExact` says of base quantities at that scale what the code does:
  exact, refused, or negative when the decimal fits no int64.
- `formatFixed` and its callers negate a negative value; the smallest int64 is its own
  negation. `ScaledAmounts` formats what is not negative.
- `getOrderExecutionPages` (`services/orders.go:696`) follows page tokens without the guard
  that `StopAllTrading` has: a listing that never ends keeps the wait beyond its timeout,
  which is only looked at between listings.

## 7. Not modelled

Listed with reasons in `PROJECT.json`. In short: generated code (about three quarters of all
lines, which is why the map covers a small share of the repository), message construction
and decoding, cryptography and ABI layout, and single calls without state of their own.
Catalogs: a hydration validates copies and swaps them in under one lock, and each lookup
is one critical section; what is left, operations that look up a scale and an id in two
sections around a re-hydration, is in the plan. Inside the modelled components: the lengths
of backoffs (a timer that was started may fire), the private session's `auth` message and
heartbeat, the answers to `unsubscribe`, field violations and retry-after of errors, the
market list and sparklines of the overview, and an error callback that itself calls
`Close` (it would wait for itself; the documentation does not say what a callback may call).

## 8. Plan

Done: the coordinator, its two clients, and the safety theorems of all three; the raw
subscription, its abstract feed and the refinement; resume and renewal, signing,
stop-all, the batch wait and the wait for an order's trades with their theorems; the private
order stream with its theorems; the classification of errors; the conversions and the
bucketing with theirs. Every safety property of the passing runs is proved. Left, in this
order:

1. Two accounts in the runs of `PrivateOrderStream`; an abstract order feed, a view that
   follows a log and may be behind, that the stream implements for every open consumer.
2. `SnapshotThenStream`'s own view of a subscription shown to be implemented by
   `ProtoSubscription`, so that the two compose.
3. Catalog hydration against order writes that read a scale and an id in two steps.
