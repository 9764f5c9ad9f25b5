# TLA+ models of the order service

The program is a small exchange back end in Go: an HTTP API that places and
cancels orders against a user's balances in MySQL, a transactional outbox in the
same database, and relay workers that publish the outbox to Kafka. This
directory models its concurrent core in TLA+, from the HTTP request to the effect
of an event at the consumer, checks it with TLC on small instances and proves its safety
properties with TLAPS for instances of any size. Paths below are relative to the repository root.

## 1. The system

### Components

| component | code | state | operations | makes it correct |
|---|---|---|---|---|
| Order aggregate | `internal/order/domain/order.go` | one order, its pending events | NewOrder, Accept, Fill, Cancel, Reject, PullEvents | terminal states stay, never overfilled, events tell the history |
| Balance aggregate | `internal/balance/domain/balance.go` | available, locked, pending events | DeductAndLock, Unlock, SettleFill, PullEvents | no money created, nothing below zero |
| Place order | `internal/order/application/place_order.go` | a request in progress | Execute: idempotency check, lock, deduct, save, commit | all writes or none; one order per key |
| Cancel order | `internal/order/application/cancel_order.go` | a request in progress | Execute: read, lock, cancel, unlock, update, commit | the money comes back once |
| Repositories | `internal/*/infrastructure/mysql_*_repo.go` | tables orders, balances | Save, Update, FindByID, FindByUserAndCurrencyForUpdate | versions and row locks serialise writers |
| Transactions | `internal/shared/infrastructure/tx.go` | one MySQL transaction | RunInTx | rollback on every error and panic |
| Idempotency keys | `internal/outbox/mysql_outbox_repo.go` | table idempotency_keys | Check, Save, expiry after 24 h | a key names one order |
| Outbox | `internal/outbox/mysql_outbox_repo.go` | table outbox_events | InsertEvent, FetchPending, MarkSent, MarkFailed, IncrementRetry | rows agree with the tables, in order per key |
| Relay | `internal/outbox/relay.go` | a batch and its sent ids per worker | pollAndPublish in a loop | at least once, SENT only after the ack |
| Kafka producer | `internal/shared/infrastructure/sarama_producer.go` | none | SendMessage with acks=all | an ack means stored |
| Kafka consumer | `internal/order/presentation/kafka_consumer.go` | table processed_events, retry counts in memory | ConsumeClaim, processWithIdempotency, publishToDLQ | one effect per event, none passed unseen, poison isolated |
| HTTP | `internal/order/presentation/handler.go` | none | decode, call, answer | the answer says what happened |
| Server | `cmd/server/main.go` | goroutines, shutdown | start, signal, stop | nothing in flight is lost |
| Value objects, configuration, architecture check | `internal/shared/domain`, `internal/config`, `ci/` | none | constructors, parsing, a script | not concurrent, no state |

### How they interact

An HTTP request runs on a goroutine of its own. A placement reads
idempotency_keys outside a transaction, then opens one in which it locks its
balance row (`SELECT ... FOR UPDATE`), writes the balance and its outbox rows,
the order and its outbox rows, and the idempotency key, and commits. A
cancellation reads the order *outside* the transaction and without a lock, then
locks the balance and updates balance and order; only the version column of
orders protects it from what happened since the read. MySQL runs at READ
COMMITTED (`docker-compose.yml:30`), so requests meet only in committed rows and
row locks. Relay workers (two by default, `RELAY_WORKER_COUNT`) share the table
outbox_events with the requests and with each other; each of their calls is an
autocommitted statement, and they share nothing else. Kafka keeps the messages of a
partition in the order in which they were stored, and puts a message into the
partition that the hash of its key, the aggregate's id, selects. A consumer group
reads them: each process runs one goroutine per partition it owns, in a session that a
rebalance ends; the goroutines share the process's connection pool and its
in-memory retry counts, the processes share processed_events and the committed
offsets. The server does not start the consumer (`cmd/server/main.go` never mentions
it); it is modelled as a process of its own, as the documents deploy it.

### What is hard

The full list, each at its line and with the properties that cover it, is
`hazards` in `PROJECT.json`. In short: two cancellations of one order that both
read ACCEPTED; retries with one key that overlap the first attempt, follow a lost
acknowledgement or come after the key expired; a failure after some of the six
writes; circular waits over balance, order and key rows; outbox ids handed out
before the commit; products of price and quantity that do not fit the columns, and rows
whose rounded product is not what was locked;
relay workers that hold the same rows; crashes between a send and MarkSent;
outages longer than the retries; a later event of a key overtaking a failed one;
a shutdown that cuts a batch off; backoffs counted from another clock's created_at; a handler
whose effects are not rolled back; offsets that pass a failed message; retry counts
that a restart forgets; members that were evicted and still work; a pool in which every
transaction waits for a second connection.

## 2. Modules

| module | models | extends / uses |
|---|---|---|
| `Decimals` | DECIMAL(30,8) columns against exact decimals in memory | |
| `OrderAggregate`, `BalanceAggregate` | the methods of the aggregates as operators: `CanX` for the error returns, `X` for the effect | Decimals |
| `DomainLifecycle` | both aggregates, any method in any order, Fill, Reject and SettleFill included | both aggregates |
| `OrderService` | concurrent placements and cancellations over the shared tables | both aggregates |
| `OrderServiceProperties` | its type invariant, safety, action and liveness properties, and the inductive companions used by the proofs | OrderService, `Ledger` |
| `Ledger` | what clients are promised: placing and cancelling as single steps | |
| `OrderPrecision` | placing and cancelling with prices and quantities finer than the columns of `orders` | both aggregates |
| `Delivery` | what the relay is for: at-least-once publication of committed events | |
| `OutboxRelay` | relay workers, outbox_events, Kafka, faults, with its properties | `Delivery` |
| `RelayBackoff` | the same with the clocks of application and database | OutboxRelay |
| `GracefulShutdown` | the same under the shutdown sequence of main | OutboxRelay |
| `IdempotentConsumer` | the consumer group: coordinator, sessions, claims, processed_events, DLQ | |
| `EventPipeline` | a server that may be stopped and the consumer, around one topic | GracefulShutdown, `IdempotentConsumer` |
| `MC*` | small instances | |
| `*Proofs` | theorems (section 5) | the modules they are about |

### OrderService

*State.* `balances`, `orders`, `keys`, `outbox` are the committed tables and
`nextId` the AUTO_INCREMENT of outbox_events, which a rollback does not take
back. Per request: `pc` is the statement it executes next, `cmd` the body of the
HTTP request, `order` and `balance` the aggregates on its goroutine's heap, `tx` its
uncommitted writes, `held` its row locks, `answer` the response.

*Actions.* One action is one SQL statement with the in-memory work up to the next
statement, which is the granularity at which the database lets requests
interleave. The names follow the code:

| `pc` | action | code |
|---|---|---|
| idle | `Receive` | handler decodes the request |
| check | `CheckHit`, `CheckMiss` | `IdempotencyRepo.Check`; its errors are swallowed, so a miss is always possible |
| create | `CreateOrder` | `NewOrder` and its error returns |
| find | `FindOrder` | `FindByID`, the already-cancelled answer |
| lock | `LockAndDeduct`, `LockAndUnlock` | `FindByUserAndCurrencyForUpdate`, then the domain calls |
| saveBalance | `SaveBalance` | `BalanceRepo.Save` and its outbox rows |
| insertOrder / updateOrder | `InsertOrder`, `UpdateOrder` | `OrderRepo.Save` / `Update` and their outbox rows |
| saveKey | `SaveKey` | `IdempotencyRepo.Save` |
| commit | `Commit`, `CommitUnacknowledged` | `tx.Commit`, with and without the answer arriving |
| any | `Fail` | any statement fails: rollback, error answer |
| | `ExpireKey` | 24 hours pass for one key |

Every error return of the code is an `Abort`: RunInTx rolls back, and tables and
locks are as if the request had not been. A blocked statement is a disabled
action (`Free`). `Column` rounds what SaveBalance writes.

*Abstractions.* An order's id is the request that makes it; ids from `NewOrder` are
UUIDs and never collide. A price and a quantity are whole column units and an
amount a whole number of 1/`Scale` column units, so that a product of two
columns is exact in memory and rounded in a column, as in the code. The
outbox_events columns that the relay does not compare are left out of an event.

### OutboxRelay

*State.* `status` and `retries` are columns of outbox_events, `age` the backoff
condition on created_at (the largest exponent of two that has passed), `topic`
what Kafka has stored, `kafkaUp` whether the brokers answer; per worker `pc`,
`batch` (rows with the retry_count *as fetched*) and `sent` (sentIDs). `faults`
counts lost acks, database errors and crashes, up to the bound `MaxFaults`.

*Actions.* `FetchPending`, `SendAcked` / `SendFails` / `SendAckLost`,
`IncrementRetry`, `MarkFailed`, `MarkSent` are the calls of pollAndPublish in its
order, with the errors of IncrementRetry and MarkFailed ignored as in the code.
retry_count is a TINYINT UNSIGNED (`MaxCount`, 255): at its limit the UPDATE fails and the count stands.
SKIP LOCKED omits rows that another worker's *statement* holds at the moment
of the fetch, and nothing longer: the fetch runs outside a transaction. `Crash` kills
the process, all workers at once; `CommitEvent`, `Grow`, `KafkaFails` and
`KafkaRecovers` are the environment. What CommitEvent assumes, that rows of
one aggregate appear in id order, is `OutboxGrowsInKeyOrder` of OrderService.

*Abstract specification.* `Delivery` knows statuses and the set of published events. Its
steps are Commit, Publish (of a committed event, again and again), Confirm (only of
published events) and GiveUp. `ImplementsDelivery` maps the topic to the set of its
messages; every call of the relay is one of these steps or changes neither.

### RelayBackoff

OutboxRelay abstracts the WHERE clause of FetchPending to `age`, which may grow at any
moment. Here `age` is what the SQL text makes of two clocks: `created`, the created_at
column, is bound from the application's `time.Now()` (`mysql_outbox_repo.go:31`, `:41`),
and line 54 compares it with the database's NOW(), `now`. The program does nothing to keep
the two together. `docker-compose.yml` gives the database the time zone (+09:00) that the
DSN assumes (`internal/config`), but no session sets it, and nothing compares the clocks of the
two hosts. `TimedCommit` therefore stamps a row with `now` plus any member of `Skews`, a different one
for each row: clock skew, time zones and the time from the INSERT to the commit. `committed`
and `tried` are histories, the database's time at the commit of a row and at the last failed
send. `Tick` advances the clock and recomputes `age`.

`LastTryIsLate` is what is left of the backoff as a promise: the attempt after which an event
is given up comes more than 2^(MaxRetries-1) seconds after its commit, *less `MaxLag`*, the
number of seconds by which the application's clock may be behind. An outage of Kafka that is
shorter costs nothing. A lag as long as the backoff takes the promise away altogether: every
event is then old enough from its first second, and MaxRetries polls in a row give it up. An
application clock that is ahead only delays the retries. The spacing of retries that the comment at
`mysql_outbox_repo.go:49` describes is not kept, and no property says so: the clause counts
from created_at and not from the last attempt, so an event whose first attempt comes late
is tried again at every poll.

### GracefulShutdown

`phase` follows main: serving, draining (the signal has come, srv.Shutdown waits for
requests) and cancelled (the relay's context is done). A cancelled context fails every
database call of a worker, while SendMessage, which ignores contexts, goes on:
`SendCancelled`, `GiveUpCancelled` and `MarkSentCancelled` are pollAndPublish from
there. Nobody waits for the workers; `ExitAndRestart` ends the process wherever they
are. A crash may come at any time.

### IdempotentConsumer

*State.* `log`, `committed`, `owner`, `dlq` belong to Kafka and its coordinator,
`processed` is the table, `effects` counts how often the handler has done its work. Per
process: `session` and `retryCounts`; per claim (process and partition): `pc`, `pos` and
`marked`. `failures` is a history of how often processing an event has failed.

*Actions.* `SkipUnidentified`, `PublishToDLQ`, `Failed` and `Succeeded` are what
ConsumeClaim does with a message; `Check`, `Handle`, `InsertProcessed` and `Commit`, each
with its failing sibling, are the calls of processWithIdempotency. The handler gets the
session's context and not the transaction, so `Handle` takes effect at once and needs a
second connection while the transaction holds one. `HandlerFails` returns an error after its
work or before it. `HandlerRefuses` is the poisonous event, on which the handler, which is
not in the repository, is assumed to do no work. `CommitFails` covers the commit whose
acknowledgement is lost. Of sarama and the coordinator (external) the model has what
the code relies on: sessions start at the committed offset (without one, at the first
message), offsets are accepted only from
the owner of a partition, a rebalance cancels the session's context and waits for the
claims, a member whose heartbeats stay out is evicted while it works on.

### EventPipeline

The relay of `GracefulShutdown` and the consumer, with one budget of faults. They share
nothing but the topic: what the relay appends to `topic` it appends to the `log` of the
partition that `PartitionOf` selects (`Stored`). A step of one part leaves the other's variables
alone. Each part's fairness is restated over all variables.

### OrderPrecision

One account, orders whose price and quantity are finer than the columns by a factor `One`.
Placing charges the exact amount, rounds it into the columns of the balance, and stores
price and quantity rounded; cancelling recomputes the amount from the stored row. A cancelled
order so leaves a rest locked for ever, or takes one from what other orders have locked; and
an order whose row was rounded up cannot be cancelled while nothing else is locked, because
Unlock refuses more than is locked. `ResidueIsBounded` says how large these rests can get: half
a unit per write of the balance and, per order, the error of a product of two rounded numbers,
which grows with the price.

## 3. Runs

| run (cfg) | instance | shows |
|---|---|---|
| `DomainLifecycle` | two valid and two refused drafts, quantity 3, funds 5 | statuses, fills, events and money are consistent after any sequence of method calls |
| `OrderService` | 3 requests, 2 accounts, 1 key; an order to buy and one to sell under the same key, an unknown account, an invalid side, cancellations | conservation, lock sufficiency, durable answers, event history; every request is answered |
| `OrderServiceRace` | 4 requests (symmetric), 2 purchases that fit side by side, cancellations | locked money, keys, outbox rows; an order is cancelled once; refinement of `Ledger` |
| `OrderPrecision` | 3 orders (symmetric), prices and quantities in thirds of a column unit | available plus locked drifts by at most one column unit per write, nothing goes below zero; what cancelled orders leave locked is bounded |
| `OutboxRelay` | `MCGracefulShutdown`: 1 worker, 2 events of one key, 2 retries, 2 faults, 2 shutdowns, any number of outages | at least once; what a duplicate or a reordering costs; every event is settled; refinement of `Delivery` |
| `OutboxRelayWorkers` | `MCRelayBackoff`: 2 workers (symmetric), 2 events of one key, 1 fault, a clock of 3 seconds, created_at a second early or late, a retry_count of at most 2 | with stale retry counts in the batches FAILED still implies all retries, the backoff of the last and a late last attempt; refinement of `Delivery`, so SENT still implies published |
| `ConsumerGroup` | 2 processes (symmetric), one partition with a duplicate, a poisonous and an unidentified message, 2 retries, 3 faults | what a repeated effect costs, no message passed unseen, DLQ only after all failures |
| `ConsumerProgress` | 2 processes, 2 partitions, 3 connections, 1 fault | every message is tried |
| `EventPipeline` | 1 worker, batches of 1, 2 events of one key, 1 send per event, 1 consumer with 2 partitions, 1 fault, 1 shutdown | the relay's duplicates have no effect; effects keep the order of a key; nothing that is SENT is lost; every event leaves a trace |

Three more runs are expected to fail; each states a sentence of the documents
that the code does not keep (`findings` in `PROJECT.json` quotes it):

| run | claim | what TLC finds |
|---|---|---|
| `OutboxRelayLoss` | events are delivered after an outage | after MaxRetries failed sends the event is FAILED and nobody sends it again |
| `OutboxRelayOrder` | one key, one order | the failed event is skipped, the next one of its key is sent |
| `ConsumerLoss` | no data is lost, what fails ends in the DLQ | a message fails once, the next one is marked, and the committed offset has passed the failed one |

Other sentences of the documents hold only in the weaker form that a passing run
checks. The relay's `FOR UPDATE SKIP LOCKED` is said to make several workers safe
(`docs/00_Design.md:132`, `:229`); it runs outside a transaction, two workers do hold the same
row, and what remains for several workers is `FailedAfterAllRetries` and
`ImplementsDelivery`, with `SentIsPublished` as its consequence. Events are said to have one effect
(`docs/00_Design.md:222`); each fault after the handler's work can repeat it, which is
`EffectsCostFaults`. The DLQ is said to isolate poison (`docs/00_Design.md:223`); database
errors and the cancelled context of a rebalance count as failures as well, and what
remains is `DeadLettersFailedOften`. Available plus locked is said to be conserved
(`docs/00_Design.md:265`); for amounts of more than 8 decimals it is `DriftIsBounded`, and what a
cancellation gives back is off by no more than `ResidueIsBounded` allows.

*Bounds, and why they suffice.* Three requests give two competitors for a row and a
third that arrives before, between or after them. Four allow two orders on one account
and two cancellations of one of them, the smallest case in which a double unlock would
find money to take (the other order's). One key is enough: a property about a key
quantifies over keys one by one, and a second request without a key is among the
commands. Funds admit one large or two small orders, so that both outcomes of the
balance check occur. In the relay, two events of one key share a batch or are fetched
one after the other, as they are committed, and with batches of one (`EventPipeline`)
LIMIT cuts the second off; two retries have a first and a last attempt
(`EventPipeline`, to stay small, has a single one, and a single stop); two faults let
a fault hit the recovery from another, and two shutdowns let the second one hit what
the first one left. MaxFaults bounds only what has no other bound: outages are not
counted. The clock ends at 3 seconds because the last of two attempts becomes due when
2 seconds have passed; `Skews` is a second either way, which changes when it does. `MaxCount` is
the column's 255 but in `OutboxRelayWorkers`, where two workers reach its 2 by counting attempts
on one row. Three faults at the consumer are an eviction, a lost
acknowledgement and a crash. A connection more than a process has claims is the
boundary at which no claim waits for ever: with as many connections as claims TLC
finds the deadlock in which every transaction waits for its handler's connection. The
default configuration is far on the safe side, with 50 connections (`internal/config`)
and 6 partitions (`docker-compose.yml`). The relay's properties about one worker
(`CopiesCostFaults`, `OrderedUnlessRetried`, `StatusIsFinal`, and in the pipeline
`OneEffectPerFault` and `EffectsKeepKeyOrder`) are not claimed for two, which is the
default of `RELAY_WORKER_COUNT`: two workers share rows. `DomainLifecycle` and
`OrderPrecision` may stop, when their finitely many orders are done, so their
configurations turn the deadlock check off; the other models end in a stuttering
`Terminating`, `Idle`, `Drained` or `Quiet` step, which is enabled only when
everything is settled, and keep it.

*Symmetry* is used only in runs without liveness properties; requests, orders, relay
workers and consumer processes are interchangeable there.

*Mutants.* Operators marked `Mutation:` are variants of the code with a plausible bug, a
dropped guard or a swapped order. Each property is violated when one of them
replaces the definition it mutates (`mutants` in `PROJECT.json`), so no property
holds for want of interesting behaviour.

## 4. Fairness

`OrderService`: weak fairness of `Serve(r)`, one goroutine's next step. The Go
scheduler runs runnable goroutines, and InnoDB grants a released row lock to
a waiter. Receiving, failing, and the expiry of keys are not fair: nothing has to time out
for `EveryRequestIsAnswered` to hold, which is what makes it a statement about
lock order (balance, then order or key). Weak fairness is enough because the holder of
a lock is never blocked by the waiter, so a request is only disabled while another one
progresses, and the requests of the model are finitely many.

`OutboxRelay`: weak fairness of `Work(w)` (the ticker fires for ever), of `Grow(e)` (time
passes) and of `KafkaRecovers` (an outage ends). Faults, crashes and the start of
outages are not fair. The poll itself never fails for ever: an error of
FetchPending changes nothing and the next tick polls again, so it is not
a step of the model. In `GracefulShutdown` a worker is fair while it serves, and a
shutdown that has begun runs to the end of the process, which is started again
(`CancelRelay` has srv.Shutdown's timeout behind it, `ExitAndRestart` the 500 ms).

`IdempotentConsumer`: weak fairness of every claim's next call, of the periodic offset
commit, of joining the group and of leaving a cancelled session, and of an evicted
member's noticing it. Rebalances, evictions, failures and crashes are not fair. A call
that waits for a connection or for a row lock is a disabled action; `EveryMessageIsTried`
says that it does not stay so. `EventPipeline` has the fairness of both parts.

## 5. Proofs

Every safety invariant and action property that a passing run checks, but `ResidueIsBounded`,
is also a theorem, and so is every refinement. Each theorem holds for every value of the constants that
the named assumptions of its modules admit. `Spec` is the one without fairness, since a
safety property needs none.

**The order service**: any finite set of requests, any accounts, seeded funds, keys and
orders that clients may ask for. Assumed: the seeded balances fit the columns, prices
and quantities are integers of their unit, the absent key is not a key, ids of orders are not ids of
accounts (`AggregateIdsAssumption`: UUIDs and row numbers).

| theorem | module | says |
|---|---|---|
| `TypeCorrect` | `OrderServiceProofs` | `Spec => []TypeOK` |
| `HeldBalanceStaysCurrent` | `OrderServiceProofs` | `Spec => []HeldBalanceIsCurrent` |
| `KeyStandsForOneOrder` | `OrderServiceProofs` | `Spec => []OneOrderPerKey` |
| `OrdersChangeOnce` | `OrderServiceProofs` | `Spec => OrdersAreCancelledOnce` |
| `SuccessStaysTrue` | `OrderServiceProofs` | `Spec => []SuccessIsDurable` |
| `OutboxGrowsInOrder` | `OrderServiceMoneyProofs` | `Spec => OutboxGrowsInKeyOrder` |
| `OutboxTellsTheTables` | `OrderServiceMoneyProofs` | `Spec => []OutboxMatchesTables` |
| `MoneyIsConserved` | `OrderServiceMoneyProofs` | if `AmountsRepresentable`, `Spec => []Conservation` |
| `EventsReplayTheBalance` | `OrderServiceMoneyProofs` | if `AmountsRepresentable`, `Spec => []BalanceEventsReplay` |
| `LockedIsWhatOrdersNeed` | `OrderServiceMoneyProofs` | if `AmountsRepresentable`, `Spec => []LockedMatchesOrders` |
| `ServiceImplementsLedger` | `OrderServiceMoneyProofs` | if `AmountsRepresentable`, `Spec => ImplementsLedger` |

**The aggregates and the columns**: any drafts with integer prices and quantities
(`DraftsAssumption`), any funds; in `OrderPrecision` also any precision of columns and
requests (`PrecisionAssumption`).

| theorem | module | says |
|---|---|---|
| `MoneyIsKept` | `DomainLifecycleProofs` | `Spec => []NoMoneyCreated` |
| `StatusTellsTheFill` | `DomainLifecycleProofs` | `Spec => []StatusMatchesFill` |
| `EventsAreTheHistory` | `DomainLifecycleProofs` | `Spec => []EventsTellTheHistory` |
| `TheEndIsFinal` | `DomainLifecycleProofs` | `Spec => TerminalIsFinal` |
| `RoundingIsBounded` | `OrderPrecisionProofs` | `Spec => []DriftIsBounded` |

**The relay**: any workers, any finite set of events, any keys, batch size and number of
retries that the column can count (`EventsAssumption`, `BoundsAssumption`, `ColumnAssumption`),
any number of faults and stops; with the clocks, any set of skews of which none is further
behind than `MaxLag` (`SkewsAssumption`).

| theorem | module | says |
|---|---|---|
| `RelayTypeCorrect` | `RelayProofs` | `Spec => []TypeOK` |
| `SentMeansPublished` | `RelayProofs` | `Spec => []SentIsPublished` |
| `FailedMeansAllRetries` | `RelayProofs` | `Spec => []FailedAfterAllRetries` |
| `GivenUpMeansOld` | `RelayProofs` | `Spec => []GivenUpOnlyAfterBackoff` |
| `RelayImplementsDelivery` | `RelayProofs` | `Spec => ImplementsDelivery` |
| `LastTryStaysLate` | `RelayBackoffProofs` | if `MaxRetries > 1`, `TimedSpec => []LastTryIsLate`, for any skews that `MaxLag` bounds below |
| `ClockKeepsTheRelay`, `ClockKeepsDelivery` | `RelayBackoffProofs` | with the clocks, the relay's invariants and `ImplementsDelivery` |
| `StopsKeepTheRelay`, `StopsKeepDelivery` | `RelayProofs` | with stops and restarts, the relay's invariants and `ImplementsDelivery` |
| `OneWorkerIsFinal` | `RelayProofs` | with one worker, `ServerSpec => StatusIsFinal` |
| `CopiesArePaidFor` | `RelayProofs` | with one worker, `ServerSpec => []CopiesCostFaults` |
| `OrderIsKept` | `RelayProofs` | with one worker, `ServerSpec => []OrderedUnlessRetried` |

**The consumer**: any finite set of processes, any partitions, messages, retries and pool
size (the assumptions of `IdempotentConsumer`; the topic is what was published before, and
the copies of an event are in one partition).

| theorem | module | says |
|---|---|---|
| `ConsumerTypeCorrect` | `ConsumerProofs` | `Spec => []TypeOK` |
| `NothingIsPassedUnseen` | `ConsumerProofs` | `Spec => []NoMessageIsPassedUnseen` |
| `DeadLettersAreEarned` | `ConsumerProofs` | `Spec => []DeadLettersFailedOften` |
| `EffectsArePaidFor` | `ConsumerProofs` | `Spec => []EffectsCostFaults` |

**The pipeline**: any events, keys, hash of keys to partitions, consumers, partitions, retries on
both sides, pool size, faults and stops (`HashAssumption`, `ConsumerAssumption` and the
assumptions of the relay). The partitions are empty at first and grow while they are read.

| theorem | module | says |
|---|---|---|
| `SentIsNotLost` | `EventPipelineProofs` | `PipelineSpec => []SentIsAheadOrTried` |
| `EffectsArePaidInThePipeline` | `EventPipelineProofs` | the consumer's `EffectsCostFaults`, while the relay publishes |
| `RelayCopiesHaveNoEffect` | `EventPipelineProofs` | with one worker, `PipelineSpec => []OneEffectPerFault` |
| `EffectsAreInKeyOrder` | `EventPipelineProofs` | with one worker, `PipelineSpec => []EffectsKeepKeyOrder` |

Three hypotheses are needed, not convenient. Without `AmountsRepresentable` money is
not conserved: price 1 x quantity 3 at `Scale` 2 is 1.5 column units, available and
locked both round up, and the account gains one; `DriftIsBounded` is what holds then.
With `MaxRetries` = 1 an event is given up at its first failed send, which may follow
its commit at once, so `LastTryIsLate` is false. And with two workers, the default,
a row that both have fetched is published twice without any fault and goes from SENT
to FAILED if Kafka is away when the second one sends it, so the theorems "with one
worker" say what `RELAY_WORKER_COUNT=1` buys.

Hardly any of these properties is inductive by itself. The companions are stated next to
the properties or in the proof modules; where TLC can evaluate them, it checked them on the
small instances before they were proved.

- *TypeCorrect.* `TypeOK` says nothing about what a request has in hand, and
  most statements read something that may be absent. `ControlOK` says which
  aggregates, writes and keys exist at each statement. One lemma per action;
  `RespondType`, `LockedType` and `OrderStagedType` hold what several share;
  `OthersKeepWhatTheyHave` covers every other request.
- *HeldBalanceStaysCurrent.* `LocksOK`: a request in its transaction has its balance row
  locked, no two requests are in transactions on one account, and the balance in
  hand has the version and the sum of the committed one. A step enters, stays in or
  leaves the transaction, and there is a lemma for each. `StepIsLocal`
  (a step changes only its own request's state) is used by all later proofs.
- *KeyStandsForOneOrder.* `KeysOK`: a staged key is locked, unused and names the
  request that stages it; no two requests stage one key; every placement with a
  key has staged it by its commit; an order's row appears only through its own
  placement. The interesting case is `CommittingKeepsKeys`.
- *OrdersChangeOnce, SuccessStaysTrue.* `OrdersOK`: an order read without a lock is an
  older version of its row, a staged one is the row with a status and a version more.
  A row whose version has moved on fails the WHERE clause of UPDATE orders, so of two
  cancellations that read the same row one commits. Then no answer that was given can be taken back
  (`AnswersOK`): rows of orders only appear, and change once.
- *The outbox.* `StepsOfOthers` reduces the effect of a step to `Effect`: what one
  request stages, commits or drops. The ids staged by a transaction lie above every id of its
  aggregates that is visible, because it has their rows locked from before its first InsertEvent
  to its commit (`IdsOK`). `OutboxOK` counts what the outbox tells of an order.
- *Money.* `MoneyOK`: every balance in a table, in memory or staged is exact
  (a whole number of column units) and not negative, and the staged balance is
  the one in memory. With exact amounts `Column` is the identity
  (`ColumnExact`), the domain operations preserve the sum
  (`BalanceMethodsPreserve`) and, by `LocksOK`, the sum in hand is the
  committed one. The replay adds that the last event of an account quotes its row
  (`ReplayOK`); the sum over open orders is one over a finite set of rows, of which a
  commit changes one at most (`LockedAddsUp`).
- *The refinement of Ledger.* Every statement but a commit leaves the ledger alone; a commit
  is the single step of a placement or a cancellation, which is enabled there because the
  balance in hand is current and the order's version has not moved.
- *The aggregates.* `StatusMatchesFill` and `NoMoneyCreated` are inductive over well-typed
  records. For the events the history is the published ones followed by those still
  collected, and PullEvents only moves the border.
- *Rounding.* A column is at most half a unit from what is written (`ColumnIsClose`) and
  never negative, a method of the aggregate keeps the sum, so each save adds at most one unit
  (`SavingDriftsByAUnit`).
- *The relay.* `RelayOK(Counting)`: a row in a batch is committed, and its retries and age have
  not fallen below the fetched count; a row about to be marked FAILED has had its last
  attempt; what a worker counts as sent is on the topic. None of this mentions
  other workers, because all of it is monotone (`Forward`): no step shortens the topic,
  lowers a counter or takes a row back. That is why rows shared by workers do no harm
  here. `OneWorkerSteps` lifts what a worker does to all of them. `Counting` is the set of
  workers whose failed sends are counted, none of them once the context is
  cancelled. With `RelayOK`, every
  step is one of `Delivery` or leaves statuses and the set of published events alone
  (`StepDelivers`).
- *The clocks.* `ClockOK` ties the number of doublings that `OutboxRelay` keeps for a row to
  the seconds between its created_at and NOW(), and created_at to its commit, `MaxLag` at most before it;
  `TriesOK` remembers, for a send that has failed and is
  not counted yet, that its row was due. That Age is the largest doubling which has passed needs the
  growth of powers of two, of which the provers know nothing; it is proved by counting
  subsets (a set of n elements has 2^n of them).
- *One worker.* `AloneOK`: what is left of the batch is PENDING and in id order, so
  marks change what they were meant for. For the copies, each event has as many faults
  on account as it has copies too many, and one more while it is sent but not marked,
  to be paid by the MarkSent, the crash or the stop that comes (`CopiesOK`). For the
  order, nothing in a batch or on the topic was overtaken but by a failure
  (`OrderOK`).
- *The consumer.* `ConsumerOK`: what a claim has marked or left behind was looked at
  (processed, failed, or without id); only the owner of a partition has an offset at the
  coordinator to move; an event on its way to the DLQ has
  failed often enough, since no process remembers more failures than there were. Being
  looked at is never undone (`Remembers`), so members that were evicted and still mark
  do no harm. Three lemmas cover what a call can do to its claim, go on, fail or succeed,
  and one (`GroupKeepsOK`) what the group does to sessions, owners and offsets.
- *The effects.* An event's budget is one effect and the faults so far. Spent are its
  effects, one for every claim that may still call the handler for it, and a reserve of one
  while it is not processed and its partition has no live owner, for the session that may still
  come; `EffectsOK` says that this stays within the budget. A member that is
  evicted while it is working, which is a fault, pays for its successor; a crash pays for the
  effect whose row it destroyed; the row lock of processed_events lets one of the claims that
  inserted commit. `OneHome` says that copies of an event share a partition, and so its owner.
- *The pipeline.* The consumer's theorems are about logs that stay as they are;
  `LogGrows` shows that its invariants and its account survive a message that is
  stored. `EventPipelineProofs` instantiates `ConsumerProofs` (`SameSteps` is the
  proof that the steps are the same ones). `FlowOK`, for any number of workers, joins
  the invariants of both parts by `LogsOK` (the logs hold what is on the topic, each
  event in its own partition, committed before) and keeps what an event has used of
  the consumer's account within one and the faults. Then what is SENT is in its log,
  and is ahead of the offset or was looked at.
- *One worker in the pipeline.* `PipelineOK` adds that both parts draw on one account:
  the copies of an event on the topic and what it has used at the consumer are at most
  two more than faults and stops together (`Allowance` is what `CopiesOK` may grant
  the relay). A step of the relay pays for its copies as it does alone, a step of the
  consumer for its calls (`CallsKeepCopies`). For the order, `LogsInOrder` carries the
  order of the topic into the partition, where events of one key meet, and
  `HandledInTurn` says that what takes effect had everything before it looked at.

Only model-checked: liveness (`EveryRequestIsAnswered`, `EveryEventIsSettled`,
`EveryMessageIsTried`, `EveryEventLeavesATrace`), which needs fairness and ENABLED, and
`ResidueIsBounded`, a sum over two sets of orders.

## 6. Not modelled

- Amounts beyond 22 integer digits, at which a statement fails as any other may; pair
  names that contain a slash, which FindByID would split at another place.
- Queries (`FindByUser`, `FindByUserID`), JSON, status codes and response texts.
- The request that meets an expired idempotency key: the row stays, Check does not see it
  and the INSERT refuses it for ever. `OneOrderPerKey` holds of it; no document says
  whether such a key is usable again, so there is nothing to check the refusal against.
- What srv.Shutdown does to the requests it waits for, and a send in flight when the
  deferred Close of the producer runs: for the outbox it is a failed or an
  unacknowledged send, which is there.
- More retries than retry_count can count (`MaxRetries` above 255, which the configuration
  does not refuse): the count would stand still and the event be tried for ever.
- The group's set-up, which is not in the repository: with sarama's default initial offset
  (the newest) a partition without a committed offset would be read from its end, and what
  was published before the first commit would be skipped. The model reads from the start.
- A connection pool as small as the number of claims: there the consumer can deadlock
  (section 3), so that no progress is claimed.
- A consumer without a DLQ topic (`dlqTopic` empty), which drops an event after its last
  failure; the constructor's caller is not in the repository.
- Payloads of order events, `CountStuckEvents` (a log line) and
  `BackoffDuration` (never called).
- Configuration, value object constructors, `ci/arch-check.sh`, and the
  process documents under `docs/`, which are read for what the system is meant to do.

## 7. Plan

Done: the order service and its properties, the aggregates, the refinement of the
ledger; the relay with its clock, its shutdown and its proved refinement of
`Delivery`; the consumer group; the pipeline from the outbox to the effects; precision
of inputs.

All safety properties that the runs check but one are proved, the refinements of `Ledger` and
`Delivery` and the invariants of the pipeline included. What is left to TLC is liveness and
`ResidueIsBounded`.
