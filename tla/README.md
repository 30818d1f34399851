# TradeIT: a verification project

TLA+ models of TradeIT (`src/`), the TLC runs that check them on small
instances, and proofs of every safety and action property for every instance.

## The system

TradeIT is a small exchange: a web client, an API process, a matcher process
and a gateway process, joined by two Kafka topics, a PostgreSQL database and a
Redis cache.

```
browser --POST /api/orders--> API --order topic--> matcher --market topic--> gateway --ws--> browser
                               |                   |   ^  \                     |
                          IdempotencyKey        Order,  EventOutbox          snapshots
                          RefreshToken          Trade     + book:SYMBOL (Redis)
```

| component | state | operations | what is hard | what makes it correct |
| --- | --- | --- | --- | --- |
| order book, matching engine (`matching/`) | levels and queues per side, last trade | `placeOrder`, `place`, `restore`, `initializeMatchingEngine` | long sequences of legal calls; a restart rebuilds the book from rows | the book is the open orders in price-time order, never crossed; it implements price-time priority |
| order persistence (`services/orderPersistence.ts`) | `Order` and `Trade` rows | one transaction per order | two transactions at READ COMMITTED; the unique index and the foreign key fail them | sequences are 1, 2, 3, ...; fills equal trades; makers before takers |
| matcher worker (`matcherWorker.ts`) | consumer offset, live subscriptions, cache key, outbox rows | `processOrder`, `eachMessage`, the feed's tick | every await interleaves the consumer and the feed; crashes; swallowed errors | no stored order is lost or published early; the cache ends on the newest book |
| outbox publisher (`outbox/outboxService.ts`) | `EventOutbox` rows, batches in progress | `publishOutboxBatch` every 500 ms | overlapping batches, partial sends, restarts | published means sent; the topic is what `Delivery` promises; everything is delivered |
| cleanup (`maintenance/cleanup.ts`) | none | two deletes | runs beside batches and requests | deletes nothing that is still needed |
| order intake (`routes/orders.ts`) | `IdempotencyKey` rows | `POST /api/orders` | overlapping requests of one key, retries after a 503, an update nothing waits for | one command per key; answers name real commands; a refusal has a cause |
| gateway (`gatewayServer.ts`) | snapshot per symbol, sockets | market events, connections | a connection that awaits Redis while events arrive | an outdated book is not the last one a client is sent, and none is missing |
| rate limiter (`middleware/rateLimiter.ts`) | buckets in Redis or memory | `consume` | clocks read before the script runs, expiry, fallbacks, restarts | never more than capacity plus refill, never less |
| authentication (`routes/auth.ts`, `auth/`) | `RefreshToken` rows | register, login, refresh, logout | overlapping refreshes of one token | the cookie is the one token in force; a rotated cookie is replaced |
| web session (`AuthContext.tsx`) | user, access token | `authorizedFetch`, `refresh`, `logout` | parallel 401s, a refresh that outlives a logout | a session shown can be refreshed; a live one is not thrown away |
| web feed (`useTradingFeed.ts`) | socket, timer, delay | connect, close, error, message, unmount | two callbacks per failure, late callbacks | one connection; it comes back |
| Kafka client (`messaging/kafka.ts`) | producer instance | `getProducer`, `disconnectKafka` | the instance is visible before it is connected, and stays when its connect fails | who meets an unusable producer loses nothing but time |
| API process (`app.ts`) | none | the routes; `GET /readyz` opens the producer | a probe connects the producer that requests share | a refusal has a cause |

## Modules

| module | models | kind |
| --- | --- | --- |
| `OrderBook` | the operators of `OrderBook.ts`: matching condition, head trade, `addToBook`, and `Place`, the whole loop as a recursive function | operators |
| `PriceTimePriority` | what an order book promises: an arriving order trades with the best and, at one price, the earliest resting order, while it can | abstract specification |
| `MatchingEngine` | `placeOrder` with its rejections, the loop one round per step, a restart and `initializeMatchingEngine` | state machine |
| `MatcherWorker` | the matcher process around the engine: both submitters, the persistence transaction statement by statement, the cache, the enqueueing, offsets, failures, restarts | state machine |
| `Delivery` | what the outbox promises the consumers of the market topic: at least once, first deliveries in order | abstract specification |
| `KafkaProducer` | the producer that the callers of `getProducer` in a process share | operators |
| `OutboxPublisher` | publisher batches, the market topic, the producer, the cleanup of rows | state machine |
| `OrderIntake` | the order route with idempotency keys, the producer, the readiness probe, the cleanup of keys | state machine |
| `RateLimiter` | the token bucket of an IP, in Redis or in memory, and the requests that consume from it | state machine |
| `AuthSession` | refresh tokens at the server together with the provider of one browser: requests that refresh, logins, logouts | state machine |
| `MarketFeed` | the gateway's snapshot map and connections together with the hook that keeps a socket to it | state machine |
| `MC*` | small values of the constants for TLC | instances |
| `OrderBookProofs`, `MatchingEngineProofs`, `MatcherWorkerProofs`, `OrderIntakeProofs`, `OutboxPublisherProofs`, `AuthSessionProofs`, `MarketFeedProofs`, `RateLimiterProofs` | theorems | proofs |

`MatchingEngine` and `MatcherWorker` EXTEND `OrderBook`; `MatchingEngine`
instantiates `PriceTimePriority`, and `OutboxPublisher` `Delivery`, with a
refinement mapping; `OutboxPublisher` and `OrderIntake` instantiate
`KafkaProducer`, each for its own process. `MarketFeed` takes from the topic
what `Delivery` promises. The property `PlaceIsTheRounds` ties the two uses of
the book together: the rounds the engine takes step by step add up to `Place`,
which `MatcherWorker` applies in one step, as the code does (placeOrder has no
await).

### How the models correspond to the code

*Orders and prices.* Prices and quantities are small positive integers. The
code's are floats; it compares them, takes minima and subtracts the smaller of
two from the larger, so exactness is not what the properties are about. An
absent price is 0. One symbol is modelled: the books of two symbols, their
sequences and their Kafka partitions share nothing.

*`MatchingEngine`.* `AcceptOrder` and `RejectOrder` are the code up to
`orderBook.place`; `MatchOne` is one round of its loop, `Finish` the code after
it. `orders`, `filled` and `createdAt` stand for the rows of the `Order` table
under the assumption that every processed order is stored; that assumption is
what `MatcherWorker` drops. `Restart` forgets the book and the last trade,
`RestoreOne` is one iteration of the `forEach` that appends the rows ordered by
`createdAt`. Nothing else runs before the restart is complete, which is what
`bootstrap` awaits.

*`MatcherWorker`.* `op[w]` is one `processOrder`, and each of its locations is
an await: `allocate`, `create`, `trade`, `read`, `update`, `commit` are the
statements of the transaction, `cache` the loop of `redis.set`, `enqueue` the
loop of the outbox transaction and `flush` its commit. `captured` is the array
the subscription fills; both loops run over the live array, so what is captured
while they run is in them. Uncommitted effects live in `op[w]` and reach `rows`
and `trades` in `Commit`, as READ COMMITTED requires; the waits on the unique
index and on row locks are guards. An error at any await is `Abort`:
`eachMessage` swallows it and moves on, `executeTick` drops its second order.
The consumer joins its group when it starts, after a crash (`Restart`) and when
KafkaJS joins again between two messages of a process that goes on, after a
rebalance or an expired session (`Rejoin`). Either way it resumes (`Resume`) at
the committed offset, which `CommitOffset` moves on its own. A group that has
committed none begins at the end of the partition, because `matcherWorker.ts:80`
subscribes without `fromBeginning`: what was sent before is skipped. `first` is
where it began last (0 in `Init`, when the partition is empty). A restart
restores the rows in the order of `createdAt` (`matching/index.ts:40`), which is
set within the transaction: the rows of two transactions that overlapped come in
either order (`since` says which did). Equal milliseconds of transactions that
did not overlap are modelled in `MatchingEngine` (`ClockTies`) only. `placed` is
history. The events of a placement move together and are represented by the
placement's number. Redis is assumed to be configured.

*`OutboxPublisher`.* A row is one event. `Find`, `Connect`, `Send`, `Mark` are
the awaits of `publishOutboxBatch`; several `Batches` are in progress because
the interval's callback is not guarded. `Find` takes any order of rows that tie
on `producedAt` and goes on to `getProducer` (`Get`), which returns at once
unless it has a producer to connect. A failed send may have been written to any
of the partitions, and so may one that KafkaJS repeats within `send` before it
succeeds, because the producer is not idempotent (`SendRetries`;
`messaging/kafka.ts:32`). The refinement maps a committed row to an event of
`Delivery` and the topic's partitions to its log; batches, marks and the
producer are hidden.

*`KafkaProducer`.* `producerInstance` is set before its connect is awaited, so
it has four states: none, connecting, connected, and unusable when the connect
has thrown. Each operator is what one step of a caller does to it.

*`OrderIntake`.* `Lookup`, `CreateKey`, `Connect`, `Send`, `UpdateKey` are the
awaits of the route; `UpdateKey` comes after the answer, because nothing awaits
it. A failing lookup or create goes on to `getProducer` (`Get`), as its `catch`
does. `Probe` is what `GET /readyz` does to the producer.

*`RateLimiter`.* A token is `Minute` parts, so that the refill of a second,
`Capacity` parts, is whole. `Load`, `Evalsha` and `Eval` are the awaits of
`consume`; a request reads its clock when it calls the script, which may run
later and after the script of a request that read a later one. `MaxDelay`
bounds how much later; the properties count it in. A failing `EVALSHA` may have
run and is followed by `EVAL`, so one request may take two tokens. `granted`
records the tokens the bucket has given since a restart last lost it. A request
that is let through without a token, because `SCRIPT LOAD` or `EVAL` failed
(`rateLimiter.ts:119`), is not in it and not limited by the code. The bucket of
a user is left out: `app.ts:53` mounts the limiter for every route before
`authenticate` sets `req.user`.

*`AuthSession`.* `calls[c]` is one use of the provider in the browser,
`handlers[c]` the request of it that the server is handling; `find`, `revoke`
and `store` are the awaits of the handlers, `answer` what the network still has
to deliver. A token pair has one number. An answer sets the cookie as it arrives
(`Answer`) and `setSession` follows when the promise is settled (`Settle`). A
connection may be lost with the handler gone or going on; a page may be
reloaded. The rate limiter, which `app.ts:53` mounts before the routes, may
answer 429 in their place (`Limited`): a refresh or a login has failed, and a
logout clears the provider's session, whatever the status, while the cookie and
its token stay. These are the faults of the model. The request that
`authorizedFetch` repeats after a refresh has no effect on the session and is
left out, as is the refresh token's own expiry after seven days, which the
cookie shares.

*`MarketFeed`.* `sockets[i]` is both sides of one WebSocket: `at` and `read` are
where the gateway's connection handler is in `seedSnapshotsFromRedis` (which
goes on when the socket has closed), `inbox` is what was sent and not received,
`got` the snapshots this socket has brought to the hook. The hook's `orderBooks`
outlives a socket: it keeps what earlier sockets brought, and may or may not
start empty at a new mount. The gateway's consumer resumes at an offset that is
not later than the one it has reached or, while its group has committed none, at
the end of the topic (`gatewayServer.ts:83`); `Restart` loses the map and the
sockets with it, `Rejoin` keeps both. `latest`, `cached` and `topic` are the
matcher's side: a symbol's snapshots are the events `Delivery` orders, provided
that they are committed to the outbox in the order of their versions and at
distinct milliseconds, which one submitter does and two that overlap need not.
Redis is assumed to be configured.

## Runs

| run | checks | bounds | result |
| --- | --- | --- | --- |
| `engine` | types, book = open rows, not crossed, FIFO, `Place` = rounds, refinement of `PriceTimePriority`, every accepted call returns | 4 orders, 3 prices, 2 quantities, restarts anywhere | holds |
| `worker` | numbering, one writer, fills = trades, makers before takers, the table explains the book, the cache is newest; no command of a group that has begun is skipped, or placed oftener than its consumer joined; the documents' promises as long as the feed places nothing; the consumer catches up | 2 commands, 1 tick, 1 failing call, restart or rejoin | holds |
| `worker_lost`, `worker_events` | one promise each, with the feed or a crash | 1 command, 1 tick or 1 restart | violated |
| `outbox` | published means sent, `attempts` = batches that marked the row, refinement of `Delivery`, every event is delivered unless the producer is unusable | 3 rows of a type, 2 batches of at most 2, 1 failing call, retry within a send or restart | holds |
| `outbox_attempts` | a failing send increments `attempts` | 1 row, 1 failing send | violated |
| `intake` | named commands were enqueued, duplicates have originals, one command per key, a 503 has a cause | 3 requests, 1 key or none, 3 origins; a probe, 2 failing calls, 1 crash, 1 cleanup | holds |
| `intake_lost` | a duplicate's 202 is backed by a command, once no request of its key is in progress | 3 requests, 1 failing call | violated |
| `limiter` | no more tokens in any span than a full bucket and its refill, no refusal before those are used up | 5 requests, 2 tokens a minute of 3 seconds, 5 seconds, scripts 1 second late, 1 failing call or restart | holds |
| `auth` | browser and server agree between calls, a session shown can be refreshed, a rotated cookie is replaced, every call ends | 2 calls at once, 4 tokens, 2 lost connections, refusals by the limiter, failing queries or reloads | holds |
| `auth_parallel` | the documented transparent refresh | the same, nothing lost | violated |
| `feed` | an outdated book is not the last one shown, no book is missing, one connection per hook, it comes back | 2 symbols, 2 snapshots, 2 mounts, 1 broken socket, failing read, repeated delivery, restart or rejoin | holds |

### Why the bounds are enough

The book's operations look at one order, the head of the other side, and one
level; two orders in a level, two levels on a side and a taker that empties one
and reaches the next are all there with four orders over three prices, with two
quantities to make partial fills. The worker's races are between two submitters:
one command and one tick already overlap in every way; buys of one and sells of
two give a taker with two makers, a maker that two takers reach, and a partly
filled row to restore; a second command comes after a group's first commit; a
failure on top of every interleaving is one more. A third request of one key
meets both outcomes of two that race; keys do not meet each other. Three rows
with batches of two make a batch that is full while another is in progress;
types are partitions that do not meet, so one type is the hardest case for
order. Two calls are what a refresh can race with, and four tokens leave room
for a login and a refresh of each on top of it; `CookieIsReplaced` is proved for
any number of both. A hook that reconnects or is mounted again has two
connections in progress at the gateway, which is what its races need; a second
browser would be sent the same. Five requests empty a bucket of two, are
refused, and are granted its refill; five seconds are a key's expiry of three
and what follows it. A failed connect, or a probe that is connecting, may
precede any request's `getProducer` and leave one more failure for what comes
after.

### Fairness

`MatchOne`, `Finish` and `RestoreOne` are weakly fair: they are loops of
synchronous code. In the worker every await is answered (a database or Redis
call returns or fails), a lock is granted once it is free, and the consumer
fetches what is in its partition, so `ProcessStep`, `Consume` and `CommitOffset`
are weakly fair; ticks and their second orders, failures, crashes, rejoins and
new commands are not. `CommandsHandled` speaks of the commands sent since the group
began; their number is bounded, so that the consumer has caught up again and
again says that each is handled. In the publisher the timer keeps firing and each call returns. In
`AuthSession` and `MarketFeed` a call returns, an answer or a message that is
not lost arrives, and a timer fires; that somebody uses the page, that a token
expires, and faults are not fair.

## What the violated runs show

1. `worker_lost`: the consumer and the synthetic feed allocate the same
   sequence; the later insert violates the unique index, the error is swallowed
   and an order that is in the book is never stored (`orderPersistence.ts:17`).
   There is no retry, whatever the comment says.
2. `worker_events`: the outbox rows are not written in the order's transaction,
   so a crash between the two loses the events of a stored order, although no
   call failed (README.md:234). The trace is the commit of a row and a restart.
3. `intake_lost`: the producer's connect fails and the request is answered 503;
   its retry with the key is told that its order is queued though nothing was
   sent and nobody is sending it (README.md:155).
4. `outbox_attempts`: a send that throws leaves `attempts` as it was, where
   README.md:232 has failures increment it (and README.md:260 calls it a counter
   of delivery attempts). Only the update after a successful send does, so it
   counts the batches that marked a row, which `AttemptsCountDeliveries` states.
5. `auth_parallel`: of two requests answered 401 one refreshes; the other, which
   presents the token the first has rotated, is refused, and `setSession(null)`
   signs the user out although the browser holds a valid refresh token.

The models show more of the kind, which no run of its own checks:

* With `ClockTies = TRUE`, `FifoWithinLevel` fails in `MatchingEngine`: a
  restart orders by `createdAt` alone (`matching/index.ts:40`), so two rows of
  one millisecond and one price may change places. The `engine` run and the
  theorems `Fifo` and `PriceTime` assume distinct milliseconds; the other
  theorems do not, and `FirstComeFirstServed` says what is left without it.
* Once the feed has placed an order, `PersistedBeforePublished` and
  `FifoWithinLevel` fail in `MatcherWorker`: a subscription captures the other
  submitter's events and writes them to the outbox before, or without, that
  order's row; and orders stored in the other order than they were placed
  change priority at a restart.
* After any trade a market order is accepted on an empty opposite side
  (`MatchingEngine.ts:85`).
* A refresh that the server began before a logout and answers after it restores
  the session (`SerialSession` without `~raced`).
* Without the exemption of `raced`, `NoStaleBook` fails:
  `seedSnapshotsFromRedis` sets what it read over a newer snapshot that arrived
  while it awaited the answer (`gatewayServer.ts:42`), or the gateway's group
  joined again before its first commit and passed an event over
  (`gatewayServer.ts:83`). A snapshot that the publisher repeats after a newer
  one is shown, and stays until the next.
* Without its exemption, `NoMissingBook` fails: a client that connects while
  another connection has put only the first symbols into the map finds it not
  empty, is sent those, and misses the rest until their next snapshots
  (`gatewayServer.ts:63`).
* A consumer that joins its group again, or a matcher that restarts, before the
  group's first offset commit resumes at the end of the partition
  (`matcherWorker.ts:80`): a command sent meanwhile is never placed
  (README.md:220), and the next commit passes it. `CommandsPlaced` and
  `CommandsHandled` speak of the commands after `first`.
* Two overlapping requests of one key look it up before either creates it, the
  create that fails is only logged (`routes/orders.ts:75`), and both are enqueued,
  each with its own commandId, where README.md:155 promises the second the
  answer of the first, or a 409 if their bodies differ. `OneCommandPerKey` speaks
  of requests that do not overlap.
* A request that the rate limiter lets through because Redis failed takes no token
  and is not limited (`rateLimiter.ts:119`).
* A logout that the limiter answers 429 shows the user signed out while the
  browser keeps a token in force (`AuthContext.tsx:175`); `SerialSession` speaks
  of what happens when nothing is refused.
* The promises of the `feed` run hold for connections that do not meet the two
  races above; for those that do nothing is checked.
* A producer whose connect has failed stays in `producerInstance`
  (`messaging/kafka.ts:38`): every send of the process fails until a restart,
  although README.md:324 says services retry connections and README.md:234 that
  delivery is at least once; `DeliveredWhileUsable` names that exception.
  `GET /readyz` meanwhile reports Kafka as ok, because it only tests that there
  is a producer (`app.ts:140`).
* While the first request or a probe connects the producer, every other request
  is answered 503 (`RefusedForACause`).
* No request is limited by its user's bucket (README.md:159), because the
  limiter runs before `authenticate`. The script returns three values, and
  `consume` reads `remaining` from the third and `reset` from a fourth
  (`rateLimiter.ts:88`), so a 429 has no `reset`.
* The feed's delay never grows: `connect` resets it each time the timer has
  increased it (`useTradingFeed.ts:146`).
* A duplicate that is looked up before the update of its key is answered with
  the commandId `pending` (`NoRequest` in `OrderIntake`).

## Proofs

TLAPS proves every invariant and every action property of the passing runs, and
both refinements, for every value of the constants: any number of orders,
prices, requests, calls, hooks, faults and restarts. Each module proves an
invariant that is stronger than what the run checks, and takes the properties
from it; what follows says what had to be added and why.

### `OrderBookProofs`

What the operators do to levels that are in order. `AddToBookSound` and
`AfterHeadTradeSound` are one insertion and one trade: where `addToBook` puts a
level, that sides stay sorted with distinct ids and positive quantities, and
that no other order changes.

`Place` is a recursive function, and the library's induction theorems cannot be
used because they take an operator. `Counting` is induction over a set of
natural numbers instead, and `Iterates` builds, for a function on a set of
states, the function that iterates it; `RoundsRecur` then says of the loop of
`place` that each of its values follows from the one before. On it rest

* `PlaceSound`: a whole call trades with orders of the other side, with each at
  most once and never more than it holds; what is left rests or is dropped.
* `PlaceInTime`: it keeps every level in the order of any clock by which the new
  order is the latest.
* `PlaceAfterRound`, `PlaceAtEnd`: a call that can trade is its first round and a
  call of what is left (the rounds have settled once there were as many as units
  to trade, so one round fewer from one round later ends in the same state); one
  that cannot rests or drops its order.

### `MatchingEngineProofs`

`TypeCorrect`, `BookCorrect` (`BookHoldsOpenOrders`) and `NeverCrossed`
(`NotCrossed`) come from `IInv`. `BookHoldsOpenOrders` alone is not inductive: a
round trades with the head order, so the head must be an open order of the other
side, the taker's row must agree with the call under way (`CallSound`), rows must
be within their quantities (`RowsSound`), and a taker that stops matching may
rest only because the best opposite price is out of its reach, which with sorted
levels makes every opposite order out of its reach.

`FirstComeFirstServed` is about `createdAt`, with ties: every queue is ordered by
it. A restart keeps this because what it has appended is no later than what it
has still to append (`RestoredInTime`), an arrival because the clock does not go
back (`ClockAdvances`). `Fifo` (`FifoWithinLevel`) and `PriceTime`
(`ImplementsPriceTimePriority`) follow when no two rows share a millisecond
(`~ClockTies`), and not otherwise: two rows that tie are restored in any order.
The refinement takes one step per round: the head is an order of the best price
and the earliest at it, which the abstract book trades with.

`RoundsAddUp` (`PlaceIsTheRounds`) is what allows `MatcherWorker` to use `Place`:
each round, and the end of the call, leads to what `Place` computes at once.

### `MatcherWorkerProofs`

Every invariant of the `worker` run, with failures and restarts anywhere. The
parts are inductive one on top of the other.

* `Numbered` (`SequencesContiguous`) and `Exclusive` (`OneWriter`) from `IInv`: a
  transaction past its insert holds the number that follows the committed ones;
  two would hold the same number, which the insert's wait excludes.
* `Typed` (`TypeOK`) from `Sound`. A transaction only writes rows that are in the
  table, which takes that the makers of a placement were in the book
  (`EngineSound`), that the book holds what was placed since the last restart or
  was read from the table by it, and how far each transaction is through its
  trades and what it has read and written so far (`WorkSound`).
* `BookExplained` (`RowsExplainBook`) from `Explained`: what a row, or a
  placement that has none yet, has left is what the book holds of the order and
  what trades that are not stored have taken from it. A restart, which loses
  those trades, puts the rows' remainders back into the book. A commit keeps it
  because the taker's row, its trades and the makers' remainders enter the table
  at once.
* `FillsMatch` (`FilledMatchesTrades`) and `MakersFirst` (`MakerBeforeTaker`):
  what a transaction read of a maker is still the row at its update, since there
  is one writer; a trade is stored with the taker's row, and only if the maker's
  is there, whose number is then smaller.
* `Redelivered` (`CommandsPlaced`): from where the group began, every command up
  to `next`, and so up to what is committed, was placed; one at or after `next`
  was placed at most once per join, so another placement needs a restart or a
  rejoin. That a command before the beginning was placed is not claimed, and not
  so.
* `CacheAheadOfTable` (`CacheIsLatest`): the loop of `redis.set` runs over an
  array that the other submitter may lengthen, so as long as the snapshot is
  older than a stored order, somebody is in that loop with a later snapshot to
  write.
* `ConsumerKeeps` (`ConsumerKeepsPromises`) from `Alone`: as long as the feed is
  silent, ids, sequences and queues are all in the order of placement and no two
  transactions overlap, so a restart, which orders by `createdAt`, puts the book
  back as it was.

### The other components

* `OrderIntakeProofs`: `Types`, `Named` (`NamedIsEnqueued`), `Original`
  (`DuplicateHasOrigin`), `Cause` (`RefusedForACause`), `Once`
  (`OneCommandPerKey`). A request updates its key's row only after its own send,
  so the commandId it writes is in the topic; a row was created by a request of
  the same key, user and body which is past its lookup, which is what a request
  that finds the row repeats, although cleanup may have removed the row since;
  while a producer is connecting, somebody awaits the connect. One command per
  key, because a request past its create has left a row (`RowBeforeCommand`),
  which a later one finds, so one that goes on to its send is the first of its
  key (`FirstOfKey`).
* `OutboxPublisherProofs`: `Types`, `Published` (`PublishedWasSent`), `Counted`
  (`AttemptsCountDeliveries`) and `Implementation` (`ImplementsDelivery`).
  Whatever `Delivery` puts before a row of a batch is in the topic already or
  earlier in the batch (`FoundSound`): a row that is not pending was sent
  (`SentSound`), a pending one that is older is among the oldest the batch took,
  and the batch is sorted. A row enqueued later comes before none of them. For
  the count, a batch holds a row once (`FoundOnce`), each of its copies is
  marked, about to be marked, left by a failing call or written by a retry
  within `send`, and a restart leaves one per batch.
* `AuthSessionProofs`: `Types`, `Replacement` (`CookieIsReplaced`), `Agreement`
  (`SerialSession`), `Refreshing` (`SessionCanRefresh`). However calls overlap, a
  token issued and not yet answered is in force and known to nobody
  (`IssuedAreFresh`), so an answer never brings a revoked one, and unless
  something was lost the browser waits for every handler (`HandlersAreAwaited`),
  so the answer is not dropped. While they do not overlap, one call at a time is
  between a state both sides agree on and the next (`OneByOne`, `Undropped`).
* `MarketFeedProofs`: `Types`, `Connected` (`OneConnection`), `NothingMissed`
  (`NoMissingBook`), `NothingStale` (`NoStaleBook`). Unmounting closes
  `socketRef.current`; that this closes the live socket of that hook and of no
  other needs the socket a mounted hook refers to to be one it opened
  (`OwnSocket`). The other two speak of a state in which all has arrived; their
  invariants say of every state what holds of the last message on its way:
  `Brought`, that a connection which reads nothing more has been told of every
  symbol in the map; `FreshInv`, that the map, what is being read from Redis and
  the last word each socket has or will have on a symbol is the newest version,
  the last one published so far, or no older than anything that was. What a hook
  shows is what its live socket brought last (`Screens`), for the symbols that
  socket has brought; a book left by an earlier socket is not claimed to be new.
* `RateLimiterProofs`: `Types`, `Limit` (`WithinLimit`), `Refusals`
  (`RefusedOverLimit`). They are about the bucket's tokens since a restart last
  lost it, not about requests let through without one. Since any grant, what was
  given and what is left in the bucket is at most a full bucket and what was
  refilled (`Balanced`). An expired bucket loses this balance, but then a minute
  has passed without a grant (`Pause`), because a key outlives its last use by a
  minute; a span of up to a minute contains such a pause only between grants at
  its two ends. That scripts run with a late clock costs the refill of
  `MaxDelay`, since a request's clock is never older (`Prompt`). The other way,
  since the last time it was full the bucket has lost nothing but the tokens it
  gave (`Drawn`): refusals and late scripts write back what they found.

### What the proofs assume, and what they leave

Assumptions are the named ASSUMEs of the modules: prices, quantities, the
capacity and the length of a minute are positive integers, a batch's limit is
positive, overlapping batches are finitely many (their number is counted), the
gateway has at least one symbol, and the bounds are natural numbers. TLC
evaluates them in every run. `Fifo` and `PriceTime` have the hypothesis
`~ClockTies` besides.

Only model-checked: the liveness properties, because fairness and ENABLED are
beyond the prover: `CallReturns`, `CommandsHandled`, `DeliveredWhileUsable`,
`CallsEnd` and `ComesBack`. The properties of the violated runs are refuted by
TLC, and nothing is to be proved of them.

## Not modelled

Configuration, logging, metrics, the routes of `app.ts` that read a cache or a
constant, the type declarations of `packages/shared` and the components that
only render: they hold no state a property could be about.

Start-up and shutdown (`index.ts`, `db.ts`, `systemUser.ts`): one sequence of
calls each, whose failure ends the process. What a shutdown leaves undone is a
crash's, which the models have; that a request still in progress may open a new
producer after `disconnectKafka` is not.

Of the modelled components: validation and authentication of orders, the fields
of commands and events, prices a tick derives, delays of the web feed and its
list of trades, several symbols in one matcher (they share nothing but the
process), and a gateway or matcher without Redis.

## Plan

Every component with state is modelled, and every safety and action property of
a passing run is proved. What is left, in this order:

* the worker as an implementation of the engine: with a silent feed and no
  failure, placements and rows refine `MatchingEngine`'s calls, and so
  `PriceTimePriority`;
* theorems about what the promises become where the code breaks them, for
  example how many orders a race of the two submitters can lose;
* the safety halves of the liveness properties: that from every state of a call
  some step ends it.
