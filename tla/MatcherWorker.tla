---------------------------- MODULE MatcherWorker ----------------------------
(***************************************************************************)
(* The matcher process (packages/server/src/matcherWorker.ts) for one      *)
(* symbol. Two submitters run processOrder in the same thread: the Kafka   *)
(* consumer, one command of its partition at a time, and the synthetic     *)
(* feed, a limit order and then a market order per tick. placeOrder runs   *)
(* without an await; then a submitter persists its order in a transaction, *)
(* caches the book snapshots it captured and writes the captured events to *)
(* the outbox, and the two interleave at every await. A restart loses the  *)
(* book and everything in progress.                                        *)
(*                                                                         *)
(* The transactions run at PostgreSQL's default READ COMMITTED: a read     *)
(* sees what is committed, an insert that would duplicate a sequence still *)
(* uncommitted waits for that transaction to end.                          *)
(***************************************************************************)
EXTENDS OrderBook, FiniteSetsExt

CONSTANTS
  Commands,      \* the orders a command may carry: [side, type, price, quantity]
  MakerOrders,   \* the limit orders a synthetic tick may place
  MaxCommands,   \* bound on the commands sent to the order topic
  MaxTicks,      \* bound on the synthetic ticks; 0 when the feed is disabled
  MaxFailures    \* bound on failing calls (database, Redis), restarts and rejoins

InputRecords == [side : Sides, type : Types, price : Nat, quantity : Nat]

ASSUME CommandsAssumption == Commands \subseteq InputRecords
ASSUME MakerOrdersAssumption ==
  MakerOrders \subseteq {input \in InputRecords : input.type = "limit"}
ASSUME BoundsAssumption ==
  MaxCommands \in Nat /\ MaxTicks \in Nat /\ MaxFailures \in Nat

Submitters == {"consumer", "synthetic"}

VARIABLES
  topic,       \* the order topic's partition: the commands sent to it
  first,       \* where the consumer began when its group had committed nothing
  next,        \* how many of them eachMessage has returned from
  committed,   \* the consumer group's committed offset; `first` when it has none
  pending,     \* the tick's market order while its limit order is processed
  book,        \* the engine's book
  lastPrice,   \* the price of the book's last trade
  placed,      \* history: every placeOrder, with what it returned
  op,          \* the processOrder each submitter is in
  rows,        \* committed rows of the Order table, by order id
  trades,      \* committed rows of the Trade table
  outbox,      \* committed outbox rows: the placements whose events they are
  cache,       \* the placement whose snapshot Redis holds, 0 for none
  epoch,       \* Len(placed) at the last restart
  ticks, faults, restarts,
  rejoins      \* how often the consumer joined its group again

pipeline == <<topic, first, next, committed, pending>>
engine == <<book, lastPrice, placed>>
database == <<rows, trades, outbox>>
bounds == <<epoch, ticks, faults, restarts, rejoins>>
vars == <<pipeline, engine, op, database, cache, bounds>>

NoOrder == [side |-> "buy", type |-> "market", price |-> NoPrice, quantity |-> 0]

(***************************************************************************)
(* A processOrder: where it is, its placement (also its order's id), how   *)
(* many rows the table held when its transaction began (`since`), the      *)
(* sequence it allocated, the trade it is writing, the maker's remaining   *)
(* quantity it read, the maker rows it has written but not committed, and  *)
(* the placements whose events its subscription has captured, of which     *)
(* `cached` have been cached.                                              *)
(***************************************************************************)
NoWrites == [id \in {} |-> 0]

NoOp == [pc |-> "idle", id |-> 0, since |-> 0, sequence |-> 0, trade |-> 1,
         read |-> 0, writes |-> NoWrites, captured |-> <<>>, cached |-> 0]

\* Past tx.order.create, and within the transaction altogether.
Writing == {"trade", "read", "update", "commit"}
Persisting == {"allocate", "create"} \cup Writing
Locations == {"idle", "cache", "enqueue", "flush"} \cup Persisting

Init ==
  /\ topic = <<>> /\ first = 0 /\ next = 0 /\ committed = 0
  /\ pending = NoOrder
  /\ book = EmptyBook /\ lastPrice = NoPrice /\ placed = <<>>
  /\ op = [w \in Submitters |-> NoOp]
  /\ rows = [id \in {} |-> 0] /\ trades = {} /\ outbox = <<>>
  /\ cache = 0
  /\ epoch = 0 /\ ticks = 0 /\ faults = 0 /\ restarts = 0 /\ rejoins = 0

\* The API process sends an order command (routes/orders.ts).
Send ==
  /\ Len(topic) < MaxCommands
  /\ \E input \in Commands : topic' = Append(topic, input)
  /\ UNCHANGED <<first, next, committed, pending, engine, op, database, cache, bounds>>

(***************************************************************************)
(* processOrder up to its first await: subscribe, placeOrder. Every        *)
(* subscription that is still being read captures the events, also those   *)
(* of the other submitter. A rejected order has no snapshot and no row.    *)
(***************************************************************************)
Outcome(input) ==
  LET ref   == ReferencePriceIn(book, lastPrice, input.side, input.type, input.price)
      order == [id |-> Len(placed) + 1, side |-> input.side, type |-> input.type,
                price |-> ref, quantity |-> input.quantity]
      done  == Place(book, order)
  IN  IF input.quantity = 0 \/ ref = NoPrice
      THEN [status |-> "rejected", order |-> order,
            book |-> book, trades |-> <<>>, resting |-> 0]
      ELSE [status |-> "accepted", order |-> order,
            book |-> done.book, trades |-> done.trades, resting |-> done.resting]

BeginApart(w, start) ==                         \* mutant: a copy of the events per order
  LET id == Len(placed) + 1
  IN  op' = [op EXCEPT ![w] = [NoOp EXCEPT !.pc = start, !.id = id, !.captured = <<id>>,
                                           !.since = Cardinality(DOMAIN rows)]]

Begin(w, start) ==
  LET id == Len(placed) + 1
  IN  op' = [v \in Submitters |->
        IF v = w THEN [NoOp EXCEPT !.pc = start, !.id = id, !.captured = <<id>>,
                                   !.since = Cardinality(DOMAIN rows)]
        ELSE IF op[v].pc \in {"idle", "flush"} THEN op[v]
        ELSE [op[v] EXCEPT !.captured = Append(@, id)]]

Submit(w, input, command) ==
  /\ op[w].pc = "idle"
  /\ \E outcome \in {Outcome(input)} :
       /\ placed' = Append(placed, [command |-> command,
                                    status  |-> outcome.status,
                                    order   |-> outcome.order,
                                    trades  |-> outcome.trades,
                                    resting |-> outcome.resting])
       /\ book' = outcome.book
       /\ lastPrice' = IF outcome.trades = <<>> THEN lastPrice
                       ELSE outcome.trades[Len(outcome.trades)].price
       /\ Begin(w, IF outcome.status = "accepted" THEN "allocate" ELSE "cache")

\* eachMessage: the next command of the partition.
Consume ==
  /\ next < Len(topic)
  /\ Submit("consumer", topic[next + 1], next + 1)
  /\ UNCHANGED <<pipeline, database, cache, bounds>>

\* executeTick: skipped while an earlier tick runs.
Tick ==
  /\ ticks < MaxTicks
  /\ pending = NoOrder
  /\ \E maker \in MakerOrders :
       /\ Submit("synthetic", maker, 0)
       /\ pending' = [side |-> Opposite(maker.side), type |-> "market",
                      price |-> NoPrice, quantity |-> maker.quantity]
  /\ ticks' = ticks + 1
  /\ UNCHANGED <<topic, first, next, committed, database, cache, epoch, faults,
                 restarts, rejoins>>

TakeBack ==
  /\ pending # NoOrder
  /\ Submit("synthetic", pending, 0)
  /\ pending' = NoOrder
  /\ UNCHANGED <<topic, first, next, committed, database, cache, bounds>>

(***************************************************************************)
(* processOrder ends: unsubscribe, and the submitter goes on. A failure at *)
(* any await ends it too: eachMessage swallows the error, so the command   *)
(* is done, and executeTick drops the rest of its tick.                    *)
(***************************************************************************)
LeaveCounts(w) ==                               \* mutant: the feed's orders advance the consumer
  /\ op' = [op EXCEPT ![w] = NoOp]
  /\ next' = next + 1

Leave(w) ==
  /\ op' = [op EXCEPT ![w] = NoOp]
  /\ next' = IF w = "consumer" THEN next + 1 ELSE next

Abort(w) ==
  /\ Leave(w)
  /\ pending' = IF w = "synthetic" THEN NoOrder ELSE pending
  /\ UNCHANGED <<topic, first, committed, engine, database, cache, epoch, ticks,
                 restarts, rejoins>>

(***************************************************************************)
(* persistProcessedOrder: one transaction.                                 *)
(***************************************************************************)
Mine(w) == placed[op[w].id]
Trade(w) == Mine(w).trades[op[w].trade]

\* Where the transaction stands once it has written k - 1 trades.
NextWrite(w, k) == IF k <= Len(Mine(w).trades) THEN "trade" ELSE "commit"

Sequences == {rows[id].sequence : id \in DOMAIN rows}

\* allocateSequence: SELECT MAX(sequence) + 1 over the committed rows.
AllocateInMemory(w) ==                          \* mutant: a counter in the process
  /\ op[w].pc = "allocate"
  /\ op' = [op EXCEPT ![w].pc = "create", ![w].sequence = op[w].id]
  /\ UNCHANGED <<pipeline, engine, database, cache, bounds>>

Allocate(w) ==
  /\ op[w].pc = "allocate"
  /\ op' = [op EXCEPT ![w].pc = "create", ![w].sequence = Max(Sequences \cup {0}) + 1]
  /\ UNCHANGED <<pipeline, engine, database, cache, bounds>>

\* tx.order.create. It waits for a transaction that has inserted the same
\* sequence; a committed one is a unique violation.
CreateRowUnchecked(w) ==                        \* mutant: no unique index
  /\ op[w].pc = "create"
  /\ op' = [op EXCEPT ![w].pc = NextWrite(w, 1)]
  /\ UNCHANGED <<pipeline, engine, database, cache, bounds>>

CreateRow(w) ==
  /\ op[w].pc = "create"
  /\ op[w].sequence \notin Sequences
  /\ \A v \in Submitters :
       op[v].pc \in Writing => op[v].sequence # op[w].sequence
  /\ op' = [op EXCEPT ![w].pc = NextWrite(w, 1)]
  /\ UNCHANGED <<pipeline, engine, database, cache, bounds>>

CreateAgain(w) ==                               \* mutant: retries the same insert
  /\ op[w].pc = "create"
  /\ op[w].sequence \in Sequences
  /\ UNCHANGED vars

CreateConflicts(w) ==
  /\ op[w].pc = "create"
  /\ op[w].sequence \in Sequences
  /\ Abort(w)
  /\ UNCHANGED faults

\* tx.trade.create, whose foreign key wants the maker's row.
InsertTradeUnchecked(w) ==                      \* mutant: no foreign key
  /\ op[w].pc = "trade"
  /\ op' = [op EXCEPT ![w].pc = IF Trade(w).maker \in DOMAIN rows THEN "read"
                                ELSE NextWrite(w, op[w].trade + 1),
                      ![w].trade = IF Trade(w).maker \in DOMAIN rows THEN @ ELSE @ + 1]
  /\ UNCHANGED <<pipeline, engine, database, cache, bounds>>

InsertTrade(w) ==
  /\ op[w].pc = "trade"
  /\ Trade(w).maker \in DOMAIN rows
  /\ op' = [op EXCEPT ![w].pc = "read"]
  /\ UNCHANGED <<pipeline, engine, database, cache, bounds>>

MakerMissing(w) ==
  /\ op[w].pc = "trade"
  /\ Trade(w).maker \notin DOMAIN rows
  /\ Abort(w)
  /\ UNCHANGED faults

ReadMaker(w) ==
  /\ op[w].pc = "read"
  /\ op' = [op EXCEPT ![w].pc = "update", ![w].read = rows[Trade(w).maker].remaining]
  /\ UNCHANGED <<pipeline, engine, database, cache, bounds>>

\* tx.order.update, of a value computed from the read; it waits for a
\* transaction that has written the same row.
Less(a, b) == IF a > b THEN a - b ELSE 0

With(writes, maker, left) ==
  [id \in DOMAIN writes \cup {maker} |-> IF id = maker THEN left ELSE writes[id]]

UpdateMaker(w) ==
  LET maker == Trade(w).maker
      left  == Less(op[w].read, Trade(w).quantity)
  IN  /\ op[w].pc = "update"
      /\ \A v \in Submitters \ {w} : maker \notin DOMAIN op[v].writes
      /\ op' = [op EXCEPT ![w].pc = NextWrite(w, op[w].trade + 1),
                          ![w].trade = @ + 1,
                          ![w].writes = With(@, maker, left)]
      /\ UNCHANGED <<pipeline, engine, database, cache, bounds>>

Total(set) == MapThenSumSet(LAMBDA entry : entry.quantity, set)

TradesOf(id) == {placed[id].trades[k] : k \in DOMAIN placed[id].trades}
Traded(id) == Total(TradesOf(id))

Written(id, writes) ==
  [sequence  |-> rows[id].sequence,
   since     |-> rows[id].since,
   remaining |-> writes[id],
   filled    |-> placed[id].order.quantity - writes[id]]

Commit(w) ==
  /\ op[w].pc = "commit"
  /\ rows' = [id \in DOMAIN rows \cup {op[w].id} |->
       IF id = op[w].id
       THEN [sequence  |-> op[w].sequence,
             since     |-> op[w].since,
             remaining |-> Mine(w).resting,
             filled    |-> Traded(id)]
       ELSE IF id \in DOMAIN op[w].writes THEN Written(id, op[w].writes)
       ELSE rows[id]]
  /\ trades' = trades \cup TradesOf(op[w].id)
  /\ op' = [op EXCEPT ![w].pc = "cache", ![w].writes = NoWrites]
  /\ UNCHANGED <<pipeline, engine, outbox, cache, bounds>>

(***************************************************************************)
(* updateCacheFromEvents and enqueueEvents loop over the live array of     *)
(* captured events: what is captured while they run is in the loop too.    *)
(* redis.set replaces the snapshot, one await per snapshot.                *)
(***************************************************************************)
CacheNext(w) ==
  LET id == op[w].captured[op[w].cached + 1]
  IN  /\ op[w].pc = "cache"
      /\ op[w].cached < Len(op[w].captured)
      /\ cache' = IF placed[id].status = "accepted" THEN id ELSE cache
      /\ op' = [op EXCEPT ![w].cached = @ + 1]
      /\ UNCHANGED <<pipeline, engine, database, bounds>>

CacheDone(w) ==
  /\ op[w].pc = "cache"
  /\ op[w].cached = Len(op[w].captured)
  /\ op' = [op EXCEPT ![w].pc = "enqueue"]
  /\ UNCHANGED <<pipeline, engine, database, cache, bounds>>

\* The loop of enqueueEvents has reached the end of the array.
EnqueueAll(w) ==
  /\ op[w].pc = "enqueue"
  /\ op' = [op EXCEPT ![w].pc = "flush"]
  /\ UNCHANGED <<pipeline, engine, database, cache, bounds>>

EnqueueCommits(w) ==
  /\ op[w].pc = "flush"
  /\ outbox' = outbox \o op[w].captured
  /\ Leave(w)
  /\ UNCHANGED <<topic, first, committed, pending, engine, rows, trades, cache, bounds>>

(***************************************************************************)
(* Faults: a statement, a commit or a redis.set that fails; the snapshot's *)
(* TTL; the consumer's offset commit; a crash, which rolls back what is    *)
(* not committed.                                                          *)
(***************************************************************************)
CallFailsGoesOn(w) ==                           \* mutant: a failed persist is only logged
  /\ op[w].pc # "idle"
  /\ faults + restarts + rejoins < MaxFailures
  /\ faults' = faults + 1
  /\ op' = [op EXCEPT ![w].pc = "cache", ![w].writes = NoWrites]
  /\ UNCHANGED <<pipeline, engine, database, cache, epoch, ticks, restarts, rejoins>>

CallFails(w) ==
  /\ op[w].pc # "idle"
  /\ faults + restarts + rejoins < MaxFailures
  /\ faults' = faults + 1
  /\ Abort(w)

SnapshotExpires ==
  /\ cache # 0
  /\ cache' = 0
  /\ UNCHANGED <<pipeline, engine, op, database, bounds>>

CommitFetched ==                                \* mutant: commits what was fetched
  /\ committed # next
  /\ committed' = Len(topic)
  /\ UNCHANGED <<topic, first, next, pending, engine, op, database, cache, bounds>>

CommitOffset ==
  /\ committed # next
  /\ committed' = next
  /\ UNCHANGED <<topic, first, next, pending, engine, op, database, cache, bounds>>

(***************************************************************************)
(* The consumer subscribes without fromBeginning: its group resumes at the *)
(* committed offset, and at the end of the partition as long as it has     *)
(* committed none. It joins again after a restart, and in the same process *)
(* after a session timeout, between two messages; the offset commit of     *)
(* what it has handled may be lost with its membership.                    *)
(***************************************************************************)
NoneCommitted == committed = first

Resume ==
  /\ next' = IF NoneCommitted THEN Len(topic) ELSE committed
  /\ first' = IF NoneCommitted THEN Len(topic) ELSE first
  /\ committed' = next'

Rejoin ==
  /\ faults + restarts + rejoins < MaxFailures
  /\ op["consumer"].pc = "idle"
  /\ Resume
  /\ rejoins' = rejoins + 1
  /\ UNCHANGED <<topic, pending, engine, op, database, cache, epoch, ticks, faults,
                 restarts>>

(***************************************************************************)
(* initializeMatchingEngine: the rows with something remaining, ordered by *)
(* createdAt, each appended with what it has remaining. createdAt is set   *)
(* in the row's transaction, so a row is restored before those whose       *)
(* transaction began after its own had committed, and the rows of          *)
(* transactions that overlapped come in either order (MatchingEngine.tla   *)
(* models equal timestamps).                                               *)
(***************************************************************************)
RestoreRowWhole(restored, id) ==                \* mutant: quantity for remainingQuantity
  [restored EXCEPT ![placed[id].order.side] = AddToBook(@, placed[id].order)]

RestoreRow(restored, id) ==
  [restored EXCEPT ![placed[id].order.side] =
     AddToBook(@, [placed[id].order EXCEPT !.quantity = rows[id].remaining])]

Open == {id \in DOMAIN rows : rows[id].remaining > 0}

RestoreOrders ==
  {at \in [Open -> 1..Cardinality(Open)] :
     \A a, b \in Open :
       /\ at[a] = at[b] => a = b
       /\ rows[a].sequence <= rows[b].since => at[a] < at[b]}

OpenAt(at, n) == {id \in Open : at[id] = n}

Restored(at) ==
  LET restore[n \in Nat] ==
        IF n = 0 THEN EmptyBook
        ELSE IF OpenAt(at, n) = {} THEN restore[n - 1]
        ELSE RestoreRow(restore[n - 1], CHOOSE id \in OpenAt(at, n) : TRUE)
  IN  restore[Cardinality(Open)]

Restart ==
  /\ faults + restarts + rejoins < MaxFailures
  /\ restarts' = restarts + 1
  /\ Resume
  /\ pending' = NoOrder
  /\ op' = [w \in Submitters |-> NoOp]
  /\ \E at \in RestoreOrders : book' = Restored(at)
  /\ lastPrice' = NoPrice
  /\ epoch' = Len(placed)
  /\ UNCHANGED <<topic, placed, database, cache, ticks, faults, rejoins>>

ProcessStep(w) ==
  \/ Allocate(w) \/ CreateRow(w) \/ CreateConflicts(w)
  \/ InsertTrade(w) \/ MakerMissing(w) \/ ReadMaker(w) \/ UpdateMaker(w)
  \/ Commit(w)
  \/ CacheNext(w) \/ CacheDone(w) \/ EnqueueAll(w) \/ EnqueueCommits(w)

Next ==
  \/ Send \/ Consume \/ Tick \/ TakeBack
  \/ \E w \in Submitters : ProcessStep(w) \/ CallFails(w)
  \/ SnapshotExpires \/ CommitOffset \/ Rejoin \/ Restart

Spec == Init /\ [][Next]_vars

\* The event loop runs what is ready; the database answers; a lock is granted
\* once it is free; kafkajs fetches. Nothing need tick, fail or restart, and no
\* tick need come to its second order.
Fairness ==
  /\ WF_vars(Consume) /\ WF_vars(CommitOffset)
  /\ \A w \in Submitters : WF_vars(ProcessStep(w))

FairSpec == Spec /\ Fairness

(***************************************************************************)
(* Types                                                                   *)
(***************************************************************************)
Placements == [command : Nat, status : {"accepted", "rejected"},
               order : [id : Nat, side : Sides, type : Types, price : Nat, quantity : Nat],
               trades : Seq(TradeRecords(Nat)), resting : Nat]

TypeOK ==
  /\ topic \in Seq(Commands)
  /\ first \in 0..committed /\ committed \in 0..next /\ next \in 0..Len(topic)
  /\ pending \in InputRecords
  /\ lastPrice \in Nat
  /\ placed \in Seq(Placements)
  /\ \A w \in Submitters :
       /\ op[w].pc \in Locations
       /\ op[w].id \in 0..Len(placed)
       /\ op[w].since \in Nat /\ op[w].sequence \in Nat /\ op[w].read \in Nat
       /\ op[w].pc \in {"trade", "read", "update"} => op[w].trade \in DOMAIN Mine(w).trades
       /\ \A id \in DOMAIN op[w].writes : id \in DOMAIN rows /\ op[w].writes[id] \in Nat
       /\ op[w].captured \in Seq(1..Len(placed))
       /\ op[w].cached \in 0..Len(op[w].captured)
  /\ \A id \in DOMAIN rows :
       /\ id \in DOMAIN placed /\ placed[id].status = "accepted"
       /\ rows[id] \in [sequence : Nat \ {0}, since : Nat, remaining : Nat, filled : Nat]
  /\ outbox \in Seq(1..Len(placed))
  /\ cache \in 0..Len(placed) /\ epoch \in 0..Len(placed)
  /\ ticks \in 0..MaxTicks
  /\ faults \in Nat /\ restarts \in Nat /\ rejoins \in Nat
  /\ faults + restarts + rejoins <= MaxFailures

(***************************************************************************)
(* Safety                                                                  *)
(***************************************************************************)
\* The stored orders of a symbol are numbered 1, 2, 3, ... whatever is placed
\* at once, fails or restarts (allocateSequence and the unique index).
SequencesContiguous ==
  /\ Sequences = 1..Cardinality(DOMAIN rows)
  /\ \A a, b \in DOMAIN rows : rows[a].sequence = rows[b].sequence => a = b

\* Two transactions are never both past tx.order.create: the unique index is
\* the lock that keeps their reads and updates of maker rows apart.
OneWriter ==
  Cardinality({w \in Submitters : op[w].pc \in Writing}) <= 1

\* What a limit row says is filled is what the stored trades say it traded:
\* no update of a maker row is lost between two transactions.
TradesWith(id) == {t \in trades : t.taker = id \/ t.maker = id}

FilledMatchesTrades ==
  \A id \in DOMAIN rows :
    /\ rows[id].filled = Total(TradesWith(id))
    /\ placed[id].order.type = "limit"
         => rows[id].filled + rows[id].remaining = placed[id].order.quantity

\* A stored trade joins two stored orders, the maker stored first: the
\* sequence orders every taker after the orders it consumed.
MakerBeforeTaker ==
  \A t \in trades :
    /\ {t.maker, t.taker} \subseteq DOMAIN rows
    /\ rows[t.maker].sequence < rows[t.taker].sequence

\* The table lags the book by exactly the trades of this process's placements
\* that are not stored (yet): what a row has remaining is what is left of the
\* order in the book and what those trades took from it.
InBook(id) == {entry \in Entries(book[placed[id].order.side]) : entry.id = id}
Unstored(id) ==
  (UNION {{t \in TradesOf(p) : t.maker = id} : p \in (epoch + 1)..Len(placed)}) \ trades

RowsExplainBook ==
  \A id \in DOMAIN rows :
    rows[id].remaining = Total(InBook(id)) + Total(Unstored(id))

\* The cached book is never older than the last order stored and cached by
\* this process, however the two submitters overlap.
Idle == \A w \in Submitters : op[w].pc = "idle"

CacheIsLatest ==
  Idle /\ faults = 0 /\ cache # 0
    => \A id \in DOMAIN rows : id > epoch => cache >= id

\* Once the group has begun, every command it commits was placed; and no
\* command, committed or not, is placed again but by a restart or a rejoin.
Attempts(c) == {p \in DOMAIN placed : placed[p].command = c}

CommandsPlaced ==
  /\ \A c \in (first + 1)..committed : Attempts(c) # {}
  /\ \A c \in 1..Len(topic) : Cardinality(Attempts(c)) <= 1 + restarts + rejoins

\* Without a failing call or a restart no accepted order is lost: "we rely on
\* low contention + retry on failure" (orderPersistence.ts:16).
AcceptedIsStored ==
  Idle /\ faults = 0 /\ restarts = 0
    => \A id \in DOMAIN placed : placed[id].status = "accepted" => id \in DOMAIN rows

\* "The order and any trades are **persisted first**" (README.md:229): no event
\* of an accepted order is in the outbox before its row is in the table.
PersistedBeforePublished ==
  \A i \in DOMAIN outbox :
    placed[outbox[i]].status = "accepted" => outbox[i] \in DOMAIN rows

\* At one price the order placed first trades first, also after a restart
\* ("FIFO limit book", README.md:8).
FifoWithinLevel ==
  \A side \in Sides : \A i \in DOMAIN book[side] :
    LET queue == book[side][i].orders
    IN  \A k \in DOMAIN queue : \A l \in 1..(k - 1) : queue[l].id < queue[k].id

\* What the feed's interleaving breaks holds of the consumer on its own, over
\* its failing calls and restarts: the three promises above are kept as long
\* as the feed has not placed an order.
ConsumerKeepsPromises ==
  ticks = 0 => AcceptedIsStored /\ PersistedBeforePublished /\ FifoWithinLevel

\* "At-least-once delivery while avoiding partial loss if the matcher crashes
\* after persistence but before emitting events" (README.md:234), also when no
\* call has failed.
StoredIsPublished ==
  Idle /\ faults = 0
    => \A id \in DOMAIN rows : \E i \in DOMAIN outbox : outbox[i] = id

(***************************************************************************)
(* Liveness                                                                *)
(***************************************************************************)
\* However many commands are sent, the consumer catches up with those sent since
\* its group began: each is placed and its offset committed, whatever fails and
\* restarts; no wait for another transaction lasts.
CommandsHandled ==
  []<>(\A c \in (first + 1)..Len(topic) : committed >= c /\ Attempts(c) # {})
=============================================================================
