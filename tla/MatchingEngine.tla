---------------------------- MODULE MatchingEngine ----------------------------
(***************************************************************************)
(* One symbol's matching engine (packages/server/src/matching): placeOrder *)
(* with its rejections, the matching loop of OrderBook.place one round per *)
(* step, and a restart of the matcher, which loses the book and the last   *)
(* trade and rebuilds the book from the open rows of the Order table.      *)
(*                                                                         *)
(* orders, filled and createdAt stand for that table: here every processed *)
(* order has been persisted.  MatcherWorker.tla models what happens when   *)
(* it has not.  A row's id is its position; a market row keeps its         *)
(* reference price.                                                        *)
(***************************************************************************)
EXTENDS OrderBook

CONSTANTS
  Prices,        \* the positive prices orders carry
  Quantities,    \* the positive quantities orders carry
  MaxOrders,     \* bound on the orders accepted in one behaviour
  ClockTies      \* whether two rows may get the same createdAt millisecond

ASSUME PricesAssumption == Prices \subseteq Nat \ {NoPrice}
ASSUME QuantitiesAssumption == Quantities \subseteq Nat \ {0}
ASSUME MaxOrdersAssumption == MaxOrders \in Nat
ASSUME ClockTiesAssumption == ClockTies \in BOOLEAN

VARIABLES
  book,        \* the OrderBook: side -> levels
  lastPrice,   \* price of OrderBook.lastTrade, NoPrice before the first trade
  orders,      \* the accepted orders, oldest first
  filled,      \* filledQuantity of each of them
  createdAt,   \* createdAt of each of them
  toRestore,   \* ids that initializeMatchingEngine has still to restore
  call,        \* the placeOrder under way, its id 0 when there is none
  result       \* what the last placeOrder returned

vars == <<book, lastPrice, orders, filled, createdAt, toRestore, call, result>>

NoCall == [id |-> 0, remaining |-> 0, trades |-> <<>>]
NoResult == [status |-> "none", trades |-> <<>>, resting |-> 0]

(***************************************************************************)
(* Types                                                                   *)
(***************************************************************************)
TypeOK ==
  /\ book \in [Sides -> Seq(LevelRecords(Prices))]
  /\ lastPrice \in Prices \cup {NoPrice}
  /\ orders \in Seq(OrderRecords(Prices))
  /\ filled \in Seq(Nat) /\ Len(filled) = Len(orders)
  /\ createdAt \in Seq(Nat) /\ Len(createdAt) = Len(orders)
  /\ toRestore \in SUBSET DOMAIN orders
  /\ call \in [id : {0} \cup DOMAIN orders, remaining : Nat, trades : Seq(TradeRecords(Prices))]
  /\ result \in [status : {"none", "accepted", "rejected"},
                 trades : Seq(TradeRecords(Prices)), resting : Nat]

(***************************************************************************)
(* An order still has something to trade: the WHERE clause of              *)
(* initializeMatchingEngine (a market row is stored with nothing           *)
(* remaining). The order of the call under way is not stored yet.          *)
(***************************************************************************)
Left(id) == orders[id].quantity - filled[id]

Remainder(id) == [orders[id] EXCEPT !.quantity = Left(id)]

OpenOrders ==
  {id \in DOMAIN orders : /\ orders[id].type = "limit"
                          /\ id # call.id
                          /\ Left(id) > 0}

Init ==
  /\ book = EmptyBook
  /\ lastPrice = NoPrice
  /\ orders = <<>>
  /\ filled = <<>>
  /\ createdAt = <<>>
  /\ toRestore = {}
  /\ call = NoCall
  /\ result = NoResult

(***************************************************************************)
(* placeOrder                                                              *)
(***************************************************************************)
Ready == call.id = 0 /\ toRestore = {}

Reject ==
  /\ result' = [status |-> "rejected", trades |-> <<>>, resting |-> 0]
  /\ UNCHANGED <<book, lastPrice, orders, filled, createdAt, toRestore, call>>

\* What placeOrder rejects: a quantity or a limit price that is not positive,
\* a market order with no price to refer to.
ReferencePrice(side, type, price) ==
  ReferencePriceIn(book, lastPrice, side, type, price)

RejectOrder(side, type, price, quantity) ==
  /\ Ready
  /\ quantity = 0 \/ ReferencePrice(side, type, price) = NoPrice
  /\ Reject

\* createdAt is the clock's millisecond when the row is written.
NextCreatedAt ==
  LET last == IF createdAt = <<>> THEN 0 ELSE createdAt[Len(createdAt)]
  IN  IF ClockTies THEN {last, last + 1} ELSE {last + 1}

AcceptOrderUnpriced(side, type, price, quantity) ==  \* mutant: no price check, input price kept
  /\ Ready
  /\ Len(orders) < MaxOrders
  /\ quantity # 0
  /\ orders' = Append(orders, [id       |-> Len(orders) + 1,
                               side     |-> side,
                               type     |-> type,
                               price    |-> price,
                               quantity |-> quantity])
  /\ filled' = Append(filled, 0)
  /\ \E t \in NextCreatedAt : createdAt' = Append(createdAt, t)
  /\ call' = [id |-> Len(orders) + 1, remaining |-> quantity, trades |-> <<>>]
  /\ result' = NoResult
  /\ UNCHANGED <<book, lastPrice, toRestore>>

AcceptOrder(side, type, price, quantity) ==
  /\ Ready
  /\ Len(orders) < MaxOrders
  /\ quantity # 0
  /\ ReferencePrice(side, type, price) # NoPrice
  /\ orders' = Append(orders, [id       |-> Len(orders) + 1,
                               side     |-> side,
                               type     |-> type,
                               price    |-> ReferencePrice(side, type, price),
                               quantity |-> quantity])
  /\ filled' = Append(filled, 0)
  /\ \E t \in NextCreatedAt : createdAt' = Append(createdAt, t)
  /\ call' = [id |-> Len(orders) + 1, remaining |-> quantity, trades |-> <<>>]
  /\ result' = NoResult
  /\ UNCHANGED <<book, lastPrice, toRestore>>

PlaceOrder(side, type, price, quantity) ==
  \/ RejectOrder(side, type, price, quantity)
  \/ AcceptOrder(side, type, price, quantity)

(***************************************************************************)
(* OrderBook.place: one round of the loop, then the remainder.             *)
(***************************************************************************)
Taker == orders[call.id]
OppositeLevels == book[Opposite(Taker.side)]

MatchOneKeepsRemaining ==                       \* mutant: the maker's quantity, and
  /\ call.id # 0                                \* so its place, stays as it was
  /\ CanMatch(Taker, call.remaining, OppositeLevels)
  /\ LET traded == Smaller(call.remaining, HeadOrder(OppositeLevels).quantity)
     IN  lastPrice' = OppositeLevels[1].price /\ traded > 0
  /\ UNCHANGED <<book, call, filled, orders, createdAt, toRestore, result>>

MatchOne ==
  /\ call.id # 0
  /\ CanMatch(Taker, call.remaining, OppositeLevels)
  /\ LET maker  == HeadOrder(OppositeLevels)
         price  == OppositeLevels[1].price
         traded == Smaller(call.remaining, maker.quantity)
     IN  /\ call' = [call EXCEPT
              !.remaining = @ - traded,
              !.trades = Append(@, [taker |-> call.id, maker |-> maker.id,
                                    price |-> price, quantity |-> traded])]
         /\ book' = [book EXCEPT
              ![Opposite(Taker.side)] = AfterHeadTrade(@, traded)]
         /\ filled' = [filled EXCEPT ![call.id] = @ + traded,
                                     ![maker.id] = @ + traded]
         /\ lastPrice' = price
  /\ UNCHANGED <<orders, createdAt, toRestore, result>>

FinishFullQuantity ==                           \* mutant: rests its whole quantity
  /\ call.id # 0
  /\ ~CanMatch(Taker, call.remaining, OppositeLevels)
  /\ LET rests == call.remaining > 0 /\ Taker.type = "limit"
     IN  /\ book' = IF rests
                    THEN [book EXCEPT ![Taker.side] = AddToBook(@, Taker)]
                    ELSE book
         /\ result' = [status  |-> "accepted",
                       trades  |-> call.trades,
                       resting |-> IF rests THEN call.remaining ELSE 0]
  /\ call' = NoCall
  /\ UNCHANGED <<lastPrice, orders, filled, createdAt, toRestore>>

Finish ==
  /\ call.id # 0
  /\ ~CanMatch(Taker, call.remaining, OppositeLevels)
  /\ LET rests == call.remaining > 0 /\ Taker.type = "limit"
     IN  /\ book' = IF rests
                    THEN [book EXCEPT ![Taker.side] =
                            AddToBook(@, [Taker EXCEPT !.quantity = call.remaining])]
                    ELSE book
         /\ result' = [status  |-> "accepted",
                       trades  |-> call.trades,
                       resting |-> IF rests THEN call.remaining ELSE 0]
  /\ call' = NoCall
  /\ UNCHANGED <<lastPrice, orders, filled, createdAt, toRestore>>

(***************************************************************************)
(* A restart between two calls (a call is synchronous), and                *)
(* initializeMatchingEngine: the open rows come back ordered by createdAt  *)
(* alone, and restore appends each to its level without matching.          *)
(***************************************************************************)
Restart ==
  /\ call.id = 0
  /\ book' = EmptyBook
  /\ lastPrice' = NoPrice
  /\ toRestore' = OpenOrders
  /\ result' = NoResult
  /\ UNCHANGED <<orders, filled, createdAt, call>>

RestoreAnyOrder ==                              \* mutant: orderBy left out
  /\ \E id \in toRestore :
       /\ book' = [book EXCEPT ![orders[id].side] =
                     AddToBook(@, Remainder(id))]
       /\ toRestore' = toRestore \ {id}
  /\ UNCHANGED <<lastPrice, orders, filled, createdAt, call, result>>

RestoreOne ==
  /\ \E id \in toRestore :
       /\ \A other \in toRestore : createdAt[id] <= createdAt[other]
       /\ book' = [book EXCEPT ![orders[id].side] =
                     AddToBook(@, Remainder(id))]
       /\ toRestore' = toRestore \ {id}
  /\ UNCHANGED <<lastPrice, orders, filled, createdAt, call, result>>

PlaceAny ==
  \E side \in Sides, type \in Types,
     price \in Prices \cup {NoPrice}, quantity \in Quantities \cup {0} :
    /\ type = "market" => price = NoPrice
    /\ PlaceOrder(side, type, price, quantity)

Next == PlaceAny \/ MatchOne \/ Finish \/ Restart \/ RestoreOne

Spec == Init /\ [][Next]_vars

\* The loop of a call and the loop of a restart run to their end once entered.
Fairness == WF_vars(MatchOne \/ Finish) /\ WF_vars(RestoreOne)

FairSpec == Spec /\ Fairness

(***************************************************************************)
(* Safety                                                                  *)
(***************************************************************************)
Held(side) == {id \in OpenOrders \ toRestore : orders[id].side = side}

\* The book in memory and the open rows of the table are the same orders, but
\* for the rows a restart has still to restore, each with exactly what is left
\* of it, and each side's levels are in order: no order is lost from the book
\* and none trades after it is filled (OrderBook.place, restore, addToBook).
BookHoldsOpenOrders ==
  \A side \in Sides :
    /\ LevelsSound(side, book[side])
    /\ Entries(book[side]) = {Remainder(id) : id \in Held(side)}

\* No open buy order reaches an open sell order: matching left none behind,
\* so restore, which never matches, may append rows as they are.
NotCrossed ==
  \A b, s \in OpenOrders :
    orders[b].side = "buy" /\ orders[s].side = "sell"
      => orders[b].price < orders[s].price

\* At one price the order accepted first trades first, also after restarts
\* ("FIFO limit book", README.md:8).
FifoWithinLevel ==
  \A side \in Sides : \A i \in DOMAIN book[side] :
    LET queue == book[side][i].orders
    IN  \A k \in DOMAIN queue : \A l \in 1..(k - 1) : queue[l].id < queue[k].id

(***************************************************************************)
(* Action properties                                                       *)
(***************************************************************************)
\* What a call has still to do, in one evaluation of Place.
Outcome == Place(book, [Taker EXCEPT !.quantity = call.remaining])

\* The rounds of a call add up to Place, the operator the modules that run
\* placeOrder in one step use: its book, its trades and its remainder.
PlaceIsTheRounds ==
  [][/\ MatchOne => /\ Outcome'.book = Outcome.book
                    /\ Outcome'.resting = Outcome.resting
                    /\ (call.trades \o Outcome.trades) = (call'.trades \o Outcome'.trades)
     /\ Finish => /\ book' = Outcome.book
                  /\ result'.resting = Outcome.resting
                  /\ result'.trades = call.trades \o Outcome.trades]_vars

(***************************************************************************)
(* Liveness                                                                *)
(***************************************************************************)
\* A call that was accepted returns: the loop ends whatever rests in the book.
CallReturns == call.id # 0 ~> result.status = "accepted"

(***************************************************************************)
(* The engine implements price-time priority: restarts are not visible in  *)
(* it, the resting orders being those of the book and those to restore.    *)
(***************************************************************************)
View(order) == [id |-> order.id, side |-> order.side,
                price |-> order.price, quantity |-> order.quantity]

RestingView ==
  {View(order) : order \in {Remainder(id) : id \in toRestore}
                             \cup Entries(book["buy"]) \cup Entries(book["sell"])}

TakerView ==
  IF call.id = 0
  THEN [id |-> 0, side |-> "buy", type |-> "limit", price |-> 0, quantity |-> 0]
  ELSE [Taker EXCEPT !.quantity = call.remaining]

PTP == INSTANCE PriceTimePriority
         WITH arrived <- Len(orders), resting <- RestingView, taker <- TakerView

\* Every step of the engine is an arrival, a trade with the best and earliest
\* order it can trade with, a departure, or invisible.
ImplementsPriceTimePriority == PTP!Spec
=============================================================================
