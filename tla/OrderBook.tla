------------------------------ MODULE OrderBook ------------------------------
(***************************************************************************)
(* One symbol's limit order book (packages/server/src/matching/OrderBook.ts). *)
(*                                                                         *)
(* A book maps each side to its array of price levels, best price first;   *)
(* a level is a price and the FIFO queue of the orders resting at it.      *)
(* Prices and quantities are integers: the code compares, subtracts and    *)
(* takes minima of floats, and a subtraction it makes is always of the     *)
(* smaller of the two operands, so "fully filled" is exactly zero there    *)
(* too.                                                                    *)
(***************************************************************************)
EXTENDS Integers, Sequences

Sides == {"buy", "sell"}
Types == {"limit", "market"}

\* An absent price, and a price or quantity that is not positive, is 0.
NoPrice == 0

Smaller(a, b) == IF a <= b THEN a ELSE b

Opposite(side) == IF side = "buy" THEN "sell" ELSE "buy"

(***************************************************************************)
(* Orders, price levels and trades over a set of prices.                   *)
(***************************************************************************)
OrderRecords(P) == [id : Nat, side : Sides, type : Types, price : P, quantity : Nat \ {0}]
LevelRecords(P) == [price : P, orders : Seq(OrderRecords(P))]
TradeRecords(P) == [taker : Nat, maker : Nat, price : P, quantity : Nat \ {0}]

EmptyBook == [side \in Sides |-> <<>>]

(***************************************************************************)
(* sortBids and sortAsks: price p stands before price q on this side.      *)
(***************************************************************************)
SortsBefore(side, p, q) == IF side = "buy" THEN p > q ELSE p < q

(***************************************************************************)
(* getBestPrice(side): the best price an order of this side can trade at.  *)
(***************************************************************************)
BestPrice(book, side) ==
  IF book[Opposite(side)] = <<>> THEN NoPrice ELSE book[Opposite(side)][1].price

(***************************************************************************)
(* placeOrder's reference price: a market order is priced by the best      *)
(* opposite level, else by the last trade, else by the price it came with, *)
(* if any (the route gives it none). It rejects an order without a         *)
(* positive quantity and one left without a positive price.                *)
(***************************************************************************)
ReferencePriceIn(book, lastPrice, side, type, price) ==
  IF type = "limit" THEN price
  ELSE IF BestPrice(book, side) # NoPrice THEN BestPrice(book, side)
  ELSE IF lastPrice # NoPrice THEN lastPrice
  ELSE price

(***************************************************************************)
(* isMatch: whether the incoming order accepts to trade at a level's price.*)
(***************************************************************************)
IsMatchStrict(order, price) ==                  \* mutant: > for >=
  \/ order.type = "market"
  \/ order.side = "buy" /\ order.price > price
  \/ order.side = "sell" /\ order.price < price

IsMatch(order, price) ==
  \/ order.type = "market"
  \/ order.side = "buy" /\ order.price >= price
  \/ order.side = "sell" /\ order.price <= price

(***************************************************************************)
(* The condition of the matching loop, over the levels of the opposite side.*)
(***************************************************************************)
CanMatch(order, remaining, levels) ==
  /\ remaining > 0
  /\ levels # <<>>
  /\ IsMatch(order, levels[1].price)

HeadOrder(levels) == levels[1].orders[1]

(***************************************************************************)
(* The levels left after the head order trades a quantity: a filled order  *)
(* leaves its queue, an emptied level leaves the book.                     *)
(***************************************************************************)
AfterHeadTradeKeepLevel(levels, traded) ==      \* mutant: empty level stays
  LET queue == levels[1].orders
  IN  [levels EXCEPT ![1].orders =
         IF queue[1].quantity = traded
         THEN Tail(queue)
         ELSE [queue EXCEPT ![1].quantity = @ - traded]]

AfterHeadTrade(levels, traded) ==
  LET queue == levels[1].orders
      left  == IF queue[1].quantity = traded
               THEN Tail(queue)
               ELSE [queue EXCEPT ![1].quantity = @ - traded]
  IN  IF left = <<>> THEN Tail(levels) ELSE [levels EXCEPT ![1].orders = left]

(***************************************************************************)
(* addToBook: an order joins the back of its price's queue, or opens a     *)
(* level that the sort moves in front of the first level it sorts before.  *)
(***************************************************************************)
LevelOf(levels, price) ==
  CHOOSE i \in DOMAIN levels : levels[i].price = price

LevelPosition(levels, side, price) ==
  CHOOSE i \in 1..(Len(levels) + 1) :
    /\ i <= Len(levels) => ~SortsBefore(side, levels[i].price, price)
    /\ \A j \in 1..(i - 1) : SortsBefore(side, levels[j].price, price)

InsertLevel(levels, i, level) ==
  [j \in 1..(Len(levels) + 1) |->
     IF j < i THEN levels[j] ELSE IF j = i THEN level ELSE levels[j - 1]]

AddToBookFront(levels, order) ==                \* mutant: unshift for push
  IF \E i \in DOMAIN levels : levels[i].price = order.price
  THEN [levels EXCEPT ![LevelOf(levels, order.price)].orders = <<order>> \o @]
  ELSE InsertLevel(levels, LevelPosition(levels, order.side, order.price),
                   [price |-> order.price, orders |-> <<order>>])

AddToBook(levels, order) ==
  IF \E i \in DOMAIN levels : levels[i].price = order.price
  THEN [levels EXCEPT ![LevelOf(levels, order.price)].orders = Append(@, order)]
  ELSE InsertLevel(levels, LevelPosition(levels, order.side, order.price),
                   [price |-> order.price, orders |-> <<order>>])

(***************************************************************************)
(* What the levels of a side hold, and when they are in order: no level is *)
(* empty, an order stands at its own price and once, and the levels are    *)
(* strictly best first, so the head of a side is its best price.           *)
(***************************************************************************)
QueueEntries(level) == {level.orders[k] : k \in DOMAIN level.orders}

Entries(levels) == UNION {QueueEntries(levels[i]) : i \in DOMAIN levels}

QueueSound(side, level) ==
  /\ level.orders # <<>>
  /\ \A k \in DOMAIN level.orders :
       /\ level.orders[k].side = side
       /\ level.orders[k].price = level.price
       /\ \A l \in 1..(k - 1) : level.orders[l].id # level.orders[k].id

LevelsSound(side, levels) ==
  /\ \A i \in DOMAIN levels : QueueSound(side, levels[i])
  /\ \A j \in DOMAIN levels : \A i \in 1..(j - 1) :
       SortsBefore(side, levels[i].price, levels[j].price)

(***************************************************************************)
(* place: the whole loop in one evaluation. Every round trades at least    *)
(* one unit, so order.quantity rounds reach its end.                       *)
(***************************************************************************)
MatchRound(order, s) ==
  LET maker  == HeadOrder(s.levels)
      traded == Smaller(s.remaining, maker.quantity)
  IN  [levels    |-> AfterHeadTrade(s.levels, traded),
       remaining |-> s.remaining - traded,
       trades    |-> Append(s.trades, [taker    |-> order.id,
                                       maker    |-> maker.id,
                                       price    |-> s.levels[1].price,
                                       quantity |-> traded])]

Round(order, s) ==
  IF CanMatch(order, s.remaining, s.levels) THEN MatchRound(order, s) ELSE s

Rounds(levels, order) ==
  LET loop[n \in Nat] ==
        IF n = 0 THEN [levels |-> levels, remaining |-> order.quantity, trades |-> <<>>]
        ELSE Round(order, loop[n - 1])
  IN  loop

Place(book, order) ==
  LET other == Opposite(order.side)
      end   == Rounds(book[other], order)[order.quantity]
      rests == end.remaining > 0 /\ order.type = "limit"
      left  == [order EXCEPT !.quantity = end.remaining]
  IN  [book    |-> [book EXCEPT ![other] = end.levels,
                                ![order.side] = IF rests THEN AddToBook(@, left)
                                                         ELSE @],
       trades  |-> end.trades,
       resting |-> IF rests THEN end.remaining ELSE 0]
=============================================================================
