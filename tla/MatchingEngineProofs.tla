------------------------- MODULE MatchingEngineProofs -------------------------
(***************************************************************************)
(* For every set of prices and quantities and every number of orders: the  *)
(* engine keeps its book equal to the open rows, in the order of their     *)
(* times and never crossed; its rounds add up to Place; and, when no two   *)
(* rows share a createdAt millisecond, it implements PriceTimePriority.    *)
(***************************************************************************)
EXTENDS MatchingEngine, OrderBookProofs

(***************************************************************************)
(* The inductive invariant: what a call and a restart rely on, between     *)
(* their steps, beyond the invariants they keep.                           *)
(***************************************************************************)
RowsSound ==
  \A id \in DOMAIN orders : orders[id].id = id /\ filled[id] <= orders[id].quantity

CallSound ==
  call.id # 0 => toRestore = {} /\ call.remaining = Left(call.id)

IInv ==
  /\ TypeOK
  /\ RowsSound
  /\ CallSound
  /\ toRestore \subseteq OpenOrders
  /\ BookHoldsOpenOrders
  /\ NotCrossed

USE PricesAssumption

LEMMA TypeFacts ==
  ASSUME TypeOK
  PROVE  /\ \A side \in Sides : book[side] \in Seq(LevelRecords(Prices))
         /\ DOMAIN book = Sides
         /\ Len(orders) \in Nat
         /\ DOMAIN orders = 1..Len(orders)
         /\ DOMAIN filled = 1..Len(orders)
         /\ DOMAIN createdAt = 1..Len(orders)
         /\ \A id \in DOMAIN orders : orders[id] \in OrderRecords(Prices)
         /\ \A id \in DOMAIN orders : filled[id] \in Nat
         /\ \A id \in DOMAIN orders : createdAt[id] \in Nat
         /\ 0 \notin DOMAIN orders
<1>1. /\ Len(orders) \in Nat /\ DOMAIN orders = 1..Len(orders)
      /\ DOMAIN filled = 1..Len(orders) /\ DOMAIN createdAt = 1..Len(orders)
  BY LenProperties DEF TypeOK
<1>2. \A id \in DOMAIN orders : /\ orders[id] \in OrderRecords(Prices)
                                /\ filled[id] \in Nat
                                /\ createdAt[id] \in Nat
  BY <1>1, ElementOfSeq DEF TypeOK
<1>3. DOMAIN book = Sides /\ \A side \in Sides : book[side] \in Seq(LevelRecords(Prices))
  BY DEF TypeOK
<1>4. 0 \notin DOMAIN orders
  BY <1>1
<1> QED
  BY <1>1, <1>2, <1>3, <1>4

LEMMA RemainderFacts ==
  ASSUME TypeOK, RowsSound, NEW id \in DOMAIN orders
  PROVE  /\ Left(id) \in Nat
         /\ Remainder(id).id = id
         /\ Remainder(id).side = orders[id].side
         /\ Remainder(id).type = orders[id].type
         /\ Remainder(id).price = orders[id].price
         /\ Remainder(id).quantity = Left(id)
         /\ Left(id) > 0 => Remainder(id) \in OrderRecords(Prices)
<1>1. /\ orders[id] \in OrderRecords(Prices) /\ filled[id] \in Nat
      /\ filled[id] <= orders[id].quantity /\ orders[id].id = id
  BY TypeFacts DEF RowsSound
<1>2. orders[id].quantity \in Nat
  BY <1>1 DEF OrderRecords
<1>3. Left(id) \in Nat
  BY <1>1, <1>2 DEF Left
<1> HIDE DEF Left
<1>4. /\ Remainder(id).id = id
      /\ Remainder(id).side = orders[id].side
      /\ Remainder(id).type = orders[id].type
      /\ Remainder(id).price = orders[id].price
      /\ Remainder(id).quantity = Left(id)
  BY <1>1 DEF Remainder, OrderRecords
<1>5. Left(id) > 0 => Remainder(id) \in OrderRecords(Prices)
  BY <1>1, <1>3 DEF Remainder, OrderRecords
<1> QED
  BY <1>3, <1>4, <1>5

(***************************************************************************)
(* Init                                                                    *)
(***************************************************************************)
LEMMA EmptyLevels ==
  ASSUME NEW P, NEW side
  PROVE  /\ <<>> \in Seq(LevelRecords(P))
         /\ LevelsSound(side, <<>>)
         /\ Entries(<<>>) = {}
  BY EmptySeq DEF LevelsSound, Entries

LEMMA InitInv == Init => IInv
<1> SUFFICES ASSUME Init PROVE IInv
  OBVIOUS
<1>1. TypeOK
  <2>1. book \in [Sides -> Seq(LevelRecords(Prices))]
    BY EmptyLevels DEF Init, EmptyBook
  <2>2. /\ orders \in Seq(OrderRecords(Prices)) /\ filled \in Seq(Nat)
        /\ createdAt \in Seq(Nat) /\ Len(filled) = Len(orders)
        /\ Len(createdAt) = Len(orders)
    BY EmptySeq DEF Init
  <2>3. <<>> \in Seq(TradeRecords(Prices))
    BY EmptySeq
  <2>4. /\ call \in [id : {0} \cup DOMAIN orders, remaining : Nat,
                     trades : Seq(TradeRecords(Prices))]
        /\ result \in [status : {"none", "accepted", "rejected"},
                       trades : Seq(TradeRecords(Prices)), resting : Nat]
    BY <2>3 DEF Init, NoCall, NoResult
  <2> QED
    BY <2>1, <2>2, <2>4 DEF Init, TypeOK
<1>2. DOMAIN orders = {} /\ OpenOrders = {}
  BY DEF Init, OpenOrders
<1>3. BookHoldsOpenOrders
  <2>1. \A side \in Sides : book[side] = <<>> /\ Held(side) = {}
    BY <1>2, Zenon DEF Init, EmptyBook, Held
  <2>2. \A side \in Sides : {Remainder(id) : id \in Held(side)} = {}
    BY <2>1, Zenon
  <2>3. \A side \in Sides : LevelsSound(side, <<>>) /\ Entries(<<>>) = {}
    BY EmptyLevels
  <2> QED
    BY <2>1, <2>2, <2>3, Zenon DEF BookHoldsOpenOrders
<1> QED
  BY <1>1, <1>2, <1>3 DEF Init, IInv, RowsSound, CallSound, NoCall, NotCrossed

(***************************************************************************)
(* A rejection, a stuttering step                                          *)
(***************************************************************************)
LEMMA RejectInv == IInv /\ Reject => IInv'
<1> SUFFICES ASSUME IInv, Reject PROVE IInv'
  OBVIOUS
<1>1. <<>> \in Seq(TradeRecords(Prices))
  BY EmptySeq
<1>2. TypeOK'
  BY <1>1 DEF IInv, TypeOK, Reject
<1>3. RowsSound' /\ CallSound'
  BY DEF IInv, RowsSound, CallSound, Left, Reject
<1>4. (toRestore \subseteq OpenOrders)' /\ NotCrossed'
  BY DEF IInv, NotCrossed, OpenOrders, Left, Reject
<1>5. BookHoldsOpenOrders'
  BY DEF IInv, BookHoldsOpenOrders, Held, Remainder, OpenOrders, Left, Reject
<1> QED
  BY <1>2, <1>3, <1>4, <1>5 DEF IInv

LEMMA StutterInv == IInv /\ UNCHANGED vars => IInv'
<1> SUFFICES ASSUME IInv, UNCHANGED vars PROVE IInv'
  OBVIOUS
<1>1. TypeOK'
  BY DEF IInv, TypeOK, vars
<1>2. RowsSound' /\ CallSound'
  BY DEF IInv, RowsSound, CallSound, Left, vars
<1>3. (toRestore \subseteq OpenOrders)' /\ NotCrossed'
  BY DEF IInv, NotCrossed, OpenOrders, Left, vars
<1>4. BookHoldsOpenOrders'
  BY DEF IInv, BookHoldsOpenOrders, Held, Remainder, OpenOrders, Left, vars
<1> QED
  BY <1>1, <1>2, <1>3, <1>4 DEF IInv

(***************************************************************************)
(* An accepted order: its row is appended, no other row changes, and it is *)
(* not open while its call runs.                                           *)
(***************************************************************************)
LEMMA AcceptInv ==
  ASSUME IInv, NEW side \in Sides, NEW type \in Types,
         NEW price \in Prices \cup {NoPrice}, NEW quantity \in Quantities \cup {0},
         AcceptOrder(side, type, price, quantity)
  PROVE  IInv'
<1> USE QuantitiesAssumption
<1> DEFINE n == Len(orders)
           row == [id |-> n + 1, side |-> side, type |-> type,
                   price |-> ReferencePrice(side, type, price), quantity |-> quantity]
<1>1. TypeOK /\ RowsSound
  BY DEF IInv
<1>2. ReferencePrice(side, type, price) \in Prices
  <2>1. BestPrice(book, side) \in Prices \cup {NoPrice}
    <3>1. CASE book[Opposite(side)] = <<>>
      BY <3>1 DEF BestPrice
    <3>2. CASE book[Opposite(side)] # <<>>
      <4>1. /\ Opposite(side) \in Sides
            /\ book[Opposite(side)] \in Seq(LevelRecords(Prices))
        BY <1>1, TypeFacts DEF Opposite, Sides
      <4>2. 1 \in DOMAIN book[Opposite(side)]
        BY <3>2, <4>1, LenProperties, EmptySeq
      <4> QED
        BY <3>2, <4>1, <4>2, LevelsTyped DEF BestPrice
    <3> QED
      BY <3>1, <3>2
  <2>2. lastPrice \in Prices \cup {NoPrice}
    BY <1>1 DEF TypeOK
  <2>3. ReferencePrice(side, type, price) # NoPrice
    BY DEF AcceptOrder
  <2> QED
    BY <2>1, <2>2, <2>3 DEF ReferencePrice, ReferencePriceIn
<1>3. row \in OrderRecords(Prices) /\ quantity \in Nat \ {0}
  BY <1>1, <1>2, TypeFacts DEF OrderRecords, AcceptOrder
<1>4. /\ orders' = Append(orders, row)
      /\ filled' = Append(filled, 0)
      /\ call' = [id |-> n + 1, remaining |-> quantity, trades |-> <<>>]
      /\ result' = NoResult
      /\ book' = book /\ lastPrice' = lastPrice /\ toRestore' = toRestore
      /\ toRestore = {} /\ call.id = 0
  BY DEF AcceptOrder, Ready
<1> HIDE DEF row
<1>5. PICK t \in NextCreatedAt : createdAt' = Append(createdAt, t)
  BY DEF AcceptOrder
<1>6. t \in Nat
  <2>1. Len(createdAt) = n /\ n \in Nat /\ \A id \in 1..n : createdAt[id] \in Nat
    BY <1>1, TypeFacts DEF TypeOK
  <2>2. createdAt # <<>> => n \in 1..n
    BY <1>1, <2>1, EmptySeq DEF TypeOK
  <2> QED
    BY <1>5, <2>1, <2>2 DEF NextCreatedAt
<1>7. /\ orders' \in Seq(OrderRecords(Prices)) /\ filled' \in Seq(Nat)
      /\ createdAt' \in Seq(Nat)
      /\ Len(orders') = n + 1 /\ Len(filled') = n + 1 /\ Len(createdAt') = n + 1
      /\ \A id \in 1..n : orders'[id] = orders[id] /\ filled'[id] = filled[id]
      /\ orders'[n + 1] = row /\ filled'[n + 1] = 0
  <2>1. /\ orders \in Seq(OrderRecords(Prices)) /\ filled \in Seq(Nat)
        /\ createdAt \in Seq(Nat) /\ Len(filled) = n /\ Len(createdAt) = n
    BY <1>1 DEF TypeOK
  <2>2. /\ orders' \in Seq(OrderRecords(Prices)) /\ Len(orders') = n + 1
        /\ \A id \in 1..n : orders'[id] = orders[id]
        /\ orders'[n + 1] = row
    BY <1>3, <1>4, <2>1, AppendProperties
  <2>3. /\ filled' \in Seq(Nat) /\ Len(filled') = n + 1
        /\ \A id \in 1..n : filled'[id] = filled[id]
        /\ filled'[n + 1] = 0
    BY <1>4, <2>1, AppendProperties
  <2>4. createdAt' \in Seq(Nat) /\ Len(createdAt') = n + 1
    BY <1>5, <1>6, <2>1, AppendProperties
  <2> QED
    BY <2>2, <2>3, <2>4
<1>8. DOMAIN orders = 1..n /\ n \in Nat /\ DOMAIN orders' = 1..(n + 1)
  BY <1>1, <1>7, TypeFacts, LenProperties
<1>9. TypeOK'
  <2>1. <<>> \in Seq(TradeRecords(Prices))
    BY EmptySeq
  <2>2. call' \in [id : {0} \cup DOMAIN orders', remaining : Nat,
                   trades : Seq(TradeRecords(Prices))]
    BY <1>3, <1>4, <1>8, <2>1
  <2>3. result' \in [status : {"none", "accepted", "rejected"},
                     trades : Seq(TradeRecords(Prices)), resting : Nat]
    BY <1>4, <2>1 DEF NoResult
  <2> QED
    BY <1>1, <1>4, <1>7, <1>8, <2>2, <2>3 DEF TypeOK
<1>10. row.id = n + 1 /\ row.quantity = quantity
  BY DEF row
<1>11. RowsSound'
  <2>1. \A id \in 1..n : orders'[id].id = id /\ filled'[id] <= orders'[id].quantity
    BY <1>1, <1>7, <1>8 DEF RowsSound
  <2>2. orders'[n + 1].id = n + 1 /\ filled'[n + 1] <= orders'[n + 1].quantity
    BY <1>3, <1>7, <1>10
  <2>3. \A id \in 1..(n + 1) : id \in 1..n \/ id = n + 1
    BY <1>8
  <2> QED
    BY <1>8, <2>1, <2>2, <2>3 DEF RowsSound
<1>12. CallSound'
  BY <1>3, <1>4, <1>7, <1>10 DEF CallSound, Left
<1>13. /\ OpenOrders' = OpenOrders
       /\ OpenOrders \subseteq 1..n
       /\ \A id \in 1..n : Left(id)' = Left(id) /\ Remainder(id)' = Remainder(id)
  <2>1. \A id \in 1..n : Left(id)' = Left(id) /\ Remainder(id)' = Remainder(id)
    BY <1>7 DEF Left, Remainder
  <2>2. n + 1 \notin OpenOrders'
    BY <1>4 DEF OpenOrders
  <2>3. \A id \in 1..n : id # call.id /\ id # call'.id
    BY <1>4, <1>8
  <2>4. DOMAIN orders = 1..n /\ DOMAIN orders' = 1..(n + 1) /\ n \in Nat
    BY <1>7, <1>8
  <2>5. \A id \in 1..n : id \in OpenOrders' <=> id \in OpenOrders
    <3> SUFFICES ASSUME NEW id \in 1..n
                 PROVE  id \in OpenOrders' <=> id \in OpenOrders
      OBVIOUS
    <3>1. orders'[id] = orders[id] /\ Left(id)' = Left(id)
      BY <1>7, <2>1
    <3>2. id \in DOMAIN orders /\ id \in DOMAIN orders' /\ id # call.id /\ id # call'.id
      BY <2>3, <2>4
    <3> HIDE DEF Left
    <3> QED
      BY <3>1, <3>2 DEF OpenOrders
  <2>6. OpenOrders \subseteq 1..n /\ OpenOrders' \subseteq 1..(n + 1)
    BY <2>4 DEF OpenOrders
  <2>7. OpenOrders' \subseteq 1..n
    BY <2>2, <2>4, <2>6
  <2> QED
    BY <2>1, <2>5, <2>6, <2>7
<1>14. BookHoldsOpenOrders'
  <2>1. \A s \in Sides : Held(s)' = Held(s) /\ Held(s) \subseteq 1..n
    <3>1. /\ toRestore' = toRestore
          /\ OpenOrders' = OpenOrders /\ OpenOrders \subseteq 1..n
      BY <1>4, <1>13
    <3>2. \A id \in OpenOrders : orders'[id].side = orders[id].side
      BY <1>7, <3>1
    <3> QED
      BY <3>1, <3>2 DEF Held
  <2>2. \A s \in Sides : {Remainder(id)' : id \in Held(s)'} = {Remainder(id) : id \in Held(s)}
    BY <1>13, <2>1
  <2> QED
    BY <1>4, <2>2 DEF IInv, BookHoldsOpenOrders
<1>15. NotCrossed'
  BY <1>7, <1>13 DEF IInv, NotCrossed
<1> QED
  BY <1>4, <1>9, <1>11, <1>12, <1>13, <1>14, <1>15 DEF IInv

(***************************************************************************)
(* A restart, and a row it restores                                        *)
(***************************************************************************)
LEMMA RestartInv == IInv /\ Restart => IInv'
<1> SUFFICES ASSUME IInv, Restart PROVE IInv'
  OBVIOUS
<1>1. OpenOrders' = OpenOrders /\ toRestore' = OpenOrders
  BY DEF Restart, OpenOrders, Left
<1>2. TypeOK'
  <2>1. book' \in [Sides -> Seq(LevelRecords(Prices))]
    BY EmptyLevels DEF Restart, EmptyBook
  <2>2. <<>> \in Seq(TradeRecords(Prices))
    BY EmptySeq
  <2>3. OpenOrders \subseteq DOMAIN orders
    BY DEF OpenOrders
  <2> QED
    BY <1>1, <2>1, <2>2, <2>3 DEF IInv, TypeOK, Restart, NoResult
<1>3. RowsSound' /\ CallSound'
  BY DEF IInv, RowsSound, CallSound, Restart
<1>4. BookHoldsOpenOrders'
  <2>1. \A side \in Sides : Held(side)' = {}
    BY <1>1 DEF Held
  <2>2. \A side \in Sides : book'[side] = <<>>
    BY DEF Restart, EmptyBook
  <2> QED
    BY <2>1, <2>2, EmptyLevels DEF BookHoldsOpenOrders
<1>5. NotCrossed'
  BY <1>1 DEF IInv, NotCrossed, Restart
<1> QED
  BY <1>1, <1>2, <1>3, <1>4, <1>5 DEF IInv

LEMMA RestoreInv == IInv /\ RestoreOne => IInv'
<1> SUFFICES ASSUME IInv, RestoreOne PROVE IInv'
  OBVIOUS
<1>1. TypeOK /\ RowsSound
  BY DEF IInv
<1>2. PICK id \in toRestore :
        /\ book' = [book EXCEPT ![orders[id].side] = AddToBook(@, Remainder(id))]
        /\ toRestore' = toRestore \ {id}
  BY DEF RestoreOne
<1>3. UNCHANGED <<lastPrice, orders, filled, createdAt, call, result>>
  BY DEF RestoreOne
<1> DEFINE side == orders[id].side
           new == AddToBook(book[side], Remainder(id))
<1>4. id \in OpenOrders /\ id \in DOMAIN orders /\ Left(id) > 0 /\ toRestore # {}
  BY DEF IInv, OpenOrders
<1>5. side \in Sides /\ book[side] \in Seq(LevelRecords(Prices))
  BY <1>1, <1>4, TypeFacts DEF OrderRecords
<1>6. /\ Remainder(id) \in OrderRecords(Prices)
      /\ Remainder(id).side = side
      /\ Remainder(id).id = id
  BY <1>1, <1>4, RemainderFacts
<1>7. LevelsSound(side, book[side]) /\ Entries(book[side]) = {Remainder(o) : o \in Held(side)}
  BY <1>5 DEF IInv, BookHoldsOpenOrders
<1>8. \A e \in Entries(book[side]) : e.id # Remainder(id).id
  <2>1. \A o \in Held(side) : o \in DOMAIN orders /\ o # id
    BY <1>2 DEF Held, OpenOrders
  <2> QED
    BY <1>1, <1>6, <1>7, <2>1, RemainderFacts
<1>9. /\ new \in Seq(LevelRecords(Prices))
      /\ LevelsSound(side, new)
      /\ Entries(new) = Entries(book[side]) \cup {Remainder(id)}
  BY <1>5, <1>6, <1>7, <1>8, AddToBookSound
<1> HIDE DEF new
<1>10. book' = [book EXCEPT ![side] = new]
  BY <1>2 DEF new
<1> HIDE DEF side
<1>11. TypeOK'
  <2>1. book' \in [Sides -> Seq(LevelRecords(Prices))]
    BY <1>1, <1>5, <1>9, <1>10 DEF TypeOK
  <2>2. toRestore' \in SUBSET DOMAIN orders'
    BY <1>1, <1>2, <1>3 DEF TypeOK
  <2> QED
    BY <1>1, <1>3, <2>1, <2>2 DEF TypeOK
<1>12. OpenOrders' = OpenOrders /\ \A o \in DOMAIN orders : Remainder(o)' = Remainder(o)
  BY <1>3 DEF OpenOrders, Remainder, Left
<1>13. RowsSound' /\ CallSound' /\ NotCrossed'
  BY <1>2, <1>3, <1>4, <1>12 DEF IInv, RowsSound, CallSound, NotCrossed, Left
<1>14. ASSUME NEW s \in Sides
       PROVE  /\ LevelsSound(s, book'[s])
              /\ Entries(book'[s]) = {Remainder(o) : o \in Held(s)}'
  <2>1. {Remainder(o) : o \in Held(s)}' = {Remainder(o) : o \in Held(s)'}
    BY <1>12 DEF Held, OpenOrders
  <2>2. CASE s = side
    <3>1. Held(s)' = Held(s) \cup {id}
      BY <1>2, <1>3, <1>4, <1>12, <2>2 DEF Held, side
    <3> QED
      BY <1>1, <1>5, <1>7, <1>9, <1>10, <2>1, <2>2, <3>1, TypeFacts
  <2>3. CASE s # side
    <3>1. Held(s)' = Held(s)
      BY <1>2, <1>3, <1>12, <2>3 DEF Held, side
    <3>2. book'[s] = book[s]
      BY <1>1, <1>10, <2>3, TypeFacts
    <3> QED
      BY <2>1, <3>1, <3>2 DEF IInv, BookHoldsOpenOrders
  <2> QED
    BY <2>2, <2>3
<1>15. BookHoldsOpenOrders'
  BY <1>14 DEF BookHoldsOpenOrders
<1> QED
  BY <1>2, <1>11, <1>12, <1>13, <1>15 DEF IInv

(***************************************************************************)
(* A round of the loop: the head order, an open order of the other side,   *)
(* and the taker trade the smaller of what the two have left.              *)
(***************************************************************************)
MatchEffect(tid, other, mid, traded) ==
  /\ tid = call.id /\ toRestore = {}
  /\ other = Opposite(Taker.side) /\ other # Taker.side
  /\ book[other] # <<>> /\ HeadOrder(book[other]) = Remainder(mid)
  /\ mid # tid
  /\ call.remaining = Left(tid)
  /\ traded = Smaller(Left(tid), Left(mid)) /\ traded <= Left(tid) /\ traded <= Left(mid)
  /\ book' = [book EXCEPT ![other] = AfterHeadTrade(book[other], traded)]
  /\ call'.id = tid /\ call'.remaining = Left(tid) - traded
  /\ UNCHANGED <<orders, createdAt, toRestore, result>>
  /\ TypeOK'
  /\ Left(mid)' = Left(mid) - traded /\ Left(tid)' = Left(tid) - traded
  /\ \A id \in DOMAIN orders \ {tid, mid} : Left(id)' = Left(id) /\ Remainder(id)' = Remainder(id)
  /\ OpenOrders' = IF Left(mid) = traded THEN OpenOrders \ {mid} ELSE OpenOrders

LEMMA MatchFacts ==
  ASSUME IInv, MatchOne
  PROVE  \E tid \in DOMAIN orders, other \in Sides : \E mid \in Held(other) :
           \E traded \in Nat \ {0} : MatchEffect(tid, other, mid, traded)
<1>1. TypeOK /\ RowsSound
  BY DEF IInv
<1>2. /\ call.id \in DOMAIN orders
      /\ call.remaining = Left(call.id)
      /\ call.remaining \in Nat
      /\ call.trades \in Seq(TradeRecords(Prices))
      /\ toRestore = {}
  BY DEF IInv, MatchOne, CallSound, TypeOK
<1>tid. PICK tid \in DOMAIN orders : tid = call.id
  BY <1>2
<1>other. PICK other \in Sides : other = Opposite(Taker.side) /\ other # Taker.side
  BY <1>1, <1>2, TypeFacts DEF Taker, OrderRecords, Opposite, Sides
<1> DEFINE levels == book[other]
           maker  == HeadOrder(levels)
           traded == Smaller(call.remaining, maker.quantity)
           new    == AfterHeadTrade(levels, traded)
<1>3. levels \in Seq(LevelRecords(Prices))
  BY <1>1, TypeFacts
<1>4. call.remaining > 0 /\ levels # <<>>
  BY <1>other DEF MatchOne, CanMatch, OppositeLevels
<1>5. LevelsSound(other, levels) /\ Entries(levels) = {Remainder(o) : o \in Held(other)}
  BY <1>3 DEF IInv, BookHoldsOpenOrders
<1>6. /\ call' = [call EXCEPT
           !.remaining = @ - traded,
           !.trades = Append(@, [taker |-> call.id, maker |-> maker.id,
                                 price |-> levels[1].price, quantity |-> traded])]
      /\ book' = [book EXCEPT ![other] = new]
      /\ filled' = [filled EXCEPT ![tid] = @ + traded, ![maker.id] = @ + traded]
      /\ lastPrice' = levels[1].price
      /\ UNCHANGED <<orders, createdAt, toRestore, result>>
  BY <1>tid, <1>other DEF MatchOne, OppositeLevels
<1> HIDE DEF levels
<1>7. /\ maker \in OrderRecords(Prices)
      /\ maker \in Entries(levels)
      /\ levels[1].price \in Prices
  BY <1>3, <1>4, <1>5, HeadOrderSound DEF LevelRecords
<1>8. PICK mid \in Held(other) : maker = Remainder(mid)
  BY <1>5, <1>7
<1>9. /\ mid \in DOMAIN orders /\ mid \in OpenOrders /\ mid # tid
      /\ orders[mid].side = other
      /\ maker.id = mid
      /\ maker.quantity = Left(mid)
  BY <1>1, <1>tid, <1>8, RemainderFacts DEF Held, OpenOrders
<1>10. /\ maker.quantity \in Nat \ {0}
       /\ traded \in Nat \ {0}
       /\ traded <= maker.quantity
       /\ traded <= call.remaining
  BY <1>2, <1>4, <1>7 DEF OrderRecords, Smaller
<1>11. /\ new \in Seq(LevelRecords(Prices))
       /\ LevelsSound(other, new)
       /\ maker.quantity = traded => Entries(new) = Entries(levels) \ {maker}
       /\ maker.quantity # traded =>
            Entries(new) = (Entries(levels) \ {maker})
                             \cup {[maker EXCEPT !.quantity = maker.quantity - traded]}
  BY <1>3, <1>4, <1>5, <1>10, AfterHeadTradeSound
<1> HIDE DEF maker, traded, new
<1>12. /\ DOMAIN filled = DOMAIN orders
       /\ filled \in Seq(Nat)
       /\ DOMAIN orders = 1..Len(orders)
       /\ Len(filled) = Len(orders)
       /\ filled[tid] \in Nat /\ filled[mid] \in Nat
  BY <1>1, <1>2, <1>9, TypeFacts DEF TypeOK
<1>13. /\ filled' \in Seq(Nat)
       /\ Len(filled') = Len(orders)
       /\ filled'[tid] = filled[tid] + traded
       /\ filled'[mid] = filled[mid] + traded
       /\ \A id \in DOMAIN orders \ {tid, mid} : filled'[id] = filled[id]
  <2> DEFINE half == [filled EXCEPT ![tid] = filled[tid] + traded]
  <2>1. /\ half \in Seq(Nat) /\ Len(half) = Len(orders)
        /\ half[tid] = filled[tid] + traded
        /\ \A id \in DOMAIN orders \ {tid} : half[id] = filled[id]
    BY <1>2, <1>10, <1>12, ExceptSeq
  <2>2. filled' = [half EXCEPT ![mid] = filled[mid] + traded]
    BY <1>6, <1>9
  <2> HIDE DEF half
  <2>3. filled[mid] + traded \in Nat /\ mid \in 1..Len(half)
    <3>1. filled[mid] + traded \in Nat
      BY <1>10, <1>12
    <3>2. mid \in 1..Len(half)
      BY <1>9, <1>12, <2>1
    <3> QED
      BY <3>1, <3>2
  <2>4. /\ filled' \in Seq(Nat) /\ Len(filled') = Len(half)
        /\ \A id \in 1..Len(half) :
             filled'[id] = IF id = mid THEN filled[mid] + traded ELSE half[id]
    BY <2>1, <2>2, <2>3, ExceptSeq
  <2>5. mid # tid /\ mid \in 1..Len(half) /\ tid \in 1..Len(half) /\ DOMAIN orders = 1..Len(half)
    BY <1>9, <1>12, <2>1
  <2>6. filled'[mid] = filled[mid] + traded /\ filled'[tid] = half[tid]
    BY <2>4, <2>5
  <2>7. \A id \in DOMAIN orders \ {tid, mid} : filled'[id] = half[id]
    BY <2>4, <2>5
  <2> QED
    BY <2>1, <2>4, <2>6, <2>7
<1>14. /\ call'.id = call.id
       /\ call'.remaining = call.remaining - traded
       /\ call' \in [id : {0} \cup DOMAIN orders, remaining : Nat,
                     trades : Seq(TradeRecords(Prices))]
  <2> DEFINE trade == [taker |-> call.id, maker |-> maker.id,
                       price |-> levels[1].price, quantity |-> traded]
  <2>1. trade \in TradeRecords(Prices)
    BY <1>2, <1>7, <1>9, <1>10, <1>12 DEF TradeRecords
  <2>2. Append(call.trades, trade) \in Seq(TradeRecords(Prices))
    BY <1>2, <2>1, AppendProperties
  <2>3. call.remaining - traded \in Nat
    BY <1>2, <1>10
  <2>4. call \in [id : {0} \cup DOMAIN orders, remaining : Nat,
                 trades : Seq(TradeRecords(Prices))]
    BY <1>1 DEF TypeOK
  <2>5. call' = [call EXCEPT !.remaining = call.remaining - traded,
                             !.trades = Append(call.trades, trade)]
    BY <1>6
  <2> HIDE DEF trade
  <2> QED
    BY <2>2, <2>3, <2>4, <2>5
<1>15. TypeOK'
  <2>1. book' \in [Sides -> Seq(LevelRecords(Prices))]
    BY <1>1, <1>3, <1>6, <1>11 DEF TypeOK
  <2> QED
    BY <1>1, <1>6, <1>7, <1>13, <1>14, <2>1 DEF TypeOK
<1>16. /\ Left(mid)' = Left(mid) - traded
       /\ Left(tid)' = Left(tid) - traded
       /\ \A id \in DOMAIN orders \ {tid, mid} :
            Left(id)' = Left(id) /\ Remainder(id)' = Remainder(id)
  <2>1. orders[mid].quantity \in Nat /\ orders[tid].quantity \in Nat
    BY <1>1, <1>2, <1>9, TypeFacts DEF OrderRecords
  <2>2. orders' = orders
    BY <1>6
  <2>3. Left(mid)' = Left(mid) - traded /\ Left(tid)' = Left(tid) - traded
    <3>1. /\ Left(mid)' = orders[mid].quantity - filled'[mid]
          /\ Left(tid)' = orders[tid].quantity - filled'[tid]
      BY <2>2 DEF Left
    <3>2. filled[tid] \in Nat /\ filled[mid] \in Nat
      BY <1>1, <1>9, TypeFacts
    <3>3. \A q, f, t \in Nat : q - (f + t) = (q - f) - t
      OBVIOUS
    <3>4. filled'[tid] = filled[tid] + traded /\ filled'[mid] = filled[mid] + traded
      BY <1>13
    <3> QED
      BY <1>10, <2>1, <3>1, <3>2, <3>3, <3>4 DEF Left
  <2>4. \A id \in DOMAIN orders \ {tid, mid} :
          Left(id)' = Left(id) /\ Remainder(id)' = Remainder(id)
    BY <1>13, <2>2 DEF Left, Remainder
  <2> QED
    BY <2>3, <2>4
<1>17. /\ maker.quantity = traded => OpenOrders' = OpenOrders \ {mid}
       /\ maker.quantity # traded => OpenOrders' = OpenOrders
  <2>1. \A id \in DOMAIN orders \ {mid} : id \in OpenOrders' <=> id \in OpenOrders
    BY <1>tid, <1>6, <1>14, <1>16 DEF OpenOrders
  <2>2. mid \in OpenOrders' <=> maker.quantity # traded
    BY <1>tid, <1>6, <1>9, <1>10, <1>14, <1>16 DEF OpenOrders
  <2>3. OpenOrders \subseteq DOMAIN orders /\ OpenOrders' \subseteq DOMAIN orders
    BY <1>6 DEF OpenOrders
  <2> QED
    BY <1>9, <2>1, <2>2, <2>3
<1>18. MatchEffect(tid, other, mid, traded)
  <2>1. /\ call.remaining = Left(tid) /\ traded = Smaller(Left(tid), Left(mid))
        /\ traded <= Left(tid) /\ traded <= Left(mid)
    BY <1>2, <1>tid, <1>9, <1>10 DEF traded
  <2>2. book[other] # <<>> /\ HeadOrder(book[other]) = Remainder(mid)
    BY <1>4, <1>8 DEF levels, maker
  <2>3. book' = [book EXCEPT ![other] = AfterHeadTrade(book[other], traded)]
    BY <1>6 DEF levels, new
  <2>4. OpenOrders' = IF Left(mid) = traded THEN OpenOrders \ {mid} ELSE OpenOrders
    BY <1>9, <1>17
  <2>5. call'.id = tid /\ call'.remaining = Left(tid) - traded
    BY <1>tid, <1>14, <2>1
  <2> QED
    BY <1>tid, <1>other, <1>2, <1>6, <1>9, <1>15, <1>16, <2>1, <2>2, <2>3, <2>4, <2>5,
       Zenon DEF MatchEffect
<1> QED
  BY <1>8, <1>10, <1>18, Zenon

LEMMA MatchInv == IInv /\ MatchOne => IInv'
<1> SUFFICES ASSUME IInv, MatchOne PROVE IInv'
  OBVIOUS
<1>1. TypeOK /\ RowsSound
  BY DEF IInv
<1>2. PICK tid \in DOMAIN orders, other \in Sides : \E mid \in Held(other) :
        \E traded \in Nat \ {0} : MatchEffect(tid, other, mid, traded)
  BY MatchFacts, Zenon
<1>3. PICK mid \in Held(other), traded \in Nat \ {0} : MatchEffect(tid, other, mid, traded)
  BY <1>2, Zenon
<1>tid. tid = call.id
  BY <1>3 DEF MatchEffect
<1> DEFINE levels == book[other]
           maker  == HeadOrder(levels)
           new    == AfterHeadTrade(levels, traded)
<1>5. /\ levels \in Seq(LevelRecords(Prices)) /\ levels # <<>>
      /\ LevelsSound(other, levels) /\ Entries(levels) = {Remainder(o) : o \in Held(other)}
  BY <1>1, <1>3, TypeFacts DEF IInv, BookHoldsOpenOrders, MatchEffect
<1>6. /\ book' = [book EXCEPT ![other] = new]
      /\ UNCHANGED <<orders, createdAt, toRestore, result>>
      /\ toRestore = {}
      /\ call'.id = tid /\ call'.remaining = Left(tid) - traded
  BY <1>3, Zenon DEF MatchEffect
<1>7. maker = Remainder(mid) /\ mid # tid
  BY <1>3, Zenon DEF MatchEffect
<1> HIDE DEF levels, maker
<1>9. /\ mid \in DOMAIN orders /\ mid \in OpenOrders
      /\ orders[mid].side = other
      /\ maker.id = mid
      /\ maker.quantity = Left(mid)
      /\ maker \in OrderRecords(Prices)
  BY <1>1, <1>7, RemainderFacts DEF Held, OpenOrders
<1>10. /\ traded <= Left(mid) /\ traded <= Left(tid) /\ traded \in Nat
       /\ Left(mid) \in Nat /\ Left(tid) \in Nat
  BY <1>1, <1>3, <1>9, RemainderFacts DEF MatchEffect
<1>11. /\ new \in Seq(LevelRecords(Prices))
       /\ LevelsSound(other, new)
       /\ maker.quantity = traded => Entries(new) = Entries(levels) \ {maker}
       /\ maker.quantity # traded =>
            Entries(new) = (Entries(levels) \ {maker})
                             \cup {[maker EXCEPT !.quantity = maker.quantity - traded]}
  <2>1. traded <= maker.quantity /\ maker = HeadOrder(levels)
    BY <1>9, <1>10 DEF maker
  <2> QED
    BY <1>5, <2>1, AfterHeadTradeSound
<1> HIDE DEF new
<1>15. TypeOK'
  BY <1>3, Zenon DEF MatchEffect
<1>16. /\ Left(mid)' = Left(mid) - traded
       /\ Left(tid)' = Left(tid) - traded
       /\ \A id \in DOMAIN orders \ {tid, mid} :
            Left(id)' = Left(id) /\ Remainder(id)' = Remainder(id)
  BY <1>3, Zenon DEF MatchEffect
<1>17. RowsSound'
  <2> SUFFICES ASSUME NEW id \in DOMAIN orders
               PROVE  orders[id].id = id /\ filled'[id] <= orders[id].quantity
    BY <1>6 DEF RowsSound
  <2>1. /\ orders[id].id = id /\ filled[id] <= orders[id].quantity
        /\ filled[id] \in Nat /\ orders[id].quantity \in Nat
    BY <1>1, TypeFacts DEF RowsSound, OrderRecords
  <2>2. filled' \in Seq(Nat) /\ Len(filled') = Len(orders) /\ DOMAIN orders = 1..Len(orders)
    BY <1>1, <1>6, <1>15, TypeFacts DEF TypeOK
  <2>3. filled'[id] \in Nat
    BY <2>2, ElementOfSeq
  <2>4. Left(id)' \in Nat
    <3>1. Left(id) \in Nat
      BY <1>1, RemainderFacts
    <3>2. CASE id = tid \/ id = mid
      BY <1>10, <1>16, <3>2
    <3>3. CASE id \notin {tid, mid}
      BY <1>16, <3>1, <3>3
    <3> QED
      BY <3>2, <3>3
  <2>5. Left(id)' = orders[id].quantity - filled'[id]
    BY <1>6 DEF Left
  <2> QED
    BY <2>1, <2>3, <2>4, <2>5
<1>18. CallSound'
  BY <1>6, <1>16 DEF CallSound
<1>19. /\ maker.quantity = traded => OpenOrders' = OpenOrders \ {mid}
       /\ maker.quantity # traded => OpenOrders' = OpenOrders
  BY <1>3, <1>9, Zenon DEF MatchEffect
<1>20. OpenOrders' \subseteq OpenOrders
  BY <1>19
<1>21. NotCrossed'
  BY <1>6, <1>20 DEF IInv, NotCrossed
<1>22. \A s \in Sides : \A id \in Held(s) : id \in DOMAIN orders \ {tid}
  BY <1>tid DEF Held, OpenOrders
<1>23. /\ LevelsSound(other, book'[other])
       /\ Entries(book'[other]) = {Remainder(o) : o \in Held(other)}'
  <2>1. book'[other] = new
    BY <1>1, <1>3, <1>6, TypeFacts
  <2>2. \A o \in Held(other) : Remainder(o).id = o
    BY <1>1, <1>3, <1>22, RemainderFacts
  <2>3. \A o \in Held(other) \ {mid} : Remainder(o)' = Remainder(o)
    BY <1>3, <1>16, <1>22
  <2>4. CASE maker.quantity = traded
    <3>1. Held(other)' = Held(other) \ {mid}
      BY <1>6, <1>19, <2>4 DEF Held
    <3>2. Entries(new) = Entries(levels) \ {maker}
      BY <1>11, <2>4
    <3>3. {Remainder(o) : o \in Held(other)}' = {Remainder(o) : o \in Held(other) \ {mid}}
      BY <2>3, <3>1
    <3>4. Entries(levels) \ {maker} = {Remainder(o) : o \in Held(other) \ {mid}}
      BY <1>5, <1>7, <2>2
    <3> QED
      BY <1>11, <2>1, <3>2, <3>3, <3>4
  <2>5. CASE maker.quantity # traded
    <3>1. Held(other)' = Held(other)
      BY <1>6, <1>19, <2>5 DEF Held
    <3>2. Remainder(mid)' = [maker EXCEPT !.quantity = maker.quantity - traded]
      <4>1. orders' = orders /\ orders[mid] \in OrderRecords(Prices)
        BY <1>1, <1>6, <1>9, TypeFacts
      <4> QED
        BY <1>7, <1>9, <1>16, <4>1 DEF Remainder, OrderRecords
    <3>3. Entries(new) = (Entries(levels) \ {maker}) \cup {Remainder(mid)'}
      BY <1>11, <2>5, <3>2
    <3>4. {Remainder(o) : o \in Held(other)}' =
            {Remainder(o) : o \in Held(other) \ {mid}} \cup {Remainder(mid)'}
      BY <1>7, <2>3, <3>1
    <3>5. Entries(levels) \ {maker} = {Remainder(o) : o \in Held(other) \ {mid}}
      BY <1>5, <1>7, <2>2
    <3> QED
      BY <1>11, <2>1, <3>3, <3>4, <3>5
  <2> QED
    BY <2>4, <2>5
<1>24. ASSUME NEW s \in Sides, s # other
       PROVE  /\ LevelsSound(s, book'[s])
              /\ Entries(book'[s]) = {Remainder(o) : o \in Held(s)}'
  <2>1. book'[s] = book[s]
    BY <1>1, <1>6, <1>24, TypeFacts
  <2>2. Held(s)' = Held(s) /\ mid \notin Held(s)
    BY <1>6, <1>9, <1>19, <1>24 DEF Held
  <2>3. \A o \in Held(s) : Remainder(o)' = Remainder(o)
    BY <1>16, <1>22, <2>2
  <2>4. {Remainder(o) : o \in Held(s)}' = {Remainder(o) : o \in Held(s)}
    BY <2>2, <2>3
  <2> QED
    BY <2>1, <2>4 DEF IInv, BookHoldsOpenOrders
<1>25. BookHoldsOpenOrders'
  BY <1>23, <1>24 DEF BookHoldsOpenOrders
<1> QED
  BY <1>6, <1>15, <1>17, <1>18, <1>21, <1>25 DEF IInv

(***************************************************************************)
(* The end of a call: the remainder of a limit order joins its side, and   *)
(* crosses no open order, since the best of them was not acceptable.       *)
(***************************************************************************)
LEMMA FinishInv == IInv /\ Finish => IInv'
<1> SUFFICES ASSUME IInv, Finish PROVE IInv'
  OBVIOUS
<1>1. TypeOK /\ RowsSound
  BY DEF IInv
<1>2. /\ call.id \in DOMAIN orders
      /\ call.remaining = Left(call.id)
      /\ call.remaining \in Nat
      /\ call.trades \in Seq(TradeRecords(Prices))
      /\ toRestore = {}
  BY DEF IInv, Finish, CallSound, TypeOK
<1>3. PICK tid \in DOMAIN orders : tid = call.id
  BY <1>2
<1>4. PICK side \in Sides : side = Taker.side
  BY <1>1, <1>2, TypeFacts DEF Taker, OrderRecords
<1> DEFINE rests == Left(tid) > 0 /\ orders[tid].type = "limit"
           new   == AddToBook(book[side], Remainder(tid))
<1>5. /\ book' = IF rests THEN [book EXCEPT ![side] = new] ELSE book
      /\ call' = NoCall
      /\ result' = [status  |-> "accepted", trades |-> call.trades,
                    resting |-> IF rests THEN call.remaining ELSE 0]
      /\ UNCHANGED <<lastPrice, orders, filled, createdAt, toRestore>>
  BY <1>2, <1>3, <1>4 DEF Finish, Taker, Remainder
<1>6. /\ orders[tid].side = side /\ Left(tid) \in Nat
      /\ Remainder(tid).id = tid /\ Remainder(tid).side = side
      /\ rests => Remainder(tid) \in OrderRecords(Prices)
  BY <1>1, <1>3, <1>4, RemainderFacts DEF Taker
<1>7. /\ book[side] \in Seq(LevelRecords(Prices))
      /\ LevelsSound(side, book[side])
      /\ Entries(book[side]) = {Remainder(o) : o \in Held(side)}
  BY <1>1, TypeFacts DEF IInv, BookHoldsOpenOrders
<1>8. \A s \in Sides : \A o \in Held(s) : o \in DOMAIN orders /\ o # tid
  BY <1>3 DEF Held, OpenOrders
<1>9. \A e \in Entries(book[side]) : e.id # Remainder(tid).id
  BY <1>1, <1>6, <1>7, <1>8, RemainderFacts
<1>10. rests => /\ new \in Seq(LevelRecords(Prices))
                /\ LevelsSound(side, new)
                /\ Entries(new) = Entries(book[side]) \cup {Remainder(tid)}
  BY <1>6, <1>7, <1>9, AddToBookSound
<1> HIDE DEF new
<1>11. TypeOK'
  <2>1. book' \in [Sides -> Seq(LevelRecords(Prices))]
    BY <1>1, <1>5, <1>10 DEF TypeOK
  <2>2. <<>> \in Seq(TradeRecords(Prices))
    BY EmptySeq
  <2>3. call' \in [id : {0} \cup DOMAIN orders', remaining : Nat,
                   trades : Seq(TradeRecords(Prices))]
    BY <1>5, <2>2 DEF NoCall
  <2>4. result' \in [status : {"none", "accepted", "rejected"},
                     trades : Seq(TradeRecords(Prices)), resting : Nat]
    BY <1>2, <1>5
  <2> QED
    BY <1>1, <1>5, <2>1, <2>3, <2>4 DEF TypeOK
<1>12. RowsSound' /\ CallSound'
  BY <1>1, <1>5 DEF RowsSound, CallSound, NoCall
<1>13. \A o \in DOMAIN orders : Left(o)' = Left(o) /\ Remainder(o)' = Remainder(o)
  BY <1>5 DEF Left, Remainder
<1>14. OpenOrders' = IF rests THEN OpenOrders \cup {tid} ELSE OpenOrders
  <2>1. call'.id = 0 /\ orders' = orders
    BY <1>5 DEF NoCall
  <2>2. \A o \in DOMAIN orders : o # 0
    BY <1>1, TypeFacts
  <2> QED
    BY <1>3, <1>13, <2>1, <2>2 DEF OpenOrders
<1> HIDE DEF rests
<1>15. \A s \in Sides : {Remainder(o) : o \in Held(s)}' = {Remainder(o) : o \in Held(s)'}
  BY <1>5, <1>13 DEF Held, OpenOrders
<1>16. ASSUME NEW s \in Sides
       PROVE  /\ LevelsSound(s, book'[s])
              /\ Entries(book'[s]) = {Remainder(o) : o \in Held(s)}'
  <2>1. CASE rests /\ s = side
    <3>1. book'[s] = new
      BY <1>1, <1>5, <2>1, TypeFacts
    <3>2. Held(s)' = Held(s) \cup {tid}
      BY <1>2, <1>5, <1>6, <1>14, <2>1 DEF Held
    <3> QED
      BY <1>7, <1>10, <1>15, <2>1, <3>1, <3>2
  <2>2. CASE ~rests \/ s # side
    <3>1. book'[s] = book[s]
      BY <1>1, <1>5, <2>2, TypeFacts
    <3>2. Held(s)' = Held(s)
      BY <1>2, <1>5, <1>6, <1>14, <2>2 DEF Held
    <3> QED
      BY <1>15, <3>1, <3>2 DEF IInv, BookHoldsOpenOrders
  <2> QED
    BY <2>1, <2>2
<1>17. BookHoldsOpenOrders'
  BY <1>16 DEF BookHoldsOpenOrders
<1>18. ASSUME rests, NEW o \in OpenOrders, orders[o].side # side
       PROVE  IF side = "buy" THEN orders[tid].price < orders[o].price
                              ELSE orders[o].price < orders[tid].price
  <2>1. PICK other \in Sides : other = Opposite(side) /\ orders[o].side = other
    <3>1. orders[o].side \in Sides
      BY <1>1, TypeFacts DEF OpenOrders, OrderRecords
    <3> QED
      BY <1>18, <3>1 DEF Opposite, Sides
  <2> DEFINE levels == book[other]
  <2>2. /\ levels \in Seq(LevelRecords(Prices))
        /\ LevelsSound(other, levels)
        /\ Entries(levels) = {Remainder(x) : x \in Held(other)}
    BY <1>1, TypeFacts DEF IInv, BookHoldsOpenOrders
  <2>3. Remainder(o) \in Entries(levels)
    BY <1>2, <2>1, <2>2 DEF Held
  <2>4. levels # <<>>
    BY <2>3, EmptyLevels
  <2>5. Remainder(o).price = orders[o].price /\ orders[o].price \in Nat
        /\ orders[tid].price \in Nat
    BY <1>1, <1>3, RemainderFacts, TypeFacts DEF OpenOrders, OrderRecords
  <2>6. /\ levels[1].price \in Nat
        /\ \/ orders[o].price = levels[1].price
           \/ SortsBefore(other, levels[1].price, orders[o].price)
    <3>1. /\ levels[1] \in LevelRecords(Prices)
          /\ \A e \in Entries(levels) :
               e.price = levels[1].price \/ SortsBefore(other, levels[1].price, e.price)
      BY <2>2, <2>4, HeadOrderSound
    <3>2. levels[1].price \in Prices
      BY <3>1 DEF LevelRecords
    <3> QED
      BY <2>3, <2>5, <3>1, <3>2
  <2>7. ~IsMatch(orders[tid], levels[1].price)
    <3>1. Taker = orders[tid] /\ OppositeLevels = levels /\ call.remaining > 0
      BY <1>2, <1>3, <1>4, <1>18, <2>1 DEF Taker, OppositeLevels, rests
    <3> QED
      BY <2>4, <3>1 DEF Finish, CanMatch
  <2> HIDE DEF levels
  <2> QED
    BY <1>6, <2>1, <2>5, <2>6, <2>7 DEF IsMatch, SortsBefore, Opposite, Sides
<1>19. NotCrossed'
  <2>1. orders' = orders
    BY <1>5
  <2>2. CASE ~rests
    BY <1>14, <2>1, <2>2 DEF IInv, NotCrossed
  <2>3. CASE rests
    <3>1. OpenOrders' = OpenOrders \cup {tid}
      BY <1>14, <2>3
    <3>2. NotCrossed
      BY DEF IInv
    <3> SUFFICES ASSUME NEW b \in OpenOrders \cup {tid}, NEW s \in OpenOrders \cup {tid},
                        orders[b].side = "buy", orders[s].side = "sell"
                 PROVE  orders[b].price < orders[s].price
      BY <2>1, <3>1 DEF NotCrossed
    <3>3. CASE b \in OpenOrders /\ s \in OpenOrders
      BY <3>2, <3>3 DEF NotCrossed
    <3>4. CASE b = tid /\ s \in OpenOrders
      BY <1>6, <1>18, <2>3, <3>4
    <3>5. CASE s = tid /\ b \in OpenOrders
      BY <1>6, <1>18, <2>3, <3>5
    <3> QED
      BY <3>3, <3>4, <3>5
  <2> QED
    BY <2>2, <2>3
<1>20. (toRestore \subseteq OpenOrders)'
  BY <1>2, <1>5
<1> QED
  BY <1>11, <1>12, <1>17, <1>19, <1>20 DEF IInv

(***************************************************************************)
(* Every step keeps the invariant.                                         *)
(***************************************************************************)
LEMMA NextInv == IInv /\ [Next]_vars => IInv'
<1> SUFFICES ASSUME IInv, [Next]_vars PROVE IInv'
  OBVIOUS
<1>1. CASE PlaceAny
  <2>1. PICK side \in Sides, type \in Types,
             price \in Prices \cup {NoPrice}, quantity \in Quantities \cup {0} :
           PlaceOrder(side, type, price, quantity)
    BY <1>1 DEF PlaceAny
  <2>2. CASE RejectOrder(side, type, price, quantity)
    BY <2>2, RejectInv DEF RejectOrder
  <2>3. CASE AcceptOrder(side, type, price, quantity)
    BY <2>3, AcceptInv
  <2> QED
    BY <2>1, <2>2, <2>3 DEF PlaceOrder
<1>2. CASE MatchOne
  BY <1>2, MatchInv
<1>3. CASE Finish
  BY <1>3, FinishInv
<1>4. CASE Restart
  BY <1>4, RestartInv
<1>5. CASE RestoreOne
  BY <1>5, RestoreInv
<1>6. CASE UNCHANGED vars
  BY <1>6, StutterInv
<1> QED
  BY <1>1, <1>2, <1>3, <1>4, <1>5, <1>6 DEF Next

\* The invariant that all the engine's safety theorems follow from.
THEOREM Invariance == Spec => []IInv
  BY InitInv, NextInv, PTL DEF Spec

\* Every value the engine keeps has its type (placeOrder, place, restore).
THEOREM TypeCorrect == Spec => []TypeOK
<1>1. IInv => TypeOK
  BY DEF IInv
<1> QED
  BY <1>1, Invariance, PTL

\* The book in memory is the open rows, each with what is left of it, in
\* levels that are strictly best first, whatever is placed and whenever the
\* matcher restarts (place, restore, addToBook).
THEOREM BookCorrect == Spec => []BookHoldsOpenOrders
<1>1. IInv => BookHoldsOpenOrders
  BY DEF IInv
<1> QED
  BY <1>1, Invariance, PTL

\* No open buy order ever reaches an open sell order (place, isMatch), so the
\* rows a restart restores without matching never cross.
THEOREM NeverCrossed == Spec => []NotCrossed
<1>1. IInv => NotCrossed
  BY DEF IInv
<1> QED
  BY <1>1, Invariance, PTL

(***************************************************************************)
(* First come, first served. The rows' createdAt never decreases with      *)
(* their ids; an order that joins a queue is the last accepted one, or the *)
(* next of the rows that a restart restores, which come in that order.     *)
(***************************************************************************)
ClockAdvances ==
  \A id \in DOMAIN orders : \A earlier \in 1..(id - 1) :
    /\ createdAt[earlier] <= createdAt[id]
    /\ ~ClockTies => createdAt[earlier] < createdAt[id]

RestoredInTime ==
  \A id \in toRestore : \A o \in OpenOrders \ toRestore : createdAt[o] <= createdAt[id]

BookKeepsTime == \A side \in Sides : LevelsInTime(book[side], createdAt)

TimeInv ==
  /\ IInv
  /\ call.id # 0 => call.id = Len(orders)
  /\ ClockAdvances
  /\ RestoredInTime
  /\ BookKeepsTime

LEMMA InitTime == Init => TimeInv
<1> SUFFICES ASSUME Init PROVE TimeInv
  OBVIOUS
<1>1. IInv
  BY InitInv
<1>2. DOMAIN orders = {}
  BY DEF Init
<1>3. BookKeepsTime
  BY DEF Init, EmptyBook, BookKeepsTime, LevelsInTime
<1> QED
  BY <1>1, <1>2, <1>3 DEF Init, NoCall, TimeInv, ClockAdvances, RestoredInTime

\* Levels whose rows keep their times keep their order.
LEMMA SameTimes ==
  ASSUME IInv, NEW side \in Sides, LevelsInTime(book[side], createdAt),
         NEW time, \A id \in DOMAIN orders : time[id] = createdAt[id]
  PROVE  LevelsInTime(book[side], time)
<1>1. TypeOK /\ RowsSound /\ Entries(book[side]) = {Remainder(id) : id \in Held(side)}
  BY DEF IInv, BookHoldsOpenOrders
<1>2. \A id \in Held(side) : id \in DOMAIN orders
  BY DEF Held, OpenOrders
<1>3. \A e \in Entries(book[side]) : e.id \in DOMAIN orders
  BY <1>1, <1>2, RemainderFacts
<1>4. book[side] \in Seq(LevelRecords(Prices))
  BY <1>1 DEF TypeOK
<1>5. ASSUME NEW i \in DOMAIN book[side], NEW k \in DOMAIN book[side][i].orders
      PROVE  book[side][i].orders[k].id \in DOMAIN orders
  BY <1>3 DEF Entries, QueueEntries
<1>6. \A i \in DOMAIN book[side] : \A k \in DOMAIN book[side][i].orders : \A l \in 1..(k - 1) :
        l \in DOMAIN book[side][i].orders
  BY <1>4, LevelsTyped
<1> QED
  BY <1>5, <1>6 DEF LevelsInTime, QueueInTime

LEMMA AcceptTime ==
  ASSUME TimeInv, IInv', NEW side \in Sides, NEW type \in Types,
         NEW price \in Prices \cup {NoPrice}, NEW quantity \in Quantities \cup {0},
         AcceptOrder(side, type, price, quantity)
  PROVE  TimeInv'
<1>1. IInv /\ TypeOK /\ ClockAdvances /\ BookKeepsTime
  BY DEF TimeInv, IInv
<1>2. PICK n \in Nat : n = Len(orders)
  BY <1>1, LenProperties DEF TypeOK
<1>3. PICK t \in NextCreatedAt : createdAt' = Append(createdAt, t)
  BY DEF AcceptOrder
<1>4. /\ Len(orders') = n + 1 /\ call'.id = n + 1 /\ book' = book
      /\ toRestore = {} /\ toRestore' = {}
  <2>1. orders \in Seq(OrderRecords(Prices))
    BY <1>1 DEF TypeOK
  <2>2. PICK row : orders' = Append(orders, row)
    BY DEF AcceptOrder
  <2>3. Len(orders') = n + 1
    BY <1>2, <2>1, <2>2
  <2> QED
    BY <1>2, <2>3 DEF AcceptOrder, Ready
<1>5. /\ createdAt \in Seq(Nat) /\ Len(createdAt) = n /\ DOMAIN orders = 1..n
      /\ \A id \in 1..n : createdAt[id] \in Nat
  BY <1>1, <1>2, TypeFacts DEF TypeOK
<1>6. DOMAIN orders' = 1..(n + 1)
  BY <1>4, LenProperties DEF IInv, TypeOK
<1>7. /\ t \in Nat
      /\ \A id \in 1..n : createdAt[id] <= t /\ (~ClockTies => createdAt[id] < t)
  <2>1. CASE n = 0
    <3>1. createdAt = <<>>
      BY <1>5, <2>1, EmptySeq
    <3> QED
      BY <1>3, <2>1, <3>1 DEF NextCreatedAt
  <2>2. CASE n # 0
    <3>1. createdAt # <<>> /\ n \in 1..n
      BY <1>5, <2>2, EmptySeq
    <3>2. t \in IF ClockTies THEN {createdAt[n], createdAt[n] + 1} ELSE {createdAt[n] + 1}
      BY <1>3, <1>5, <3>1 DEF NextCreatedAt
    <3>3. \A id \in 1..n : createdAt[id] <= createdAt[n]
      <4>1. \A id \in 1..n : id = n \/ id \in 1..(n - 1)
        BY <1>2
      <4> QED
        BY <1>1, <1>5, <3>1, <4>1 DEF ClockAdvances
    <3> QED
      BY <1>5, <3>1, <3>2, <3>3
  <2> QED
    BY <2>1, <2>2
<1>8. \A id \in 1..n : createdAt'[id] = createdAt[id]
  BY <1>3, <1>5, <1>7, AppendProperties
<1>9. createdAt'[n + 1] = t
  BY <1>3, <1>5, <1>7, AppendProperties
<1>10. ClockAdvances'
  <2>1. ASSUME NEW id \in 1..(n + 1), NEW earlier \in 1..(id - 1)
        PROVE  /\ createdAt'[earlier] <= createdAt'[id]
               /\ ~ClockTies => createdAt'[earlier] < createdAt'[id]
    <3>1. earlier \in 1..n
      BY <1>2
    <3>2. CASE id = n + 1
      BY <1>7, <1>8, <1>9, <3>1, <3>2
    <3>3. CASE id \in 1..n
      BY <1>1, <1>5, <1>8, <3>1, <3>3 DEF ClockAdvances
    <3> QED
      BY <1>2, <3>2, <3>3
  <2> QED
    BY <1>6, <2>1 DEF ClockAdvances
<1>11. BookKeepsTime'
  <2>1. \A s \in Sides : LevelsInTime(book[s], createdAt')
    BY <1>1, <1>5, <1>8, SameTimes DEF BookKeepsTime
  <2> QED
    BY <1>4, <2>1 DEF BookKeepsTime
<1>12. RestoredInTime'
  BY <1>4 DEF RestoredInTime
<1> QED
  BY <1>4, <1>10, <1>11, <1>12 DEF TimeInv

LEMMA MatchTime == TimeInv /\ IInv' /\ MatchOne => TimeInv'
<1> SUFFICES ASSUME TimeInv, IInv', MatchOne PROVE TimeInv'
  OBVIOUS
<1>1. IInv /\ TypeOK /\ ClockAdvances /\ BookKeepsTime
  BY DEF TimeInv, IInv
<1>2. PICK tid \in DOMAIN orders, other \in Sides : \E mid \in Held(other) :
        \E traded \in Nat \ {0} : MatchEffect(tid, other, mid, traded)
  BY <1>1, MatchFacts, Zenon
<1>3. PICK mid \in Held(other), traded \in Nat \ {0} : MatchEffect(tid, other, mid, traded)
  BY <1>2, Zenon
<1> DEFINE new == AfterHeadTrade(book[other], traded)
<1>4. /\ book' = [book EXCEPT ![other] = new]
      /\ UNCHANGED <<orders, createdAt, toRestore>>
      /\ toRestore = {} /\ call'.id = call.id /\ book[other] # <<>>
  BY <1>3, Zenon DEF MatchEffect
<1>5. LevelsInTime(new, createdAt)
  <2>1. book[other] \in Seq(LevelRecords(Prices)) /\ LevelsSound(other, book[other])
    BY <1>1 DEF TypeOK, IInv, BookHoldsOpenOrders
  <2>2. LevelsInTime(book[other], createdAt)
    BY <1>1 DEF BookKeepsTime
  <2> QED
    BY <1>4, <2>1, <2>2, AfterHeadTradeInTime
<1> HIDE DEF new
<1>6. \A side \in Sides : book'[side] = IF side = other THEN new ELSE book[side]
  BY <1>1, <1>4 DEF TypeOK
<1>7. BookKeepsTime'
  BY <1>1, <1>4, <1>5, <1>6, Zenon DEF BookKeepsTime
<1>8. ClockAdvances' /\ RestoredInTime'
  BY <1>1, <1>4 DEF ClockAdvances, RestoredInTime
<1> QED
  BY <1>4, <1>7, <1>8 DEF TimeInv

\* What joins a queue is no earlier than what the queue holds.
LEMMA JoinInTime ==
  ASSUME TimeInv, NEW side \in Sides, NEW id \in DOMAIN orders,
         orders[id].side = side, Left(id) > 0, id \notin Held(side),
         \A o \in Held(side) : createdAt[o] <= createdAt[id]
  PROVE  LevelsInTime(AddToBook(book[side], Remainder(id)), createdAt)
<1>1. IInv /\ TypeOK /\ RowsSound /\ BookKeepsTime
  BY DEF TimeInv, IInv
<1>2. book[side] \in Seq(LevelRecords(Prices)) /\ LevelsSound(side, book[side])
  BY <1>1 DEF TypeOK, IInv, BookHoldsOpenOrders
<1>3. /\ Remainder(id) \in OrderRecords(Prices)
      /\ Remainder(id).id = id /\ Remainder(id).side = side
  BY <1>1, RemainderFacts
<1>4. Entries(book[side]) = {Remainder(o) : o \in Held(side)}
  BY <1>1 DEF IInv, BookHoldsOpenOrders
<1>5. \A o \in Held(side) : Remainder(o).id = o
  BY <1>1, RemainderFacts DEF Held, OpenOrders
<1>6. \A e \in Entries(book[side]) : createdAt[e.id] <= createdAt[Remainder(id).id]
  BY <1>3, <1>4, <1>5
<1>7. LevelsInTime(book[side], createdAt)
  BY <1>1 DEF BookKeepsTime
<1> QED
  BY <1>2, <1>3, <1>6, <1>7, AddToBookInTime

LEMMA FinishTime == TimeInv /\ IInv' /\ Finish => TimeInv'
<1> SUFFICES ASSUME TimeInv, IInv', Finish PROVE TimeInv'
  OBVIOUS
<1>1. IInv /\ TypeOK /\ ClockAdvances /\ BookKeepsTime
  BY DEF TimeInv, IInv
<1>2. PICK tid \in DOMAIN orders : tid = call.id
  BY <1>1 DEF Finish, TypeOK
<1>3. tid = Len(orders) /\ call.remaining = Left(tid) /\ toRestore = {}
  BY <1>1, <1>2 DEF TimeInv, IInv, CallSound, Finish
<1>4. PICK side \in Sides : side = orders[tid].side
  BY <1>1, TypeFacts DEF OrderRecords
<1> DEFINE rests == Left(tid) > 0 /\ orders[tid].type = "limit"
           new   == AddToBook(book[side], Remainder(tid))
<1>5. /\ book' = IF rests THEN [book EXCEPT ![side] = new] ELSE book
      /\ call'.id = 0
      /\ UNCHANGED <<orders, createdAt, toRestore>>
  BY <1>2, <1>3, <1>4 DEF Finish, Taker, Remainder, NoCall
<1>6. \A o \in Held(side) : o \in DOMAIN orders /\ o # tid
  BY <1>2 DEF Held, OpenOrders
<1>7. \A o \in Held(side) : createdAt[o] <= createdAt[tid]
  <2>1. Len(orders) \in Nat /\ DOMAIN orders = 1..Len(orders)
    BY <1>1, TypeFacts
  <2>2. \A o \in Held(side) : o \in 1..(tid - 1)
    BY <1>3, <1>6, <2>1
  <2> QED
    BY <1>1, <2>2 DEF ClockAdvances
<1>8. rests => LevelsInTime(new, createdAt)
  <2>1. tid \notin Held(side)
    BY <1>6
  <2> QED
    BY <1>4, <1>7, <2>1, JoinInTime
<1> HIDE DEF new, rests
<1>9. \A s \in Sides : book'[s] = IF rests /\ s = side THEN new ELSE book[s]
  BY <1>1, <1>5 DEF TypeOK
<1>10. BookKeepsTime'
  BY <1>1, <1>5, <1>8, <1>9, Zenon DEF BookKeepsTime
<1>11. ClockAdvances' /\ RestoredInTime'
  BY <1>1, <1>3, <1>5 DEF ClockAdvances, RestoredInTime
<1> QED
  BY <1>5, <1>10, <1>11 DEF TimeInv

LEMMA RestartTime == TimeInv /\ IInv' /\ Restart => TimeInv'
<1> SUFFICES ASSUME TimeInv, IInv', Restart PROVE TimeInv'
  OBVIOUS
<1>1. ClockAdvances /\ call.id = 0
  BY DEF TimeInv, Restart
<1>2. /\ UNCHANGED <<orders, filled, createdAt, call>>
      /\ toRestore' = OpenOrders /\ OpenOrders' = OpenOrders
  BY DEF Restart, OpenOrders, Left
<1>3. BookKeepsTime'
  BY DEF Restart, EmptyBook, BookKeepsTime, LevelsInTime
<1>4. ClockAdvances'
  BY <1>1, <1>2 DEF ClockAdvances
<1>5. RestoredInTime'
  BY <1>2 DEF RestoredInTime
<1> QED
  BY <1>1, <1>2, <1>3, <1>4, <1>5 DEF TimeInv

LEMMA RestoreTime == TimeInv /\ IInv' /\ RestoreOne => TimeInv'
<1> SUFFICES ASSUME TimeInv, IInv', RestoreOne PROVE TimeInv'
  OBVIOUS
<1>1. IInv /\ TypeOK /\ ClockAdvances /\ BookKeepsTime /\ RestoredInTime
  BY DEF TimeInv, IInv
<1>2. PICK id \in toRestore :
        /\ \A o \in toRestore : createdAt[id] <= createdAt[o]
        /\ book' = [book EXCEPT ![orders[id].side] = AddToBook(@, Remainder(id))]
        /\ toRestore' = toRestore \ {id}
  BY DEF RestoreOne
<1>3. UNCHANGED <<lastPrice, orders, filled, createdAt, call, result>>
  BY DEF RestoreOne
<1>4. id \in OpenOrders /\ id \in DOMAIN orders /\ Left(id) > 0 /\ call.id = 0
  BY <1>1 DEF IInv, OpenOrders, CallSound
<1>5. PICK side \in Sides : side = orders[id].side
  BY <1>1, <1>4, TypeFacts DEF OrderRecords
<1> DEFINE new == AddToBook(book[side], Remainder(id))
<1>6. LevelsInTime(new, createdAt)
  <2>1. id \notin Held(side) /\ \A o \in Held(side) : createdAt[o] <= createdAt[id]
    BY <1>1, <1>2 DEF Held, RestoredInTime
  <2> QED
    BY <1>4, <1>5, <2>1, JoinInTime
<1>7. book' = [book EXCEPT ![side] = new]
  BY <1>2, <1>5
<1> HIDE DEF new
<1>8. \A s \in Sides : book'[s] = IF s = side THEN new ELSE book[s]
  BY <1>1, <1>7 DEF TypeOK
<1>9. BookKeepsTime'
  BY <1>1, <1>3, <1>6, <1>8, Zenon DEF BookKeepsTime
<1>10. ClockAdvances'
  BY <1>1, <1>3 DEF ClockAdvances
<1>11. RestoredInTime'
  <2>1. OpenOrders' = OpenOrders
    BY <1>3 DEF OpenOrders, Left
  <2> QED
    BY <1>1, <1>2, <1>3, <2>1 DEF RestoredInTime
<1> QED
  BY <1>3, <1>4, <1>9, <1>10, <1>11 DEF TimeInv

\* A step that leaves alone what TimeInv speaks of.
LEMMA StutterTime ==
  TimeInv /\ IInv' /\ UNCHANGED <<book, orders, filled, createdAt, toRestore, call>> => TimeInv'
BY DEF TimeInv, ClockAdvances, RestoredInTime, OpenOrders, Left, BookKeepsTime

LEMMA NextTime == TimeInv /\ [Next]_vars => TimeInv'
<1> SUFFICES ASSUME TimeInv, [Next]_vars PROVE TimeInv'
  OBVIOUS
<1>1. IInv'
  BY NextInv DEF TimeInv
<1>2. CASE PlaceAny
  <2>1. PICK side \in Sides, type \in Types,
             price \in Prices \cup {NoPrice}, quantity \in Quantities \cup {0} :
           PlaceOrder(side, type, price, quantity)
    BY <1>2 DEF PlaceAny
  <2>2. CASE RejectOrder(side, type, price, quantity)
    BY <1>1, <2>2, StutterTime DEF RejectOrder, Reject
  <2>3. CASE AcceptOrder(side, type, price, quantity)
    BY <1>1, <2>3, AcceptTime
  <2> QED
    BY <2>1, <2>2, <2>3 DEF PlaceOrder
<1>3. CASE MatchOne
  BY <1>1, <1>3, MatchTime
<1>4. CASE Finish
  BY <1>1, <1>4, FinishTime
<1>5. CASE Restart
  BY <1>1, <1>5, RestartTime
<1>6. CASE RestoreOne
  BY <1>1, <1>6, RestoreTime
<1>7. CASE UNCHANGED vars
  BY <1>1, <1>7, StutterTime DEF vars
<1> QED
  BY <1>2, <1>3, <1>4, <1>5, <1>6, <1>7 DEF Next

LEMMA TimeInvariance == Spec => []TimeInv
BY InitTime, NextTime, PTL DEF Spec

\* Within a level the orders stand by createdAt, whether or not two rows can
\* have the same one, and across any number of restarts: restore's order and
\* push in addToBook agree.
THEOREM FirstComeFirstServed == Spec => []BookKeepsTime
<1>1. TimeInv => BookKeepsTime
  BY DEF TimeInv
<1> QED
  BY <1>1, TimeInvariance, PTL

LEMMA IdsInTime ==
  ASSUME TimeInv, ~ClockTies PROVE FifoWithinLevel
<1>1. IInv /\ TypeOK /\ RowsSound /\ ClockAdvances /\ BookKeepsTime
  BY DEF TimeInv, IInv
<1> SUFFICES ASSUME NEW side \in Sides, NEW i \in DOMAIN book[side],
                    NEW k \in DOMAIN book[side][i].orders, NEW l \in 1..(k - 1)
             PROVE  book[side][i].orders[l].id < book[side][i].orders[k].id
  BY DEF FifoWithinLevel
<1> DEFINE queue == book[side][i].orders
<1>2. book[side] \in Seq(LevelRecords(Prices)) /\ LevelsSound(side, book[side])
  BY <1>1 DEF TypeOK, IInv, BookHoldsOpenOrders
<1>3. l \in DOMAIN queue
  BY <1>2, LevelsTyped
<1>4. \A e \in Entries(book[side]) : e.id \in DOMAIN orders
  <2>1. Entries(book[side]) = {Remainder(id) : id \in Held(side)}
    BY <1>1 DEF IInv, BookHoldsOpenOrders
  <2>2. \A id \in Held(side) : id \in DOMAIN orders
    BY DEF Held, OpenOrders
  <2> QED
    BY <1>1, <2>1, <2>2, RemainderFacts
<1>5. queue[l] \in Entries(book[side]) /\ queue[k] \in Entries(book[side])
  BY <1>3 DEF Entries, QueueEntries
<1>6. PICK early \in DOMAIN orders, late \in DOMAIN orders :
        early = queue[l].id /\ late = queue[k].id
  BY <1>4, <1>5
<1>7. early # late /\ createdAt[early] <= createdAt[late]
  BY <1>1, <1>2, <1>6 DEF LevelsSound, QueueSound, BookKeepsTime, LevelsInTime, QueueInTime
<1>8. early \in Nat /\ late \in Nat /\ createdAt[early] \in Nat /\ createdAt[late] \in Nat
      /\ late >= 1
  BY <1>1, TypeFacts
<1>9. late < early => late \in 1..(early - 1)
  BY <1>8
<1>10. late < early => createdAt[late] < createdAt[early]
  BY <1>1, <1>9 DEF ClockAdvances
<1> QED
  BY <1>6, <1>7, <1>8, <1>10

\* When no two rows share a createdAt millisecond, the order accepted first
\* trades first at its price, also after restarts (place, restore, addToBook).
THEOREM Fifo == ~ClockTies => (Spec => []FifoWithinLevel)
<1> SUFFICES ASSUME ~ClockTies PROVE Spec => []FifoWithinLevel
  OBVIOUS
<1>1. TimeInv => FifoWithinLevel
  BY IdsInTime
<1> QED
  BY <1>1, TimeInvariance, PTL

(***************************************************************************)
(* The engine implements PriceTimePriority. A row's view is what the       *)
(* specification keeps of it; the resting orders are the open rows, those  *)
(* in the book and those a restart has still to restore.                   *)
(***************************************************************************)
RowView(id) == View(Remainder(id))

LEMMA RowViewFacts ==
  ASSUME TypeOK, RowsSound, NEW id \in DOMAIN orders
  PROVE  /\ RowView(id) = [id |-> id, side |-> orders[id].side,
                           price |-> orders[id].price, quantity |-> Left(id)]
         /\ RowView(id).id = id /\ RowView(id).side = orders[id].side
         /\ RowView(id).price = orders[id].price /\ RowView(id).quantity = Left(id)
<1>1. RowView(id) = [id |-> id, side |-> orders[id].side,
                     price |-> orders[id].price, quantity |-> Left(id)]
  BY RemainderFacts DEF RowView, View
<1> QED
  BY <1>1

LEMMA RestingIsOpen == IInv => RestingView = {RowView(id) : id \in OpenOrders}
<1> SUFFICES ASSUME IInv PROVE RestingView = {RowView(id) : id \in OpenOrders}
  OBVIOUS
<1>1. /\ Entries(book["buy"]) = {Remainder(id) : id \in Held("buy")}
      /\ Entries(book["sell"]) = {Remainder(id) : id \in Held("sell")}
  BY DEF IInv, BookHoldsOpenOrders, Sides
<1>2. OpenOrders = toRestore \cup Held("buy") \cup Held("sell")
  <2>1. \A id \in OpenOrders : orders[id].side \in {"buy", "sell"}
    BY TypeFacts DEF IInv, OpenOrders, OrderRecords, Sides
  <2> QED
    BY <2>1 DEF Held, IInv
<1> QED
  BY <1>1, <1>2, Zenon DEF RestingView, RowView

LEMMA TakerViewFacts ==
  ASSUME IInv, call.id # 0
  PROVE  TakerView = Remainder(call.id) /\ call.id \in DOMAIN orders
BY DEF IInv, TypeOK, CallSound, TakerView, Taker, Remainder

\* The open orders that an arriving order could trade with are those of the
\* opposite levels, the first of which has the best price.
LEMMA OppositeOrders ==
  ASSUME IInv, call.id # 0
  PROVE  \E other \in Sides :
           /\ other = Opposite(Taker.side) /\ OppositeLevels = book[other]
           /\ book[other] \in Seq(LevelRecords(Prices)) /\ LevelsSound(other, book[other])
           /\ \A o \in OpenOrders : orders[o].side # Taker.side =>
                /\ Remainder(o) \in Entries(book[other])
                /\ book[other] # <<>>
                /\ \/ orders[o].price = book[other][1].price
                   \/ SortsBefore(other, book[other][1].price, orders[o].price)
<1>1. TypeOK /\ RowsSound /\ toRestore = {} /\ call.id \in DOMAIN orders
  BY TakerViewFacts DEF IInv, CallSound
<1>2. Taker.side \in Sides
  BY <1>1, TypeFacts DEF Taker, OrderRecords
<1>3. PICK other \in Sides : other = Opposite(Taker.side)
  BY <1>2 DEF Opposite, Sides
<1>4. book[other] \in Seq(LevelRecords(Prices)) /\ LevelsSound(other, book[other])
  BY <1>1 DEF TypeOK, IInv, BookHoldsOpenOrders
<1>5. ASSUME NEW o \in OpenOrders, orders[o].side # Taker.side
      PROVE  /\ Remainder(o) \in Entries(book[other])
             /\ book[other] # <<>>
             /\ \/ orders[o].price = book[other][1].price
                \/ SortsBefore(other, book[other][1].price, orders[o].price)
  <2>1. o \in DOMAIN orders /\ orders[o].side = other
    <3>1. o \in DOMAIN orders /\ orders[o].side \in Sides
      BY <1>1, TypeFacts DEF OpenOrders, OrderRecords
    <3> QED
      BY <1>2, <1>3, <1>5, <3>1 DEF Opposite, Sides
  <2>2. o \in Held(other)
    BY <1>1, <2>1 DEF Held
  <2>3. Remainder(o) \in Entries(book[other])
    BY <2>2 DEF IInv, BookHoldsOpenOrders
  <2>4. book[other] # <<>>
    BY <2>3, EmptyLevels
  <2>5. Remainder(o).price = orders[o].price
    BY <1>1, <2>1, RemainderFacts
  <2> QED
    BY <1>4, <2>3, <2>4, <2>5, HeadOrderSound
<1> QED
  BY <1>3, <1>4, <1>5, Zenon DEF OppositeLevels

LEMMA InitRefines == Init => PTP!Init
<1> SUFFICES ASSUME Init PROVE PTP!Init
  OBVIOUS
<1>1. toRestore = {} /\ book["buy"] = <<>> /\ book["sell"] = <<>> /\ Entries(<<>>) = {}
  BY EmptyLevels DEF Init, EmptyBook, Sides
<1>2. RestingView = {}
  BY <1>1, Zenon DEF RestingView
<1>3. Len(orders) = 0
  BY DEF Init
<1>4. TakerView = [id |-> 0, side |-> "buy", type |-> "limit", price |-> 0, quantity |-> 0]
  BY DEF Init, NoCall, TakerView
<1> QED
  BY <1>2, <1>3, <1>4, Zenon DEF PTP!Init, PTP!Nobody

\* A step that changes no open order and no taker.
LEMMA RestingKept ==
  ASSUME IInv, IInv', OpenOrders' = OpenOrders,
         \A id \in DOMAIN orders : RowView(id)' = RowView(id)
  PROVE  RestingView' = RestingView
<1>1. (RestingView = {RowView(id) : id \in OpenOrders})'
  BY RestingIsOpen, PTL
<1>2. OpenOrders \subseteq DOMAIN orders
  BY DEF OpenOrders
<1> QED
  BY <1>1, <1>2, RestingIsOpen, Zenon

LEMMA AcceptRefines ==
  ASSUME IInv, NEW side \in Sides, NEW type \in Types,
         NEW price \in Prices \cup {NoPrice}, NEW quantity \in Quantities \cup {0},
         AcceptOrder(side, type, price, quantity)
  PROVE  PTP!Arrive
<1>1. PICK n \in Nat : n = Len(orders)
  BY LenProperties DEF IInv, TypeOK
<1>2. PICK row : /\ orders' = Append(orders, row)
                 /\ row = [id |-> n + 1, side |-> side, type |-> type,
                           price |-> ReferencePrice(side, type, price), quantity |-> quantity]
  BY <1>1 DEF AcceptOrder
<1>3. /\ call.id = 0 /\ toRestore = {} /\ toRestore' = {} /\ book' = book
      /\ call' = [id |-> n + 1, remaining |-> quantity, trades |-> <<>>]
      /\ quantity # 0
  BY <1>1 DEF AcceptOrder, Ready
<1>4. Len(orders') = n + 1 /\ orders'[n + 1] = row
  BY <1>1, <1>2 DEF IInv, TypeOK
<1>5. TakerView' = [row EXCEPT !.quantity = quantity]
  BY <1>3, <1>4 DEF TakerView, Taker
<1>6. TakerView'.id = n + 1 /\ TakerView'.quantity = quantity /\ quantity > 0
  BY <1>2, <1>3, <1>5, QuantitiesAssumption
<1>7. RestingView' = RestingView
  BY <1>3, Zenon DEF RestingView
<1>8. TakerView.id = 0
  BY <1>3 DEF TakerView
<1> QED
  BY <1>1, <1>4, <1>6, <1>7, <1>8 DEF PTP!Arrive

\* The head of the opposite levels is the best order the taker accepts: at a
\* better price than any other, or at the same and accepted before it.
LEMMA HeadIsBest ==
  ASSUME TimeInv, ~ClockTies, MatchOne,
         NEW tid \in DOMAIN orders, NEW other \in Sides, NEW mid \in Held(other),
         NEW traded \in Nat \ {0}, MatchEffect(tid, other, mid, traded)
  PROVE  /\ RowView(mid) \in PTP!Acceptable
         /\ \A r \in PTP!Acceptable : r = RowView(mid) \/ PTP!Better(RowView(mid), r)
<1>1. IInv /\ TypeOK /\ RowsSound /\ ClockAdvances /\ BookKeepsTime
  BY DEF TimeInv, IInv
<1>2. /\ tid = call.id /\ other = Opposite(Taker.side) /\ other # Taker.side
      /\ book[other] # <<>> /\ HeadOrder(book[other]) = Remainder(mid)
  BY Zenon DEF MatchEffect
<1>3. call.id # 0 /\ IsMatch(Taker, book[other][1].price)
  BY <1>2 DEF MatchOne, CanMatch, OppositeLevels
<1>4. TakerView = Remainder(tid) /\ Taker = orders[tid]
  BY <1>1, <1>2, <1>3, TakerViewFacts DEF Taker
<1>5. /\ TakerView.side = Taker.side /\ TakerView.type = Taker.type
      /\ TakerView.price = Taker.price
  BY <1>1, <1>4, RemainderFacts
<1>6. mid \in OpenOrders /\ mid \in DOMAIN orders /\ orders[mid].side = other
  BY DEF Held, OpenOrders
<1>7. /\ book[other] \in Seq(LevelRecords(Prices)) /\ LevelsSound(other, book[other])
      /\ LevelsInTime(book[other], createdAt)
  BY <1>1 DEF TypeOK, IInv, BookHoldsOpenOrders, BookKeepsTime
<1>8. orders[mid].price = book[other][1].price
  BY <1>1, <1>2, <1>6, <1>7, HeadOrderSound, RemainderFacts
<1>9. RestingView = {RowView(id) : id \in OpenOrders}
  BY <1>1, RestingIsOpen
<1>10. RowView(mid) \in PTP!Acceptable
  <2>1. RowView(mid).side = other /\ RowView(mid).price = orders[mid].price
    BY <1>1, <1>6, RowViewFacts
  <2>2. orders[mid].price \in Nat /\ Taker.price \in Nat
    BY <1>1, <1>4, <1>6, TypeFacts DEF OrderRecords
  <2>3. PTP!Accepts(TakerView, RowView(mid).price)
    BY <1>3, <1>5, <1>8, <2>1, <2>2 DEF IsMatch, PTP!Accepts
  <2>4. RowView(mid) \in RestingView
    BY <1>6, <1>9
  <2> QED
    BY <1>2, <1>5, <2>1, <2>3, <2>4, Zenon DEF PTP!Acceptable
<1>11. ASSUME NEW r \in PTP!Acceptable PROVE r = RowView(mid) \/ PTP!Better(RowView(mid), r)
  <2>1. PICK o \in OpenOrders : r = RowView(o)
    BY <1>9, Zenon DEF PTP!Acceptable
  <2>2. o \in DOMAIN orders
    BY DEF OpenOrders
  <2>3. orders[o].side # Taker.side
    <3>1. r.side # TakerView.side
      BY Zenon DEF PTP!Acceptable
    <3> QED
      BY <1>1, <1>5, <2>1, <2>2, <3>1, RowViewFacts
  <2>4. /\ Remainder(o) \in Entries(book[other])
        /\ \/ orders[o].price = book[other][1].price
           \/ SortsBefore(other, book[other][1].price, orders[o].price)
    BY <1>1, <1>2, <1>3, <2>3, OppositeOrders
  <2>5. CASE o = mid
    BY <2>1, <2>5
  <2>6. CASE SortsBefore(other, book[other][1].price, orders[o].price)
    BY <1>1, <1>6, <1>8, <2>1, <2>2, <2>6, RowViewFacts DEF SortsBefore, PTP!Better
  <2>7. CASE o # mid /\ orders[o].price = orders[mid].price
    <3>1. /\ Remainder(o).id = o /\ Remainder(mid).id = mid
          /\ Remainder(o).price = orders[o].price /\ Remainder(mid).price = orders[mid].price
      BY <1>1, <1>6, <2>2, RemainderFacts
    <3>2. createdAt[mid] <= createdAt[o]
      <4>1. Remainder(o) # HeadOrder(book[other]) /\ Remainder(o).price = HeadOrder(book[other]).price
        BY <1>2, <2>7, <3>1
      <4> QED
        BY <1>2, <1>7, <2>4, <3>1, <4>1, HeadIsFirst
    <3>3. mid \in Nat /\ o \in Nat /\ o >= 1 /\ createdAt[mid] \in Nat /\ createdAt[o] \in Nat
      BY <1>1, <1>6, <2>2, TypeFacts
    <3>4. o < mid => o \in 1..(mid - 1)
      BY <3>3
    <3>5. o < mid => createdAt[o] < createdAt[mid]
      BY <1>1, <1>6, <3>4 DEF ClockAdvances
    <3>6. mid < o
      BY <2>7, <3>2, <3>3, <3>5
    <3> QED
      BY <1>1, <1>6, <2>1, <2>2, <2>7, <3>6, RowViewFacts DEF PTP!Better
  <2> QED
    BY <1>8, <2>4, <2>5, <2>6, <2>7
<1> QED
  BY <1>10, <1>11

LEMMA MatchRefines ==
  ASSUME TimeInv, ~ClockTies, MatchOne, IInv' PROVE PTP!Trade
<1>1. IInv /\ TypeOK /\ RowsSound
  BY DEF TimeInv, IInv
<1>2. PICK tid \in DOMAIN orders, other \in Sides : \E mid \in Held(other) :
        \E traded \in Nat \ {0} : MatchEffect(tid, other, mid, traded)
  BY <1>1, MatchFacts, Zenon
<1>3. PICK mid \in Held(other), traded \in Nat \ {0} : MatchEffect(tid, other, mid, traded)
  BY <1>2, Zenon
<1>4. /\ RowView(mid) \in PTP!Acceptable
      /\ \A r \in PTP!Acceptable : r = RowView(mid) \/ PTP!Better(RowView(mid), r)
  BY <1>3, HeadIsBest
<1>5. /\ tid = call.id /\ call'.id = tid /\ mid # tid
      /\ call.remaining = Left(tid) /\ call'.remaining = Left(tid) - traded
      /\ traded = Smaller(Left(tid), Left(mid)) /\ traded <= Left(tid) /\ traded <= Left(mid)
      /\ UNCHANGED <<orders, createdAt, toRestore, result>>
      /\ Left(mid)' = Left(mid) - traded /\ Left(tid)' = Left(tid) - traded
      /\ \A id \in DOMAIN orders \ {tid, mid} : Left(id)' = Left(id) /\ Remainder(id)' = Remainder(id)
      /\ OpenOrders' = IF Left(mid) = traded THEN OpenOrders \ {mid} ELSE OpenOrders
  BY <1>3, Zenon DEF MatchEffect
<1>6. call.id # 0 /\ mid \in OpenOrders /\ mid \in DOMAIN orders /\ tid \notin OpenOrders
  BY <1>5 DEF MatchOne, Held, OpenOrders
<1>7. Left(tid) \in Nat /\ Left(mid) \in Nat
  BY <1>1, <1>6, RemainderFacts
<1>8. TakerView = Remainder(tid) /\ TakerView.id = tid /\ TakerView.quantity = Left(tid)
  BY <1>1, <1>5, <1>6, TakerViewFacts, RemainderFacts
<1>9. TakerView' = [TakerView EXCEPT !.quantity = TakerView.quantity - traded]
  <2>1. TakerView' = [orders[tid] EXCEPT !.quantity = Left(tid) - traded]
    BY <1>5, <1>6 DEF TakerView, Taker
  <2>2. TakerView = [orders[tid] EXCEPT !.quantity = Left(tid)]
    BY <1>8 DEF Remainder
  <2>3. orders[tid] \in [id : Nat, side : Sides, type : Types, price : Prices, quantity : Nat \ {0}]
    BY <1>1, TypeFacts DEF OrderRecords
  <2> QED
    BY <1>8, <2>1, <2>2, <2>3
<1>10. RowView(mid).quantity = Left(mid) /\ RowView(mid).id = mid
  BY <1>1, <1>6, RowViewFacts
<1>11. /\ RestingView = {RowView(id) : id \in OpenOrders}
       /\ (RestingView = {RowView(id) : id \in OpenOrders})'
  BY <1>1, RestingIsOpen, PTL
<1>12. \A id \in OpenOrders \ {mid} : RowView(id)' = RowView(id) /\ RowView(id) # RowView(mid)
  <2>1. \A id \in OpenOrders \ {mid} : id \in DOMAIN orders \ {tid, mid}
    BY <1>6 DEF OpenOrders
  <2>2. \A id \in OpenOrders \ {mid} : RowView(id)' = RowView(id)
    BY <1>5, <2>1, Zenon DEF RowView, View
  <2>3. \A id \in OpenOrders \ {mid} : RowView(id).id = id
    BY <1>1, <2>1, RowViewFacts
  <2> QED
    BY <1>10, <2>2, <2>3
<1>13. RowView(mid)' = [RowView(mid) EXCEPT !.quantity = RowView(mid).quantity - traded]
  <2>1. Remainder(mid)' = [orders[mid] EXCEPT !.quantity = Left(mid) - traded]
    BY <1>5 DEF Remainder
  <2>2. orders[mid] \in [id : Nat, side : Sides, type : Types, price : Prices, quantity : Nat \ {0}]
    BY <1>1, <1>6, TypeFacts DEF OrderRecords
  <2>3. orders[mid].id = mid
    BY <1>1, <1>6 DEF RowsSound
  <2>4. RowView(mid)' = [id |-> mid, side |-> orders[mid].side,
                         price |-> orders[mid].price, quantity |-> Left(mid) - traded]
    BY <2>1, <2>2, <2>3 DEF RowView, View
  <2> QED
    BY <1>1, <1>6, <2>4, RowViewFacts
<1>14. RestingView' = (RestingView \ {RowView(mid)})
         \cup (IF traded = RowView(mid).quantity THEN {}
               ELSE {[RowView(mid) EXCEPT !.quantity = RowView(mid).quantity - traded]})
  <2>1. RestingView \ {RowView(mid)} = {RowView(id) : id \in OpenOrders \ {mid}}
    BY <1>11, <1>12
  <2>2. CASE traded = Left(mid)
    <3>1. RestingView' = {RowView(id) : id \in OpenOrders \ {mid}}
      BY <1>5, <1>11, <1>12, <2>2
    <3> QED
      BY <1>10, <2>1, <2>2, <3>1
  <2>3. CASE traded # Left(mid)
    <3>1. RestingView' = {RowView(id) : id \in OpenOrders \ {mid}} \cup {RowView(mid)'}
      <4>1. OpenOrders' = (OpenOrders \ {mid}) \cup {mid}
        BY <1>5, <1>6, <2>3
      <4> QED
        BY <1>11, <1>12, <4>1
    <3> QED
      BY <1>10, <1>13, <2>1, <2>3, <3>1
  <2> QED
    BY <2>2, <2>3
<1>15. traded = IF RowView(mid).quantity <= TakerView.quantity
                THEN RowView(mid).quantity ELSE TakerView.quantity
  BY <1>5, <1>7, <1>8, <1>10 DEF Smaller
<1>16. TakerView.id # 0 /\ TakerView.quantity > 0 /\ Len(orders') = Len(orders)
  BY <1>5, <1>6, <1>7, <1>8
<1> QED
  BY <1>4, <1>9, <1>14, <1>15, <1>16, Zenon DEF PTP!Trade

LEMMA FinishRefines ==
  ASSUME IInv, IInv', Finish PROVE PTP!Leave
<1>1. TypeOK /\ RowsSound
  BY DEF IInv
<1>2. PICK tid \in DOMAIN orders : tid = call.id
  BY <1>1 DEF Finish, TypeOK
<1>3. tid # 0 /\ call.remaining = Left(tid) /\ Left(tid) \in Nat /\ toRestore = {}
  BY <1>1, <1>2, RemainderFacts DEF IInv, CallSound, Finish
<1>4. /\ TakerView = Remainder(tid) /\ TakerView.id = tid /\ TakerView.quantity = Left(tid)
      /\ TakerView.side = orders[tid].side /\ TakerView.type = orders[tid].type
      /\ TakerView.price = orders[tid].price
  BY <1>1, <1>2, <1>3, TakerViewFacts, RemainderFacts
<1>5. Taker = orders[tid] /\ call'.id = 0 /\ UNCHANGED <<orders, filled, toRestore>>
  BY <1>2 DEF Taker, Finish, NoCall
<1>6. TakerView' = PTP!Nobody
  BY <1>5 DEF TakerView, PTP!Nobody
<1>7. TakerView.quantity = 0 \/ PTP!Acceptable = {}
  <2> SUFFICES ASSUME Left(tid) > 0, NEW r \in PTP!Acceptable PROVE FALSE
    BY <1>3, <1>4
  <2>1. PICK o \in OpenOrders : r = RowView(o)
    BY RestingIsOpen, Zenon DEF PTP!Acceptable
  <2>2. o \in DOMAIN orders
    BY DEF OpenOrders
  <2>3. r.side = orders[o].side /\ r.price = orders[o].price
    BY <1>1, <2>1, <2>2, RowViewFacts
  <2>4. orders[o].side # Taker.side /\ PTP!Accepts(TakerView, orders[o].price)
    BY <1>4, <1>5, <2>3, Zenon DEF PTP!Acceptable
  <2>5. PICK other \in Sides :
           /\ other = Opposite(Taker.side) /\ OppositeLevels = book[other]
           /\ book[other] \in Seq(LevelRecords(Prices)) /\ book[other] # <<>>
           /\ \/ orders[o].price = book[other][1].price
              \/ SortsBefore(other, book[other][1].price, orders[o].price)
    BY <1>2, <1>3, <2>4, OppositeOrders
  <2>6. ~IsMatch(Taker, book[other][1].price)
    BY <1>3, <2>5 DEF Finish, CanMatch
  <2>7. /\ Taker.side \in Sides /\ Taker.price \in Nat /\ orders[o].price \in Nat
        /\ book[other][1].price \in Nat
    <3>1. 1 \in DOMAIN book[other]
      BY <2>5, LenProperties, EmptySeq
    <3> QED
      BY <1>1, <1>5, <2>2, <2>5, <3>1, TypeFacts, LevelsTyped DEF OrderRecords
  <2>8. /\ Taker.type # "market"
        /\ IF Taker.side = "buy" THEN orders[o].price <= Taker.price
                                 ELSE orders[o].price >= Taker.price
    BY <1>4, <1>5, <2>4, <2>6, <2>7, Zenon DEF PTP!Accepts, IsMatch
  <2>9. CASE Taker.side = "buy"
    <3>1. other = "sell"
      BY <2>5, <2>9 DEF Opposite
    <3>2. book[other][1].price <= orders[o].price
      BY <2>5, <2>7, <3>1 DEF SortsBefore
    <3>3. IsMatch(Taker, book[other][1].price)
      BY <2>7, <2>8, <2>9, <3>2 DEF IsMatch
    <3> QED
      BY <2>6, <3>3
  <2>10. CASE Taker.side = "sell"
    <3>1. other = "buy"
      BY <2>5, <2>10 DEF Opposite
    <3>2. book[other][1].price >= orders[o].price
      BY <2>5, <2>7, <3>1 DEF SortsBefore
    <3>3. IsMatch(Taker, book[other][1].price)
      BY <2>7, <2>8, <2>10, <3>2 DEF IsMatch
    <3> QED
      BY <2>6, <3>3
  <2> QED
    BY <2>7, <2>9, <2>10 DEF Sides
<1> DEFINE rests == orders[tid].type = "limit" /\ Left(tid) > 0
<1>8. OpenOrders' = IF rests THEN OpenOrders \cup {tid} ELSE OpenOrders
  <2>1. \A o \in DOMAIN orders : Left(o)' = Left(o) /\ o # 0
    BY <1>1, <1>5, TypeFacts DEF Left
  <2> QED
    BY <1>2, <1>5, <2>1 DEF OpenOrders
<1> HIDE DEF rests
<1>9. \A o \in DOMAIN orders : RowView(o)' = RowView(o)
  BY <1>5 DEF RowView, View, Remainder, Left
<1>10. /\ RestingView = {RowView(id) : id \in OpenOrders}
       /\ (RestingView = {RowView(id) : id \in OpenOrders})'
  BY RestingIsOpen, PTL
<1>11. RestingView' = RestingView \cup (IF rests THEN {RowView(tid)} ELSE {})
  <2>1. OpenOrders \subseteq DOMAIN orders
    BY DEF OpenOrders
  <2>2. CASE rests
    <3>1. RestingView' = {RowView(id) : id \in OpenOrders \cup {tid}}
      BY <1>8, <1>9, <1>10, <2>1, <2>2
    <3> QED
      BY <1>10, <2>2, <3>1
  <2>3. CASE ~rests
    BY <1>8, <1>9, <1>10, <2>1, <2>3
  <2> QED
    BY <2>2, <2>3
<1>12. RowView(tid) = [id |-> TakerView.id, side |-> TakerView.side,
                       price |-> TakerView.price, quantity |-> TakerView.quantity]
  BY <1>1, <1>4, RowViewFacts
<1>13. rests <=> TakerView.type = "limit" /\ TakerView.quantity > 0
  BY <1>4 DEF rests
<1>14. TakerView.id # 0 /\ Len(orders') = Len(orders)
  BY <1>3, <1>4, <1>5
<1> QED
  BY <1>6, <1>7, <1>11, <1>12, <1>13, <1>14, Zenon DEF PTP!Leave

\* A rejection, a restart and the rows it restores are not visible.
LEMMA OthersRefine ==
  ASSUME IInv, IInv', UNCHANGED <<orders, filled, call>>, OpenOrders' = OpenOrders
  PROVE  UNCHANGED PTP!vars
<1>1. \A o \in DOMAIN orders : RowView(o)' = RowView(o)
  BY DEF RowView, View, Remainder, Left
<1>2. RestingView' = RestingView
  BY <1>1, RestingKept
<1>3. TakerView' = TakerView /\ Len(orders') = Len(orders)
  BY DEF TakerView, Taker
<1> QED
  BY <1>2, <1>3, Zenon DEF PTP!vars

LEMMA StepRefines ==
  ASSUME TimeInv, ~ClockTies, [Next]_vars PROVE [PTP!Next]_PTP!vars
<1>1. IInv
  BY DEF TimeInv
<1>2. IInv'
  BY <1>1, NextInv
<1>3. CASE PlaceAny
  <2>1. PICK side \in Sides, type \in Types,
             price \in Prices \cup {NoPrice}, quantity \in Quantities \cup {0} :
           PlaceOrder(side, type, price, quantity)
    BY <1>3 DEF PlaceAny
  <2>2. CASE RejectOrder(side, type, price, quantity)
    <3>1. UNCHANGED <<orders, filled, call>> /\ OpenOrders' = OpenOrders
      BY <2>2 DEF RejectOrder, Reject, OpenOrders, Left
    <3> QED
      BY <1>1, <1>2, <3>1, OthersRefine
  <2>3. CASE AcceptOrder(side, type, price, quantity)
    BY <1>1, <2>3, AcceptRefines, Zenon DEF PTP!Next
  <2> QED
    BY <2>1, <2>2, <2>3 DEF PlaceOrder
<1>4. CASE MatchOne
  BY <1>2, <1>4, MatchRefines, Zenon DEF PTP!Next
<1>5. CASE Finish
  BY <1>1, <1>2, <1>5, FinishRefines, Zenon DEF PTP!Next
<1>6. CASE Restart
  <2>1. UNCHANGED <<orders, filled, call>> /\ OpenOrders' = OpenOrders
    BY <1>6 DEF Restart, OpenOrders, Left
  <2> QED
    BY <1>1, <1>2, <2>1, OthersRefine
<1>7. CASE RestoreOne
  <2>1. UNCHANGED <<orders, filled, call>> /\ OpenOrders' = OpenOrders
    BY <1>7 DEF RestoreOne, OpenOrders, Left
  <2> QED
    BY <1>1, <1>2, <2>1, OthersRefine
<1>8. CASE UNCHANGED vars
  <2>1. UNCHANGED <<orders, filled, call>> /\ OpenOrders' = OpenOrders
    BY <1>8 DEF vars, OpenOrders, Left
  <2> QED
    BY <1>1, <1>2, <2>1, OthersRefine
<1> QED
  BY <1>3, <1>4, <1>5, <1>6, <1>7, <1>8 DEF Next

\* When no two rows share a createdAt millisecond, the engine is a limit order
\* book with price-time priority: every round trades with the best resting
\* order the taker accepts, the earliest of its price, and no restart is
\* visible (placeOrder, place, restore).
THEOREM PriceTime == ~ClockTies => (Spec => ImplementsPriceTimePriority)
<1> SUFFICES ASSUME ~ClockTies PROVE Spec => ImplementsPriceTimePriority
  OBVIOUS
<1>1. Init => PTP!Init
  BY InitRefines
<1>2. TimeInv /\ [Next]_vars => [PTP!Next]_PTP!vars
  BY StepRefines
<1> QED
  BY <1>1, <1>2, TimeInvariance, PTL DEF Spec, ImplementsPriceTimePriority, PTP!Spec

(***************************************************************************)
(* The rounds of a call add up to Place.                                   *)
(***************************************************************************)
LEMMA PricesSubset == Prices \in SUBSET Nat
BY PricesAssumption

\* The call under way, as an order that Place may be asked to match.
LEMMA CallAsTaker ==
  ASSUME IInv, call.id # 0, NEW order, order = [Taker EXCEPT !.quantity = call.remaining],
         NEW other, other = Opposite(order.side)
  PROVE  /\ order \in Takers(Prices) /\ book \in Books(Prices) /\ other \in Sides
         /\ LevelsSound(other, book[other])
         /\ other = Opposite(Taker.side)
         /\ order.id = call.id /\ order.side = Taker.side /\ order.type = Taker.type
         /\ order.quantity = call.remaining
         /\ \A left \in Nat : [order EXCEPT !.quantity = left] = [Taker EXCEPT !.quantity = left]
         /\ CanMatch(order, order.quantity, book[other])
              <=> CanMatch(Taker, call.remaining, OppositeLevels)
         /\ call.remaining \in Nat /\ call.trades \in Seq(TradeRecords(Prices))
<1>1. TypeOK /\ RowsSound
  BY DEF IInv
<1>2. /\ call.id \in DOMAIN orders /\ call.remaining \in Nat
      /\ call.trades \in Seq(TradeRecords(Prices))
  BY <1>1 DEF TypeOK
<1>3. PICK row \in OrderRecords(Prices) : row = Taker /\ row.id = call.id
  BY <1>1, <1>2, TypeFacts DEF Taker, RowsSound
<1>4. /\ order \in Takers(Prices) /\ order.side \in Sides /\ order.id = call.id
      /\ order.side = row.side
      /\ order.type = row.type /\ order.price = row.price /\ order.quantity = call.remaining
      /\ \A left \in Nat : [order EXCEPT !.quantity = left] = [row EXCEPT !.quantity = left]
  <2>1. row \in [id : Nat, side : Sides, type : Types, price : Prices, quantity : Nat \ {0}]
    BY DEF OrderRecords
  <2>2. order = [row EXCEPT !.quantity = call.remaining]
    BY <1>3
  <2>3. /\ order \in [id : Nat, side : Sides, type : Types, price : Prices, quantity : Nat]
        /\ order.id = row.id /\ order.side = row.side /\ row.side \in Sides
        /\ order.type = row.type /\ order.price = row.price /\ order.quantity = call.remaining
    BY <1>2, <2>1, <2>2
  <2>4. ASSUME NEW left \in Nat
        PROVE  [order EXCEPT !.quantity = left] = [row EXCEPT !.quantity = left]
    BY <2>1, <2>2
  <2> QED
    BY <1>3, <2>3, <2>4, Zenon DEF Takers
<1>5. other \in Sides /\ book \in Books(Prices)
  <2>1. other \in Sides
    BY <1>4, Zenon DEF Opposite, Sides
  <2>2. book \in Books(Prices)
    BY <1>1, Zenon DEF TypeOK, Books
  <2> QED
    BY <2>1, <2>2
<1>6. LevelsSound(other, book[other])
  BY <1>5 DEF IInv, BookHoldsOpenOrders
<1>7. other = Opposite(Taker.side) /\ OppositeLevels = book[other]
  BY <1>3, <1>4, Zenon DEF OppositeLevels
<1>8. CanMatch(order, order.quantity, book[other]) <=> CanMatch(Taker, call.remaining, OppositeLevels)
  BY <1>3, <1>4, <1>7, Zenon DEF CanMatch, IsMatch
<1> QED
  BY <1>2, <1>3, <1>4, <1>5, <1>6, <1>7, <1>8, Zenon

RoundOfPlace ==
  /\ Outcome'.book = Outcome.book
  /\ Outcome'.resting = Outcome.resting
  /\ (call.trades \o Outcome.trades) = (call'.trades \o Outcome'.trades)

LEMMA MatchIsARound ==
  ASSUME IInv, MatchOne PROVE RoundOfPlace
<1>1. call.id # 0
  BY DEF MatchOne
<1>2. PICK order : order = [Taker EXCEPT !.quantity = call.remaining]
  OBVIOUS
<1>3. PICK other : other = Opposite(order.side)
  OBVIOUS
<1>4. /\ order \in Takers(Prices) /\ book \in Books(Prices) /\ other \in Sides
      /\ LevelsSound(other, book[other])
      /\ other = Opposite(Taker.side)
      /\ order.id = call.id
      /\ order.quantity = call.remaining
      /\ \A left \in Nat : [order EXCEPT !.quantity = left] = [Taker EXCEPT !.quantity = left]
      /\ CanMatch(order, order.quantity, book[other])
      /\ call.remaining \in Nat /\ call.trades \in Seq(TradeRecords(Prices))
  BY <1>1, <1>2, <1>3, CallAsTaker, Zenon DEF MatchOne
<1>5. OppositeLevels = book[other]
  BY <1>4 DEF OppositeLevels
<1>6. PICK traded : traded = Smaller(call.remaining, HeadOrder(book[other]).quantity)
  OBVIOUS
<1>7. PICK trade : trade = [taker |-> call.id, maker |-> HeadOrder(book[other]).id,
                            price |-> book[other][1].price, quantity |-> traded]
  OBVIOUS
<1>8. PICK one : one = FirstRound(book, order)
  OBVIOUS
<1>9. /\ one.levels = AfterHeadTrade(book[other], traded)
      /\ one.remaining = call.remaining - traded
      /\ one.trades = Append(<<>>, trade)
  <2>0. one = MatchRound(order, First(book[other], order))
    BY <1>3, <1>8, Zenon DEF FirstRound
  <2>1. /\ First(book[other], order).levels = book[other]
        /\ First(book[other], order).remaining = call.remaining
        /\ First(book[other], order).trades = <<>>
    BY <1>4 DEF First
  <2>2. one = [levels |-> AfterHeadTrade(book[other], traded), remaining |-> call.remaining - traded,
               trades |-> Append(<<>>, trade)]
    BY <1>4, <1>6, <1>7, <2>0, <2>1, Zenon DEF MatchRound
  <2> QED
    BY <2>2
<1>10. /\ call' = [call EXCEPT !.remaining = @ - traded, !.trades = Append(@, trade)]
       /\ book' = [book EXCEPT ![other] = AfterHeadTrade(@, traded)]
       /\ orders' = orders
  BY <1>4, <1>5, <1>6, <1>7, Zenon DEF MatchOne
<1>11. /\ call'.id = call.id /\ call'.remaining = call.remaining - traded
       /\ call'.trades = Append(call.trades, trade)
  <2>1. DOMAIN call = {"id", "remaining", "trades"}
    BY DEF IInv, TypeOK
  <2> QED
    BY <1>10, <2>1
<1>12. book' = [book EXCEPT ![other] = one.levels] /\ Taker' = Taker
  <2>1. Taker' = Taker
    BY <1>10, <1>11 DEF Taker
  <2>2. book' = [book EXCEPT ![other] = one.levels]
    BY <1>9, <1>10
  <2> QED
    BY <2>1, <2>2
<1>due. CanTrade(book, order) /\ LevelsSound(Opposite(order.side), book[Opposite(order.side)])
  BY <1>3, <1>4, Zenon DEF CanTrade
<1>13. one.remaining \in Nat /\ trade \in TradeRecords(Prices)
  <2>2. one \in States(Prices, other)
    BY <1>3, <1>4, <1>8, <1>due, PricesSubset, PlaceAfterRound, Zenon
  <2>3. one.trades \in Seq(TradeRecords(Prices)) /\ one.remaining \in Nat
    BY <2>2 DEF States
  <2>4. one.trades = <<trade>>
    BY <1>9
  <2>5. trade \in TradeRecords(Prices)
    <3>1. 1 \in 1..Len(one.trades) /\ one.trades[1] = trade
      BY <2>4
    <3> QED
      BY <2>3, <3>1, ElementOfSeq
  <2> QED
    BY <2>3, <2>5
<1>14. PICK whole : whole = Place(book, order)
  OBVIOUS
<1>15. PICK rest : rest = PlaceRest(book, order)
  OBVIOUS
<1>16. /\ whole.book = rest.book /\ whole.resting = rest.resting
       /\ whole.trades = one.trades \o rest.trades /\ rest.trades \in Seq(TradeRecords(Prices))
  BY <1>4, <1>8, <1>14, <1>15, <1>due, PlaceAfterRound, PricesSubset, Zenon
<1>17. Outcome = whole /\ Outcome' = rest
  <2>1. Outcome = whole
    BY <1>2, <1>14, Zenon DEF Outcome
  <2>2. [order EXCEPT !.quantity = one.remaining] = [Taker EXCEPT !.quantity = one.remaining]
    BY <1>4, <1>13
  <2>3. Outcome' = rest
    BY <1>9, <1>11, <1>3, <1>8, <1>12, <1>15, <2>2, Zenon
       DEF Outcome, PlaceRest, WithLevels, Reduced
  <2> QED
    BY <2>1, <2>3
<1>18. call.trades \o (one.trades \o rest.trades) = call'.trades \o rest.trades
  <2>1. one.trades = <<trade>> /\ <<trade>> \in Seq(TradeRecords(Prices))
    BY <1>9, <1>13
  <2>2. Append(call.trades, trade) = call.trades \o <<trade>>
    BY <1>4, <1>13, AppendIsConcat
  <2>3. \A u, v, w \in Seq(TradeRecords(Prices)) : (u \o v) \o w = u \o (v \o w)
    BY ConcatAssociative
  <2> QED
    <3>1. PICK u, w : u = call.trades /\ w = rest.trades
      OBVIOUS
    <3>2. u \in Seq(TradeRecords(Prices)) /\ w \in Seq(TradeRecords(Prices))
      BY <1>4, <1>16, <3>1, Zenon
    <3>3. (u \o <<trade>>) \o w = u \o (<<trade>> \o w)
      BY <2>1, <2>3, <3>2, Zenon
    <3> QED
      BY <1>11, <2>1, <2>2, <3>1, <3>3, Zenon
<1> QED
  BY <1>16, <1>17, <1>18, Zenon DEF RoundOfPlace

EndOfPlace ==
  /\ book' = Outcome.book
  /\ result'.resting = Outcome.resting
  /\ result'.trades = call.trades \o Outcome.trades

LEMMA FinishIsTheEnd ==
  ASSUME IInv, Finish PROVE EndOfPlace
<1>1. call.id # 0
  BY DEF Finish
<1>2. PICK order : order = [Taker EXCEPT !.quantity = call.remaining]
  OBVIOUS
<1>3. PICK other : other = Opposite(order.side)
  OBVIOUS
<1>4. /\ order \in Takers(Prices) /\ book \in Books(Prices)
      /\ LevelsSound(other, book[other])
      /\ order.side = Taker.side /\ order.type = Taker.type /\ order.quantity = call.remaining
      /\ ~CanMatch(order, order.quantity, book[other])
      /\ call.trades \in Seq(TradeRecords(Prices))
  BY <1>1, <1>2, <1>3, CallAsTaker, Zenon DEF Finish
<1>5. PICK rests : rests = (call.remaining > 0 /\ Taker.type = "limit")
  OBVIOUS
<1>6. PICK done : done = Place(book, order)
  OBVIOUS
<1>7. /\ done.book = IF rests THEN [book EXCEPT ![order.side] = AddToBook(@, order)] ELSE book
      /\ done.trades = <<>>
      /\ done.resting = IF rests THEN order.quantity ELSE 0
  <2>1. done = PlaceOnly(book, order)
    <3>1. ~CanTrade(book, order) /\ LevelsSound(Opposite(order.side), book[Opposite(order.side)])
      BY <1>3, <1>4, Zenon DEF CanTrade
    <3> QED
      BY <1>4, <1>6, <3>1, PlaceAtEnd, PricesSubset, Zenon
  <2>2. PICK after :
          after = IF rests THEN [book EXCEPT ![order.side] = AddToBook(@, order)] ELSE book
    OBVIOUS
  <2>3. done = [book |-> after, trades |-> <<>>, resting |-> IF rests THEN order.quantity ELSE 0]
    BY <1>4, <1>5, <2>1, <2>2, Zenon DEF PlaceOnly
  <2>4. /\ done.book = after /\ done.trades = <<>>
        /\ done.resting = IF rests THEN order.quantity ELSE 0
    BY <2>3
  <2> QED
    BY <2>2, <2>4, Zenon
<1>8. /\ book' = IF rests THEN [book EXCEPT ![Taker.side] = AddToBook(@, order)] ELSE book
      /\ result' = [status |-> "accepted", trades |-> call.trades,
                    resting |-> IF rests THEN call.remaining ELSE 0]
  BY <1>2, <1>5, Zenon DEF Finish
<1>9. Outcome = done
  BY <1>2, <1>6, Zenon DEF Outcome
<1>10. call.trades \o <<>> = call.trades
  BY <1>4, ConcatEmptySeq
<1>11. result'.trades = call.trades /\ result'.resting = IF rests THEN call.remaining ELSE 0
  BY <1>8
<1> QED
  BY <1>4, <1>7, <1>8, <1>9, <1>10, <1>11, Zenon DEF EndOfPlace

\* Whatever rests in the book and whatever a call asks for, the rounds of the
\* loop, taken one at a time, end with the book, the trades and the remainder
\* of OrderBook.place evaluated at once: what is shown of the rounds holds of
\* the operator the matcher worker's model applies in one step.
THEOREM RoundsAddUp == Spec => PlaceIsTheRounds
<1> DEFINE Agree ==
      /\ MatchOne => /\ Outcome'.book = Outcome.book
                     /\ Outcome'.resting = Outcome.resting
                     /\ (call.trades \o Outcome.trades) = (call'.trades \o Outcome'.trades)
      /\ Finish => /\ book' = Outcome.book
                   /\ result'.resting = Outcome.resting
                   /\ result'.trades = call.trades \o Outcome.trades
<1>1. IInv => Agree
  BY MatchIsARound, FinishIsTheEnd, Zenon DEF RoundOfPlace, EndOfPlace
<1>2. IInv /\ [Next]_vars => [Agree]_vars
  BY <1>1
<1> HIDE DEF Agree
<1>3. Spec => [][Agree]_vars
  BY <1>2, Invariance, PTL DEF Spec
<1> QED
  BY <1>3, Zenon DEF PlaceIsTheRounds, Agree

=============================================================================
