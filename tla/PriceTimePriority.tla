-------------------------- MODULE PriceTimePriority --------------------------
(***************************************************************************)
(* What a limit order book promises, without saying how it keeps its       *)
(* orders: orders arrive one at a time; an arriving order trades with the  *)
(* resting orders it can trade with, always at the resting order's price,  *)
(* best price first and the earliest arrival first at one price ("FIFO     *)
(* limit book", README.md:8); what is left of a limit order rests, what   *)
(* is left of a market order is dropped.                                   *)
(*                                                                         *)
(* There are no levels, queues or restarts here: resting is a set, and an  *)
(* arrival number is the order's id.                                       *)
(***************************************************************************)
EXTENDS Integers

VARIABLES
  arrived,     \* how many orders have arrived
  resting,     \* the resting orders: a set of [id, side, price, quantity]
  taker        \* the order being matched, its id 0 when there is none

vars == <<arrived, resting, taker>>

Nobody == [id |-> 0, side |-> "buy", type |-> "limit", price |-> 0, quantity |-> 0]

Better(a, b) ==
  \/ IF a.side = "buy" THEN a.price > b.price ELSE a.price < b.price
  \/ a.price = b.price /\ a.id < b.id

Accepts(order, price) ==
  \/ order.type = "market"
  \/ order.side = "buy" /\ price <= order.price
  \/ order.side = "sell" /\ price >= order.price

Acceptable ==
  {r \in resting : r.side # taker.side /\ Accepts(taker, r.price)}

Init ==
  /\ arrived = 0
  /\ resting = {}
  /\ taker = Nobody

Arrive ==
  /\ taker.id = 0
  /\ arrived' = arrived + 1
  /\ taker'.id = arrived'
  /\ taker'.quantity > 0
  /\ UNCHANGED resting

Trade ==
  /\ taker.id # 0
  /\ taker.quantity > 0
  /\ \E best \in Acceptable :
       /\ \A r \in Acceptable : r = best \/ Better(best, r)
       /\ LET q == IF best.quantity <= taker.quantity
                   THEN best.quantity ELSE taker.quantity
          IN  /\ taker' = [taker EXCEPT !.quantity = @ - q]
              /\ resting' = (resting \ {best})
                   \cup (IF q = best.quantity THEN {}
                         ELSE {[best EXCEPT !.quantity = @ - q]})
  /\ UNCHANGED arrived

Leave ==
  /\ taker.id # 0
  /\ taker.quantity = 0 \/ Acceptable = {}
  /\ resting' = resting \cup
       (IF taker.type = "limit" /\ taker.quantity > 0
        THEN {[id |-> taker.id, side |-> taker.side, price |-> taker.price,
               quantity |-> taker.quantity]}
        ELSE {})
  /\ taker' = Nobody
  /\ UNCHANGED arrived

Next == Arrive \/ Trade \/ Leave

Spec == Init /\ [][Next]_vars
=============================================================================
