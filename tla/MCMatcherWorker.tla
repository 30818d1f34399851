--------------------------- MODULE MCMatcherWorker ---------------------------
(***************************************************************************)
(* MatcherWorker with buys by command and larger sells by the feed, at one *)
(* price: a sell takes several buys, a buy a part of a sell.               *)
(***************************************************************************)
EXTENDS MatcherWorker

Limit(side, price, quantity) ==
  [side |-> side, type |-> "limit", price |-> price, quantity |-> quantity]

MCCommands == {Limit("buy", 1, 1)}
MCMakers == {Limit("sell", 1, 2)}
=============================================================================
