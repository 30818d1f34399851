---------------------------- MODULE MCMarketFeed -----------------------------
(***************************************************************************)
(* MarketFeed with two symbols and one hook, whose connections overlap at  *)
(* the gateway when it reconnects or is mounted again.                     *)
(***************************************************************************)
EXTENDS MarketFeed

CONSTANTS btc, eth, h1

MCSymbols == <<btc, eth>>
MCHooks == {h1}
=============================================================================
