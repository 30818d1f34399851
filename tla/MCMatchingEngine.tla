--------------------------- MODULE MCMatchingEngine ---------------------------
(***************************************************************************)
(* MatchingEngine with small sets of prices and quantities.                *)
(***************************************************************************)
EXTENDS MatchingEngine

MCPrices == 1..3
MCQuantities == 1..2
=============================================================================
