---------------------------- MODULE MCRateLimiter ----------------------------
(***************************************************************************)
(* RateLimiter with five requests, a capacity of two and a minute of three *)
(* seconds: two tokens to take, two thirds of a token refilled per second. *)
(***************************************************************************)
EXTENDS RateLimiter, TLC

CONSTANTS r1, r2, r3, r4, r5

MCRequests == {r1, r2, r3, r4, r5}

\* Requests start alike and are only compared.
MCSymmetry == Permutations(MCRequests)
=============================================================================
