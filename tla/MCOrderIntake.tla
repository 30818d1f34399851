---------------------------- MODULE MCOrderIntake ----------------------------
(***************************************************************************)
(* OrderIntake with three requests that share a key or have none.          *)
(***************************************************************************)
EXTENDS OrderIntake, TLC

CONSTANTS r1, r2, r3, k1, u1, u2, b1, b2

MCRequests == {r1, r2, r3}
\* Requests are compared and nothing else, and start alike.
MCSymmetry == Permutations(MCRequests)

MCKeys == {k1}
MCOrigins == {[user |-> u1, body |-> b1], [user |-> u1, body |-> b2],
              [user |-> u2, body |-> b1]}
=============================================================================
