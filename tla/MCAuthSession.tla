---------------------------- MODULE MCAuthSession ----------------------------
(* AuthSession with two calls. *)
EXTENDS AuthSession
CONSTANTS c1, c2
MCCalls == {c1, c2}
=============================================================================
