-------------------------- MODULE MCOutboxPublisher --------------------------
(***************************************************************************)
(* OutboxPublisher with two overlapping batches and events of one type,    *)
(* which share a partition.                                                *)
(***************************************************************************)
EXTENDS OutboxPublisher

CONSTANTS b1, b2, order

MCBatches == {b1, b2}
MCTypes == {order}
=============================================================================
