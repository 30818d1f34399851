--------------------------- MODULE OutboxPublisher ---------------------------
(***************************************************************************)
(* The outbox publisher (packages/server/src/outbox/outboxService.ts) and  *)
(* the cleanup of published rows (maintenance/cleanup.ts), with the market *)
(* topic. The publisher's timer starts a batch every interval whether or   *)
(* not an earlier one is still at an await, so batches overlap.            *)
(*                                                                         *)
(* A row is one captured event; its id is its position in commit order.    *)
(* producedAt has a resolution at which rows may tie, and a row may commit *)
(* after one with a later producedAt. The topic is partitioned by the      *)
(* message key, the event's type. The batches share the process's Kafka    *)
(* producer (KafkaProducer), which the first one connects.                 *)
(***************************************************************************)
EXTENDS Naturals, SequencesExt

CONSTANTS
  EventTypes,    \* the types of events, each a partition of the market topic
  Batches,       \* publishOutboxBatch calls that may be in progress at once
  Limit,         \* rows a batch takes (100 in the code)
  MaxTime,       \* bound on producedAt
  MaxRows,       \* bound on the events enqueued
  MaxFailures    \* bound on failing connects, sends and updates, retries and restarts

ASSUME LimitAssumption == Limit \in Nat \ {0}
ASSUME BatchesAssumption == IsFiniteSet(Batches)
ASSUME BoundsAssumption ==
  MaxTime \in Nat /\ MaxRows \in Nat /\ MaxFailures \in Nat

VARIABLES
  rows,        \* the outbox: every row ever committed, oldest first
  batch,       \* each publishOutboxBatch: where it is, the rows it found
  market,      \* the market topic: the rows sent to each partition
  producer,    \* the Kafka producer of the matcher's process
  faults, restarts

bounds == <<faults, restarts>>
vars == <<rows, batch, market, producer, bounds>>

Kafka == INSTANCE KafkaProducer

NoBatch == [pc |-> "idle", found |-> <<>>]

Init ==
  /\ rows = <<>>
  /\ batch = [b \in Batches |-> NoBatch]
  /\ market = [t \in EventTypes |-> <<>>]
  /\ producer = "none"
  /\ faults = 0 /\ restarts = 0

\* enqueueEvents commits an event (matcherWorker.ts).
Enqueue ==
  /\ Len(rows) < MaxRows
  /\ \E t \in EventTypes, time \in 0..MaxTime :
       rows' = Append(rows, [type |-> t, producedAt |-> time, published |-> FALSE,
                             attempts |-> 0, deleted |-> FALSE])
  /\ UNCHANGED <<batch, market, producer, bounds>>

(***************************************************************************)
(* publishOutboxBatch: the oldest unpublished rows, in some order of their *)
(* producedAt; one send of them all; then one update of them all.          *)
(***************************************************************************)
Pending == {i \in DOMAIN rows : ~rows[i].published /\ ~rows[i].deleted}

Ordered(found) ==
  \A k \in DOMAIN found : \A l \in 1..(k - 1) :
    rows[found[l]].producedAt <= rows[found[k]].producedAt

Oldest(ids) ==
  \A i \in ids, j \in Pending \ ids : rows[i].producedAt <= rows[j].producedAt

TakenAll == {Pending}                           \* mutant: take left out

Taken ==
  LET n == IF Cardinality(Pending) < Limit THEN Cardinality(Pending) ELSE Limit
  IN  {ids \in kSubset(n, Pending) : Oldest(ids)}

\* getProducer, called with what was found: one that is not connected is given
\* away too, and the send on it throws.
Get(b, found) ==
  \/ /\ Kafka!Unopened /\ Kafka!Opened
     /\ batch' = [batch EXCEPT ![b] = [pc |-> "connect", found |-> found]]
  \/ /\ Kafka!CanSend /\ UNCHANGED producer
     /\ batch' = [batch EXCEPT ![b] = [pc |-> "send", found |-> found]]
  \/ /\ ~Kafka!Unopened /\ ~Kafka!CanSend
     /\ UNCHANGED <<batch, producer>>

FindUnordered(b) ==                             \* mutant: orderBy left out
  /\ batch[b].pc = "idle"
  /\ Pending # {}
  /\ \E ids \in kSubset(Cardinality(CHOOSE taken \in Taken : TRUE), Pending) :
       \E found \in SetToSeqs(ids) :
         Get(b, found)
  /\ UNCHANGED <<rows, market, bounds>>

Find(b) ==
  /\ batch[b].pc = "idle"
  /\ Pending # {}
  /\ \E ids \in Taken : \E found \in SetToSeqs(ids) :
       /\ Ordered(found)
       /\ Get(b, found)
  /\ UNCHANGED <<rows, market, bounds>>

Connect(b) ==
  /\ batch[b].pc = "connect"
  /\ Kafka!Connected
  /\ batch' = [batch EXCEPT ![b].pc = "send"]
  /\ UNCHANGED <<rows, market, bounds>>

\* The rows of type t in found, in its order: SelectSeq, in terms the prover has.
OfType(found, t) ==
  LET at == {k \in DOMAIN found : rows[found[k]].type = t}
      Nth(n) == CHOOSE k \in at : Cardinality({l \in at : l <= k}) = n
  IN  [n \in 1..Cardinality(at) |-> found[Nth(n)]]

Sent(b, types) ==
  [t \in EventTypes |->
     IF t \in types THEN market[t] \o OfType(batch[b].found, t) ELSE market[t]]

Send(b) ==
  /\ batch[b].pc = "send"
  /\ market' = Sent(b, EventTypes)
  /\ batch' = [batch EXCEPT ![b].pc = "mark"]
  /\ UNCHANGED <<rows, producer, bounds>>

MarkPending(b) ==                               \* mutant: where publishedAt is null, no ids
  /\ batch[b].pc = "mark"
  /\ rows' = [i \in DOMAIN rows |->
       IF i \in Pending
       THEN [rows[i] EXCEPT !.published = TRUE, !.attempts = @ + 1] ELSE rows[i]]
  /\ batch' = [batch EXCEPT ![b] = NoBatch]
  /\ UNCHANGED <<market, producer, bounds>>

MarkOnce(b) ==                                  \* mutant: a published row is not counted again
  /\ batch[b].pc = "mark"
  /\ rows' = [i \in DOMAIN rows |->
       IF i \in Pending /\ i \in ToSet(batch[b].found)
       THEN [rows[i] EXCEPT !.published = TRUE, !.attempts = @ + 1] ELSE rows[i]]
  /\ batch' = [batch EXCEPT ![b] = NoBatch]
  /\ UNCHANGED <<market, producer, bounds>>

Mark(b) ==
  /\ batch[b].pc = "mark"
  /\ rows' = [i \in DOMAIN rows |->
       IF i \in ToSet(batch[b].found) /\ ~rows[i].deleted
       THEN [rows[i] EXCEPT !.published = TRUE, !.attempts = @ + 1] ELSE rows[i]]
  /\ batch' = [batch EXCEPT ![b] = NoBatch]
  /\ UNCHANGED <<market, producer, bounds>>

(***************************************************************************)
(* Faults: an error ends the batch and is only logged. A send that fails   *)
(* may have been written by some partitions. KafkaJS retries a request     *)
(* within the send, and the producer is not idempotent: what a partition   *)
(* wrote without acknowledging it is written again. A connect that fails   *)
(* leaves an unusable producer, which only a restart removes.              *)
(***************************************************************************)
Fault ==
  /\ faults + restarts < MaxFailures
  /\ faults' = faults + 1
  /\ UNCHANGED restarts

SendFailsForGood(b) ==                          \* mutant: not caught, so the process ends
  /\ Fault
  /\ batch[b].pc = "send"
  /\ batch' = [c \in Batches |-> [NoBatch EXCEPT !.pc = "dead"]]
  /\ UNCHANGED <<rows, market, producer>>

SendFails(b) ==
  /\ Fault
  /\ batch[b].pc = "send"
  /\ \E types \in SUBSET EventTypes : market' = Sent(b, types)
  /\ batch' = [batch EXCEPT ![b] = NoBatch]
  /\ UNCHANGED <<rows, producer>>

SendRetries(b) ==
  /\ Fault
  /\ batch[b].pc = "send"
  /\ \E types \in SUBSET EventTypes : market' = Sent(b, types)
  /\ UNCHANGED <<rows, batch, producer>>

ConnectFails(b) ==
  /\ Fault
  /\ batch[b].pc = "connect"
  /\ Kafka!ConnectFailed
  /\ batch' = [batch EXCEPT ![b] = NoBatch]
  /\ UNCHANGED <<rows, market>>

MarkFails(b) ==
  /\ Fault
  /\ batch[b].pc = "mark"
  /\ batch' = [batch EXCEPT ![b] = NoBatch]
  /\ UNCHANGED <<rows, market, producer>>

\* A crash, or a shutdown, which stops the timer and waits for no batch.
Restart ==
  /\ faults + restarts < MaxFailures
  /\ restarts' = restarts + 1
  /\ batch' = [b \in Batches |-> NoBatch]
  /\ Kafka!Gone
  /\ UNCHANGED <<rows, market, faults>>

(***************************************************************************)
(* The cleanup deletes the published rows produced before the cutoff.      *)
(***************************************************************************)
Cleanup ==
  \E cutoff \in 1..(MaxTime + 1) :
    /\ rows' = [i \in DOMAIN rows |->
         IF rows[i].published /\ rows[i].producedAt < cutoff
         THEN [rows[i] EXCEPT !.attempts = 0, !.deleted = TRUE] ELSE rows[i]]
    /\ UNCHANGED <<batch, market, producer, bounds>>

Publish(b) == Find(b) \/ Connect(b) \/ Send(b) \/ Mark(b)

Next ==
  \/ Enqueue \/ Cleanup \/ Restart
  \/ \E b \in Batches :
       Publish(b) \/ ConnectFails(b) \/ SendFails(b) \/ SendRetries(b) \/ MarkFails(b)

Spec == Init /\ [][Next]_vars

\* The timer keeps firing and every call of a batch returns.
FairSpec == Spec /\ \A b \in Batches : WF_vars(Publish(b))

(***************************************************************************)
(* Types                                                                   *)
(***************************************************************************)
RowRecords == [type : EventTypes, producedAt : 0..MaxTime, published : BOOLEAN,
               attempts : Nat, deleted : BOOLEAN]

TypeOK ==
  /\ rows \in Seq(RowRecords)
  /\ batch \in [Batches -> [pc : {"idle", "connect", "send", "mark"}, found : Seq(DOMAIN rows)]]
  /\ \A b \in Batches : Len(batch[b].found) <= Limit
  /\ market \in [EventTypes -> Seq(DOMAIN rows)]
  /\ producer \in Kafka!States
  /\ faults \in Nat /\ restarts \in Nat /\ faults + restarts <= MaxFailures

(***************************************************************************)
(* Safety                                                                  *)
(***************************************************************************)
Copies(i) == Cardinality({k \in DOMAIN market[rows[i].type] : market[rows[i].type][k] = i})

\* A row is marked published, and so may be deleted, only once its event is
\* in the topic: what was enqueued while a batch was under way is left alone.
PublishedWasSent ==
  \A i \in DOMAIN rows : rows[i].published \/ rows[i].deleted => Copies(i) > 0

\* attempts counts the batches that have marked a row, which is what the update
\* after a send makes of it: an event is in the topic that often, and oftener
\* only by a batch that has still to mark it, a failing send or update, a retry
\* within a send, or a restart.
Marking(i) == {b \in Batches : batch[b].pc = "mark" /\ i \in ToSet(batch[b].found)}

AttemptsCountDeliveries ==
  \A i \in DOMAIN rows : ~rows[i].deleted =>
    LET marked == rows[i].attempts + Cardinality(Marking(i))
    IN  Copies(i) \in marked..(marked + faults + restarts * Cardinality(Batches))

\* "Failures increment `attempts`" (README.md:232): a batch whose send throws
\* has counted an attempt to deliver each of its rows.
SendFailed(b) ==
  batch[b].pc = "send" /\ batch'[b] = NoBatch /\ restarts' = restarts

FailuresIncrementAttempts ==
  [][\A b \in Batches : SendFailed(b) =>
       \A i \in ToSet(batch[b].found) :
         rows[i].deleted \/ rows'[i].attempts > rows[i].attempts]_vars

\* Whatever batches overlap, fail or are cut short, the topic keeps the order
\* that Delivery promises: the first delivery of an event comes before that of
\* an event of its type committed after it with a later producedAt.
Topic == INSTANCE Delivery WITH
  events <- [i \in DOMAIN rows |-> [type |-> rows[i].type, producedAt |-> rows[i].producedAt]],
  log <- market

ImplementsDelivery == Topic!Spec

(***************************************************************************)
(* Liveness                                                                *)
(***************************************************************************)
\* At-least-once delivery: the topic catches up with what was enqueued, again
\* and again, whatever failed before, except the connect of the producer, which
\* is not tried again: then nothing is delivered until a restart.
Delivered == \A i \in DOMAIN rows : Copies(i) > 0

DeliveredWhileUsable == []<>(Delivered \/ producer = "unusable")
=============================================================================
