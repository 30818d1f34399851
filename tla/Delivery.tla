------------------------------- MODULE Delivery -------------------------------
(***************************************************************************)
(* What the outbox promises the consumers of the market topic (README.md,  *)
(* "Event Outbox"): every event is written to the partition of its type at *)
(* least once, and an event comes before the events of its type that were  *)
(* committed after it with a later producedAt, except for repeats.         *)
(***************************************************************************)
EXTENDS Naturals, SequencesExt

CONSTANT EventTypes

VARIABLES
  events,   \* the committed events, oldest first: type and producedAt
  log       \* the partition of each type: positions in events

vars == <<events, log>>

Before(i, j) ==
  /\ i < j /\ events[i].type = events[j].type
  /\ events[i].producedAt < events[j].producedAt

\* Every entry is preceded by those that must come before it.
InOrder(partition) ==
  \A k \in DOMAIN partition : \A i \in DOMAIN events :
    Before(i, partition[k]) => \E l \in 1..(k - 1) : partition[l] = i

Init ==
  /\ events = <<>>
  /\ log = [t \in EventTypes |-> <<>>]

Commit ==
  /\ IsPrefix(events, events') /\ Len(events') = Len(events) + 1
  /\ UNCHANGED log

\* A partition only grows, by events of its type, first or repeated.
Write ==
  /\ log' # log /\ UNCHANGED events
  /\ \A t \in EventTypes :
       /\ IsPrefix(log[t], log'[t])
       /\ \A k \in DOMAIN log'[t] : log'[t][k] \in DOMAIN events
                                    /\ events[log'[t][k]].type = t
       /\ InOrder(log'[t])

Spec == Init /\ [][Commit \/ Write]_vars
=============================================================================
