------------------------ MODULE OutboxPublisherProofs --------------------------
(***************************************************************************)
(* OutboxPublisher implements Delivery, marks only what was sent and       *)
(* counts what it marks, for any events, batches, limits, faults and       *)
(* restarts.                                                               *)
(***************************************************************************)
EXTENDS OutboxPublisher, FiniteSetTheorems, SequenceTheorems, WellFoundedInduction, TLAPS

(***************************************************************************)
(* OfType keeps the order of what it selects.                              *)
(***************************************************************************)
Rank(P, k) == Cardinality({l \in P : l <= k})

LEMMA RankType ==
  ASSUME NEW n \in Nat, NEW P, \A l \in P : l \in 1..n, NEW k
  PROVE  /\ IsFiniteSet(P) /\ Cardinality(P) \in Nat
         /\ IsFiniteSet({l \in P : l <= k}) /\ Rank(P, k) \in Nat
         /\ Rank(P, k) <= Cardinality(P)
<1>1. IsFiniteSet(1..n)
  BY FS_Interval
<1>2. P \in SUBSET (1..n) /\ {l \in P : l <= k} \in SUBSET P
  OBVIOUS
<1>3. IsFiniteSet(P)
  BY <1>1, <1>2, FS_Subset
<1>4. IsFiniteSet({l \in P : l <= k}) /\ Rank(P, k) <= Cardinality(P)
  BY <1>2, <1>3, FS_Subset DEF Rank
<1> QED
  BY <1>3, <1>4, FS_CardinalityType DEF Rank

LEMMA RankEnds ==
  ASSUME NEW n \in Nat, NEW P, \A l \in P : l \in 1..n
  PROVE  Rank(P, 0) = 0 /\ Rank(P, n) = Cardinality(P)
<1>1. {l \in P : l <= 0} = {} /\ {l \in P : l <= n} = P
  OBVIOUS
<1> QED
  BY <1>1, FS_EmptySet DEF Rank

LEMMA RankStep ==
  ASSUME NEW n \in Nat, NEW P, \A l \in P : l \in 1..n, NEW k \in Nat
  PROVE  Rank(P, k + 1) = IF k + 1 \in P THEN Rank(P, k) + 1 ELSE Rank(P, k)
<1>1. \A l \in P : l \in Nat /\ (l <= k + 1 <=> l <= k \/ l = k + 1)
  OBVIOUS
<1>2. CASE k + 1 \in P
  <2>1. {l \in P : l <= k + 1} = {l \in P : l <= k} \cup {k + 1}
    BY <1>1, <1>2
  <2>2. k + 1 \notin {l \in P : l <= k}
    OBVIOUS
  <2>3. IsFiniteSet({l \in P : l <= k})
    BY RankType
  <2>4. Cardinality({l \in P : l <= k} \cup {k + 1}) = Cardinality({l \in P : l <= k}) + 1
    BY <2>2, <2>3, FS_AddElement
  <2> QED
    BY <1>2, <2>1, <2>4 DEF Rank
<1>3. CASE k + 1 \notin P
  <2>1. {l \in P : l <= k + 1} = {l \in P : l <= k}
    BY <1>1, <1>3
  <2> QED
    BY <1>3, <2>1 DEF Rank
<1> QED
  BY <1>2, <1>3

LEMMA RankIncreases ==
  ASSUME NEW n \in Nat, NEW P, \A m \in P : m \in 1..n, NEW l \in P, NEW k \in P, l < k
  PROVE  Rank(P, l) < Rank(P, k)
<1> DEFINE j == k - 1
<1>1. j \in Nat /\ l \in Nat /\ l <= j /\ j + 1 = k
  OBVIOUS
<1> HIDE DEF j
<1>2. Rank(P, l) <= Rank(P, j)
  <2>1. \A m \in P : m <= l => m <= j
    BY <1>1
  <2>2. {m \in P : m <= l} \in SUBSET {m \in P : m <= j}
    BY <2>1
  <2>3. IsFiniteSet({m \in P : m <= j})
    BY RankType
  <2> QED
    BY <2>2, <2>3, FS_Subset DEF Rank
<1>3. Rank(P, k) = Rank(P, j) + 1
  <2>1. Rank(P, j + 1) = IF j + 1 \in P THEN Rank(P, j) + 1 ELSE Rank(P, j)
    BY <1>1, RankStep
  <2> QED
    BY <1>1, <2>1
<1>4. Rank(P, l) \in Nat /\ Rank(P, j) \in Nat
  BY RankType
<1> QED
  BY <1>1, <1>2, <1>3, <1>4

\* Every rank belongs to a position: the first that has at least that rank.
LEMMA RankReached ==
  ASSUME NEW n \in Nat, NEW P, \A l \in P : l \in 1..n, NEW m \in 1..Cardinality(P)
  PROVE  \E k \in P : Rank(P, k) = m
<1> DEFINE T == {k \in Nat : m <= Rank(P, k)}
<1>1. Cardinality(P) \in Nat /\ Rank(P, n) = Cardinality(P) /\ Rank(P, 0) = 0
  BY RankEnds, RankType
<1>2. m \in Nat /\ 0 < m /\ n \in T /\ 0 \notin T
  BY <1>1
<1>3. PICK k \in T : \A j \in T : <<j, k>> \notin OpToRel(<, Nat)
  <2>1. T \subseteq Nat /\ T # {}
    BY <1>2
  <2>2. IsWellFoundedOn(OpToRel(<, Nat), Nat)
    BY NatLessThanWellFounded, Zenon
  <2> HIDE DEF T
  <2> QED
    BY <2>1, <2>2, WFMin, Zenon
<1>4. k \in Nat /\ k # 0 /\ m <= Rank(P, k)
  <2>1. k \in Nat /\ m <= Rank(P, k)
    OBVIOUS
  <2> HIDE DEF T
  <2>2. k # 0
    BY <1>2
  <2> QED
    BY <2>1, <2>2
<1>5. k - 1 \in Nat /\ k - 1 < k /\ (k - 1) + 1 = k
  BY <1>4
<1>6. k - 1 \notin T
  BY <1>3, <1>4, <1>5 DEF OpToRel
<1>7. Rank(P, k - 1) \in Nat
  BY <1>5, RankType
<1>8. Rank(P, k - 1) < m
  BY <1>2, <1>5, <1>6, <1>7
<1>9. Rank(P, (k - 1) + 1) = IF (k - 1) + 1 \in P THEN Rank(P, k - 1) + 1 ELSE Rank(P, k - 1)
  BY <1>5, RankStep
<1>10. k \in P /\ Rank(P, k) = m
  BY <1>2, <1>4, <1>5, <1>7, <1>8, <1>9
<1> QED
  BY <1>10

\* Entry i of s is a row of found of type t, and those before it in found come
\* before i in s.
Follows(s, i, found, t) ==
  \E k \in DOMAIN found :
    /\ s[i] = found[k] /\ rows[found[k]].type = t
    /\ \A l \in 1..(k - 1) : rows[found[l]].type = t => \E j \in 1..(i - 1) : s[j] = found[l]

\* Every row of found of type t is in s.
Covers(s, found, t) ==
  \A k \in DOMAIN found : rows[found[k]].type = t => \E i \in DOMAIN s : s[i] = found[k]

LEMMA OfTypeSound ==
  ASSUME NEW found, NEW n \in Nat, DOMAIN found = 1..n, NEW t
  PROVE  /\ OfType(found, t) \in Seq(ToSet(found))
         /\ \A i \in DOMAIN OfType(found, t) : Follows(OfType(found, t), i, found, t)
         /\ Covers(OfType(found, t), found, t)
         /\ (\A k, l \in DOMAIN found : k # l => found[k] # found[l]) =>
              \A i, j \in DOMAIN OfType(found, t) :
                i # j => OfType(found, t)[i] # OfType(found, t)[j]
<1> DEFINE at == {k \in 1..n : rows[found[k]].type = t}
           c == Cardinality(at)
           Nth(i) == CHOOSE k \in at : Rank(at, k) = i
           s == OfType(found, t)
<1>1. c \in Nat /\ \A l \in at : l \in 1..n
  BY RankType
<1>2. s = [i \in 1..c |-> found[Nth(i)]]
  BY DEF OfType, Rank
<1>3. ASSUME NEW i \in 1..c PROVE Nth(i) \in at /\ Rank(at, Nth(i)) = i
  <2>1. \E k \in at : Rank(at, k) = i
    BY <1>1, RankReached
  <2> QED
    BY <2>1
<1> HIDE DEF Nth
<1>4. ASSUME NEW k \in at PROVE Rank(at, k) \in 1..c /\ Nth(Rank(at, k)) = k
  <2>1. Rank(at, k) \in 1..c
    <3>1. PICK j \in Nat : j + 1 = k
      <4>1. k - 1 \in Nat /\ (k - 1) + 1 = k
        BY <1>1
      <4> QED
        BY <4>1
    <3>2. Rank(at, j + 1) = IF j + 1 \in at THEN Rank(at, j) + 1 ELSE Rank(at, j)
      BY <1>1, RankStep
    <3>3. Rank(at, j) \in Nat /\ Rank(at, k) <= c
      BY <1>1, RankType
    <3> QED
      BY <1>1, <3>1, <3>2, <3>3
  <2>2. PICK r : r = Rank(at, k)
    OBVIOUS
  <2>3. Nth(r) \in at /\ Rank(at, Nth(r)) = r
    BY <1>3, <2>1, <2>2
  <2>4. ASSUME NEW l \in at, l # k PROVE Rank(at, l) # Rank(at, k)
    <3>1. l \in Nat /\ k \in Nat
      BY <1>1
    <3>2. l < k => Rank(at, l) < Rank(at, k)
      BY <1>1, RankIncreases
    <3>3. k < l => Rank(at, k) < Rank(at, l)
      BY <1>1, RankIncreases
    <3>4. Rank(at, k) \in Nat /\ Rank(at, l) \in Nat
      BY <1>1, RankType
    <3> QED
      BY <2>4, <3>1, <3>2, <3>3, <3>4
  <2>5. Nth(r) = k
    BY <2>2, <2>3, <2>4
  <2> QED
    BY <2>1, <2>2, <2>5
<1>5. s \in [1..c -> ToSet(found)]
  BY <1>1, <1>2, <1>3 DEF ToSet
<1>6. s \in Seq(ToSet(found)) /\ DOMAIN s = 1..c
  BY <1>1, <1>5, SeqDef
<1>7. ASSUME NEW i \in 1..c
      PROVE  \E k \in 1..n :
              /\ s[i] = found[k] /\ rows[found[k]].type = t
              /\ \A l \in 1..(k - 1) : rows[found[l]].type = t =>
                   \E j \in 1..(i - 1) : s[j] = found[l]
  <2>1. PICK k : k = Nth(i)
    OBVIOUS
  <2>2. k \in at /\ Rank(at, k) = i /\ s[i] = found[k]
    BY <1>2, <1>3, <2>1
  <2>3. ASSUME NEW l \in 1..(k - 1), rows[found[l]].type = t
        PROVE  \E j \in 1..(i - 1) : s[j] = found[l]
    <3>1. l \in at /\ l < k
      BY <2>2, <2>3
    <3>2. Rank(at, l) \in 1..c /\ s[Rank(at, l)] = found[l]
      BY <1>2, <1>4, <3>1
    <3>3. Rank(at, l) < i
      BY <1>1, <2>2, <3>1, RankIncreases
    <3> QED
      BY <1>1, <3>2, <3>3
  <2> QED
    BY <2>2, <2>3
<1>8. ASSUME NEW k \in 1..n, rows[found[k]].type = t
      PROVE  \E i \in 1..c : s[i] = found[k]
  <2>1. k \in at
    BY <1>8
  <2> QED
    BY <1>2, <1>4, <2>1
<1>10. ASSUME \A k, l \in 1..n : k # l => found[k] # found[l],
              NEW i \in 1..c, NEW j \in 1..c, i # j
       PROVE  s[i] # s[j]
  <2>1. Nth(i) \in 1..n /\ Nth(j) \in 1..n /\ Nth(i) # Nth(j)
    BY <1>1, <1>3, <1>10
  <2> QED
    BY <1>2, <1>10, <2>1
<1> HIDE DEF s, c
<1>9. (\A i \in DOMAIN s : Follows(s, i, found, t)) /\ Covers(s, found, t)
  BY <1>6, <1>7, <1>8 DEF Follows, Covers
<1> QED
  BY <1>6, <1>9, <1>10 DEF s

(***************************************************************************)
(* The invariant. What a row waits for, the rows that Delivery puts before *)
(* it, is in the topic already or earlier in the same batch.               *)
(***************************************************************************)
InTopic(i) == \E k \in DOMAIN market[rows[i].type] : market[rows[i].type][k] = i

Before(i, j) ==
  i < j /\ rows[i].type = rows[j].type /\ rows[i].producedAt < rows[j].producedAt

\* What is published or deleted was sent.
SentSound == \A i \in DOMAIN rows : rows[i].published \/ rows[i].deleted => InTopic(i)

\* A batch that has still to mark its rows has sent them.
MarkSound ==
  \A b \in Batches : batch[b].pc = "mark" =>
    \A k \in DOMAIN batch[b].found : InTopic(batch[b].found[k])

FoundSound ==
  \A b \in Batches : \A k \in DOMAIN batch[b].found, i \in DOMAIN rows :
    Before(i, batch[b].found[k]) =>
      InTopic(i) \/ \E l \in 1..(k - 1) : batch[b].found[l] = i

LogSound ==
  \A t \in EventTypes : \A k \in DOMAIN market[t] :
    /\ rows[market[t][k]].type = t
    /\ \A i \in DOMAIN rows : Before(i, market[t][k]) => \E l \in 1..(k - 1) : market[t][l] = i

IInv == TypeOK /\ SentSound /\ MarkSound /\ FoundSound /\ LogSound

LEMMA Shapes ==
  ASSUME TypeOK
  PROVE  /\ Len(rows) \in Nat /\ DOMAIN rows = 1..Len(rows)
         /\ \A i \in DOMAIN rows : rows[i] \in RowRecords
         /\ \A b \in Batches :
              LET f == batch[b].found
              IN  Len(f) \in Nat /\ DOMAIN f = 1..Len(f) /\ \A k \in DOMAIN f : f[k] \in DOMAIN rows
         /\ \A t \in EventTypes :
              LET m == market[t]
              IN  Len(m) \in Nat /\ DOMAIN m = 1..Len(m) /\ \A k \in DOMAIN m : m[k] \in DOMAIN rows
<1>1. /\ rows \in Seq(RowRecords)
      /\ \A b \in Batches : batch[b].found \in Seq(DOMAIN rows)
      /\ \A t \in EventTypes : market[t] \in Seq(DOMAIN rows)
  BY DEF TypeOK
<1> QED
  BY <1>1, LenProperties, ElementOfSeq

LEMMA InitIInv == ASSUME Init PROVE IInv
<1>1. rows = <<>> /\ DOMAIN rows = {} /\ rows \in Seq(RowRecords) /\ <<>> \in Seq(DOMAIN rows)
  BY EmptySeq DEF Init
<1>2. \A b \in Batches : batch[b] = [pc |-> "idle", found |-> <<>>]
  BY DEF Init, NoBatch
<1>3. \A t \in EventTypes : market[t] = <<>>
  BY DEF Init
<1>4. Len(<<>>) = 0 /\ DOMAIN <<>> = {}
  OBVIOUS
<1>5. TypeOK
  BY <1>1, <1>2, <1>3, <1>4, LimitAssumption, BoundsAssumption
     DEF Init, NoBatch, TypeOK, Kafka!States
<1>6. SentSound /\ MarkSound /\ FoundSound /\ LogSound
  BY <1>1, <1>2, <1>3, <1>4 DEF SentSound, MarkSound, FoundSound, LogSound
<1> QED
  BY <1>5, <1>6 DEF IInv

\* A row that is in the topic is there at least once in Copies' count.
LEMMA InTopicIsCopied ==
  ASSUME TypeOK, NEW i \in DOMAIN rows, InTopic(i)
  PROVE  Copies(i) > 0
<1> DEFINE m == market[rows[i].type]
           ks == {k \in DOMAIN m : m[k] = i}
<1>1. rows[i].type \in EventTypes
  BY Shapes DEF RowRecords
<1>2. Len(m) \in Nat /\ DOMAIN m = 1..Len(m)
  BY <1>1, Shapes
<1>3. IsFiniteSet(DOMAIN m)
  BY <1>2, FS_Interval
<1>4. ks \in SUBSET DOMAIN m /\ ks # {}
  BY DEF InTopic
<1>5. IsFiniteSet(ks)
  BY <1>3, <1>4, FS_Subset
<1>6. Cardinality(ks) \in Nat /\ Cardinality(ks) # 0
  BY <1>4, <1>5, FS_CardinalityType, FS_EmptySet
<1> QED
  BY <1>6 DEF Copies

(***************************************************************************)
(* Steps that leave the topic and the events alone: flags of rows may      *)
(* change, and batches may end.                                            *)
(***************************************************************************)
SameEvents ==
  /\ DOMAIN rows' = DOMAIN rows
  /\ \A i \in DOMAIN rows : rows'[i].type = rows[i].type /\ rows'[i].producedAt = rows[i].producedAt

LEMMA SameTopic ==
  ASSUME IInv, SameEvents, market' = market, TypeOK',
         \A i \in DOMAIN rows : rows'[i].published \/ rows'[i].deleted => InTopic(i),
         \A b \in Batches : \/ batch'[b].found = <<>>
                            \/ batch'[b].found = batch[b].found
                               /\ (batch'[b].pc = "mark" => batch[b].pc = "mark")
  PROVE  IInv'
<1>1. /\ \A i \in DOMAIN rows : InTopic(i) => InTopic(i)'
      /\ \A i \in DOMAIN rows, j \in DOMAIN rows : Before(i, j)' => Before(i, j)
  BY DEF InTopic, Before, SameEvents
<1>2. SentSound'
  BY <1>1 DEF SentSound, SameEvents
<1>3. DOMAIN <<>> = {}
  OBVIOUS
<1>4. /\ \A b \in Batches : \A k \in DOMAIN batch[b].found : batch[b].found[k] \in DOMAIN rows
      /\ \A t \in EventTypes : \A k \in DOMAIN market[t] : market[t][k] \in DOMAIN rows
  BY Shapes DEF IInv
<1>5. MarkSound'
  <2> SUFFICES ASSUME NEW b \in Batches, batch'[b].pc = "mark", NEW k \in DOMAIN batch'[b].found,
                      NEW i, i = batch'[b].found[k]
               PROVE  InTopic(i)'
    BY Zenon DEF MarkSound
  <2>1. InTopic(i) /\ i \in DOMAIN rows
    BY <1>3, <1>4 DEF IInv, MarkSound
  <2> QED
    BY <1>1, <2>1
<1>6. FoundSound'
  <2> SUFFICES ASSUME NEW b \in Batches, NEW k \in DOMAIN batch'[b].found, NEW i \in DOMAIN rows',
                      NEW j, j = batch'[b].found[k], Before(i, j)'
               PROVE  InTopic(i)' \/ \E l \in 1..(k - 1) : batch'[b].found[l] = i
    BY Zenon DEF FoundSound
  <2>1. batch'[b].found = batch[b].found /\ j \in DOMAIN rows /\ i \in DOMAIN rows
    BY <1>3, <1>4 DEF SameEvents
  <2>2. Before(i, j)
    BY <1>1, <2>1
  <2> QED
    BY <1>1, <2>1, <2>2 DEF IInv, FoundSound
<1>7. LogSound'
  <2> SUFFICES ASSUME NEW t \in EventTypes, NEW k \in DOMAIN market[t]
               PROVE  /\ rows'[market[t][k]].type = t
                      /\ \A i \in DOMAIN rows : Before(i, market[t][k])' =>
                           \E l \in 1..(k - 1) : market[t][l] = i
    BY DEF LogSound, SameEvents
  <2>1. market[t][k] \in DOMAIN rows
    BY <1>4
  <2> QED
    BY <1>1, <2>1 DEF IInv, LogSound, SameEvents
<1> QED
  BY <1>2, <1>5, <1>6, <1>7 DEF IInv

LEMMA SameLog ==
  ASSUME IInv, rows' = rows, market' = market, TypeOK',
         \A b \in Batches : \/ batch'[b].found = <<>>
                            \/ batch'[b].found = batch[b].found
                               /\ (batch'[b].pc = "mark" => batch[b].pc = "mark")
  PROVE  IInv'
BY SameTopic DEF IInv, SentSound, SameEvents

\* One batch is written; its new record has a legal type.
LEMMA BatchType ==
  ASSUME TypeOK, rows' = rows, market' = market,
         faults' = faults \/ (faults + restarts < MaxFailures /\ faults' = faults + 1),
         restarts' = restarts, producer' \in Kafka!States,
         NEW b \in Batches, NEW f \in Seq(DOMAIN rows), Len(f) <= Limit,
         NEW pc \in {"idle", "connect", "send", "mark"},
         batch' = [batch EXCEPT ![b] = [pc |-> pc, found |-> f]]
  PROVE  TypeOK'
<1>1. batch' \in [Batches -> [pc : {"idle", "connect", "send", "mark"}, found : Seq(DOMAIN rows)]]
  BY DEF TypeOK
<1>2. \A c \in Batches : Len(batch'[c].found) <= Limit
  BY DEF TypeOK
<1>3. faults' \in Nat /\ restarts' \in Nat /\ faults' + restarts' <= MaxFailures
  BY BoundsAssumption DEF TypeOK
<1> QED
  BY <1>1, <1>2, <1>3 DEF TypeOK

\* A batch that ends, or that goes on with the rows it has.
LEMMA EndType ==
  ASSUME TypeOK
  PROVE  /\ <<>> \in Seq(DOMAIN rows) /\ Len(<<>>) <= Limit
         /\ \A b \in Batches : batch[b].found \in Seq(DOMAIN rows) /\ Len(batch[b].found) <= Limit
BY EmptySeq, LimitAssumption DEF TypeOK

LEMMA ConnectStep ==
  ASSUME IInv, NEW b \in Batches, Connect(b)
  PROVE  IInv'
<1>1. batch' = [batch EXCEPT ![b].pc = "send"] /\ batch[b] \in [pc : {"idle", "connect", "send", "mark"}, found : Seq(DOMAIN rows)]
  BY DEF Connect, IInv, TypeOK
<1>2. batch' = [batch EXCEPT ![b] = [pc |-> "send", found |-> batch[b].found]]
  <2>1. [batch[b] EXCEPT !.pc = "send"] = [pc |-> "send", found |-> batch[b].found]
    BY <1>1
  <2> QED
    BY <1>1, <2>1
<1>3. TypeOK'
  <2>1. batch[b].found \in Seq(DOMAIN rows) /\ Len(batch[b].found) <= Limit
    BY EndType DEF IInv
  <2>2. producer' \in Kafka!States
    BY DEF Connect, Kafka!Connected, Kafka!States
  <2> QED
    BY <1>2, <2>1, <2>2, BatchType DEF IInv, Connect, bounds
<1>4. \A c \in Batches : batch'[c].found = batch[c].found /\ (batch'[c].pc = "mark" => batch[c].pc = "mark")
  BY <1>2 DEF IInv, TypeOK
<1> QED
  BY <1>3, <1>4, SameLog DEF Connect

\* A failed connect or update.
LEMMA EndStep ==
  ASSUME IInv, NEW b \in Batches, ConnectFails(b) \/ MarkFails(b)
  PROVE  IInv'
<1>1. /\ batch' = [batch EXCEPT ![b] = [pc |-> "idle", found |-> <<>>]]
      /\ rows' = rows /\ market' = market /\ restarts' = restarts
      /\ faults + restarts < MaxFailures /\ faults' = faults + 1
  BY DEF ConnectFails, MarkFails, Fault, NoBatch
<1>2. producer' \in Kafka!States
  BY DEF ConnectFails, MarkFails, Kafka!ConnectFailed, Kafka!States, IInv, TypeOK
<1>3. TypeOK'
  BY <1>1, <1>2, EndType, BatchType DEF IInv
<1>4. batch'[b].found = <<>> /\ \A c \in Batches \ {b} : batch'[c] = batch[c]
  BY <1>1 DEF IInv, TypeOK
<1> QED
  BY <1>1, <1>3, <1>4, SameLog

LEMMA RestartStep == ASSUME IInv, Restart PROVE IInv'
<1>1. /\ batch' = [b \in Batches |-> [pc |-> "idle", found |-> <<>>]]
      /\ rows' = rows /\ market' = market /\ faults' = faults
      /\ faults + restarts < MaxFailures /\ restarts' = restarts + 1 /\ producer' = "none"
  BY DEF Restart, NoBatch, Kafka!Gone
<1>2. TypeOK'
  <2>1. batch' \in [Batches -> [pc : {"idle", "connect", "send", "mark"}, found : Seq(DOMAIN rows)]]
    BY <1>1, EndType DEF IInv
  <2>2. \A b \in Batches : Len(batch'[b].found) <= Limit
    BY <1>1, EndType DEF IInv
  <2>3. faults' \in Nat /\ restarts' \in Nat /\ faults' + restarts' <= MaxFailures
    BY <1>1, BoundsAssumption DEF IInv, TypeOK
  <2> QED
    BY <1>1, <2>1, <2>2, <2>3 DEF IInv, TypeOK, Kafka!States
<1>3. \A b \in Batches : batch'[b].found = <<>>
  <2>1. \A b \in Batches : batch'[b] = [pc |-> "idle", found |-> <<>>]
    BY <1>1, Zenon
  <2> QED
    BY <2>1
<1> QED
  BY <1>1, <1>2, <1>3, SameLog

(***************************************************************************)
(* Find takes the oldest rows, so whatever comes before one of them has    *)
(* been sent or is taken too, and sorts them.                              *)
(***************************************************************************)
LEMMA TakenFinite ==
  ASSUME TypeOK, NEW ids \in Taken
  PROVE  /\ ids \in SUBSET Pending /\ Oldest(ids) /\ IsFiniteSet(ids)
         /\ Cardinality(ids) \in Nat /\ Cardinality(ids) <= Limit
<1> DEFINE n == IF Cardinality(Pending) < Limit THEN Cardinality(Pending) ELSE Limit
<1>1. ids \in SUBSET Pending /\ Cardinality(ids) = n /\ Oldest(ids)
  BY DEF Taken, kSubset
<1>2. IsFiniteSet(DOMAIN rows) /\ Pending \in SUBSET DOMAIN rows
  <2>1. Len(rows) \in Nat /\ DOMAIN rows = 1..Len(rows)
    BY Shapes
  <2> QED
    BY <2>1, FS_Interval DEF Pending
<1>3. IsFiniteSet(Pending)
  BY <1>2, FS_Subset
<1>4. IsFiniteSet(ids)
  BY <1>1, <1>3, FS_Subset
<1>5. Cardinality(Pending) \in Nat
  BY <1>3, FS_CardinalityType
<1> QED
  BY <1>1, <1>4, <1>5, LimitAssumption

LEMMA SetToSeqsSound ==
  ASSUME NEW S, IsFiniteSet(S), NEW f \in SetToSeqs(S)
  PROVE  /\ f \in Seq(S) /\ Len(f) = Cardinality(S) /\ DOMAIN f = 1..Cardinality(S)
         /\ \A x \in S : \E k \in DOMAIN f : f[k] = x
<1> DEFINE n == Cardinality(S)
<1>1. n \in Nat
  BY FS_CardinalityType
<1>2. f \in [1..n -> S] /\ \A i, j \in 1..n : i # j => f[i] # f[j]
  BY DEF SetToSeqs
<1>3. f \in Seq(S) /\ Len(f) = n /\ DOMAIN f = 1..n
  <2>1. f \in Seq(S)
    BY <1>1, <1>2, SeqDef
  <2> QED
    BY <1>1, <1>2, <2>1, LenProperties
<1>4. f \in Injection(1..n, S)
  BY <1>2 DEF Injection, IsInjective
<1>5. Cardinality(1..n) = n
  BY <1>1, FS_Interval
<1>6. f \in Surjection(1..n, S)
  BY <1>4, <1>5, FS_Injection
<1>7. \A x \in S : \E k \in 1..n : f[k] = x
  BY <1>6 DEF Surjection
<1> QED
  BY <1>3, <1>7

LEMMA FoundIsSorted ==
  ASSUME IInv, NEW ids \in Taken, NEW found \in SetToSeqs(ids), Ordered(found),
         NEW k \in DOMAIN found, NEW i \in DOMAIN rows, Before(i, found[k])
  PROVE  InTopic(i) \/ \E l \in 1..(k - 1) : found[l] = i
<1>1. /\ ids \in SUBSET Pending /\ Oldest(ids) /\ IsFiniteSet(ids) /\ Cardinality(ids) \in Nat
  BY TakenFinite DEF IInv
<1>2. /\ found \in Seq(ids) /\ Len(found) = Cardinality(ids) /\ DOMAIN found = 1..Cardinality(ids)
      /\ \A x \in ids : \E l \in DOMAIN found : found[l] = x
  BY <1>1, SetToSeqsSound
<1>3. found[k] \in ids /\ k \in Nat
  BY <1>1, <1>2, ElementOfSeq
<1>4. found[k] \in DOMAIN rows /\ found[k] \in Pending
  BY <1>1, <1>3 DEF Pending
<1>5. rows[found[k]].producedAt \in Nat /\ rows[i].producedAt \in Nat
      /\ rows[i].producedAt < rows[found[k]].producedAt
  <2>1. rows[found[k]] \in RowRecords /\ rows[i] \in RowRecords
    BY <1>4, Shapes DEF IInv
  <2> QED
    BY <2>1, BoundsAssumption DEF Before, RowRecords
<1>6. CASE i \notin Pending
  BY <1>6 DEF IInv, SentSound, Pending
<1>7. CASE i \in Pending /\ i \notin ids
  BY <1>1, <1>3, <1>5, <1>7 DEF Oldest
<1>8. CASE i \in ids
  <2>1. PICK l \in DOMAIN found : found[l] = i
    BY <1>2, <1>8
  <2>2. l \in Nat /\ k \in Nat /\ l # k /\ 1 <= l /\ 1 <= k
    <3>1. l \in Nat /\ k \in Nat /\ 1 <= l /\ 1 <= k
      BY <1>1, <1>2
    <3>2. found[l] # found[k]
      BY <1>5, <2>1
    <3> QED
      BY <3>1, <3>2
  <2>3. ~(k < l)
    <3>1. k < l => k \in 1..(l - 1)
      BY <2>2
    <3>2. k \in 1..(l - 1) => rows[found[k]].producedAt <= rows[found[l]].producedAt
      BY DEF Ordered
    <3> QED
      BY <1>5, <2>1, <3>1, <3>2
  <2>4. l \in 1..(k - 1)
    BY <2>2, <2>3
  <2> QED
    BY <2>1, <2>4
<1> QED
  BY <1>6, <1>7, <1>8

LEMMA FindStep ==
  ASSUME IInv, NEW b \in Batches, Find(b)
  PROVE  IInv'
<1>1. PICK ids \in Taken : \E f \in SetToSeqs(ids) : Ordered(f) /\ Get(b, f)
  BY DEF Find
<1>2. PICK f \in SetToSeqs(ids) : Ordered(f) /\ Get(b, f)
  BY <1>1
<1>3. rows' = rows /\ market' = market /\ faults' = faults /\ restarts' = restarts
  BY DEF Find, bounds
<1>4. f \in Seq(DOMAIN rows) /\ Len(f) <= Limit
  <2>1. ids \in SUBSET Pending /\ IsFiniteSet(ids) /\ Cardinality(ids) <= Limit
    BY TakenFinite DEF IInv
  <2>2. f \in Seq(ids) /\ Len(f) = Cardinality(ids)
    BY <2>1, SetToSeqsSound
  <2>3. ids \subseteq DOMAIN rows
    BY <2>1 DEF Pending
  <2> QED
    BY <2>1, <2>2, <2>3, SeqMonotonic
<1>5. CASE UNCHANGED <<batch, producer>>
  <2>1. TypeOK'
    BY <1>3, <1>5 DEF IInv, TypeOK
  <2> QED
    BY <1>3, <1>5, <2>1, SameLog
<1>6. ASSUME NEW pc \in {"connect", "send"}, batch' = [batch EXCEPT ![b] = [pc |-> pc, found |-> f]],
             producer' \in Kafka!States
      PROVE  IInv'
  <2>1. TypeOK'
    BY <1>3, <1>4, <1>6, BatchType DEF IInv
  <2>2. batch'[b] = [pc |-> pc, found |-> f] /\ \A c \in Batches \ {b} : batch'[c] = batch[c]
    BY <1>6 DEF IInv, TypeOK
  <2>3. /\ \A i \in DOMAIN rows : InTopic(i)' = InTopic(i)
        /\ \A i \in DOMAIN rows : \A j : Before(i, j)' = Before(i, j)
    BY <1>3 DEF InTopic, Before
  <2>4. SentSound' /\ LogSound'
    BY <1>3, <2>3 DEF IInv, SentSound, LogSound
  <2>5. MarkSound'
    <3>1. ASSUME NEW c \in Batches, batch'[c].pc = "mark"
          PROVE  \A k \in DOMAIN batch'[c].found : InTopic(batch[c].found[k])'
      <4>1. c # b /\ batch'[c] = batch[c]
        BY <2>2, <3>1
      <4>2. \A k \in DOMAIN batch[c].found : batch[c].found[k] \in DOMAIN rows
        BY Shapes DEF IInv
      <4>3. \A k \in DOMAIN batch[c].found : InTopic(batch[c].found[k])
        BY <3>1, <4>1 DEF IInv, MarkSound
      <4>4. \A k \in DOMAIN batch[c].found : InTopic(batch[c].found[k])'
        BY <1>3, <4>1, <4>3 DEF InTopic
      <4> QED
        BY <4>1, <4>4
    <3> QED
      BY <3>1 DEF MarkSound
  <2>6. FoundSound'
    <3>1. ASSUME NEW c \in Batches, NEW k \in DOMAIN batch'[c].found, NEW i \in DOMAIN rows,
                 Before(i, batch'[c].found[k])
          PROVE  InTopic(i) \/ \E l \in 1..(k - 1) : batch'[c].found[l] = i
      <4>1. CASE c = b
        <5>1. batch'[c].found = f
          BY <2>2, <4>1
        <5> QED
          BY <1>2, <3>1, <5>1, FoundIsSorted
      <4>2. CASE c # b
        <5>1. batch'[c].found = batch[c].found
          BY <2>2, <4>2
        <5> QED
          BY <3>1, <5>1 DEF IInv, FoundSound
      <4> QED
        BY <4>1, <4>2
    <3> QED
      BY <1>3, <2>3, <3>1 DEF FoundSound
  <2> QED
    BY <2>1, <2>4, <2>5, <2>6 DEF IInv
<1>7. \/ UNCHANGED <<batch, producer>>
      \/ producer' = "connecting" /\ batch' = [batch EXCEPT ![b] = [pc |-> "connect", found |-> f]]
      \/ producer' = producer /\ batch' = [batch EXCEPT ![b] = [pc |-> "send", found |-> f]]
  BY <1>2 DEF Get, Kafka!Opened
<1>8. "connecting" \in Kafka!States /\ producer \in Kafka!States
  BY DEF IInv, TypeOK, Kafka!States
<1> QED
  BY <1>5, <1>6, <1>7, <1>8

(***************************************************************************)
(* Mark and Cleanup change the flags of rows that are in the topic.        *)
(***************************************************************************)
LEMMA MarkStep ==
  ASSUME IInv, NEW b \in Batches, Mark(b)
  PROVE  IInv' /\ SameEvents /\ market' = market
<1> DEFINE R(i) == IF i \in ToSet(batch[b].found) /\ ~rows[i].deleted
                   THEN [rows[i] EXCEPT !.published = TRUE, !.attempts = @ + 1] ELSE rows[i]
<1>0. rows' = [i \in DOMAIN rows |-> R(i)]
  BY Zenon DEF Mark
<1> HIDE DEF R
<1>1. /\ market' = market /\ producer' = producer
      /\ faults' = faults /\ restarts' = restarts
      /\ batch' = [batch EXCEPT ![b] = [pc |-> "idle", found |-> <<>>]] /\ batch[b].pc = "mark"
  <2>1. UNCHANGED <<market, producer, bounds>> /\ batch' = [batch EXCEPT ![b] = NoBatch]
        /\ batch[b].pc = "mark"
    BY Zenon DEF Mark
  <2> QED
    BY <2>1 DEF NoBatch, bounds
<1>2. ASSUME NEW i \in DOMAIN rows
      PROVE  /\ R(i) \in RowRecords /\ R(i).type = rows[i].type /\ R(i).producedAt = rows[i].producedAt
             /\ R(i).published \/ R(i).deleted => InTopic(i)
  <2>1. rows[i] \in RowRecords
    BY Shapes DEF IInv
  <2>2. CASE i \in ToSet(batch[b].found) /\ ~rows[i].deleted
    <3>1. R(i) = [rows[i] EXCEPT !.published = TRUE, !.attempts = @ + 1]
      BY <2>2 DEF R
    <3>2. R(i) \in RowRecords /\ R(i).type = rows[i].type /\ R(i).producedAt = rows[i].producedAt
      <4>1. rows[i].attempts + 1 \in Nat
        BY <2>1 DEF RowRecords
      <4> QED
        BY <2>1, <3>1, <4>1 DEF RowRecords
    <3>3. PICK k \in DOMAIN batch[b].found : batch[b].found[k] = i
      BY <2>2 DEF ToSet
    <3>4. InTopic(i)
      BY <1>1, <3>3 DEF IInv, MarkSound
    <3> QED
      BY <3>2, <3>4
  <2>3. CASE ~(i \in ToSet(batch[b].found) /\ ~rows[i].deleted)
    <3>1. R(i) = rows[i]
      BY <2>3 DEF R
    <3> QED
      BY <2>1, <3>1 DEF IInv, SentSound
  <2> QED
    BY <2>2, <2>3
<1>3. DOMAIN rows' = DOMAIN rows /\ \A i \in DOMAIN rows : rows'[i] = R(i)
  BY <1>0
<1>4. rows' \in Seq(RowRecords)
  <2>1. Len(rows) \in Nat /\ rows' \in [1..Len(rows) -> RowRecords]
    BY <1>0, <1>2, Shapes DEF IInv
  <2> QED
    BY <2>1, SeqDef
<1>5. TypeOK'
  <2>1. batch' \in [Batches -> [pc : {"idle", "connect", "send", "mark"}, found : Seq(DOMAIN rows)]]
    BY <1>1, EndType DEF IInv, TypeOK
  <2>2. \A c \in Batches : Len(batch'[c].found) <= Limit
    BY <1>1, EndType DEF IInv, TypeOK
  <2> QED
    BY <1>1, <1>3, <1>4, <2>1, <2>2 DEF IInv, TypeOK
<1>6. batch'[b].found = <<>> /\ \A c \in Batches \ {b} : batch'[c] = batch[c]
  BY <1>1 DEF IInv, TypeOK
<1>7. SameEvents /\ \A i \in DOMAIN rows : rows'[i].published \/ rows'[i].deleted => InTopic(i)
  BY <1>2, <1>3 DEF SameEvents
<1> QED
  BY <1>1, <1>5, <1>6, <1>7, SameTopic

LEMMA CleanupStep ==
  ASSUME IInv, Cleanup
  PROVE  IInv' /\ SameEvents /\ market' = market
<1>1. PICK cutoff \in 1..(MaxTime + 1) :
        /\ rows' = [i \in DOMAIN rows |->
             IF rows[i].published /\ rows[i].producedAt < cutoff
             THEN [rows[i] EXCEPT !.attempts = 0, !.deleted = TRUE] ELSE rows[i]]
        /\ UNCHANGED <<batch, market, producer, bounds>>
  BY Zenon DEF Cleanup
<1>0. batch' = batch /\ market' = market /\ producer' = producer /\ faults' = faults /\ restarts' = restarts
  <2>1. UNCHANGED <<batch, market, producer, bounds>>
    BY <1>1, Zenon
  <2> QED
    BY <2>1 DEF bounds
<1> DEFINE R(i) == IF rows[i].published /\ rows[i].producedAt < cutoff
                   THEN [rows[i] EXCEPT !.attempts = 0, !.deleted = TRUE] ELSE rows[i]
<1>2. ASSUME NEW i \in DOMAIN rows
      PROVE  /\ R(i) \in RowRecords /\ R(i).type = rows[i].type /\ R(i).producedAt = rows[i].producedAt
             /\ R(i).published \/ R(i).deleted => InTopic(i)
  <2>1. rows[i] \in RowRecords
    BY Shapes DEF IInv
  <2>2. CASE rows[i].published /\ rows[i].producedAt < cutoff
    <3>1. R(i) = [rows[i] EXCEPT !.attempts = 0, !.deleted = TRUE]
      BY <2>2
    <3>2. R(i) \in RowRecords /\ R(i).type = rows[i].type /\ R(i).producedAt = rows[i].producedAt
      BY <2>1, <3>1 DEF RowRecords
    <3>3. InTopic(i)
      BY <2>2 DEF IInv, SentSound
    <3> QED
      BY <3>2, <3>3
  <2>3. CASE ~(rows[i].published /\ rows[i].producedAt < cutoff)
    <3>1. R(i) = rows[i]
      BY <2>3
    <3> QED
      BY <2>1, <3>1 DEF IInv, SentSound
  <2> QED
    BY <2>2, <2>3
<1>3. rows' = [i \in DOMAIN rows |-> R(i)]
  BY <1>1, Zenon
<1> HIDE DEF R
<1>4. DOMAIN rows' = DOMAIN rows /\ \A i \in DOMAIN rows : rows'[i] = R(i)
  BY <1>3
<1>5. rows' \in Seq(RowRecords)
  <2>1. Len(rows) \in Nat /\ rows' \in [1..Len(rows) -> RowRecords]
    BY <1>2, <1>3, Shapes DEF IInv
  <2> QED
    BY <2>1, SeqDef
<1>6. TypeOK'
  BY <1>0, <1>4, <1>5 DEF IInv, TypeOK
<1>7. SameEvents /\ \A i \in DOMAIN rows : rows'[i].published \/ rows'[i].deleted => InTopic(i)
  BY <1>2, <1>4 DEF SameEvents
<1> QED
  BY <1>0, <1>6, <1>7, SameTopic

(***************************************************************************)
(* A new row comes before none of those that are there.                    *)
(***************************************************************************)
LEMMA EnqueueStep ==
  ASSUME IInv, Enqueue
  PROVE  IInv'
<1>1. PICK row \in RowRecords :
        /\ rows' = Append(rows, row) /\ ~row.published /\ ~row.deleted
        /\ UNCHANGED <<batch, market, producer, bounds>>
  <2>1. PICK t \in EventTypes, time \in 0..MaxTime :
          rows' = Append(rows, [type |-> t, producedAt |-> time, published |-> FALSE,
                                attempts |-> 0, deleted |-> FALSE])
    BY DEF Enqueue
  <2>2. [type |-> t, producedAt |-> time, published |-> FALSE, attempts |-> 0, deleted |-> FALSE]
          \in RowRecords
    BY DEF RowRecords
  <2> QED
    BY <2>1, <2>2 DEF Enqueue
<1>0. batch' = batch /\ market' = market
  BY <1>1
<1> DEFINE n == Len(rows) + 1
<1>2. /\ Len(rows) \in Nat /\ DOMAIN rows = 1..Len(rows) /\ DOMAIN rows' = 1..n /\ n \notin DOMAIN rows
      /\ rows'[n] = row /\ \A i \in DOMAIN rows : rows'[i] = rows[i]
      /\ rows' \in Seq(RowRecords) /\ DOMAIN rows \subseteq DOMAIN rows'
  <2>1. rows \in Seq(RowRecords)
    BY DEF IInv, TypeOK
  <2> QED
    BY <1>1, <2>1
<1>3. TypeOK'
  <2>1. \A f \in Seq(DOMAIN rows) : f \in Seq(DOMAIN rows')
    BY <1>2, SeqMonotonic
  <2>2. batch' \in [Batches -> [pc : {"idle", "connect", "send", "mark"}, found : Seq(DOMAIN rows')]]
    <3>1. ASSUME NEW b \in Batches
          PROVE  batch[b] \in [pc : {"idle", "connect", "send", "mark"}, found : Seq(DOMAIN rows')]
      <4>1. batch[b] \in [pc : {"idle", "connect", "send", "mark"}, found : Seq(DOMAIN rows)]
        BY DEF IInv, TypeOK
      <4> QED
        BY <2>1, <4>1
    <3>2. batch' = batch /\ DOMAIN batch = Batches
      BY <1>1 DEF IInv, TypeOK
    <3>3. batch = [b \in Batches |-> batch[b]]
      BY DEF IInv, TypeOK
    <3> QED
      BY <3>1, <3>2, <3>3
  <2>3. market' \in [EventTypes -> Seq(DOMAIN rows')]
    BY <1>1, <2>1 DEF IInv, TypeOK
  <2> QED
    BY <1>1, <1>2, <2>2, <2>3 DEF IInv, TypeOK, bounds
<1>4. /\ \A b \in Batches : \A k \in DOMAIN batch[b].found : batch[b].found[k] \in DOMAIN rows
      /\ \A t \in EventTypes : \A k \in DOMAIN market[t] : market[t][k] \in DOMAIN rows
  BY Shapes DEF IInv
<1>5. /\ \A i \in DOMAIN rows : InTopic(i) => InTopic(i)'
      /\ \A i \in DOMAIN rows', j \in DOMAIN rows :
           Before(i, j)' => i \in DOMAIN rows /\ Before(i, j)
  <2>1. \A i \in DOMAIN rows : InTopic(i) => InTopic(i)'
    BY <1>1, <1>2 DEF InTopic
  <2>2. ASSUME NEW i \in DOMAIN rows', NEW j \in DOMAIN rows, Before(i, j)'
        PROVE  i \in DOMAIN rows /\ Before(i, j)
    <3>1. i < j
      BY <2>2 DEF Before
    <3>2. i \in DOMAIN rows
      BY <1>2, <3>1
    <3> QED
      BY <1>2, <2>2, <3>2 DEF Before
  <2> QED
    BY <2>1, <2>2
<1>6. SentSound'
  <2> SUFFICES ASSUME NEW i \in DOMAIN rows', rows'[i].published \/ rows'[i].deleted
               PROVE  InTopic(i)'
    BY DEF SentSound
  <2>1. i \in DOMAIN rows
    BY <1>1, <1>2
  <2> QED
    BY <1>2, <1>5, <2>1 DEF IInv, SentSound
<1>7. MarkSound'
  <2> SUFFICES ASSUME NEW b \in Batches, batch[b].pc = "mark", NEW k \in DOMAIN batch[b].found,
                      NEW i, i = batch[b].found[k]
               PROVE  InTopic(i)'
    BY <1>0, Zenon DEF MarkSound
  <2>1. InTopic(i) /\ i \in DOMAIN rows
    BY <1>4 DEF IInv, MarkSound
  <2> QED
    BY <1>5, <2>1
<1>8. FoundSound'
  <2> SUFFICES ASSUME NEW b \in Batches, NEW k \in DOMAIN batch[b].found, NEW i \in DOMAIN rows',
                      NEW j, j = batch[b].found[k], Before(i, j)'
               PROVE  InTopic(i)' \/ \E l \in 1..(k - 1) : batch[b].found[l] = i
    BY <1>0, ZenonT(40) DEF FoundSound
  <2>1. j \in DOMAIN rows /\ i \in DOMAIN rows /\ Before(i, j)
    BY <1>4, <1>5
  <2> QED
    BY <1>5, <2>1 DEF IInv, FoundSound
<1>9. LogSound'
  <2> SUFFICES ASSUME NEW t \in EventTypes, NEW k \in DOMAIN market[t]
               PROVE  /\ rows'[market[t][k]].type = t
                      /\ \A i \in DOMAIN rows' : Before(i, market[t][k])' =>
                           \E l \in 1..(k - 1) : market[t][l] = i
    BY <1>0 DEF LogSound
  <2>1. market[t][k] \in DOMAIN rows /\ market' = market
    BY <1>0, <1>4
  <2> QED
    BY <1>2, <1>5, <2>1 DEF IInv, LogSound
<1> QED
  BY <1>3, <1>6, <1>7, <1>8, <1>9 DEF IInv

(***************************************************************************)
(* Send: a partition grows by the batch's rows of its type, in order.      *)
(***************************************************************************)
LEMMA Grown ==
  ASSUME IInv, NEW b \in Batches, NEW types \in SUBSET EventTypes, NEW t \in EventTypes,
         NEW m, m = market[t], NEW f, f = batch[b].found, NEW w, w = Sent(b, types)[t]
  PROVE  /\ w \in Seq(DOMAIN rows) /\ Len(m) <= Len(w) /\ Len(m) \in Nat /\ Len(w) \in Nat
         /\ DOMAIN m = 1..Len(m) /\ DOMAIN w = 1..Len(w)
         /\ \A i \in 1..Len(m) : w[i] = m[i]
         /\ \A i \in (Len(m) + 1)..Len(w) : Follows(w, i, f, t)
         /\ t \in types => Covers(w, f, t)
<1>1. m \in Seq(DOMAIN rows) /\ Len(m) \in Nat /\ DOMAIN m = 1..Len(m)
  BY LenProperties DEF IInv, TypeOK
<1>2. CASE t \notin types
  <2>1. w = m
    BY <1>2 DEF Sent
  <2> QED
    BY <1>1, <1>2, <2>1
<1>3. CASE t \in types
  <2> DEFINE s == OfType(f, t)
             n == Len(f)
  <2>1. w = m \o s
    BY <1>3 DEF Sent
  <2>2. n \in Nat /\ DOMAIN f = 1..n /\ \A k \in DOMAIN f : f[k] \in DOMAIN rows
    BY Shapes DEF IInv
  <2> HIDE DEF n
  <2>3. /\ s \in Seq(ToSet(f))
        /\ \A i \in DOMAIN s : Follows(s, i, f, t)
        /\ Covers(s, f, t)
    BY <2>2, OfTypeSound
  <2> HIDE DEF s
  <2>4. ToSet(f) \subseteq DOMAIN rows
    BY <2>2 DEF ToSet
  <2>5. s \in Seq(DOMAIN rows)
    BY <2>3, <2>4, SeqMonotonic
  <2>6. Len(s) \in Nat /\ DOMAIN s = 1..Len(s)
    BY <2>5, LenProperties
  <2>7. /\ w \in Seq(DOMAIN rows) /\ Len(w) = Len(m) + Len(s)
        /\ \A i \in 1..Len(w) : w[i] = IF i <= Len(m) THEN m[i] ELSE s[i - Len(m)]
    BY <1>1, <2>1, <2>5, ConcatProperties
  <2>8. DOMAIN w = 1..Len(w) /\ Len(w) \in Nat
    BY <1>1, <2>6, <2>7, LenProperties
  <2>9. \A j \in 1..Len(s) : w[Len(m) + j] = s[j] /\ Len(m) + j \in 1..Len(w)
    <3>1. \A j \in 1..Len(s) : Len(m) + j \in 1..Len(w) /\ ~(Len(m) + j <= Len(m)) /\ (Len(m) + j) - Len(m) = j
      BY <1>1, <2>6, <2>7
    <3> QED
      BY <2>7, <3>1
  <2>10. ASSUME NEW i \in (Len(m) + 1)..Len(w)
         PROVE  Follows(w, i, f, t)
    <3>1. PICK i0 \in 1..Len(s) : i = Len(m) + i0
      <4>1. i - Len(m) \in 1..Len(s) /\ i = Len(m) + (i - Len(m))
        BY <1>1, <2>6, <2>7
      <4> QED
        BY <4>1
    <3>2. w[i] = s[i0]
      BY <2>9, <3>1
    <3>a. Follows(s, i0, f, t)
      BY <2>3, <2>6
    <3>3. PICK k \in DOMAIN f :
             /\ s[i0] = f[k] /\ rows[f[k]].type = t
             /\ \A l \in 1..(k - 1) : rows[f[l]].type = t => \E j \in 1..(i0 - 1) : s[j] = f[l]
      BY <3>a DEF Follows
    <3>4. ASSUME NEW l \in 1..(k - 1), rows[f[l]].type = t
          PROVE  \E j \in 1..(i - 1) : w[j] = f[l]
      <4>1. PICK j0 \in 1..(i0 - 1) : s[j0] = f[l]
        BY <3>3, <3>4
      <4>2. j0 \in 1..Len(s) /\ Len(m) + j0 \in 1..(i - 1)
        BY <1>1, <2>6, <3>1
      <4> QED
        BY <2>9, <4>1, <4>2
    <3> QED
      BY <2>2, <3>2, <3>3, <3>4 DEF Follows
  <2>11. Covers(w, f, t)
    <3>1. ASSUME NEW k \in DOMAIN f, rows[f[k]].type = t
          PROVE  \E i \in 1..Len(w) : w[i] = f[k]
      <4>1. PICK i \in 1..Len(s) : s[i] = f[k]
        BY <2>3, <2>6, <3>1 DEF Covers
      <4> QED
        BY <2>9, <4>1
    <3> QED
      BY <2>8, <3>1 DEF Covers
  <2>12. Len(m) <= Len(w) /\ \A i \in 1..Len(m) : w[i] = m[i]
    BY <1>1, <2>6, <2>7
  <2> QED
    BY <1>1, <2>7, <2>8, <2>10, <2>11, <2>12
<1> QED
  BY <1>2, <1>3

\* What comes before a row that is sent was sent, or is sent before it.
LEMMA GrownInOrder ==
  ASSUME IInv, NEW b \in Batches, NEW types \in SUBSET EventTypes, NEW t \in EventTypes,
         NEW w, w = Sent(b, types)[t], NEW k \in DOMAIN w
  PROVE  /\ w[k] \in DOMAIN rows /\ rows[w[k]].type = t
         /\ \A i \in DOMAIN rows : Before(i, w[k]) => \E l \in 1..(k - 1) : w[l] = i
<1>0. PICK m, f : m = market[t] /\ f = batch[b].found
  OBVIOUS
<1>1. /\ w \in Seq(DOMAIN rows) /\ Len(m) <= Len(w) /\ Len(m) \in Nat /\ Len(w) \in Nat
      /\ DOMAIN m = 1..Len(m) /\ DOMAIN w = 1..Len(w)
      /\ \A i \in 1..Len(m) : w[i] = m[i]
      /\ \A i \in (Len(m) + 1)..Len(w) : Follows(w, i, f, t)
  BY <1>0, Grown
<1>2. w[k] \in DOMAIN rows
  BY <1>1, ElementOfSeq
<1>3. CASE k \in 1..Len(m)
  <2>1. /\ rows[m[k]].type = t
        /\ \A i \in DOMAIN rows : Before(i, m[k]) => \E l \in 1..(k - 1) : m[l] = i
    BY <1>0, <1>1, <1>3 DEF IInv, LogSound
  <2>2. w[k] = m[k] /\ \A l \in 1..(k - 1) : w[l] = m[l]
    BY <1>1, <1>3
  <2> QED
    BY <1>2, <2>1, <2>2
<1>4. CASE k \in (Len(m) + 1)..Len(w)
  <2>1. PICK j \in DOMAIN f :
           /\ w[k] = f[j] /\ rows[f[j]].type = t
           /\ \A l \in 1..(j - 1) : rows[f[l]].type = t => \E h \in 1..(k - 1) : w[h] = f[l]
    BY <1>1, <1>4 DEF Follows
  <2>2. ASSUME NEW i \in DOMAIN rows, Before(i, w[k])
        PROVE  \E l \in 1..(k - 1) : w[l] = i
    <3>1. InTopic(i) \/ \E l \in 1..(j - 1) : f[l] = i
      BY <1>0, <2>1, <2>2 DEF IInv, FoundSound
    <3>2. rows[i].type = t
      BY <2>1, <2>2 DEF Before
    <3>3. CASE InTopic(i)
      <4>1. PICK l \in 1..Len(m) : m[l] = i
        BY <1>0, <1>1, <3>2, <3>3 DEF InTopic
      <4>2. l \in 1..(k - 1) /\ w[l] = m[l]
        BY <1>1, <1>4
      <4> QED
        BY <4>1, <4>2
    <3>4. CASE \E l \in 1..(j - 1) : f[l] = i
      BY <2>1, <3>2, <3>4
    <3> QED
      BY <3>1, <3>3, <3>4
  <2> QED
    BY <1>2, <2>1, <2>2
<1>5. k \in 1..Len(m) \/ k \in (Len(m) + 1)..Len(w)
  BY <1>1
<1> QED
  BY <1>3, <1>4, <1>5

\* What a send leaves in the topic, whole or in part.
LEMMA Sends ==
  ASSUME IInv, NEW b \in Batches, NEW types \in SUBSET EventTypes, market' = Sent(b, types),
         NEW t \in EventTypes
  PROVE  /\ market'[t] \in Seq(DOMAIN rows) /\ Len(market[t]) <= Len(market'[t])
         /\ DOMAIN market[t] \subseteq DOMAIN market'[t]
         /\ \A i \in DOMAIN market[t] : market'[t][i] = market[t][i]
         /\ t \in types => Covers(market'[t], batch[b].found, t)
         /\ \A i \in DOMAIN market'[t] :
              /\ market'[t][i] \in DOMAIN rows /\ rows[market'[t][i]].type = t
              /\ \A j \in DOMAIN rows : Before(j, market'[t][i]) =>
                   \E l \in 1..(i - 1) : market'[t][l] = j
<1>1. PICK m, f, w : m = market[t] /\ f = batch[b].found /\ w = Sent(b, types)[t]
  OBVIOUS
<1>2. /\ w \in Seq(DOMAIN rows) /\ Len(m) <= Len(w) /\ Len(m) \in Nat /\ Len(w) \in Nat
      /\ DOMAIN m = 1..Len(m) /\ DOMAIN w = 1..Len(w)
      /\ \A i \in 1..Len(m) : w[i] = m[i]
      /\ t \in types => Covers(w, f, t)
  BY <1>1, Grown
<1>3. \A i \in DOMAIN w :
        /\ w[i] \in DOMAIN rows /\ rows[w[i]].type = t
        /\ \A j \in DOMAIN rows : Before(j, w[i]) => \E l \in 1..(i - 1) : w[l] = j
  BY <1>1, GrownInOrder
<1>4. market'[t] = w
  BY <1>1
<1> QED
  BY <1>1, <1>2, <1>3, <1>4

LEMMA Sending ==
  ASSUME IInv, NEW b \in Batches, NEW types \in SUBSET EventTypes,
         rows' = rows, producer' = producer, restarts' = restarts,
         faults' = faults \/ (faults + restarts < MaxFailures /\ faults' = faults + 1),
         market' = Sent(b, types), NEW k,
         \/ k = [pc |-> "idle", found |-> <<>>]
         \/ k = [pc |-> "send", found |-> batch[b].found]
         \/ k = [pc |-> "mark", found |-> batch[b].found] /\ types = EventTypes,
         batch' = [batch EXCEPT ![b] = k]
  PROVE  IInv'
<1>1. ASSUME NEW t \in EventTypes
      PROVE  /\ market'[t] \in Seq(DOMAIN rows)
             /\ DOMAIN market[t] \subseteq DOMAIN market'[t]
             /\ \A i \in DOMAIN market[t] : market'[t][i] = market[t][i]
             /\ t \in types => Covers(market'[t], batch[b].found, t)
             /\ \A i \in DOMAIN market'[t] :
                  /\ market'[t][i] \in DOMAIN rows /\ rows[market'[t][i]].type = t
                  /\ \A j \in DOMAIN rows : Before(j, market'[t][i]) =>
                       \E l \in 1..(i - 1) : market'[t][l] = j
  BY Sends
<1>2. DOMAIN market' = EventTypes
  BY DEF Sent
<1>3. batch'[b] = k /\ \A c \in Batches \ {b} : batch'[c] = batch[c]
  BY DEF IInv, TypeOK
<1>4. TypeOK'
  <2>1. batch[b].found \in Seq(DOMAIN rows) /\ <<>> \in Seq(DOMAIN rows)
        /\ Len(batch[b].found) <= Limit /\ Len(<<>>) <= Limit
    BY EndType DEF IInv
  <2>2. batch' \in [Batches -> [pc : {"idle", "connect", "send", "mark"}, found : Seq(DOMAIN rows)]]
    <3>1. k \in [pc : {"idle", "connect", "send", "mark"}, found : Seq(DOMAIN rows)]
      <4>1. CASE k = [pc |-> "idle", found |-> <<>>]
        BY <2>1, <4>1
      <4>2. CASE k = [pc |-> "mark", found |-> batch[b].found]
        BY <2>1, <4>2
      <4>3. CASE k = [pc |-> "send", found |-> batch[b].found]
        BY <2>1, <4>3
      <4> QED
        BY <4>1, <4>2, <4>3
    <3> QED
      BY <3>1 DEF IInv, TypeOK
  <2>3. \A c \in Batches : Len(batch'[c].found) <= Limit
    BY <1>3, <2>1 DEF IInv, TypeOK
  <2>4. faults' \in Nat /\ restarts' \in Nat /\ faults' + restarts' <= MaxFailures
    BY BoundsAssumption DEF IInv, TypeOK
  <2>5. market' \in [EventTypes -> Seq(DOMAIN rows)]
    <3>1. market' = [t \in EventTypes |-> market'[t]]
      BY DEF Sent
    <3> QED
      BY <1>1, <3>1
  <2> QED
    BY <2>2, <2>3, <2>4, <2>5 DEF IInv, TypeOK
<1>5. /\ \A i \in DOMAIN rows : rows[i].type \in EventTypes
      /\ \A c \in Batches : \A l \in DOMAIN batch[c].found : batch[c].found[l] \in DOMAIN rows
  BY Shapes DEF IInv, RowRecords
<1>6. \A i \in DOMAIN rows : InTopic(i) => InTopic(i)'
  <2> SUFFICES ASSUME NEW i \in DOMAIN rows, InTopic(i) PROVE InTopic(i)'
    OBVIOUS
  <2>1. PICK l \in DOMAIN market[rows[i].type] : market[rows[i].type][l] = i
    BY DEF InTopic
  <2>2. l \in DOMAIN market'[rows[i].type] /\ market'[rows[i].type][l] = i
    BY <1>1, <1>5, <2>1
  <2> QED
    BY <2>2 DEF InTopic
<1>7. SentSound'
  BY <1>6 DEF IInv, SentSound
<1>8. MarkSound'
  <2> SUFFICES ASSUME NEW c \in Batches, batch'[c].pc = "mark", NEW l \in DOMAIN batch'[c].found,
                      NEW i, i = batch'[c].found[l]
               PROVE  InTopic(i)'
    BY Zenon DEF MarkSound
  <2>1. CASE c # b
    <3>1. InTopic(i) /\ i \in DOMAIN rows
      BY <1>3, <1>5, <2>1 DEF IInv, MarkSound
    <3> QED
      BY <1>6, <3>1
  <2>2. CASE c = b
    <3>1. batch'[c].found = batch[b].found /\ types = EventTypes
      BY <1>3, <2>2
    <3>2. i \in DOMAIN rows /\ rows[i].type \in EventTypes
      BY <1>5, <3>1
    <3>3. Covers(market'[rows[i].type], batch[b].found, rows[i].type)
      BY <1>1, <3>1, <3>2
    <3>4. l \in DOMAIN batch[b].found /\ batch[b].found[l] = i
      BY <2>2, <3>1
    <3>5. PICK j \in DOMAIN market'[rows[i].type] : market'[rows[i].type][j] = i
      BY <3>3, <3>4, ZenonT(20) DEF Covers
    <3> QED
      BY <3>5, Zenon DEF InTopic
  <2> QED
    BY <2>1, <2>2
<1>9. FoundSound'
  <2> SUFFICES ASSUME NEW c \in Batches, NEW l \in DOMAIN batch'[c].found, NEW i \in DOMAIN rows,
                      NEW j, j = batch'[c].found[l], Before(i, j)
               PROVE  InTopic(i)' \/ \E h \in 1..(l - 1) : batch'[c].found[h] = i
    BY DEF FoundSound, Before
  <2>1. batch'[c].found = batch[c].found
    <3>1. DOMAIN <<>> = {}
      OBVIOUS
    <3> QED
      BY <1>3, <3>1
  <2>2. InTopic(i) \/ \E h \in 1..(l - 1) : batch[c].found[h] = i
    BY <2>1 DEF IInv, FoundSound
  <2> QED
    BY <1>6, <2>1, <2>2
<1>10. LogSound'
  <2> SUFFICES ASSUME NEW t \in EventTypes, NEW l \in DOMAIN market'[t], NEW j, j = market'[t][l]
               PROVE  /\ rows[j].type = t
                      /\ \A i \in DOMAIN rows : Before(i, j) => \E h \in 1..(l - 1) : market'[t][h] = i
    BY DEF LogSound, Before
  <2> QED
    BY <1>1
<1> QED
  BY <1>4, <1>7, <1>8, <1>9, <1>10 DEF IInv

LEMMA SendStep == ASSUME IInv, NEW b \in Batches, Send(b) PROVE IInv'
<1>1. /\ market' = Sent(b, EventTypes) /\ rows' = rows /\ producer' = producer
      /\ faults' = faults /\ restarts' = restarts /\ batch' = [batch EXCEPT ![b].pc = "mark"]
  BY DEF Send, bounds
<1>2. PICK k : k = [pc |-> "mark", found |-> batch[b].found]
  OBVIOUS
<1>3. batch' = [batch EXCEPT ![b] = k]
  <2>1. batch[b] \in [pc : {"idle", "connect", "send", "mark"}, found : Seq(DOMAIN rows)]
    BY DEF IInv, TypeOK
  <2>2. [batch[b] EXCEPT !.pc = "mark"] = k
    BY <1>2, <2>1
  <2> QED
    BY <1>1, <2>2
<1> QED
  BY <1>1, <1>2, <1>3, Sending

LEMMA SendFailsStep == ASSUME IInv, NEW b \in Batches, SendFails(b) PROVE IInv'
<1>1. PICK types \in SUBSET EventTypes : market' = Sent(b, types)
  BY DEF SendFails
<1>2. /\ rows' = rows /\ producer' = producer /\ restarts' = restarts
      /\ faults + restarts < MaxFailures /\ faults' = faults + 1
      /\ batch' = [batch EXCEPT ![b] = NoBatch]
  BY DEF SendFails, Fault
<1>3. PICK k : k = [pc |-> "idle", found |-> <<>>]
  OBVIOUS
<1>4. batch' = [batch EXCEPT ![b] = k]
  BY <1>2, <1>3 DEF NoBatch
<1> QED
  BY <1>1, <1>2, <1>3, <1>4, Sending

LEMMA SendRetriesStep == ASSUME IInv, NEW b \in Batches, SendRetries(b) PROVE IInv'
<1>1. PICK types \in SUBSET EventTypes : market' = Sent(b, types)
  BY DEF SendRetries
<1>2. /\ rows' = rows /\ producer' = producer /\ restarts' = restarts
      /\ faults + restarts < MaxFailures /\ faults' = faults + 1
      /\ batch' = batch /\ batch[b].pc = "send"
  BY DEF SendRetries, Fault
<1>3. PICK k : k = [pc |-> "send", found |-> batch[b].found]
  OBVIOUS
<1>4. batch' = [batch EXCEPT ![b] = k]
  <2>1. batch[b] = k
    BY <1>2, <1>3 DEF IInv, TypeOK
  <2> QED
    BY <1>2, <2>1 DEF IInv, TypeOK
<1> QED
  BY <1>1, <1>2, <1>3, <1>4, Sending

LEMMA NextIInv == ASSUME IInv, [Next]_vars PROVE IInv'
<1>1. CASE Enqueue \/ Cleanup \/ Restart
  BY <1>1, EnqueueStep, CleanupStep, RestartStep
<1>2. ASSUME NEW b \in Batches,
             \/ Publish(b) \/ ConnectFails(b) \/ SendFails(b) \/ SendRetries(b)
             \/ MarkFails(b)
      PROVE  IInv'
  BY <1>2, FindStep, ConnectStep, SendStep, MarkStep, EndStep, SendFailsStep, SendRetriesStep
     DEF Publish
<1>3. CASE UNCHANGED vars
  <2>1. TypeOK'
    BY <1>3 DEF vars, bounds, IInv, TypeOK
  <2> QED
    BY <1>3, <2>1, SameLog DEF vars
<1> QED
  BY <1>1, <1>2, <1>3 DEF Next

LEMMA Invariance == Spec => []IInv
<1>1. Init => IInv
  BY InitIInv
<1>2. IInv /\ [Next]_vars => IInv'
  BY NextIInv
<1> QED
  BY <1>1, <1>2, PTL DEF Spec

\* Rows, batches, topic and producer keep their types: a batch never holds more
\* rows than the findMany of publishOutboxBatch takes.
THEOREM Types == Spec => []TypeOK
<1>1. IInv => TypeOK
  BY DEF IInv
<1> QED
  BY <1>1, Invariance, PTL

\* updateMany marks only rows whose events are in the market topic, and the
\* cleanup therefore deletes no event that is still to be sent.
THEOREM Published == Spec => []PublishedWasSent
<1>1. IInv => PublishedWasSent
  <2> SUFFICES ASSUME IInv, NEW i \in DOMAIN rows, rows[i].published \/ rows[i].deleted
               PROVE  Copies(i) > 0
    BY DEF PublishedWasSent
  <2> QED
    BY InTopicIsCopied DEF IInv, SentSound
<1> QED
  BY <1>1, Invariance, PTL

(***************************************************************************)
(* AttemptsCountDeliveries. A batch has no row twice, so its send adds one *)
(* copy of each of its rows, for which the batch then counts as marking,   *)
(* until its update moves that one to attempts. Each failing send or       *)
(* update, and each batch that a restart cuts short, costs one.            *)
(***************************************************************************)
FoundOnce ==
  \A b \in Batches : \A k, l \in DOMAIN batch[b].found :
    k # l => batch[b].found[k] # batch[b].found[l]

\* Of a row: its attempts, the batches marking it, its copies, and what was lost.
Reckons(attempts, marking, copies, lost, cut) ==
  attempts + marking <= copies /\ copies <= attempts + marking + lost + cut

Cut == restarts * Cardinality(Batches)

Reckoned ==
  \A i \in DOMAIN rows : ~rows[i].deleted =>
    Reckons(rows[i].attempts, Cardinality(Marking(i)), Copies(i), faults, Cut)

LEMMA ReckonedNext ==
  ASSUME \A i \in DOMAIN rows' : ~rows'[i].deleted =>
           Reckons(rows'[i].attempts, Cardinality(Marking(i)'), Copies(i)', faults', Cut')
  PROVE  Reckoned'
BY DEF Reckoned, Reckons, Marking, Copies, Cut

LEMMA CutType ==
  Cardinality(Batches) \in Nat /\ \A r \in Nat : r * Cardinality(Batches) \in Nat
    /\ (r + 1) * Cardinality(Batches) = r * Cardinality(Batches) + Cardinality(Batches)
<1>1. Cardinality(Batches) \in Nat
  BY BatchesAssumption, FS_CardinalityType
<1> QED
  BY <1>1

LEMMA MarkingType ==
  ASSUME NEW i
  PROVE  /\ IsFiniteSet(Marking(i)) /\ Cardinality(Marking(i)) \in Nat
         /\ Cardinality(Marking(i)) <= Cardinality(Batches)
<1>1. Marking(i) \in SUBSET Batches
  BY DEF Marking
<1> QED
  BY <1>1, BatchesAssumption, FS_Subset, FS_CardinalityType

\* How often i is in s.
Count(s, i) == Cardinality({k \in DOMAIN s : s[k] = i})

LEMMA CountType ==
  ASSUME NEW S, NEW s \in Seq(S), NEW i
  PROVE  IsFiniteSet({k \in DOMAIN s : s[k] = i}) /\ Count(s, i) \in Nat
<1>1. IsFiniteSet(DOMAIN s)
  BY LenProperties, FS_Interval
<1>2. {k \in DOMAIN s : s[k] = i} \in SUBSET DOMAIN s
  OBVIOUS
<1> QED
  BY <1>1, <1>2, FS_Subset, FS_CardinalityType DEF Count

LEMMA CountConcat ==
  ASSUME NEW S, NEW s \in Seq(S), NEW u \in Seq(S), NEW i
  PROVE  Count(s \o u, i) = Count(s, i) + Count(u, i)
<1> DEFINE n == Len(s)
           P == {k \in DOMAIN s : s[k] = i}
           Q == {k \in DOMAIN u : u[k] = i}
           R == {k \in 1..n + Len(u) : k > n /\ u[k - n] = i}
<1>1. PICK w : w = s \o u
  OBVIOUS
<1>2. /\ n \in Nat /\ DOMAIN s = 1..n /\ Len(u) \in Nat /\ DOMAIN u = 1..Len(u)
      /\ w \in Seq(S) /\ DOMAIN w = 1..n + Len(u)
      /\ \A k \in 1..n + Len(u) : w[k] = IF k <= n THEN s[k] ELSE u[k - n]
  <2>1. w \in Seq(S) /\ Len(w) = Len(s) + Len(u)
    BY <1>1, ConcatProperties
  <2> QED
    BY <1>1, <2>1, ConcatProperties, LenProperties
<1>3. IsFiniteSet(P) /\ IsFiniteSet(Q) /\ Cardinality(P) \in Nat /\ Cardinality(Q) \in Nat
  BY CountType DEF Count
<1>4. {k \in DOMAIN w : w[k] = i} = P \cup R
  BY <1>2
<1>5. P \cap R = {}
  BY <1>2
<1>6. PICK f : f = [k \in Q |-> k + n]
  OBVIOUS
<1>7. f \in [Q -> R]
  BY <1>2, <1>6
<1>8. f \in Bijection(Q, R)
  <2>1. \A k, l \in Q : f[k] = f[l] => k = l
    BY <1>2, <1>6
  <2>2. ASSUME NEW r \in R PROVE \E k \in Q : f[k] = r
    <3>1. r - n \in Q /\ f[r - n] = r
      BY <1>2, <1>6
    <3> QED
      BY <3>1
  <2> QED
    BY <1>7, <2>1, <2>2 DEF Bijection, Injection, Surjection, IsInjective
<1>9. ExistsBijection(Q, R)
  BY <1>8 DEF ExistsBijection
<1> HIDE DEF P, Q, R
<1>10. IsFiniteSet(R) /\ Cardinality(R) = Cardinality(Q)
  BY <1>3, <1>9, FS_Bijection
<1>11. Cardinality(P \cup R) = Cardinality(P) + Cardinality(R) - 0
  BY <1>3, <1>5, <1>10, FS_Union, FS_EmptySet
<1>12. Count(w, i) = Cardinality(P \cup R) /\ Count(s, i) = Cardinality(P)
       /\ Count(u, i) = Cardinality(Q)
  BY <1>4 DEF Count, P, Q
<1> QED
  BY <1>1, <1>3, <1>10, <1>11, <1>12

LEMMA CountOnce ==
  ASSUME NEW s, NEW i, \A k, l \in DOMAIN s : k # l => s[k] # s[l]
  PROVE  Count(s, i) = IF \E k \in DOMAIN s : s[k] = i THEN 1 ELSE 0
<1>1. CASE \E k \in DOMAIN s : s[k] = i
  <2>1. PICK k \in DOMAIN s : s[k] = i
    BY <1>1
  <2>2. {l \in DOMAIN s : s[l] = i} = {k}
    BY <2>1
  <2> QED
    BY <1>1, <2>2, FS_Singleton DEF Count
<1>2. CASE ~\E k \in DOMAIN s : s[k] = i
  <2>1. {l \in DOMAIN s : s[l] = i} = {}
    BY <1>2
  <2> QED
    BY <1>2, <2>1, FS_EmptySet DEF Count
<1> QED
  BY <1>1, <1>2

\* A send adds a copy of each row it has of the partitions it reaches.
LEMMA SentCopies ==
  ASSUME TypeOK, FoundOnce, NEW b \in Batches, NEW types \in SUBSET EventTypes,
         market' = Sent(b, types), rows' = rows, NEW i \in DOMAIN rows
  PROVE  Copies(i)' = IF rows[i].type \in types /\ i \in ToSet(batch[b].found)
                      THEN Copies(i) + 1 ELSE Copies(i)
<1>1. PICK t, m, f : t = rows[i].type /\ m = market[t] /\ f = batch[b].found
  OBVIOUS
<1>2. t \in EventTypes /\ m \in Seq(DOMAIN rows) /\ f \in Seq(DOMAIN rows)
  BY <1>1, Shapes DEF TypeOK, RowRecords
<1>3. /\ DOMAIN f = 1..Len(f) /\ Len(f) \in Nat
      /\ \A k, l \in DOMAIN f : k # l => f[k] # f[l]
      /\ \A k \in DOMAIN f : f[k] \in DOMAIN rows
  BY <1>1, <1>2, LenProperties, ElementOfSeq DEF FoundOnce
<1>4. Copies(i) = Count(m, i) /\ Copies(i)' = Count(market'[t], i)
  BY <1>1 DEF Copies, Count
<1>5. market'[t] = IF t \in types THEN m \o OfType(f, t) ELSE m
  BY <1>1, <1>2 DEF Sent
<1>6. PICK s : s = OfType(f, t)
  OBVIOUS
<1>7. /\ s \in Seq(ToSet(f)) /\ \A j \in DOMAIN s : Follows(s, j, f, t)
      /\ Covers(s, f, t) /\ \A k, l \in DOMAIN s : k # l => s[k] # s[l]
  BY <1>3, <1>6, OfTypeSound
<1>8. s \in Seq(DOMAIN rows)
  <2>1. ToSet(f) \subseteq DOMAIN rows
    BY <1>3 DEF ToSet
  <2> QED
    BY <1>7, <2>1, SeqMonotonic
<1>9. (\E k \in DOMAIN s : s[k] = i) <=> i \in ToSet(f)
  <2>1. ASSUME NEW k \in DOMAIN s, s[k] = i PROVE i \in ToSet(f)
    BY <1>7, <2>1 DEF Follows, ToSet
  <2>2. ASSUME i \in ToSet(f) PROVE \E k \in DOMAIN s : s[k] = i
    <3>1. PICK k \in DOMAIN f : f[k] = i
      BY <2>2 DEF ToSet
    <3> QED
      BY <1>1, <1>7, <3>1 DEF Covers
  <2> QED
    BY <2>1, <2>2
<1>10. Count(s, i) = IF i \in ToSet(f) THEN 1 ELSE 0
  BY <1>7, <1>9, CountOnce
<1>11. Count(m \o s, i) = Count(m, i) + Count(s, i) /\ Count(m, i) \in Nat
  BY <1>2, <1>8, CountConcat, CountType
<1> QED
  BY <1>1, <1>4, <1>5, <1>6, <1>10, <1>11

LEMMA CopiesType ==
  ASSUME TypeOK, NEW i \in DOMAIN rows PROVE Copies(i) \in Nat
<1>1. market[rows[i].type] \in Seq(DOMAIN rows)
  BY Shapes DEF TypeOK, RowRecords
<1> QED
  BY <1>1, CountType DEF Copies, Count

\* A batch that a step writes, and the rows it is marking after it.
LEMMA MarkingWritten ==
  ASSUME TypeOK, NEW b \in Batches, NEW k, batch' = [batch EXCEPT ![b] = k], NEW i
  PROVE  /\ k.pc = "mark" /\ i \in ToSet(k.found) => Marking(i)' = Marking(i) \cup {b}
         /\ ~(k.pc = "mark" /\ i \in ToSet(k.found)) => Marking(i)' = Marking(i) \ {b}
<1>1. batch'[b] = k /\ \A c \in Batches \ {b} : batch'[c] = batch[c]
  BY DEF TypeOK
<1> QED
  BY <1>1 DEF Marking

\* Steps of a batch that neither sends nor marks: it may lose what it was
\* marking, if a fault is counted.
LEMMA ReckonedQuiet ==
  ASSUME TypeOK, Reckoned, rows' = rows, market' = market, restarts' = restarts,
         \A i : \/ Marking(i)' = Marking(i) /\ faults' \in {faults, faults + 1}
                \/ /\ faults' = faults + 1
                   /\ \E b \in Batches : Marking(i)' = Marking(i) \ {b}
  PROVE  Reckoned'
<1> SUFFICES ASSUME NEW i \in DOMAIN rows', ~rows'[i].deleted
             PROVE  Reckons(rows'[i].attempts, Cardinality(Marking(i)'), Copies(i)', faults', Cut')
  BY ReckonedNext
<1>1. PICK a, m, c, f, x : /\ a = rows[i].attempts /\ m = Cardinality(Marking(i)) /\ c = Copies(i)
                           /\ f = faults /\ x = Cut
  OBVIOUS
<1>2. a \in Nat /\ m \in Nat /\ c \in Nat /\ f \in Nat /\ x \in Nat
  BY <1>1, Shapes, MarkingType, CopiesType, CutType DEF TypeOK, RowRecords, Cut
<1>3. a + m <= c /\ c <= a + m + f + x
  BY <1>1 DEF Reckoned, Reckons
<1>4. Copies(i)' = c /\ Cut' = x /\ rows'[i].attempts = a
  BY <1>1 DEF Copies, Cut
<1>5. PICK g, n : g = faults' /\ n = Cardinality(Marking(i)')
  OBVIOUS
<1>6. \/ n = m /\ g \in {f, f + 1}
      \/ n = m - 1 /\ g = f + 1
  BY <1>1, <1>5, MarkingType, FS_RemoveElement
<1>7. a + n <= c /\ c <= a + n + g + x
  BY <1>2, <1>3, <1>6
<1> QED
  BY <1>4, <1>5, <1>7 DEF Reckons

\* A send: each row of the batch gets a copy where it arrives, and is marked
\* next unless the send has failed.
LEMMA ReckonedSend ==
  ASSUME TypeOK, FoundOnce, Reckoned, NEW b \in Batches, batch[b].pc = "send",
         NEW types \in SUBSET EventTypes, market' = Sent(b, types), rows' = rows,
         restarts' = restarts, NEW k, batch' = [batch EXCEPT ![b] = k],
         \/ /\ k.pc = "mark" /\ k.found = batch[b].found
            /\ types = EventTypes /\ faults' = faults
         \/ k.pc # "mark" /\ faults' = faults + 1
  PROVE  Reckoned'
<1> SUFFICES ASSUME NEW i \in DOMAIN rows', ~rows'[i].deleted
             PROVE  Reckons(rows'[i].attempts, Cardinality(Marking(i)'), Copies(i)', faults', Cut')
  BY ReckonedNext
<1>1. PICK a, m, c, f, x : /\ a = rows[i].attempts /\ m = Cardinality(Marking(i)) /\ c = Copies(i)
                           /\ f = faults /\ x = Cut
  OBVIOUS
<1>2. a \in Nat /\ m \in Nat /\ c \in Nat /\ f \in Nat /\ x \in Nat
  BY <1>1, Shapes, MarkingType, CopiesType, CutType DEF TypeOK, RowRecords, Cut
<1>3. a + m <= c /\ c <= a + m + f + x
  BY <1>1 DEF Reckoned, Reckons
<1>4. Cut' = x /\ rows'[i].attempts = a
  BY <1>1 DEF Cut
<1>5. PICK g, n, d : g = faults' /\ n = Cardinality(Marking(i)') /\ d = Copies(i)'
  OBVIOUS
<1>6. d = IF rows[i].type \in types /\ i \in ToSet(batch[b].found) THEN c + 1 ELSE c
  BY <1>1, <1>5, SentCopies
<1>7. b \notin Marking(i) /\ rows[i].type \in EventTypes
  BY Shapes DEF Marking, RowRecords
<1>8. n = IF k.pc = "mark" /\ i \in ToSet(k.found) THEN m + 1 ELSE m
  <2>0. Marking(i) \ {b} = Marking(i)
    BY <1>7
  <2>1. Cardinality(Marking(i) \cup {b}) = m + 1
    <3>1. IsFiniteSet(Marking(i)) /\ b \notin Marking(i)
      BY <1>7, MarkingType
    <3>2. Cardinality(Marking(i) \cup {b}) = Cardinality(Marking(i)) + 1
      BY <3>1, FS_AddElement
    <3> QED
      BY <1>1, <3>2
  <2> QED
    BY <1>1, <1>5, <2>0, <2>1, MarkingWritten
<1>9. \/ g = f /\ n - m = d - c /\ n \in {m, m + 1} /\ d \in {c, c + 1}
      \/ g = f + 1 /\ n = m /\ d \in {c, c + 1}
  BY <1>1, <1>2, <1>5, <1>6, <1>7, <1>8
<1>10. a + n <= d /\ d <= a + n + g + x
  BY <1>2, <1>3, <1>9
<1> QED
  BY <1>4, <1>5, <1>10 DEF Reckons

LEMMA ReckonedMark ==
  ASSUME IInv, FoundOnce, Reckoned, NEW b \in Batches, Mark(b)
  PROVE  Reckoned'
<1> SUFFICES ASSUME NEW i \in DOMAIN rows', ~rows'[i].deleted
             PROVE  Reckons(rows'[i].attempts, Cardinality(Marking(i)'), Copies(i)', faults', Cut')
  BY ReckonedNext
<1> DEFINE R(j) == IF j \in ToSet(batch[b].found) /\ ~rows[j].deleted
                   THEN [rows[j] EXCEPT !.published = TRUE, !.attempts = @ + 1] ELSE rows[j]
<1>0. rows' = [j \in DOMAIN rows |-> R(j)]
  BY Zenon DEF Mark
<1> HIDE DEF R
<1>1. UNCHANGED <<market, faults, restarts>> /\ batch[b].pc = "mark"
      /\ batch' = [batch EXCEPT ![b] = NoBatch]
  BY Zenon DEF Mark, bounds
<1>2. i \in DOMAIN rows /\ rows[i] \in RowRecords /\ rows'[i].type = rows[i].type
  <2>1. i \in DOMAIN rows
    BY <1>0
  <2>2. SameEvents
    BY MarkStep
  <2> QED
    BY <2>1, <2>2, Shapes DEF IInv, SameEvents
<1>3. PICK old, new : old = rows[i] /\ new = rows'[i]
  OBVIOUS
<1>4. new = IF i \in ToSet(batch[b].found) /\ ~old.deleted
            THEN [old EXCEPT !.published = TRUE, !.attempts = @ + 1] ELSE old
  <2>1. rows'[i] = R(i)
    BY <1>0, <1>2
  <2> QED
    BY <1>3, <2>1, Zenon DEF R
<1>5. /\ new.attempts = IF i \in ToSet(batch[b].found) THEN old.attempts + 1 ELSE old.attempts
      /\ ~old.deleted /\ old.attempts \in Nat
  BY <1>2, <1>3, <1>4 DEF RowRecords
<1>6. PICK a, m, c, f, x : /\ a = old.attempts /\ m = Cardinality(Marking(i)) /\ c = Copies(i)
                           /\ f = faults /\ x = Cut
  OBVIOUS
<1>7. a \in Nat /\ m \in Nat /\ c \in Nat /\ f \in Nat /\ x \in Nat
  BY <1>2, <1>5, <1>6, MarkingType, CopiesType, CutType DEF IInv, TypeOK, Cut
<1>8. a + m <= c /\ c <= a + m + f + x
  BY <1>2, <1>3, <1>5, <1>6 DEF Reckoned, Reckons
<1>9. Cut' = x /\ faults' = f /\ Copies(i)' = c
  BY <1>1, <1>2, <1>6 DEF Cut, Copies
<1>10. b \in Marking(i) <=> i \in ToSet(batch[b].found)
  BY <1>1 DEF Marking
<1>11. Marking(i)' = Marking(i) \ {b}
  <2>1. PICK k : k = NoBatch
    OBVIOUS
  <2>2. k.pc # "mark"
    BY <2>1 DEF NoBatch
  <2> QED
    BY <1>1, <2>1, <2>2, MarkingWritten DEF IInv
<1>12. PICK n : n = Cardinality(Marking(i)')
  OBVIOUS
<1>13. n = IF i \in ToSet(batch[b].found) THEN m - 1 ELSE m
  BY <1>6, <1>10, <1>11, <1>12, MarkingType, FS_RemoveElement
<1>14. PICK e : e = new.attempts
  OBVIOUS
<1>15. (e = a + 1 /\ n = m - 1) \/ (e = a /\ n = m)
  BY <1>5, <1>6, <1>13, <1>14
<1>16. e + n <= c /\ c <= e + n + f + x
  BY <1>7, <1>8, <1>15
<1> QED
  BY <1>3, <1>9, <1>12, <1>14, <1>16 DEF Reckons

LEMMA ReckonedRestart ==
  ASSUME IInv, Reckoned, Restart
  PROVE  Reckoned'
<1> SUFFICES ASSUME NEW i \in DOMAIN rows', ~rows'[i].deleted
             PROVE  Reckons(rows'[i].attempts, Cardinality(Marking(i)'), Copies(i)', faults', Cut')
  BY ReckonedNext
<1>1. /\ batch' = [b \in Batches |-> NoBatch]
      /\ rows' = rows /\ market' = market /\ faults' = faults /\ restarts' = restarts + 1
  BY DEF Restart
<1>2. PICK a, m, c, f, x, n : /\ a = rows[i].attempts /\ m = Cardinality(Marking(i)) /\ c = Copies(i)
                              /\ f = faults /\ x = Cut /\ n = Cardinality(Batches)
  OBVIOUS
<1>3. a \in Nat /\ m \in Nat /\ c \in Nat /\ f \in Nat /\ x \in Nat /\ n \in Nat /\ m <= n
  BY <1>1, <1>2, Shapes, MarkingType, CopiesType, CutType DEF IInv, TypeOK, RowRecords, Cut
<1>4. a + m <= c /\ c <= a + m + f + x
  BY <1>1, <1>2 DEF Reckoned, Reckons
<1>5. Copies(i)' = c /\ rows'[i].attempts = a
  BY <1>1, <1>2 DEF Copies
<1>6. Cut' = x + n
  BY <1>1, <1>2, CutType DEF Cut, IInv, TypeOK
<1>7. Marking(i)' = {}
  BY <1>1 DEF Marking, NoBatch
<1>8. Cardinality(Marking(i)') = 0
  BY <1>7, FS_EmptySet
<1>9. a + 0 <= c /\ c <= a + 0 + f + (x + n)
  BY <1>3, <1>4
<1> QED
  BY <1>1, <1>2, <1>5, <1>6, <1>8, <1>9 DEF Reckons

LEMMA ReckonedCleanup ==
  ASSUME IInv, Reckoned, Cleanup
  PROVE  Reckoned'
<1> SUFFICES ASSUME NEW i \in DOMAIN rows', ~rows'[i].deleted
             PROVE  Reckons(rows'[i].attempts, Cardinality(Marking(i)'), Copies(i)', faults', Cut')
  BY ReckonedNext
<1>1. PICK cutoff \in 1..(MaxTime + 1) :
        /\ rows' = [j \in DOMAIN rows |->
             IF rows[j].published /\ rows[j].producedAt < cutoff
             THEN [rows[j] EXCEPT !.attempts = 0, !.deleted = TRUE] ELSE rows[j]]
        /\ UNCHANGED <<batch, market, faults, restarts>>
  BY Zenon DEF Cleanup, bounds
<1> DEFINE R(j) == IF rows[j].published /\ rows[j].producedAt < cutoff
                   THEN [rows[j] EXCEPT !.attempts = 0, !.deleted = TRUE] ELSE rows[j]
<1>0. rows' = [j \in DOMAIN rows |-> R(j)]
  BY <1>1, Zenon
<1>7. UNCHANGED <<batch, market, faults, restarts>>
  BY <1>1, Zenon
<1> HIDE DEF R
<1>2. i \in DOMAIN rows /\ rows[i] \in RowRecords
  BY <1>0, Shapes DEF IInv
<1>3. PICK old, new : old = rows[i] /\ new = rows'[i]
  OBVIOUS
<1>4. new = IF old.published /\ old.producedAt < cutoff
            THEN [old EXCEPT !.attempts = 0, !.deleted = TRUE] ELSE old
  <2>1. rows'[i] = R(i)
    BY <1>0, <1>2
  <2> QED
    BY <1>3, <2>1, Zenon DEF R
<1>5. new = old
  BY <1>2, <1>3, <1>4 DEF RowRecords
<1>6. Marking(i)' = Marking(i) /\ Copies(i)' = Copies(i) /\ Cut' = Cut
  BY <1>3, <1>5, <1>7 DEF Marking, Copies, Cut
<1>8. faults' = faults /\ rows'[i] = rows[i]
  BY <1>3, <1>5, <1>7
<1> QED
  BY <1>2, <1>6, <1>8 DEF Reckoned

LEMMA ReckonedEnqueue ==
  ASSUME IInv, Reckoned, Enqueue
  PROVE  Reckoned'
<1> SUFFICES ASSUME NEW i \in DOMAIN rows', ~rows'[i].deleted
             PROVE  Reckons(rows'[i].attempts, Cardinality(Marking(i)'), Copies(i)', faults', Cut')
  BY ReckonedNext
<1>1. PICK row : /\ row \in RowRecords /\ row.attempts = 0 /\ rows' = Append(rows, row)
                 /\ UNCHANGED <<batch, market, faults, restarts>>
  <2>1. PICK t \in EventTypes, time \in 0..MaxTime :
          rows' = Append(rows, [type |-> t, producedAt |-> time, published |-> FALSE,
                                attempts |-> 0, deleted |-> FALSE])
    BY DEF Enqueue
  <2>2. [type |-> t, producedAt |-> time, published |-> FALSE, attempts |-> 0, deleted |-> FALSE]
          \in RowRecords
    BY DEF RowRecords
  <2>3. UNCHANGED <<batch, market, faults, restarts>>
    BY Zenon DEF Enqueue, bounds
  <2> QED
    BY <2>1, <2>2, <2>3
<1>2. /\ Len(rows) \in Nat /\ DOMAIN rows = 1..Len(rows) /\ DOMAIN rows' = 1..Len(rows) + 1
      /\ rows'[Len(rows) + 1] = row /\ \A j \in DOMAIN rows : rows'[j] = rows[j]
  <2>1. rows \in Seq(RowRecords)
    BY DEF IInv, TypeOK
  <2> QED
    BY <1>1, <2>1
<1>3. Marking(i)' = Marking(i) /\ Cut' = Cut
  BY <1>1 DEF Marking, Cut
<1>4. CASE i \in DOMAIN rows
  <2>1. rows'[i] = rows[i]
    BY <1>2, <1>4
  <2>2. Copies(i)' = Copies(i)
    BY <1>1, <2>1 DEF Copies
  <2> QED
    BY <1>1, <1>3, <1>4, <2>1, <2>2 DEF Reckoned
<1>5. CASE i \notin DOMAIN rows
  <2>1. rows'[i] = row
    BY <1>2, <1>5
  <2>2. Marking(i) = {}
    <3>1. \A b \in Batches : \A k \in DOMAIN batch[b].found : batch[b].found[k] # i
      BY <1>5, Shapes DEF IInv
    <3> QED
      BY <3>1 DEF Marking, ToSet
  <2>3. Copies(i)' = 0
    <3>1. PICK t \in EventTypes : t = row.type
      BY <1>1 DEF RowRecords
    <3>2. {k \in DOMAIN market[t] : market[t][k] = i} = {}
      BY <1>5, Shapes DEF IInv
    <3>3. Copies(i)' = Cardinality({k \in DOMAIN market[t] : market[t][k] = i})
      BY <1>1, <2>1, <3>1 DEF Copies
    <3> QED
      BY <3>2, <3>3, FS_EmptySet
  <2>4. Cardinality(Marking(i)') = 0
    BY <1>3, <2>2, FS_EmptySet
  <2>5. faults' \in Nat /\ Cut' \in Nat
    BY <1>1, <1>3, CutType DEF IInv, TypeOK, Cut
  <2> QED
    BY <1>1, <2>1, <2>3, <2>4, <2>5 DEF Reckons
<1> QED
  BY <1>4, <1>5

LEMMA NextFoundOnce ==
  ASSUME IInv, FoundOnce, [Next]_vars
  PROVE  FoundOnce'
<1>1. ASSUME \A b \in Batches : batch'[b].found \in {<<>>, batch[b].found} PROVE FoundOnce'
  <2>1. DOMAIN <<>> = {}
    OBVIOUS
  <2> SUFFICES ASSUME NEW b \in Batches, NEW k \in DOMAIN batch'[b].found,
                      NEW l \in DOMAIN batch'[b].found, k # l
               PROVE  batch'[b].found[k] # batch'[b].found[l]
    BY Zenon DEF FoundOnce
  <2>2. batch'[b].found = batch[b].found
    BY <1>1, <2>1
  <2> QED
    BY <2>2 DEF FoundOnce
<1>2. CASE Enqueue \/ Cleanup \/ UNCHANGED vars \/ \E b \in Batches : SendRetries(b)
  <2>1. batch' = batch
    BY <1>2, Zenon DEF Enqueue, Cleanup, SendRetries, vars
  <2> QED
    BY <1>1, <2>1
<1>3. CASE Restart
  BY <1>1, <1>3 DEF Restart, NoBatch
<1>4. ASSUME NEW b \in Batches, Connect(b) \/ Send(b) \/ Mark(b) \/ ConnectFails(b)
                                 \/ SendFails(b) \/ MarkFails(b)
      PROVE  FoundOnce'
  <2>1. \/ \E pc : batch' = [batch EXCEPT ![b].pc = pc]
        \/ batch' = [batch EXCEPT ![b] = NoBatch]
    <3>1. Connect(b) \/ Send(b) => \E pc : batch' = [batch EXCEPT ![b].pc = pc]
      BY DEF Connect, Send
    <3>2. Mark(b) => batch' = [batch EXCEPT ![b] = NoBatch]
      BY Zenon DEF Mark
    <3>3. ConnectFails(b) \/ SendFails(b) \/ MarkFails(b) => batch' = [batch EXCEPT ![b] = NoBatch]
      BY Zenon DEF ConnectFails, SendFails, MarkFails
    <3> QED
      BY <1>4, <3>1, <3>2, <3>3
  <2>2. \A c \in Batches : batch'[c].found \in {<<>>, batch[c].found}
    <3>1. DOMAIN batch = Batches /\ \A c \in Batches : "found" \in DOMAIN batch[c] /\ "pc" \in DOMAIN batch[c]
      BY DEF IInv, TypeOK
    <3>2. ASSUME NEW pc, batch' = [batch EXCEPT ![b].pc = pc], NEW c \in Batches
          PROVE  batch'[c].found \in {<<>>, batch[c].found}
      BY <3>1, <3>2
    <3>3. ASSUME batch' = [batch EXCEPT ![b] = NoBatch], NEW c \in Batches
          PROVE  batch'[c].found \in {<<>>, batch[c].found}
      BY <3>1, <3>3 DEF NoBatch
    <3> QED
      BY <2>1, <3>2, <3>3
  <2> QED
    BY <1>1, <2>2
<1>5. ASSUME NEW b \in Batches, Find(b)
      PROVE  FoundOnce'
  <2>1. PICK ids \in Taken : \E f \in SetToSeqs(ids) : Get(b, f)
    BY <1>5 DEF Find
  <2>2. PICK f \in SetToSeqs(ids) : Get(b, f)
    BY <2>1
  <2>3. \A k, l \in DOMAIN f : k # l => f[k] # f[l]
    BY DEF SetToSeqs
  <2>4. \/ batch' = batch
        \/ \E pc : batch' = [batch EXCEPT ![b] = [pc |-> pc, found |-> f]]
    BY <2>2 DEF Get
  <2>5. \A c \in Batches : batch'[c].found = batch[c].found \/ batch'[c].found = f
    <3>1. ASSUME NEW pc, batch' = [batch EXCEPT ![b] = [pc |-> pc, found |-> f]],
                 NEW c \in Batches
          PROVE  batch'[c].found = batch[c].found \/ batch'[c].found = f
      <4>1. PICK new : new = [pc |-> pc, found |-> f]
        OBVIOUS
      <4>2. DOMAIN batch = Batches
        BY DEF IInv, TypeOK
      <4>3. batch'[c] = batch[c] \/ batch'[c] = new
        BY <3>1, <4>1, <4>2, Zenon
      <4>4. new.found = f
        BY <4>1
      <4> QED
        BY <4>3, <4>4, Zenon
    <3> QED
      BY <2>4, <3>1, Zenon
  <2> SUFFICES ASSUME NEW c \in Batches, NEW k \in DOMAIN batch'[c].found,
                      NEW l \in DOMAIN batch'[c].found, k # l
               PROVE  batch'[c].found[k] # batch'[c].found[l]
    BY Zenon DEF FoundOnce
  <2> QED
    BY <2>3, <2>5 DEF FoundOnce
<1> QED
  BY <1>2, <1>3, <1>4, <1>5 DEF Next, Publish

LEMMA NextReckoned ==
  ASSUME IInv, FoundOnce, Reckoned, [Next]_vars
  PROVE  Reckoned'
<1> USE DEF IInv
<1>1. ASSUME NEW b \in Batches, Find(b) PROVE Reckoned'
  <2>1. PICK f : Get(b, f)
    BY <1>1 DEF Find
  <2>2. \/ batch' = batch
        \/ \E pc \in {"connect", "send"} : batch' = [batch EXCEPT ![b] = [pc |-> pc, found |-> f]]
    BY <2>1 DEF Get
  <2>3. batch[b].pc = "idle" /\ UNCHANGED <<rows, market, faults, restarts>>
    BY <1>1, Zenon DEF Find, bounds
  <2>4. \A i : Marking(i)' = Marking(i)
    <3>1. CASE batch' = batch
      BY <3>1 DEF Marking
    <3>2. ASSUME NEW pc \in {"connect", "send"},
                 batch' = [batch EXCEPT ![b] = [pc |-> pc, found |-> f]], NEW i
          PROVE  Marking(i)' = Marking(i)
      <4>1. PICK k : k = [pc |-> pc, found |-> f]
        OBVIOUS
      <4>2. k.pc # "mark"
        BY <3>2, <4>1
      <4>3. Marking(i)' = Marking(i) \ {b}
        BY <3>2, <4>1, <4>2, MarkingWritten
      <4> QED
        BY <2>3, <4>3 DEF Marking
    <3> QED
      BY <2>2, <3>1, <3>2
  <2> QED
    BY <2>3, <2>4, ReckonedQuiet
<1>2. ASSUME NEW b \in Batches, Connect(b) PROVE Reckoned'
  <2>1. PICK k : k = [batch[b] EXCEPT !.pc = "send"]
    OBVIOUS
  <2>2. batch' = [batch EXCEPT ![b] = k] /\ batch[b].pc = "connect"
        /\ UNCHANGED <<rows, market, faults, restarts>>
    BY <1>2, <2>1 DEF Connect, bounds
  <2>3. k.pc # "mark"
    BY <2>1 DEF TypeOK
  <2>4. \A i : Marking(i)' = Marking(i)
    BY <2>2, <2>3, MarkingWritten DEF Marking
  <2> QED
    BY <2>2, <2>4, ReckonedQuiet
<1>3. ASSUME NEW b \in Batches, Send(b) PROVE Reckoned'
  <2>1. PICK k : k = [batch[b] EXCEPT !.pc = "mark"]
    OBVIOUS
  <2>2. batch' = [batch EXCEPT ![b] = k] /\ batch[b].pc = "send" /\ market' = Sent(b, EventTypes)
        /\ UNCHANGED <<rows, faults, restarts>>
    BY <1>3, <2>1 DEF Send, bounds
  <2>3. k.pc = "mark" /\ k.found = batch[b].found
    BY <2>1 DEF TypeOK
  <2> QED
    BY <2>2, <2>3, ReckonedSend
<1>4. ASSUME NEW b \in Batches, SendFails(b) PROVE Reckoned'
  <2>1. PICK types \in SUBSET EventTypes : market' = Sent(b, types)
    BY <1>4 DEF SendFails
  <2>2. batch' = [batch EXCEPT ![b] = NoBatch] /\ batch[b].pc = "send" /\ NoBatch.pc # "mark"
        /\ UNCHANGED <<rows, restarts>> /\ faults' = faults + 1
    BY <1>4 DEF SendFails, Fault, NoBatch
  <2> QED
    BY <2>1, <2>2, ReckonedSend
<1>5. ASSUME NEW b \in Batches, ConnectFails(b) \/ MarkFails(b) PROVE Reckoned'
  <2>1. batch' = [batch EXCEPT ![b] = NoBatch] /\ UNCHANGED <<rows, market, restarts>>
        /\ faults' = faults + 1
    BY <1>5 DEF ConnectFails, MarkFails, Fault
  <2>2. PICK k : k = NoBatch
    OBVIOUS
  <2>3. k.pc # "mark"
    BY <2>2 DEF NoBatch
  <2>4. \A i : Marking(i)' = Marking(i) \ {b}
    BY <2>1, <2>2, <2>3, MarkingWritten
  <2> QED
    BY <2>1, <2>4, ReckonedQuiet
<1>6. ASSUME NEW b \in Batches, Mark(b) PROVE Reckoned'
  BY <1>6, ReckonedMark
<1>7. CASE UNCHANGED vars
  <2>1. UNCHANGED <<rows, batch, market, faults, restarts>>
    BY <1>7 DEF vars, bounds
  <2>2. \A i : Marking(i)' = Marking(i)
    BY <2>1 DEF Marking
  <2> QED
    BY <2>1, <2>2, ReckonedQuiet
<1>8. CASE Enqueue \/ Cleanup \/ Restart
  BY <1>8, ReckonedEnqueue, ReckonedCleanup, ReckonedRestart
<1>9. ASSUME NEW b \in Batches, SendRetries(b) PROVE Reckoned'
  <2>1. PICK types \in SUBSET EventTypes : market' = Sent(b, types)
    BY <1>9 DEF SendRetries
  <2>2. PICK k : k = batch[b]
    OBVIOUS
  <2>3. batch' = batch /\ k.pc = "send" /\ UNCHANGED <<rows, restarts>> /\ faults' = faults + 1
    BY <1>9, <2>2 DEF SendRetries, Fault
  <2>4. batch' = [batch EXCEPT ![b] = k]
    BY <2>2, <2>3 DEF TypeOK
  <2> QED
    BY <2>1, <2>2, <2>3, <2>4, ReckonedSend
<1> QED
  BY <1>1, <1>2, <1>3, <1>4, <1>5, <1>6, <1>7, <1>8, <1>9 DEF Next, Publish

\* attempts counts the batches that have marked a row: the topic has its event
\* that often, and oftener only by a batch that is still to mark it, by a failing
\* send or update, by a retry within a send, or by a batch that a restart cut short.
THEOREM Counted == Spec => []AttemptsCountDeliveries
<1>1. Init => FoundOnce /\ Reckoned
  BY DEF Init, FoundOnce, Reckoned, NoBatch
<1>2. IInv /\ FoundOnce /\ Reckoned /\ [Next]_vars => FoundOnce' /\ Reckoned'
  BY NextFoundOnce, NextReckoned
<1>3. IInv /\ Reckoned => AttemptsCountDeliveries
  <2> SUFFICES ASSUME IInv, Reckoned, NEW i \in DOMAIN rows, ~rows[i].deleted
               PROVE  LET marked == rows[i].attempts + Cardinality(Marking(i))
                      IN  Copies(i) \in marked..(marked + faults + restarts * Cardinality(Batches))
    BY DEF AttemptsCountDeliveries
  <2>1. PICK a, m, c, f, x : /\ a = rows[i].attempts /\ m = Cardinality(Marking(i))
                             /\ c = Copies(i) /\ f = faults /\ x = restarts * Cardinality(Batches)
    OBVIOUS
  <2>2. a \in Nat /\ m \in Nat /\ c \in Nat /\ f \in Nat /\ x \in Nat
    BY <2>1, Shapes, MarkingType, CopiesType, CutType DEF IInv, TypeOK, RowRecords
  <2>3. a + m <= c /\ c <= a + m + f + x
    BY <2>1 DEF Reckoned, Reckons, Cut
  <2>4. c \in (a + m)..(a + m + f + x)
    BY <2>2, <2>3
  <2> QED
    BY <2>1, <2>4
<1> QED
  BY <1>1, <1>2, <1>3, Invariance, PTL DEF Spec

(***************************************************************************)
(* The refinement: a committed row is an event, the market topic the log.  *)
(***************************************************************************)
EventsOf(r) == [i \in DOMAIN r |-> [type |-> r[i].type, producedAt |-> r[i].producedAt]]

LEMMA PrefixSound ==
  ASSUME NEW S, NEW s \in Seq(S), NEW t \in Seq(S), Len(s) <= Len(t),
         \A i \in 1..Len(s) : t[i] = s[i]
  PROVE  Topic!IsPrefix(s, t)
<1>1. Len(s) \in Nat /\ Len(t) \in Nat /\ \A i \in 1..Len(s) : s[i] \in S /\ t[i] \in S
  BY LenProperties, ElementOfSeq
<1>2. /\ SubSeq(s, 1, Len(s)) \in Seq(S) /\ SubSeq(t, 1, Len(s)) \in Seq(S)
      /\ Len(SubSeq(s, 1, Len(s))) = Len(s) /\ Len(SubSeq(t, 1, Len(s))) = Len(s)
      /\ \A i \in 1..Len(s) : SubSeq(s, 1, Len(s))[i] = s[i] /\ SubSeq(t, 1, Len(s))[i] = t[i]
  BY <1>1, SubSeqProperties
<1>3. SubSeq(s, 1, Len(s)) = SubSeq(t, 1, Len(s))
  BY <1>2, SeqEqual
<1> QED
  BY <1>3 DEF Topic!IsPrefix

LEMMA EventsShape ==
  ASSUME NEW r \in Seq(RowRecords)
  PROVE  /\ EventsOf(r) \in Seq([type : EventTypes, producedAt : 0..MaxTime])
         /\ Len(EventsOf(r)) = Len(r) /\ DOMAIN EventsOf(r) = DOMAIN r
         /\ \A i \in DOMAIN r : EventsOf(r)[i].type = r[i].type
                                /\ EventsOf(r)[i].producedAt = r[i].producedAt
<1>1. /\ Len(r) \in Nat /\ DOMAIN r = 1..Len(r)
      /\ \A i \in DOMAIN r : r[i].type \in EventTypes /\ r[i].producedAt \in 0..MaxTime
  <2>1. Len(r) \in Nat /\ DOMAIN r = 1..Len(r) /\ \A i \in DOMAIN r : r[i] \in RowRecords
    BY LenProperties, ElementOfSeq
  <2> QED
    BY <2>1 DEF RowRecords
<1>2. PICK n, e, S : n = Len(r) /\ e = EventsOf(r) /\ S = [type : EventTypes, producedAt : 0..MaxTime]
  OBVIOUS
<1>3. e \in [1..n -> S] /\ n \in Nat
  BY <1>1, <1>2 DEF EventsOf
<1>4. e \in Seq(S)
  BY <1>3, SeqDef
<1>5. Len(e) = n
  BY <1>3, <1>4, LenProperties
<1>6. \A i \in DOMAIN r : e[i].type = r[i].type /\ e[i].producedAt = r[i].producedAt
  BY <1>2 DEF EventsOf
<1> QED
  BY <1>1, <1>2, <1>3, <1>4, <1>5, <1>6

LEMMA KeptEvents ==
  ASSUME SameEvents PROVE EventsOf(rows') = EventsOf(rows)
BY DEF EventsOf, SameEvents

LEMMA EnqueueCommits ==
  ASSUME IInv, Enqueue
  PROVE  Topic!Commit
<1>1. PICK row : rows' = Append(rows, row) /\ UNCHANGED <<batch, market, producer, bounds>>
  BY DEF Enqueue
<1>2. rows \in Seq(RowRecords) /\ rows' \in Seq(RowRecords)
  BY EnqueueStep DEF IInv, TypeOK
<1>3. /\ Len(rows) \in Nat /\ Len(rows') = Len(rows) + 1 /\ DOMAIN rows = 1..Len(rows)
      /\ DOMAIN rows' = 1..(Len(rows) + 1)
      /\ \A i \in 1..Len(rows) : rows'[i] = rows[i]
  BY <1>1, <1>2, LenProperties
<1>4. PICK S, q, r, s, t : /\ S = [type : EventTypes, producedAt : 0..MaxTime]
                           /\ q = rows /\ r = rows' /\ s = EventsOf(q) /\ t = EventsOf(r)
  OBVIOUS
<1>5. s \in Seq(S) /\ t \in Seq(S) /\ Len(s) = Len(rows) /\ Len(t) = Len(rows')
  BY <1>2, <1>4, EventsShape
<1>6. \A i \in 1..Len(s) : t[i] = s[i]
  BY <1>3, <1>4, <1>5 DEF EventsOf
<1>7. Len(s) <= Len(t) /\ Len(t) = Len(s) + 1
  BY <1>3, <1>5
<1>8. Topic!IsPrefix(s, t)
  BY <1>5, <1>6, <1>7, PrefixSound
<1>9. UNCHANGED market
  BY <1>1
<1> QED
  BY <1>4, <1>7, <1>8, <1>9 DEF Topic!Commit, EventsOf

LEMMA SendWrites ==
  ASSUME IInv, NEW b \in Batches, NEW types \in SUBSET EventTypes,
         rows' = rows, market' = Sent(b, types), market' # market
  PROVE  Topic!Write
<1>1. \A i \in DOMAIN rows : EventsOf(rows)[i].type = rows[i].type
                             /\ EventsOf(rows)[i].producedAt = rows[i].producedAt
  BY DEF EventsOf
<1>2. ASSUME NEW t \in EventTypes
      PROVE  /\ Topic!IsPrefix(market[t], market'[t])
             /\ \A i \in DOMAIN market'[t] : market'[t][i] \in DOMAIN EventsOf(rows)
                                             /\ EventsOf(rows)[market'[t][i]].type = t
             /\ Topic!InOrder(market'[t])
  <2>1. PICK m, w, D : m = market[t] /\ w = market'[t] /\ D = DOMAIN rows
    OBVIOUS
  <2>2. /\ w \in Seq(D) /\ Len(m) <= Len(w)
        /\ \A i \in DOMAIN m : w[i] = m[i]
        /\ \A i \in DOMAIN w :
             /\ w[i] \in D /\ rows[w[i]].type = t
             /\ \A j \in D : Before(j, w[i]) => \E l \in 1..(i - 1) : w[l] = j
    BY <2>1, Sends
  <2>3. m \in Seq(D) /\ DOMAIN m = 1..Len(m)
    BY <2>1, LenProperties DEF IInv, TypeOK
  <2>4. Topic!IsPrefix(m, w)
    BY <2>2, <2>3, PrefixSound
  <2>5. \A i \in DOMAIN w : w[i] \in DOMAIN EventsOf(rows) /\ EventsOf(rows)[w[i]].type = t
    BY <1>1, <2>1, <2>2 DEF EventsOf
  <2>6. Topic!InOrder(w)
    <3>1. ASSUME NEW i \in DOMAIN w, NEW j \in DOMAIN EventsOf(rows), Topic!Before(j, w[i])
          PROVE  \E l \in 1..(i - 1) : w[l] = j
      <4>1. j \in D /\ w[i] \in D
        BY <2>1, <2>2 DEF EventsOf
      <4>2. Before(j, w[i])
        BY <1>1, <2>1, <3>1, <4>1 DEF Topic!Before, Before, EventsOf
      <4> QED
        BY <2>2, <4>1, <4>2
    <3> QED
      BY <3>1 DEF Topic!InOrder, EventsOf
  <2> QED
    BY <2>1, <2>4, <2>5, <2>6
<1> QED
  BY <1>2 DEF Topic!Write, EventsOf

LEMMA StepImplements ==
  ASSUME IInv, [Next]_vars
  PROVE  [Topic!Commit \/ Topic!Write]_Topic!vars
<1>1. CASE Enqueue
  BY <1>1, EnqueueCommits
<1>2. ASSUME SameEvents, market' = market
      PROVE  UNCHANGED Topic!vars
  BY <1>2, KeptEvents DEF Topic!vars, EventsOf
<1>3. ASSUME NEW b \in Batches, Send(b) \/ SendFails(b) \/ SendRetries(b)
      PROVE  [Topic!Commit \/ Topic!Write]_Topic!vars
  <2>1. PICK types \in SUBSET EventTypes : market' = Sent(b, types)
    BY <1>3 DEF Send, SendFails, SendRetries
  <2>2. rows' = rows
    BY <1>3 DEF Send, SendFails, SendRetries
  <2>3. CASE market' = market
    BY <1>2, <2>2, <2>3 DEF SameEvents
  <2>4. CASE market' # market
    BY <2>1, <2>2, <2>4, SendWrites
  <2> QED
    BY <2>3, <2>4
<1>4. ASSUME NEW b \in Batches, Find(b) \/ Connect(b) \/ ConnectFails(b) \/ MarkFails(b)
      PROVE  SameEvents /\ market' = market
  <2>1. rows' = rows /\ market' = market
    BY <1>4 DEF Find, Connect, ConnectFails, MarkFails
  <2> QED
    BY <2>1 DEF SameEvents
<1>5. CASE Cleanup
  BY <1>2, <1>5, CleanupStep
<1>6. ASSUME NEW b \in Batches, Mark(b)
      PROVE  SameEvents /\ market' = market
  BY <1>6, MarkStep
<1>7. CASE Restart \/ UNCHANGED vars
  <2>1. rows' = rows /\ market' = market
    BY <1>7 DEF Restart, vars
  <2> QED
    BY <1>2, <2>1 DEF SameEvents
<1> QED
  BY <1>1, <1>2, <1>3, <1>4, <1>5, <1>6, <1>7 DEF Next, Publish

LEMMA InitImplements == ASSUME Init PROVE Topic!Init
<1>1. rows = <<>> /\ market = [t \in EventTypes |-> <<>>]
  BY DEF Init
<1>2. EventsOf(rows) = <<>>
  BY <1>1 DEF EventsOf
<1> QED
  BY <1>1, <1>2 DEF Topic!Init, EventsOf

\* Whatever batches of publishOutboxBatch overlap, fail, are cut short or are
\* cleaned up after, the topic is as Delivery promises: it only grows, and the
\* first delivery of an event comes after those of its type committed before it
\* with an earlier producedAt.
THEOREM Implementation == Spec => ImplementsDelivery
<1>1. Init => Topic!Init
  BY InitImplements
<1>2. IInv /\ [Next]_vars => [Topic!Commit \/ Topic!Write]_Topic!vars
  BY StepImplements
<1> QED
  BY <1>1, <1>2, Invariance, PTL DEF Spec, ImplementsDelivery, Topic!Spec

=============================================================================
