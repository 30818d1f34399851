---------------------------- MODULE OrderBookProofs ----------------------------
(***************************************************************************)
(* What the operators of the book do to levels that are in order, for any  *)
(* set of prices and any number of levels and orders: one round, the       *)
(* recursion of all of them, and place.                                    *)
(***************************************************************************)
EXTENDS OrderBook, SequenceTheorems, WellFoundedInduction, TLAPS

(***************************************************************************)
(* The order of a side is a strict total order of the prices.              *)
(***************************************************************************)
LEMMA SortsBeforeIsTotal ==
  ASSUME NEW side \in Sides, NEW p \in Nat, NEW q \in Nat, NEW r \in Nat
  PROVE  /\ ~SortsBefore(side, p, p)
         /\ SortsBefore(side, p, q) /\ SortsBefore(side, q, r) => SortsBefore(side, p, r)
         /\ SortsBefore(side, p, q) \/ p = q \/ SortsBefore(side, q, p)
  BY DEF SortsBefore, Sides

LEMMA EntriesElements ==
  ASSUME NEW levels, NEW order
  PROVE  order \in Entries(levels) <=>
           \E i \in DOMAIN levels : order \in QueueEntries(levels[i])
  BY DEF Entries

\* The orders at the levels other than i.
OtherEntries(levels, i) == UNION {QueueEntries(levels[j]) : j \in DOMAIN levels \ {i}}

LEMMA EntriesSplit ==
  ASSUME NEW levels, NEW i \in DOMAIN levels
  PROVE  Entries(levels) = QueueEntries(levels[i]) \cup OtherEntries(levels, i)
  BY DEF Entries, OtherEntries

LEMMA LevelsTyped ==
  ASSUME NEW P \in SUBSET Nat, NEW levels \in Seq(LevelRecords(P)), NEW i \in DOMAIN levels
  PROVE  /\ i \in 1..Len(levels)
         /\ levels[i] \in LevelRecords(P)
         /\ levels[i].price \in P
         /\ levels[i].price \in Nat
         /\ levels[i].orders \in Seq(OrderRecords(P))
         /\ DOMAIN levels[i].orders = 1..Len(levels[i].orders)
<1>1. i \in 1..Len(levels) /\ levels[i] \in LevelRecords(P)
  OBVIOUS
<1>2. levels[i].price \in P /\ levels[i].orders \in Seq(OrderRecords(P))
  BY <1>1 DEF LevelRecords
<1>3. DOMAIN levels[i].orders = 1..Len(levels[i].orders)
  BY <1>2, LenProperties
<1>4. levels[i].price \in Nat
  BY <1>2
<1> QED
  BY <1>1, <1>2, <1>3, <1>4

(***************************************************************************)
(* The position the sort gives to a new level exists: the first level the  *)
(* new price does not come after, or the end.                              *)
(***************************************************************************)
LEMMA LevelPositionCorrect ==
  ASSUME NEW P \in SUBSET Nat, NEW levels \in Seq(LevelRecords(P)),
         NEW side \in Sides, NEW price \in P
  PROVE  LET p == LevelPosition(levels, side, price)
         IN  /\ p \in 1..(Len(levels) + 1)
             /\ p <= Len(levels) => ~SortsBefore(side, levels[p].price, price)
             /\ \A j \in 1..(p - 1) : SortsBefore(side, levels[j].price, price)
<1> DEFINE Candidate(i) == i <= Len(levels) => ~SortsBefore(side, levels[i].price, price)
           T == {i \in 1..(Len(levels) + 1) : Candidate(i)}
<1>1. Len(levels) \in Nat
  OBVIOUS
<1>2. Len(levels) + 1 \in T
  BY <1>1
<1>3. PICK m \in T : \A y \in T : ~(<<y, m>> \in OpToRel(<, Nat))
  <2>1. T \subseteq Nat /\ T # {}
    BY <1>1, <1>2
  <2>2. IsWellFoundedOn(OpToRel(<, Nat), Nat)
    BY NatLessThanWellFounded, Zenon
  <2> HIDE DEF T
  <2> QED
    BY <2>1, <2>2, WFMin, Zenon
<1>4. \A y \in T : ~(y < m)
  <2> SUFFICES ASSUME NEW y \in T, y < m PROVE FALSE
    OBVIOUS
  <2>1. y \in Nat /\ m \in Nat
    BY <1>1
  <2>2. <<y, m>> \in OpToRel(<, Nat)
    BY <2>1 DEF OpToRel
  <2> QED
    BY <1>3, <2>2, Zenon
<1>5. \A j \in 1..(m - 1) : SortsBefore(side, levels[j].price, price)
  BY <1>1, <1>4
<1>6. /\ m \in 1..(Len(levels) + 1)
      /\ m <= Len(levels) => ~SortsBefore(side, levels[m].price, price)
  OBVIOUS
<1> QED
  BY <1>5, <1>6, Zenon DEF LevelPosition

(***************************************************************************)
(* A level opened where the sort puts it.                                  *)
(***************************************************************************)
LEMMA InsertLevelTyped ==
  ASSUME NEW P, NEW levels \in Seq(LevelRecords(P)),
         NEW p \in 1..(Len(levels) + 1), NEW level \in LevelRecords(P)
  PROVE  LET new == InsertLevel(levels, p, level)
         IN  /\ new \in Seq(LevelRecords(P))
             /\ DOMAIN new = 1..(Len(levels) + 1)
             /\ new[p] = level
             /\ \A j \in 1..(p - 1) : j \in DOMAIN levels /\ new[j] = levels[j]
             /\ \A j \in (p + 1)..(Len(levels) + 1) :
                  j - 1 \in DOMAIN levels /\ new[j] = levels[j - 1]
<1> DEFINE new == InsertLevel(levels, p, level)
<1>1. Len(levels) \in Nat /\ DOMAIN levels = 1..Len(levels) /\ p \in Nat
  BY LenProperties
<1>2. new = [j \in 1..(Len(levels) + 1) |->
               IF j < p THEN levels[j] ELSE IF j = p THEN level ELSE levels[j - 1]]
  BY DEF InsertLevel
<1>3. \A j \in 1..(Len(levels) + 1) :
        (IF j < p THEN levels[j] ELSE IF j = p THEN level ELSE levels[j - 1])
          \in LevelRecords(P)
  <2> TAKE j \in 1..(Len(levels) + 1)
  <2>1. CASE j < p
    <3>1. j \in 1..Len(levels)
      BY <1>1, <2>1
    <3> QED
      BY <2>1, <3>1, ElementOfSeq
  <2>2. CASE j = p
    BY <2>2
  <2>3. CASE j > p
    <3>1. j - 1 \in 1..Len(levels)
      BY <1>1, <2>3
    <3> QED
      BY <1>1, <2>3, <3>1, ElementOfSeq
  <2> QED
    BY <1>1, <2>1, <2>2, <2>3
<1>4. new \in [1..(Len(levels) + 1) -> LevelRecords(P)]
  BY <1>2, <1>3, Zenon
<1>5. new \in Seq(LevelRecords(P)) /\ Len(new) = Len(levels) + 1
  BY <1>1, <1>4, SeqDef
<1>6. /\ \A j \in 1..(p - 1) : j \in DOMAIN levels /\ new[j] = levels[j]
      /\ \A j \in (p + 1)..(Len(levels) + 1) :
           j - 1 \in DOMAIN levels /\ new[j] = levels[j - 1]
      /\ new[p] = level
  BY <1>1, <1>2
<1> QED
  BY <1>2, <1>5, <1>6

LEMMA LevelExcept ==
  ASSUME NEW P, NEW level \in LevelRecords(P), NEW queue
  PROVE  [level EXCEPT !.orders = queue] = [price |-> level.price, orders |-> queue]
<1> DEFINE Q == Seq(OrderRecords(P))
<1>1. level \in [price : P, orders : Q]
  BY DEF LevelRecords
<1> HIDE DEF Q
<1> QED
  BY <1>1

(***************************************************************************)
(* A queue that gains an order at its back, loses its head, or whose head  *)
(* is partly traded.                                                       *)
(***************************************************************************)
LEMMA QueueAppend ==
  ASSUME NEW P, NEW side \in Sides,
         NEW level \in LevelRecords(P), QueueSound(side, level),
         NEW order \in OrderRecords(P),
         order.side = side, order.price = level.price,
         \A e \in QueueEntries(level) : e.id # order.id,
         NEW new, new = [level EXCEPT !.orders = Append(level.orders, order)]
  PROVE  /\ new \in LevelRecords(P)
         /\ new.price = level.price
         /\ QueueSound(side, new)
         /\ QueueEntries(new) = QueueEntries(level) \cup {order}
<1> DEFINE queue == level.orders
           more == Append(queue, order)
<1>1. queue \in Seq(OrderRecords(P)) /\ level.price \in P
  BY DEF LevelRecords
<1>2. /\ more \in Seq(OrderRecords(P))
      /\ more # <<>>
      /\ Len(more) = Len(queue) + 1
      /\ \A k \in 1..Len(queue) : more[k] = queue[k]
      /\ more[Len(queue) + 1] = order
  BY <1>1, AppendProperties
<1>3. /\ Len(queue) \in Nat
      /\ DOMAIN queue = 1..Len(queue)
      /\ DOMAIN more = 1..(Len(queue) + 1)
  BY <1>1, <1>2, LenProperties
<1>4. new = [price |-> level.price, orders |-> more]
  BY LevelExcept
<1>5. new \in LevelRecords(P) /\ new.price = level.price /\ new.orders = more
  BY <1>1, <1>2, <1>4 DEF LevelRecords
<1>6. QueueSound(side, new)
  <2>1. \A k \in 1..Len(queue) : queue[k] \in QueueEntries(level)
    BY <1>3 DEF QueueEntries
  <2>2. ASSUME NEW k \in 1..(Len(queue) + 1)
        PROVE  /\ more[k].side = side
               /\ more[k].price = level.price
               /\ \A l \in 1..(k - 1) : more[l].id # more[k].id
    <3>1. CASE k = Len(queue) + 1
      BY <1>2, <1>3, <2>1, <3>1
    <3>2. CASE k \in 1..Len(queue)
      BY <1>2, <1>3, <3>2 DEF QueueSound
    <3> QED
      BY <1>3, <3>1, <3>2
  <2> QED
    BY <1>2, <1>3, <1>5, <2>2 DEF QueueSound
<1>7. QueueEntries(new) = QueueEntries(level) \cup {order}
  BY <1>2, <1>3, <1>5 DEF QueueEntries
<1> QED
  BY <1>5, <1>6, <1>7

LEMMA QueueShift ==
  ASSUME NEW P, NEW side \in Sides,
         NEW level \in LevelRecords(P), QueueSound(side, level),
         Tail(level.orders) # <<>>,
         NEW new, new = [level EXCEPT !.orders = Tail(level.orders)]
  PROVE  /\ new \in LevelRecords(P)
         /\ new.price = level.price
         /\ QueueSound(side, new)
         /\ QueueEntries(new) = QueueEntries(level) \ {level.orders[1]}
<1> DEFINE queue == level.orders
           less == Tail(queue)
<1>1. queue \in Seq(OrderRecords(P)) /\ level.price \in P /\ queue # <<>>
  BY DEF LevelRecords, QueueSound
<1>2. /\ less \in Seq(OrderRecords(P))
      /\ Len(less) = Len(queue) - 1
      /\ \A k \in 1..Len(less) : less[k] = queue[k + 1]
  BY <1>1, HeadTailProperties, Zenon
<1>3. /\ Len(queue) \in Nat \ {0}
      /\ DOMAIN queue = 1..Len(queue)
      /\ DOMAIN less = 1..(Len(queue) - 1)
  BY <1>1, <1>2, LenProperties, EmptySeq
<1>4. new = [price |-> level.price, orders |-> less]
  BY LevelExcept
<1>5. new \in LevelRecords(P) /\ new.price = level.price /\ new.orders = less
  BY <1>1, <1>2, <1>4 DEF LevelRecords
<1>6. PICK n \in Nat : Len(queue) = n + 1
  <2>1. Len(queue) - 1 \in Nat /\ Len(queue) = (Len(queue) - 1) + 1
    BY <1>3
  <2> QED
    BY <2>1, Zenon
<1>7. /\ DOMAIN queue = 1..(n + 1) /\ DOMAIN less = 1..n
       /\ \A k \in 1..n : less[k] = queue[k + 1]
  BY <1>2, <1>3, <1>6
<1>8. \A k \in 1..(n + 1) :
         /\ queue[k].side = side /\ queue[k].price = level.price
         /\ \A l \in 1..(k - 1) : queue[l].id # queue[k].id
  BY <1>7 DEF QueueSound
<1> HIDE DEF queue, less
<1>9. ASSUME NEW k \in 1..n
      PROVE  /\ less[k] = queue[k + 1]
             /\ k + 1 \in DOMAIN queue
             /\ less[k].side = side
             /\ less[k].price = level.price
             /\ \A l \in 1..(k - 1) : less[l].id # less[k].id
             /\ queue[1].id # less[k].id
  <2>1. less[k] = queue[k + 1] /\ k + 1 \in 1..(n + 1) /\ 1 \in 1..((k + 1) - 1)
    BY <1>7
  <2>2. \A l \in 1..(k - 1) : less[l] = queue[l + 1] /\ l + 1 \in 1..((k + 1) - 1)
    BY <1>7
  <2> QED
    BY <1>7, <1>8, <2>1, <2>2
<1>10. QueueSound(side, new)
  <2>1. less # <<>>
    BY DEF less, queue
  <2> QED
    BY <1>5, <1>9, <1>7, <2>1, SMTT(20) DEF QueueSound
<1>11. \A k \in 2..(n + 1) : k - 1 \in DOMAIN less /\ less[k - 1] = queue[k]
  <2> TAKE k \in 2..(n + 1)
  <2>1. k \in Int /\ 2 <= k /\ k <= n + 1
    OBVIOUS
  <2>2. PICK j \in Int : j = k - 1
    BY <2>1
  <2>3. j \in 1..n /\ j + 1 = k
    BY <2>1, <2>2
  <2> QED
    BY <1>7, <2>2, <2>3
<1>12. QueueEntries(new) = QueueEntries(level) \ {queue[1]}
  <2>1. QueueEntries(new) = {less[k] : k \in 1..n}
    BY <1>5, <1>7 DEF QueueEntries
  <2>2. QueueEntries(level) = {queue[k] : k \in 1..(n + 1)}
    BY <1>7 DEF QueueEntries, queue
  <2>3. ASSUME NEW e \in QueueEntries(new)
        PROVE  e \in QueueEntries(level) \ {queue[1]}
    <3>1. PICK k \in 1..n : e = less[k]
      BY <2>1
    <3> QED
      BY <1>7, <1>9, <2>2, <3>1
  <2>4. ASSUME NEW e \in QueueEntries(level) \ {queue[1]}
        PROVE  e \in QueueEntries(new)
    <3>1. PICK k \in 1..(n + 1) : e = queue[k]
      BY <2>2
    <3>2. k \in 2..(n + 1)
      BY <1>7, <3>1
    <3> QED
      BY <1>7, <1>11, <2>1, <3>1, <3>2
  <2> QED
    BY <2>3, <2>4
<1> QED
  BY <1>5, <1>10, <1>12 DEF queue

LEMMA QueueTradeHead ==
  ASSUME NEW P, NEW side \in Sides,
         NEW level \in LevelRecords(P), QueueSound(side, level),
         NEW head \in OrderRecords(P),
         head.id = level.orders[1].id,
         head.side = level.orders[1].side,
         head.price = level.orders[1].price,
         NEW new, new = [level EXCEPT !.orders = [level.orders EXCEPT ![1] = head]]
  PROVE  /\ new \in LevelRecords(P)
         /\ new.price = level.price
         /\ QueueSound(side, new)
         /\ QueueEntries(new) =
              (QueueEntries(level) \ {level.orders[1]}) \cup {head}
<1> DEFINE queue == level.orders
           same == [queue EXCEPT ![1] = head]
<1>1. queue \in Seq(OrderRecords(P)) /\ level.price \in P /\ queue # <<>>
  BY DEF LevelRecords, QueueSound
<1>2. Len(queue) \in Nat \ {0} /\ DOMAIN queue = 1..Len(queue) /\ 1 \in 1..Len(queue)
  BY <1>1, LenProperties, EmptySeq
<1>3. /\ same \in Seq(OrderRecords(P))
      /\ Len(same) = Len(queue)
      /\ \A k \in 1..Len(queue) : same[k] = IF k = 1 THEN head ELSE queue[k]
  BY <1>1, <1>2, ExceptSeq
<1>4. DOMAIN same = 1..Len(queue) /\ same # <<>>
  BY <1>2, <1>3, LenProperties
<1>5. new = [price |-> level.price, orders |-> same]
  BY LevelExcept
<1>6. new \in LevelRecords(P) /\ new.price = level.price /\ new.orders = same
  BY <1>1, <1>3, <1>5 DEF LevelRecords
<1>7. ASSUME NEW k \in 1..Len(queue)
      PROVE  /\ same[k].side = side
             /\ same[k].price = level.price
             /\ \A l \in 1..(k - 1) : same[l].id # same[k].id
  <2>1. \A l \in 1..Len(queue) : /\ same[l].id = queue[l].id
                                 /\ same[l].side = queue[l].side
                                 /\ same[l].price = queue[l].price
    BY <1>3
  <2>2. \A l \in 1..(k - 1) : l \in 1..Len(queue)
    BY <1>2
  <2> QED
    BY <1>2, <2>1, <2>2 DEF QueueSound
<1>8. QueueSound(side, new)
  BY <1>4, <1>6, <1>7 DEF QueueSound
<1>9. \A k \in 2..Len(queue) : queue[k] # queue[1]
  <2>1. \A k \in 2..Len(queue) : 1 \in 1..(k - 1) /\ k \in DOMAIN queue
    BY <1>2
  <2> QED
    BY <2>1 DEF QueueSound
<1>10. QueueEntries(new) = (QueueEntries(level) \ {queue[1]}) \cup {head}
  <2>1. QueueEntries(new) = {same[k] : k \in 1..Len(queue)}
    BY <1>4, <1>6 DEF QueueEntries
  <2>2. QueueEntries(level) = {queue[k] : k \in 1..Len(queue)}
    BY <1>2 DEF QueueEntries
  <2>3. same[1] = head /\ \A k \in 2..Len(queue) : same[k] = queue[k]
    BY <1>2, <1>3
  <2>4. \A k \in 1..Len(queue) : k = 1 \/ k \in 2..Len(queue)
    BY <1>2
  <2>5. 1 \in 1..Len(queue) /\ \A k \in 2..Len(queue) : k \in 1..Len(queue)
    BY <1>2
  <2> HIDE DEF same
  <2>6. ASSUME NEW e \in QueueEntries(new)
        PROVE  e = head \/ (e \in QueueEntries(level) /\ e # queue[1])
    <3>1. PICK k \in 1..Len(queue) : e = same[k]
      BY <2>1
    <3> QED
      BY <1>9, <2>2, <2>3, <2>4, <3>1
  <2>7. ASSUME NEW e \in QueueEntries(level), e # queue[1]
        PROVE  e \in QueueEntries(new)
    BY <2>1, <2>2, <2>3, <2>4, <2>5, <2>7
  <2>8. head \in QueueEntries(new)
    BY <2>1, <2>3, <2>5
  <2> QED
    BY <2>6, <2>7, <2>8
<1> QED
  BY <1>6, <1>8, <1>10

(***************************************************************************)
(* Levels of which one is replaced by a level of the same price, or the    *)
(* first is dropped.                                                       *)
(***************************************************************************)
LEMMA ReplaceLevel ==
  ASSUME NEW P, NEW side \in Sides,
         NEW levels \in Seq(LevelRecords(P)), LevelsSound(side, levels),
         NEW i \in DOMAIN levels,
         NEW new \in Seq(LevelRecords(P)), DOMAIN new = DOMAIN levels,
         \A j \in DOMAIN levels \ {i} : new[j] = levels[j],
         new[i].price = levels[i].price, QueueSound(side, new[i])
  PROVE  /\ LevelsSound(side, new)
         /\ Entries(new) = QueueEntries(new[i]) \cup OtherEntries(levels, i)
<1>1. DOMAIN levels = 1..Len(levels) /\ Len(levels) \in Nat
  BY LenProperties
<1>2. \A j \in DOMAIN levels : QueueSound(side, new[j]) /\ new[j].price = levels[j].price
  BY DEF LevelsSound
<1>3. \A j \in DOMAIN levels : \A k \in 1..(j - 1) : k \in DOMAIN levels
  BY <1>1
<1>4. LevelsSound(side, new)
  BY <1>2, <1>3 DEF LevelsSound
<1>5. OtherEntries(new, i) = OtherEntries(levels, i)
  BY DEF OtherEntries
<1> QED
  BY <1>4, <1>5, EntriesSplit

LEMMA DropFirstLevel ==
  ASSUME NEW P, NEW side \in Sides,
         NEW levels \in Seq(LevelRecords(P)), LevelsSound(side, levels), levels # <<>>
  PROVE  /\ Tail(levels) \in Seq(LevelRecords(P))
         /\ LevelsSound(side, Tail(levels))
         /\ Entries(Tail(levels)) = OtherEntries(levels, 1)
<1> DEFINE new == Tail(levels)
<1>1. /\ new \in Seq(LevelRecords(P))
      /\ Len(new) = Len(levels) - 1
      /\ \A j \in 1..Len(new) : new[j] = levels[j + 1]
  BY HeadTailProperties, Zenon
<1>2. /\ Len(levels) \in Nat \ {0}
      /\ DOMAIN levels = 1..Len(levels)
      /\ DOMAIN new = 1..(Len(levels) - 1)
  BY <1>1, LenProperties, EmptySeq
<1>3. \A j \in DOMAIN new : j + 1 \in DOMAIN levels \ {1} /\ new[j] = levels[j + 1]
  BY <1>1, <1>2
<1>4. \A j \in DOMAIN levels \ {1} : j - 1 \in DOMAIN new /\ levels[j] = new[j - 1]
  BY <1>1, <1>2
<1>5. LevelsSound(side, new)
  <2>1. \A j \in DOMAIN new : QueueSound(side, new[j])
    BY <1>3 DEF LevelsSound
  <2>2. ASSUME NEW j \in DOMAIN new, NEW k \in 1..(j - 1)
        PROVE  SortsBefore(side, new[k].price, new[j].price)
    <3>1. k \in DOMAIN new /\ k + 1 \in 1..((j + 1) - 1)
      BY <1>2
    <3> QED
      BY <1>3, <3>1 DEF LevelsSound
  <2> QED
    BY <2>1, <2>2 DEF LevelsSound
<1>6. ASSUME NEW e
      PROVE  e \in Entries(new) <=> e \in OtherEntries(levels, 1)
  <2>1. e \in Entries(new) <=> \E j \in DOMAIN new : e \in QueueEntries(new[j])
    BY EntriesElements, Zenon
  <2>2. ASSUME NEW j \in DOMAIN new, e \in QueueEntries(new[j])
        PROVE  \E k \in DOMAIN levels \ {1} : e \in QueueEntries(levels[k])
    BY <1>3, <2>2, Zenon
  <2>3. ASSUME NEW j \in DOMAIN levels \ {1}, e \in QueueEntries(levels[j])
        PROVE  \E k \in DOMAIN new : e \in QueueEntries(new[k])
    BY <1>4, <2>3, Zenon
  <2>4. e \in OtherEntries(levels, 1) <=>
          \E j \in DOMAIN levels \ {1} : e \in QueueEntries(levels[j])
    BY Zenon DEF OtherEntries
  <2> QED
    BY <2>1, <2>2, <2>3, <2>4, Zenon
<1> QED
  BY <1>1, <1>5, <1>6

(***************************************************************************)
(* Levels that are in order hold no order at two levels.                   *)
(***************************************************************************)
LEMMA LevelsShareNothing ==
  ASSUME NEW P \in SUBSET Nat, NEW side \in Sides,
         NEW levels \in Seq(LevelRecords(P)), LevelsSound(side, levels),
         NEW i \in DOMAIN levels, NEW j \in DOMAIN levels, i # j,
         NEW e \in QueueEntries(levels[i])
  PROVE  /\ levels[i].price # levels[j].price
         /\ e.price = levels[i].price
         /\ e \notin QueueEntries(levels[j])
<1>1. Len(levels) \in Nat /\ DOMAIN levels = 1..Len(levels)
  BY LenProperties
<1>2. levels[i].price \in Nat /\ levels[j].price \in Nat
  BY LevelsTyped
<1>3. i \in 1..(j - 1) \/ j \in 1..(i - 1)
  BY <1>1
<1>4. levels[i].price # levels[j].price
  BY <1>2, <1>3, SortsBeforeIsTotal DEF LevelsSound
<1>5. \A k \in {i, j} : \A x \in QueueEntries(levels[k]) : x.price = levels[k].price
  BY DEF LevelsSound, QueueSound, QueueEntries
<1> QED
  BY <1>4, <1>5

(***************************************************************************)
(* addToBook keeps a side in order and adds the order to it, nothing else. *)
(***************************************************************************)
THEOREM AddToBookSound ==
  ASSUME NEW P \in SUBSET Nat, NEW side \in Sides,
         NEW levels \in Seq(LevelRecords(P)), LevelsSound(side, levels),
         NEW order \in OrderRecords(P), order.side = side,
         \A e \in Entries(levels) : e.id # order.id
  PROVE  LET new == AddToBook(levels, order)
         IN  /\ new \in Seq(LevelRecords(P))
             /\ LevelsSound(side, new)
             /\ Entries(new) = Entries(levels) \cup {order}
<1> DEFINE new == AddToBook(levels, order)
           Found == \E k \in DOMAIN levels : levels[k].price = order.price
<1>1. order.price \in P /\ order.price \in Nat
  BY DEF OrderRecords
<1>2. Len(levels) \in Nat /\ DOMAIN levels = 1..Len(levels)
  BY LenProperties
<1>3. CASE Found
  <2> DEFINE i == LevelOf(levels, order.price)
             more == Append(levels[i].orders, order)
             level == [levels[i] EXCEPT !.orders = more]
  <2>1. i \in DOMAIN levels /\ levels[i].price = order.price
    BY <1>3 DEF LevelOf
  <2>2. new = [levels EXCEPT ![i] = level]
    BY <1>3 DEF AddToBook
  <2>3. levels[i] \in LevelRecords(P) /\ QueueSound(side, levels[i])
    BY <2>1, LevelsTyped DEF LevelsSound
  <2>4. \A e \in QueueEntries(levels[i]) : e.id # order.id
    BY <2>1, EntriesElements
  <2>5. /\ level \in LevelRecords(P)
        /\ level.price = levels[i].price
        /\ QueueSound(side, level)
        /\ QueueEntries(level) = QueueEntries(levels[i]) \cup {order}
    <3> DEFINE old == levels[i]
    <3>1. order.price = old.price
      BY <2>1
    <3>2. level = [old EXCEPT !.orders = Append(old.orders, order)]
      OBVIOUS
    <3> HIDE DEF i, more, level, old
    <3>3. old \in LevelRecords(P) /\ QueueSound(side, old)
      BY <2>3 DEF old
    <3>4. \A e \in QueueEntries(old) : e.id # order.id
      BY <2>4 DEF old
    <3>5. /\ level \in LevelRecords(P)
          /\ level.price = old.price
          /\ QueueSound(side, level)
          /\ QueueEntries(level) = QueueEntries(old) \cup {order}
      BY <3>1, <3>2, <3>3, <3>4, QueueAppend
    <3> QED
      BY <3>5 DEF old
  <2> HIDE DEF i, more, level
  <2>6. /\ new \in Seq(LevelRecords(P))
        /\ LevelsSound(side, new)
        /\ Entries(new) = QueueEntries(level) \cup OtherEntries(levels, i)
    <3> HIDE DEF Found, new
    <3>1. /\ new \in Seq(LevelRecords(P))
          /\ DOMAIN new = DOMAIN levels
          /\ \A j \in DOMAIN levels \ {i} : new[j] = levels[j]
          /\ new[i] = level
      BY <1>2, <2>1, <2>2, <2>5, ExceptSeq
    <3> QED
      BY <2>1, <2>5, <3>1, ReplaceLevel
  <2>7. Entries(levels) = QueueEntries(levels[i]) \cup OtherEntries(levels, i)
    BY <2>1, EntriesSplit
  <2> QED
    BY <2>5, <2>6, <2>7
<1>4. CASE ~Found
  <2> DEFINE p == LevelPosition(levels, side, order.price)
             level == [price |-> order.price, orders |-> <<order>>]
             n == Len(levels) + 1
  <2>1. new = InsertLevel(levels, p, level)
    BY <1>4 DEF AddToBook
  <2>2. /\ p \in 1..n
        /\ p <= Len(levels) => ~SortsBefore(side, levels[p].price, order.price)
        /\ \A j \in 1..(p - 1) : SortsBefore(side, levels[j].price, order.price)
    BY <1>1, LevelPositionCorrect
  <2>3. /\ level \in LevelRecords(P)
        /\ level.price = order.price
        /\ QueueSound(side, level)
        /\ QueueEntries(level) = {order}
    <3>1. <<order>> \in Seq(OrderRecords(P)) /\ <<order>> # <<>>
      OBVIOUS
    <3>2. DOMAIN <<order>> = {1} /\ <<order>>[1] = order
      OBVIOUS
    <3>3. level.price = order.price /\ level.orders = <<order>>
      OBVIOUS
    <3>4. level \in LevelRecords(P)
      BY <1>1, <3>1 DEF LevelRecords
    <3> HIDE DEF level
    <3>5. QueueSound(side, level)
      BY <3>1, <3>2, <3>3 DEF QueueSound
    <3>6. QueueEntries(level) = {order}
      BY <3>2, <3>3 DEF QueueEntries
    <3> QED
      BY <3>3, <3>4, <3>5, <3>6
  <2> HIDE DEF p, level
  <2>4. /\ new \in Seq(LevelRecords(P))
        /\ DOMAIN new = 1..n
        /\ new[p] = level
        /\ \A j \in 1..(p - 1) : j \in DOMAIN levels /\ new[j] = levels[j]
        /\ \A j \in (p + 1)..n : j - 1 \in DOMAIN levels /\ new[j] = levels[j - 1]
    <3>1. p \in 1..(Len(levels) + 1) /\ level \in LevelRecords(P)
      BY <2>2, <2>3
    <3> HIDE DEF new, n
    <3>2. PICK q \in 1..(Len(levels) + 1) : q = p
      BY <3>1
    <3>3. PICK l \in LevelRecords(P) : l = level
      BY <3>1
    <3> DEFINE inserted == InsertLevel(levels, q, l)
    <3>4. /\ inserted \in Seq(LevelRecords(P))
          /\ DOMAIN inserted = 1..(Len(levels) + 1)
          /\ inserted[q] = l
          /\ \A j \in 1..(q - 1) : j \in DOMAIN levels /\ inserted[j] = levels[j]
          /\ \A j \in (q + 1)..(Len(levels) + 1) :
               j - 1 \in DOMAIN levels /\ inserted[j] = levels[j - 1]
      BY InsertLevelTyped
    <3>5. new = inserted
      BY <2>1, <3>2, <3>3
    <3> HIDE DEF inserted
    <3> QED
      BY <3>2, <3>3, <3>4, <3>5 DEF n
  <2>5. p \in Nat /\ n \in Nat
    BY <1>2, <2>2
  <2>6. \A j \in 1..n : j \in 1..(p - 1) \/ j = p \/ j \in (p + 1)..n
    BY <2>5
  <2>7. \A j \in DOMAIN levels : levels[j].price \in Nat /\ levels[j].price # order.price
    BY <1>4, LevelsTyped
  <2>8. \A j \in DOMAIN levels : j >= p => SortsBefore(side, order.price, levels[j].price)
    <3> SUFFICES ASSUME NEW j \in DOMAIN levels, j >= p
                 PROVE  SortsBefore(side, order.price, levels[j].price)
      OBVIOUS
    <3>1. p \in DOMAIN levels
      BY <1>2, <2>2
    <3>2. SortsBefore(side, order.price, levels[p].price)
      BY <1>1, <1>2, <2>2, <2>7, <3>1, SortsBeforeIsTotal
    <3>3. CASE j = p
      BY <3>2, <3>3
    <3>4. CASE j # p
      <4>1. p \in 1..(j - 1)
        BY <1>2, <2>5, <3>4, <2>2
      <4>2. SortsBefore(side, levels[p].price, levels[j].price)
        BY <4>1 DEF LevelsSound
      <4> QED
        BY <1>1, <2>7, <3>1, <3>2, <4>2, SortsBeforeIsTotal
    <3> QED
      BY <3>3, <3>4
  <2>9. \A j \in 1..n : QueueSound(side, new[j])
    BY <2>3, <2>4, <2>6 DEF LevelsSound
  <2>10. ASSUME NEW j \in 1..n, NEW k \in 1..(j - 1)
         PROVE  SortsBefore(side, new[k].price, new[j].price)
    <3>1. CASE j \in 1..(p - 1)
      <4>1. k \in 1..(p - 1)
        BY <2>5, <3>1
      <4> QED
        BY <2>4, <3>1, <4>1 DEF LevelsSound
    <3>2. CASE j = p
      BY <2>2, <2>3, <2>4, <3>2
    <3>3. CASE j \in (p + 1)..n
      <4>1. j - 1 \in DOMAIN levels /\ new[j] = levels[j - 1] /\ j - 1 >= p
        BY <2>4, <2>5, <3>3
      <4>2. CASE k \in 1..(p - 1)
        <5>1. k \in 1..((j - 1) - 1)
          BY <2>5, <3>3, <4>2
        <5> QED
          BY <2>4, <4>1, <4>2, <5>1 DEF LevelsSound
      <4>3. CASE k = p
        BY <2>3, <2>4, <2>8, <4>1, <4>3
      <4>4. CASE k \in (p + 1)..n
        <5>1. k - 1 \in 1..((j - 1) - 1) /\ new[k] = levels[k - 1]
          BY <2>4, <2>5, <3>3, <4>4
        <5> QED
          BY <4>1, <5>1 DEF LevelsSound
      <4>5. k \in 1..n
        BY <2>5
      <4> QED
        BY <2>6, <4>2, <4>3, <4>4, <4>5
    <3> QED
      BY <2>6, <3>1, <3>2, <3>3
  <2>11. LevelsSound(side, new)
    BY <2>4, <2>9, <2>10 DEF LevelsSound
  <2>12. \A j \in DOMAIN levels :
           /\ j < p => j \in 1..n /\ new[j] = levels[j]
           /\ j >= p => j + 1 \in 1..n /\ new[j + 1] = levels[j]
    <3>1. \A j \in DOMAIN levels :
            /\ j < p => j \in 1..(p - 1) /\ j \in 1..n
            /\ j >= p => j + 1 \in (p + 1)..n /\ (j + 1) - 1 = j
      BY <1>2, <2>5
    <3> QED
      BY <2>4, <2>5, <3>1
  <2>13. ASSUME NEW e \in Entries(new) PROVE e \in Entries(levels) \cup {order}
    <3>1. PICK j \in 1..n : e \in QueueEntries(new[j])
      BY <2>4, EntriesElements
    <3> QED
      BY <2>3, <2>4, <2>6, <3>1, EntriesElements
  <2>14. ASSUME NEW e \in Entries(levels) PROVE e \in Entries(new)
    <3>1. PICK j \in DOMAIN levels : e \in QueueEntries(levels[j])
      BY EntriesElements
    <3>2. PICK k \in 1..n : new[k] = levels[j]
      <4>1. j < p \/ j >= p
        BY <1>2, <2>5
      <4>2. CASE j < p
        BY <2>12, <4>2, Zenon
      <4>3. CASE j >= p
        BY <2>12, <4>3, Zenon
      <4> QED
        BY <4>1, <4>2, <4>3
    <3> HIDE DEF new
    <3> QED
      BY <2>4, <3>1, <3>2, EntriesElements, Zenon
  <2>15. order \in Entries(new)
    BY <2>2, <2>3, <2>4, EntriesElements
  <2> QED
    BY <2>4, <2>11, <2>13, <2>14, <2>15
<1> QED
  BY <1>3, <1>4

(***************************************************************************)
(* The head of a side: an order of the book, at the side's best price.     *)
(***************************************************************************)
LEMMA HeadOrderSound ==
  ASSUME NEW P \in SUBSET Nat, NEW side \in Sides,
         NEW levels \in Seq(LevelRecords(P)), LevelsSound(side, levels), levels # <<>>
  PROVE  /\ 1 \in DOMAIN levels
         /\ levels[1] \in LevelRecords(P)
         /\ QueueSound(side, levels[1])
         /\ HeadOrder(levels) = levels[1].orders[1]
         /\ HeadOrder(levels) \in OrderRecords(P)
         /\ HeadOrder(levels) \in QueueEntries(levels[1])
         /\ HeadOrder(levels) \in Entries(levels)
         /\ HeadOrder(levels) \notin OtherEntries(levels, 1)
         /\ HeadOrder(levels).price = levels[1].price
         /\ HeadOrder(levels).side = side
         /\ \A e \in Entries(levels) :
              e.price = levels[1].price \/ SortsBefore(side, levels[1].price, e.price)
<1> DEFINE queue == levels[1].orders
<1>1. DOMAIN levels = 1..Len(levels) /\ Len(levels) \in Nat \ {0} /\ 1 \in DOMAIN levels
  BY LenProperties, EmptySeq
<1>2. levels[1] \in LevelRecords(P) /\ queue \in Seq(OrderRecords(P))
  BY <1>1, LevelsTyped
<1>3. QueueSound(side, levels[1]) /\ queue # <<>>
  BY <1>1 DEF LevelsSound, QueueSound
<1>4. DOMAIN queue = 1..Len(queue) /\ 1 \in DOMAIN queue
  BY <1>2, <1>3, LenProperties, EmptySeq
<1>5. HeadOrder(levels) = queue[1] /\ queue[1] \in OrderRecords(P)
  BY <1>2, <1>4, ElementOfSeq DEF HeadOrder
<1>6. queue[1] \in QueueEntries(levels[1])
  BY <1>4 DEF QueueEntries
<1>7. queue[1].price = levels[1].price /\ queue[1].side = side
  BY <1>3, <1>4 DEF QueueSound
<1>8. queue[1] \in Entries(levels)
  BY <1>1, <1>6, EntriesSplit
<1>9. \A j \in DOMAIN levels \ {1} : queue[1] \notin QueueEntries(levels[j])
  BY <1>1, <1>6, LevelsShareNothing
<1>10. queue[1] \notin OtherEntries(levels, 1)
  BY <1>9 DEF OtherEntries
<1>11. ASSUME NEW e \in Entries(levels)
       PROVE  e.price = levels[1].price \/ SortsBefore(side, levels[1].price, e.price)
  <2>1. PICK j \in DOMAIN levels : e \in QueueEntries(levels[j])
    BY EntriesElements
  <2>2. e.price = levels[j].price
    BY <2>1 DEF LevelsSound, QueueSound, QueueEntries
  <2>3. j # 1 => 1 \in 1..(j - 1)
    BY <1>1
  <2> QED
    BY <2>2, <2>3 DEF LevelsSound
<1> QED
  BY <1>1, <1>2, <1>3, <1>5, <1>6, <1>7, <1>8, <1>10, <1>11

(***************************************************************************)
(* A round of the matching loop keeps the opposite side in order and takes *)
(* from its head what was traded, and from no other order.                 *)
(***************************************************************************)
THEOREM AfterHeadTradeSound ==
  ASSUME NEW P \in SUBSET Nat, NEW side \in Sides,
         NEW levels \in Seq(LevelRecords(P)), LevelsSound(side, levels), levels # <<>>,
         NEW head, head = HeadOrder(levels),
         NEW traded \in Nat \ {0}, traded <= head.quantity,
         NEW new, new = AfterHeadTrade(levels, traded)
  PROVE  /\ new \in Seq(LevelRecords(P))
         /\ LevelsSound(side, new)
         /\ head.quantity = traded => Entries(new) = Entries(levels) \ {head}
         /\ head.quantity # traded =>
              Entries(new) = (Entries(levels) \ {head})
                               \cup {[head EXCEPT !.quantity = head.quantity - traded]}
<1> DEFINE level == levels[1]
           queue == level.orders
           less == [head EXCEPT !.quantity = head.quantity - traded]
<1>1. /\ 1 \in DOMAIN levels
      /\ level \in LevelRecords(P)
      /\ QueueSound(side, level)
      /\ head = queue[1]
      /\ head \in OrderRecords(P)
      /\ head \notin OtherEntries(levels, 1)
  BY HeadOrderSound
<1>2. Entries(levels) = QueueEntries(level) \cup OtherEntries(levels, 1)
  BY <1>1, EntriesSplit
<1>3. queue \in Seq(OrderRecords(P)) /\ queue # <<>>
  BY <1>1 DEF LevelRecords, QueueSound
<1>4. DOMAIN levels = 1..Len(levels) /\ Len(levels) \in Nat
  BY LenProperties
<1>5. CASE head.quantity = traded /\ Tail(queue) = <<>>
  <2>1. new = Tail(levels)
    BY <1>1, <1>5 DEF AfterHeadTrade
  <2>2. /\ Tail(levels) \in Seq(LevelRecords(P))
        /\ LevelsSound(side, Tail(levels))
        /\ Entries(Tail(levels)) = OtherEntries(levels, 1)
    BY DropFirstLevel
  <2>3. QueueEntries(level) = {head}
    <3>1. Len(queue) \in Nat /\ Len(queue) - 1 = 0
      BY <1>3, <1>5, HeadTailProperties, EmptySeq, LenProperties
    <3>2. DOMAIN queue = {1}
      BY <1>3, <3>1, LenProperties
    <3> QED
      BY <1>1, <3>2 DEF QueueEntries
  <2> QED
    BY <1>1, <1>2, <1>5, <2>1, <2>2, <2>3
<1>6. CASE head.quantity = traded /\ Tail(queue) # <<>>
  <2> DEFINE shifted == [level EXCEPT !.orders = Tail(queue)]
  <2>1. new = [levels EXCEPT ![1] = shifted]
    BY <1>1, <1>6 DEF AfterHeadTrade
  <2>2. /\ shifted \in LevelRecords(P)
        /\ shifted.price = level.price
        /\ QueueSound(side, shifted)
        /\ QueueEntries(shifted) = QueueEntries(level) \ {head}
    <3>1. shifted = [level EXCEPT !.orders = Tail(level.orders)]
      OBVIOUS
    <3>2. head = level.orders[1] /\ Tail(level.orders) # <<>>
      BY <1>1, <1>6
    <3> HIDE DEF shifted, level
    <3>3. /\ shifted \in LevelRecords(P)
          /\ shifted.price = level.price
          /\ QueueSound(side, shifted)
          /\ QueueEntries(shifted) = QueueEntries(level) \ {level.orders[1]}
      BY <1>1, <3>1, <3>2, QueueShift, Zenon
    <3> QED
      BY <3>2, <3>3
  <2> HIDE DEF shifted
  <2>3. /\ new \in Seq(LevelRecords(P))
        /\ DOMAIN new = DOMAIN levels
        /\ \A j \in DOMAIN levels \ {1} : new[j] = levels[j]
        /\ new[1] = shifted
    BY <1>1, <1>4, <2>1, <2>2, ExceptSeq
  <2>4. /\ LevelsSound(side, new)
        /\ Entries(new) = QueueEntries(shifted) \cup OtherEntries(levels, 1)
    BY <1>1, <2>2, <2>3, ReplaceLevel
  <2> QED
    BY <1>1, <1>2, <1>6, <2>2, <2>3, <2>4
<1>7. CASE head.quantity # traded
  <2> DEFINE lighter == [level EXCEPT !.orders = [queue EXCEPT ![1] = less]]
  <2>1. /\ less \in OrderRecords(P)
        /\ less.id = head.id
        /\ less.side = head.side
        /\ less.price = head.price
    <3>1. head.quantity - traded \in Nat \ {0}
      BY <1>1, <1>7 DEF OrderRecords
    <3> QED
      BY <1>1, <3>1 DEF OrderRecords
  <2>2. [queue EXCEPT ![1].quantity = @ - traded] = [queue EXCEPT ![1] = less]
    BY <1>1
  <2>3. [queue EXCEPT ![1] = less] # <<>>
    BY <1>3, <2>1, ExceptSeq, EmptySeq, LenProperties
  <2>4. new = [levels EXCEPT ![1] = lighter]
    BY <1>1, <1>7, <2>2, <2>3 DEF AfterHeadTrade
  <2>5. /\ lighter \in LevelRecords(P)
        /\ lighter.price = level.price
        /\ QueueSound(side, lighter)
        /\ QueueEntries(lighter) = (QueueEntries(level) \ {head}) \cup {less}
    <3> HIDE DEF less
    <3> QED
      BY <1>1, <2>1, QueueTradeHead
  <2> HIDE DEF lighter
  <2>6. /\ new \in Seq(LevelRecords(P))
        /\ DOMAIN new = DOMAIN levels
        /\ \A j \in DOMAIN levels \ {1} : new[j] = levels[j]
        /\ new[1] = lighter
    BY <1>1, <1>4, <2>4, <2>5, ExceptSeq
  <2>7. /\ LevelsSound(side, new)
        /\ Entries(new) = QueueEntries(lighter) \cup OtherEntries(levels, 1)
    BY <1>1, <2>5, <2>6, ReplaceLevel
  <2> HIDE DEF less
  <2>8. Entries(new) = (Entries(levels) \ {head}) \cup {less}
    BY <1>1, <1>2, <2>5, <2>7
  <2> QED
    BY <1>7, <2>6, <2>7, <2>8 DEF less
<1> QED
  BY <1>5, <1>6, <1>7

(***************************************************************************)
(* First come, first served: the orders of a level stand in the order of   *)
(* their times, given as a function of their ids.                          *)
(***************************************************************************)
QueueInTime(queue, time) ==
  \A k \in DOMAIN queue : \A l \in 1..(k - 1) : time[queue[l].id] <= time[queue[k].id]

LevelsInTime(levels, time) == \A i \in DOMAIN levels : QueueInTime(levels[i].orders, time)

LEMMA AppendInTime ==
  ASSUME NEW S, NEW queue \in Seq(S), NEW order \in S, NEW time, QueueInTime(queue, time),
         \A k \in DOMAIN queue : time[queue[k].id] <= time[order.id]
  PROVE  QueueInTime(Append(queue, order), time)
<1> DEFINE more == Append(queue, order)
<1>1. /\ Len(queue) \in Nat /\ DOMAIN queue = 1..Len(queue)
      /\ DOMAIN more = 1..(Len(queue) + 1)
      /\ \A k \in 1..Len(queue) : more[k] = queue[k]
      /\ more[Len(queue) + 1] = order
  BY AppendProperties, LenProperties
<1> HIDE DEF more
<1>2. ASSUME NEW k \in 1..(Len(queue) + 1), NEW l \in 1..(k - 1)
      PROVE  time[more[l].id] <= time[more[k].id]
  <2>1. l \in 1..Len(queue) /\ more[l] = queue[l]
    BY <1>1
  <2>2. CASE k = Len(queue) + 1
    BY <1>1, <2>1, <2>2
  <2>3. CASE k \in 1..Len(queue)
    BY <1>1, <2>1, <2>3 DEF QueueInTime
  <2> QED
    BY <1>1, <2>2, <2>3
<1> QED
  BY <1>1, <1>2 DEF QueueInTime, more

LEMMA TailInTime ==
  ASSUME NEW S, NEW queue \in Seq(S), queue # <<>>, NEW time, QueueInTime(queue, time)
  PROVE  QueueInTime(Tail(queue), time)
<1> DEFINE less == Tail(queue)
<1>1. /\ less \in Seq(S) /\ Len(less) = Len(queue) - 1
      /\ \A k \in 1..Len(less) : less[k] = queue[k + 1]
  BY HeadTailProperties, Zenon
<1>2. /\ Len(queue) \in Nat \ {0} /\ DOMAIN queue = 1..Len(queue)
      /\ DOMAIN less = 1..(Len(queue) - 1)
  BY <1>1, LenProperties, EmptySeq
<1> HIDE DEF less
<1>3. ASSUME NEW k \in DOMAIN less, NEW l \in 1..(k - 1)
      PROVE  time[less[l].id] <= time[less[k].id]
  <2>1. /\ less[k] = queue[k + 1] /\ less[l] = queue[l + 1]
        /\ k + 1 \in DOMAIN queue /\ l + 1 \in 1..((k + 1) - 1)
    BY <1>1, <1>2
  <2> QED
    BY <2>1 DEF QueueInTime
<1> QED
  BY <1>3 DEF QueueInTime, less

\* A queue whose orders keep their ids keeps its order.
LEMMA SameIdsInTime ==
  ASSUME NEW queue, NEW n \in Nat, DOMAIN queue = 1..n, NEW time, QueueInTime(queue, time),
         NEW new, DOMAIN new = 1..n, \A k \in 1..n : new[k].id = queue[k].id
  PROVE  QueueInTime(new, time)
BY DEF QueueInTime

LEMMA AddToBookInTime ==
  ASSUME NEW P \in SUBSET Nat, NEW side \in Sides,
         NEW levels \in Seq(LevelRecords(P)), LevelsSound(side, levels),
         NEW order \in OrderRecords(P), order.side = side,
         NEW time, LevelsInTime(levels, time),
         \A e \in Entries(levels) : time[e.id] <= time[order.id]
  PROVE  LevelsInTime(AddToBook(levels, order), time)
<1> DEFINE new == AddToBook(levels, order)
           Found == \E k \in DOMAIN levels : levels[k].price = order.price
<1>1. order.price \in P /\ order.price \in Nat
  BY DEF OrderRecords
<1>2. Len(levels) \in Nat /\ DOMAIN levels = 1..Len(levels)
  BY LenProperties
<1>3. CASE Found
  <2>1. PICK i \in DOMAIN levels : i = LevelOf(levels, order.price)
    BY <1>3 DEF LevelOf
  <2> DEFINE queue == levels[i].orders
             level == [levels[i] EXCEPT !.orders = Append(queue, order)]
  <2>2. new = [levels EXCEPT ![i] = level]
    BY <1>3, <2>1 DEF AddToBook
  <2>3. queue \in Seq(OrderRecords(P)) /\ levels[i] \in LevelRecords(P)
    BY LevelsTyped
  <2>4. level = [price |-> levels[i].price, orders |-> Append(queue, order)]
    BY <2>3, LevelExcept
  <2>5. \A k \in DOMAIN queue : time[queue[k].id] <= time[order.id]
    BY DEF Entries, QueueEntries
  <2>6. QueueInTime(Append(queue, order), time)
    BY <2>3, <2>5, AppendInTime DEF LevelsInTime
  <2>7. QueueInTime(level.orders, time)
    BY <2>4, <2>6
  <2>8. /\ DOMAIN new = DOMAIN levels /\ new[i] = level
        /\ \A j \in DOMAIN levels \ {i} : new[j] = levels[j]
    BY <2>2
  <2> HIDE DEF level, new
  <2> QED
    BY <2>7, <2>8 DEF LevelsInTime, new
<1>4. CASE ~Found
  <2> DEFINE level == [price |-> order.price, orders |-> <<order>>]
  <2>1. PICK p \in 1..(Len(levels) + 1) : p = LevelPosition(levels, side, order.price)
    BY <1>1, LevelPositionCorrect
  <2>2. new = InsertLevel(levels, p, level)
    BY <1>4, <2>1 DEF AddToBook
  <2>3. QueueInTime(level.orders, time) /\ level \in LevelRecords(P)
    <3>1. /\ <<order>> \in Seq(OrderRecords(P))
          /\ DOMAIN <<order>> = {1}
          /\ level.orders = <<order>>
      OBVIOUS
    <3> QED
      BY <1>1, <3>1 DEF QueueInTime, LevelRecords
  <2> HIDE DEF level, new
  <2>4. /\ DOMAIN new = 1..(Len(levels) + 1)
        /\ new[p] = level
        /\ \A j \in 1..(p - 1) : j \in DOMAIN levels /\ new[j] = levels[j]
        /\ \A j \in (p + 1)..(Len(levels) + 1) : j - 1 \in DOMAIN levels /\ new[j] = levels[j - 1]
    <3>1. PICK l \in LevelRecords(P) : l = level
      BY <2>3
    <3> DEFINE inserted == InsertLevel(levels, p, l)
    <3>2. /\ DOMAIN inserted = 1..(Len(levels) + 1)
          /\ inserted[p] = l
          /\ \A j \in 1..(p - 1) : j \in DOMAIN levels /\ inserted[j] = levels[j]
          /\ \A j \in (p + 1)..(Len(levels) + 1) :
               j - 1 \in DOMAIN levels /\ inserted[j] = levels[j - 1]
      BY InsertLevelTyped
    <3>3. new = inserted
      BY <2>2, <3>1
    <3> HIDE DEF inserted
    <3> QED
      BY <3>1, <3>2, <3>3, Zenon
  <2>5. \A j \in 1..(Len(levels) + 1) :
          j = p \/ j \in 1..(p - 1) \/ j \in (p + 1)..(Len(levels) + 1)
    BY <1>2
  <2> QED
    BY <2>3, <2>4, <2>5, Zenon DEF LevelsInTime, new
<1> QED
  BY <1>3, <1>4

LEMMA AfterHeadTradeInTime ==
  ASSUME NEW P \in SUBSET Nat, NEW side \in Sides,
         NEW levels \in Seq(LevelRecords(P)), LevelsSound(side, levels), levels # <<>>,
         NEW traded, NEW time, LevelsInTime(levels, time)
  PROVE  LevelsInTime(AfterHeadTrade(levels, traded), time)
<1> DEFINE level == levels[1]
           queue == level.orders
           new == AfterHeadTrade(levels, traded)
           less == [queue EXCEPT ![1].quantity = @ - traded]
<1>1. 1 \in DOMAIN levels /\ level \in LevelRecords(P) /\ QueueSound(side, level)
  BY HeadOrderSound
<1>2. queue \in Seq(OrderRecords(P)) /\ queue # <<>>
  BY <1>1 DEF LevelRecords, QueueSound
<1>3. Len(queue) \in Nat /\ DOMAIN queue = 1..Len(queue) /\ 1 \in DOMAIN queue
  BY <1>2, LenProperties, EmptySeq
<1>4. QueueInTime(Tail(queue), time)
  BY <1>1, <1>2, TailInTime DEF LevelsInTime
<1>5. QueueInTime(less, time)
  <2>1. queue[1] \in [id : Nat, side : Sides, type : Types, price : P, quantity : Nat \ {0}]
    BY <1>2, <1>3, ElementOfSeq, ZenonT(40) DEF OrderRecords
  <2>2. /\ DOMAIN less = 1..Len(queue)
        /\ less[1] = [queue[1] EXCEPT !.quantity = queue[1].quantity - traded]
        /\ \A k \in 1..Len(queue) : k # 1 => less[k] = queue[k]
    BY <1>3
  <2>3. less[1].id = queue[1].id
    BY <2>1, <2>2
  <2>4. \A k \in 1..Len(queue) : less[k].id = queue[k].id
    BY <2>2, <2>3
  <2>5. QueueInTime(queue, time)
    BY <1>1 DEF LevelsInTime
  <2> HIDE DEF less
  <2> QED
    BY <1>3, <2>2, <2>4, <2>5, SameIdsInTime
<1>6. PICK left : /\ left = IF queue[1].quantity = traded THEN Tail(queue) ELSE less
                  /\ QueueInTime(left, time)
  BY <1>4, <1>5
<1>7. new = IF left = <<>> THEN Tail(levels) ELSE [levels EXCEPT ![1].orders = left]
  BY <1>6, Zenon DEF AfterHeadTrade
<1>8. CASE left = <<>>
  <2>1. /\ new \in Seq(LevelRecords(P)) /\ Len(new) = Len(levels) - 1
        /\ \A j \in 1..Len(new) : new[j] = levels[j + 1]
    BY <1>7, <1>8, HeadTailProperties, Zenon
  <2>2. DOMAIN new = 1..Len(new) /\ \A j \in 1..Len(new) : j + 1 \in DOMAIN levels
    BY <2>1, LenProperties
  <2> HIDE DEF new
  <2> QED
    BY <2>1, <2>2 DEF LevelsInTime, new
<1>9. CASE left # <<>>
  <2>1. new = [levels EXCEPT ![1] = [level EXCEPT !.orders = left]]
    BY <1>7, <1>9
  <2>2. [level EXCEPT !.orders = left] = [price |-> level.price, orders |-> left]
    BY <1>1, LevelExcept
  <2>3. /\ DOMAIN new = DOMAIN levels
        /\ new[1].orders = left
        /\ \A j \in DOMAIN levels \ {1} : new[j] = levels[j]
    BY <1>1, <2>1, <2>2
  <2> HIDE DEF new
  <2> QED
    BY <1>6, <2>3 DEF LevelsInTime, new
<1> QED
  BY <1>8, <1>9

\* The head of a side has waited at least as long as any order at its price.
LEMMA HeadIsFirst ==
  ASSUME NEW P \in SUBSET Nat, NEW side \in Sides,
         NEW levels \in Seq(LevelRecords(P)), LevelsSound(side, levels), levels # <<>>,
         NEW time, LevelsInTime(levels, time),
         NEW e \in Entries(levels), e # HeadOrder(levels),
         e.price = HeadOrder(levels).price
  PROVE  time[HeadOrder(levels).id] <= time[e.id] /\ HeadOrder(levels).id # e.id
<1>1. PICK j \in DOMAIN levels : e \in QueueEntries(levels[j])
  BY EntriesElements
<1>2. 1 \in DOMAIN levels /\ HeadOrder(levels) = levels[1].orders[1]
      /\ HeadOrder(levels).price = levels[1].price
  BY HeadOrderSound
<1>3. e.price = levels[j].price
  BY <1>1 DEF LevelsSound, QueueSound, QueueEntries
<1>4. j = 1
  BY <1>1, <1>2, <1>3, LevelsShareNothing
<1>5. PICK k \in DOMAIN levels[1].orders : e = levels[1].orders[k]
  BY <1>1, <1>4 DEF QueueEntries
<1>6. k # 1 /\ k \in Nat /\ k >= 1
  BY <1>2, <1>5, LevelsTyped
<1>7. 1 \in 1..(k - 1)
  BY <1>6
<1> QED
  BY <1>2, <1>5, <1>7 DEF LevelsInTime, QueueInTime, LevelsSound, QueueSound

(***************************************************************************)
(* Recursion over the natural numbers: induction, for a set, and the       *)
(* sequence that a function generates from a first element.                *)
(***************************************************************************)
LEMMA Counting ==
  ASSUME NEW T \in SUBSET Nat, 0 \in T, \A n \in T : n + 1 \in T
  PROVE  T = Nat
<1> DEFINE missing == Nat \ T
<1> SUFFICES ASSUME missing # {} PROVE FALSE
  OBVIOUS
<1>1. IsWellFoundedOn(OpToRel(<, Nat), Nat)
  BY NatLessThanWellFounded, Zenon
<1>2. missing \subseteq Nat
  OBVIOUS
<1> HIDE DEF missing
<1>3. \E m \in missing : \A k \in missing : ~(<<k, m>> \in OpToRel(<, Nat))
  BY <1>1, <1>2, WFMin, Zenon
<1>4. PICK m \in missing : \A k \in missing : ~(k < m)
  BY <1>2, <1>3 DEF OpToRel
<1>5. m \in Nat /\ m # 0 /\ m \notin T
  BY DEF missing
<1>6. PICK k \in Nat : m = k + 1
  <2>1. m - 1 \in Nat /\ m = (m - 1) + 1
    BY <1>5
  <2> QED
    BY <2>1, Zenon
<1>7. k \in missing /\ k < m
  BY <1>5, <1>6 DEF missing
<1> QED
  BY <1>4, <1>7

Generated(g, S, first, F) ==
  g \in [Nat -> S] /\ g[0] = first /\ \A n \in Nat : g[n + 1] = F[g[n]]

LEMMA Iterates ==
  ASSUME NEW S, NEW first \in S, NEW F \in [S -> S]
  PROVE  \E g : Generated(g, S, first, F)
<1> DEFINE Begins(g, n) == /\ g \in [0..n -> S] /\ g[0] = first
                           /\ \A k \in Nat : k + 1 \in 0..n => g[k + 1] = F[g[k]]
<1>1. \A n \in Nat : \E g : Begins(g, n)
  <2> DEFINE T == {n \in Nat : \E g : Begins(g, n)}
  <2>1. 0 \in T
    <3>1. Begins([k \in 0..0 |-> first], 0)
      OBVIOUS
    <3> QED
      BY <3>1
  <2>2. ASSUME NEW n \in T PROVE n + 1 \in T
    <3>1. PICK g : Begins(g, n)
      OBVIOUS
    <3> DEFINE h == [k \in 0..(n + 1) |-> IF k = n + 1 THEN F[g[n]] ELSE g[k]]
    <3>2. n \in Nat /\ F[g[n]] \in S
      BY <3>1
    <3>3. h \in [0..(n + 1) -> S] /\ h[0] = first
      BY <3>1, <3>2
    <3>4. ASSUME NEW k \in Nat, k + 1 \in 0..(n + 1) PROVE h[k + 1] = F[h[k]]
      <4>1. CASE k = n
        <5>1. h[k + 1] = F[g[n]] /\ h[k] = g[n]
          BY <3>2, <4>1
        <5> QED
          BY <5>1
      <4>2. CASE k # n
        <5>1. k + 1 \in 0..n /\ h[k + 1] = g[k + 1] /\ h[k] = g[k]
          BY <3>2, <3>4, <4>2
        <5> QED
          BY <3>1, <5>1
      <4> QED
        BY <4>1, <4>2
    <3>5. Begins(h, n + 1)
      BY <3>3, <3>4
    <3> HIDE DEF Begins, h
    <3> QED
      BY <3>2, <3>5
  <2> HIDE DEF T
  <2>3. T = Nat
    <3>1. T \subseteq Nat
      BY DEF T
    <3> QED
      BY <2>1, <2>2, <3>1, Counting
  <2> QED
    BY <2>3 DEF T
<1>2. ASSUME NEW n \in Nat, NEW g, Begins(g, n), NEW h, Begins(h, n + 1)
      PROVE  g[n] = h[n]
  <2> DEFINE T == {k \in Nat : k <= n => g[k] = h[k]}
  <2>1. 0 \in T
    BY <1>2
  <2>2. ASSUME NEW k \in T PROVE k + 1 \in T
    <3> SUFFICES ASSUME k + 1 <= n PROVE g[k + 1] = h[k + 1]
      OBVIOUS
    <3>1. k \in Nat /\ k <= n /\ k + 1 \in 0..n /\ k + 1 \in 0..(n + 1)
      OBVIOUS
    <3>2. g[k] = h[k]
      BY <3>1
    <3> QED
      BY <1>2, <3>1, <3>2
  <2>3. T = Nat
    <3> HIDE DEF T
    <3>1. T \subseteq Nat
      BY DEF T
    <3> QED
      BY <2>1, <2>2, <3>1, Counting
  <2> QED
    BY <2>3
<1> DEFINE Part(n) == CHOOSE g : Begins(g, n)
           G == [n \in Nat |-> Part(n)[n]]
<1> HIDE DEF Begins
<1>3. \A n \in Nat : Begins(Part(n), n)
  BY <1>1
<1> HIDE DEF Part
<1>4. G \in [Nat -> S]
  <2>1. ASSUME NEW n \in Nat PROVE Part(n)[n] \in S
    BY <1>3 DEF Begins
  <2> QED
    BY <2>1
<1>5. G[0] = first
  BY <1>3 DEF Begins
<1>6. ASSUME NEW n \in Nat PROVE G[n + 1] = F[G[n]]
  <2>1. Part(n)[n] = Part(n + 1)[n]
    BY <1>2, <1>3
  <2>2. Part(n + 1)[n + 1] = F[Part(n + 1)[n]]
    BY <1>3 DEF Begins
  <2> QED
    BY <2>1, <2>2
<1> HIDE DEF G
<1>7. Generated(G, S, first, F)
  BY <1>4, <1>5, <1>6 DEF Generated
<1> QED
  BY <1>7

(***************************************************************************)
(* The rounds of place, one after the other: what they start from, and what *)
(* a state they reach is like.                                             *)
(***************************************************************************)
First(levels, order) == [levels |-> levels, remaining |-> order.quantity, trades |-> <<>>]

IdsApart(levels) == \A d, e \in Entries(levels) : d.id = e.id => d = e

States(P, side) ==
  {s \in [levels : Seq(LevelRecords(P)), remaining : Nat, trades : Seq(TradeRecords(P))] :
     LevelsSound(side, s.levels)}

\* An order of which anything, or nothing, is left to trade.
Takers(P) == [id : Nat, side : Sides, type : Types, price : P, quantity : Nat]

LEMMA OrdersAreTakers ==
  ASSUME NEW P
  PROVE  OrderRecords(P) \subseteq Takers(P)
BY DEF OrderRecords, Takers

LEMMA RoundStays ==
  ASSUME NEW P \in SUBSET Nat, NEW order \in Takers(P), NEW side \in Sides,
         NEW s \in States(P, side)
  PROVE  Round(order, s) \in States(P, side)
<1>1. /\ s.levels \in Seq(LevelRecords(P)) /\ s.remaining \in Nat
      /\ s.trades \in Seq(TradeRecords(P)) /\ LevelsSound(side, s.levels)
  BY DEF States
<1>2. CASE CanMatch(order, s.remaining, s.levels)
  <2>1. s.remaining > 0 /\ s.levels # <<>>
    BY <1>2 DEF CanMatch
  <2>2. PICK maker \in OrderRecords(P) : maker = HeadOrder(s.levels)
    BY <1>1, <2>1, HeadOrderSound
  <2>3. maker.quantity \in Nat \ {0} /\ maker.id \in Nat
    BY DEF OrderRecords
  <2>4. PICK traded : traded = Smaller(s.remaining, maker.quantity)
    OBVIOUS
  <2>5. traded \in Nat \ {0} /\ traded <= maker.quantity /\ traded <= s.remaining
    BY <1>1, <2>1, <2>3, <2>4 DEF Smaller
  <2>6. PICK levels : levels = AfterHeadTrade(s.levels, traded)
    OBVIOUS
  <2>7. levels \in Seq(LevelRecords(P)) /\ LevelsSound(side, levels)
    BY <1>1, <2>1, <2>2, <2>5, <2>6, AfterHeadTradeSound
  <2>8. s.levels[1].price \in P
    BY <1>1, <2>1, HeadOrderSound DEF LevelRecords
  <2>9. PICK trade : trade = [taker |-> order.id, maker |-> maker.id,
                              price |-> s.levels[1].price, quantity |-> traded]
    OBVIOUS
  <2>10. trade \in TradeRecords(P)
    <3>1. order.id \in Nat
      BY DEF Takers
    <3> QED
      BY <2>3, <2>5, <2>8, <2>9, <3>1 DEF TradeRecords
  <2>11. Round(order, s) = [levels |-> levels, remaining |-> s.remaining - traded,
                            trades |-> Append(s.trades, trade)]
    BY <1>2, <2>2, <2>4, <2>6, <2>9, Zenon DEF Round, MatchRound
  <2>12. s.remaining - traded \in Nat /\ Append(s.trades, trade) \in Seq(TradeRecords(P))
    BY <1>1, <2>5, <2>10
  <2> QED
    BY <2>7, <2>11, <2>12 DEF States
<1>3. CASE ~CanMatch(order, s.remaining, s.levels)
  BY <1>3 DEF Round
<1> QED
  BY <1>2, <1>3

LEMMA RoundsRecur ==
  ASSUME NEW P \in SUBSET Nat, NEW order \in Takers(P), NEW side \in Sides,
         NEW levels \in Seq(LevelRecords(P)), LevelsSound(side, levels)
  PROVE  /\ Rounds(levels, order)[0] = First(levels, order)
         /\ \A n \in Nat : Rounds(levels, order)[n + 1] = Round(order, Rounds(levels, order)[n])
<1> DEFINE S == States(P, side)
           F == [s \in S |-> Round(order, s)]
           Recurs(loop) == loop = [n \in Nat |-> IF n = 0 THEN First(levels, order)
                                                  ELSE Round(order, loop[n - 1])]
<1>1. First(levels, order) \in S
  <2>1. order.quantity \in Nat /\ <<>> \in Seq(TradeRecords(P))
    BY DEF Takers
  <2> QED
    BY <2>1 DEF First, States
<1>2. F \in [S -> S]
  BY RoundStays
<1> HIDE DEF S, F
<1>3. PICK g : Generated(g, S, First(levels, order), F)
  BY <1>1, <1>2, Iterates
<1>4. \A n \in Nat : g[n + 1] = Round(order, g[n])
  BY <1>3 DEF Generated, F
<1>5. Recurs(g)
  <2>1. ASSUME NEW n \in Nat
        PROVE  g[n] = IF n = 0 THEN First(levels, order) ELSE Round(order, g[n - 1])
    <3>1. CASE n = 0
      BY <1>3, <3>1 DEF Generated
    <3>2. CASE n # 0
      <4>1. PICK k : k = n - 1
        OBVIOUS
      <4>2. k \in Nat /\ k + 1 = n
        BY <3>2, <4>1
      <4>3. g[n] = Round(order, g[k])
        BY <1>4, <4>2
      <4> QED
        BY <3>2, <4>1, <4>3
    <3> QED
      BY <3>1, <3>2
  <2>2. g = [n \in Nat |-> g[n]]
    BY <1>3 DEF Generated
  <2> QED
    BY <2>1, <2>2
<1>6. PICK loop : loop = Rounds(levels, order)
  OBVIOUS
<1>7. loop = CHOOSE f : Recurs(f)
  BY <1>6, Zenon DEF Rounds, First
<1> HIDE DEF Recurs
<1>8. Recurs(loop)
  BY <1>5, <1>7
<1>9. loop[0] = First(levels, order)
  BY <1>8 DEF Recurs
<1>10. ASSUME NEW n \in Nat PROVE loop[n + 1] = Round(order, loop[n])
  <2>1. n + 1 \in Nat /\ n + 1 # 0 /\ (n + 1) - 1 = n
    OBVIOUS
  <2>2. loop[n + 1] = Round(order, loop[(n + 1) - 1])
    BY <1>8, <2>1 DEF Recurs
  <2> QED
    BY <2>1, <2>2
<1> QED
  BY <1>6, <1>9, <1>10

(***************************************************************************)
(* What became of an order of the opposite side after some rounds: nothing, *)
(* or one trade, which left nothing of it or has ended the matching.       *)
(***************************************************************************)
Untouched(s, e0) ==
  /\ e0 \in Entries(s.levels)
  /\ \A k \in DOMAIN s.trades : s.trades[k].maker # e0.id

TradedOnce(s, e0, k) ==
  /\ k \in DOMAIN s.trades /\ s.trades[k].maker = e0.id
  /\ \A j \in DOMAIN s.trades \ {k} : s.trades[j].maker # e0.id

Filled(s, e0, k) ==
  /\ TradedOnce(s, e0, k) /\ s.trades[k].quantity = e0.quantity
  /\ \A e \in Entries(s.levels) : e.id # e0.id

PartlyFilled(s, e0, k) ==
  /\ TradedOnce(s, e0, k) /\ s.trades[k].quantity < e0.quantity
  /\ s.remaining = 0
  /\ [e0 EXCEPT !.quantity = e0.quantity - s.trades[k].quantity] \in Entries(s.levels)

Fate(s, e0) ==
  \/ Untouched(s, e0)
  \/ \E k \in DOMAIN s.trades : Filled(s, e0, k) \/ PartlyFilled(s, e0, k)

RoundsSound(P, side, levels, order, s) ==
  /\ s \in States(P, side)
  /\ IdsApart(s.levels)
  /\ \A e \in Entries(s.levels) : \E e0 \in Entries(levels) : e0.id = e.id
  /\ \A k \in DOMAIN s.trades :
       /\ s.trades[k].taker = order.id
       /\ \E e0 \in Entries(levels) : e0.id = s.trades[k].maker
  /\ \A e0 \in Entries(levels) : Fate(s, e0)

LEMMA EntriesTyped ==
  ASSUME NEW P \in SUBSET Nat, NEW levels \in Seq(LevelRecords(P)), NEW e \in Entries(levels)
  PROVE  e \in OrderRecords(P)
<1>1. PICK i \in DOMAIN levels : e \in QueueEntries(levels[i])
  BY EntriesElements
<1>2. PICK queue : queue = levels[i].orders
  OBVIOUS
<1>3. queue \in Seq(OrderRecords(P))
  BY <1>2, LevelsTyped
<1>4. PICK k \in DOMAIN queue : e = queue[k]
  BY <1>1, <1>2 DEF QueueEntries
<1> QED
  BY <1>3, <1>4, ElementOfSeq

LEMMA FirstSound ==
  ASSUME NEW P \in SUBSET Nat, NEW order \in OrderRecords(P), NEW side \in Sides,
         NEW levels \in Seq(LevelRecords(P)), LevelsSound(side, levels), IdsApart(levels)
  PROVE  RoundsSound(P, side, levels, order, First(levels, order))
<1>1. PICK s : s = First(levels, order)
  OBVIOUS
<1>2. s.levels = levels /\ s.trades = <<>> /\ DOMAIN s.trades = {}
  BY <1>1 DEF First
<1>3. s \in States(P, side)
  <2>1. order.quantity \in Nat /\ <<>> \in Seq(TradeRecords(P))
    BY DEF OrderRecords
  <2> QED
    BY <1>1, <2>1 DEF First, States
<1> QED
  BY <1>1, <1>2, <1>3 DEF RoundsSound, Fate, Untouched

LEMMA RoundSound ==
  ASSUME NEW P \in SUBSET Nat, NEW order \in OrderRecords(P), NEW side \in Sides,
         NEW levels \in Seq(LevelRecords(P)), IdsApart(levels),
         NEW s, RoundsSound(P, side, levels, order, s)
  PROVE  RoundsSound(P, side, levels, order, Round(order, s))
<1>1. /\ s.levels \in Seq(LevelRecords(P)) /\ s.remaining \in Nat
      /\ s.trades \in Seq(TradeRecords(P)) /\ LevelsSound(side, s.levels)
  BY DEF RoundsSound, States
<1>2. CASE CanMatch(order, s.remaining, s.levels)
  <2>1. s.remaining > 0 /\ s.levels # <<>>
    BY <1>2 DEF CanMatch
  <2>2. PICK maker \in OrderRecords(P) : maker = HeadOrder(s.levels) /\ maker \in Entries(s.levels)
    BY <1>1, <2>1, HeadOrderSound
  <2>3. maker.quantity \in Nat \ {0}
    BY DEF OrderRecords
  <2>4. PICK traded : traded = Smaller(s.remaining, maker.quantity)
    OBVIOUS
  <2>5. /\ traded \in Nat \ {0} /\ traded <= maker.quantity
        /\ traded = maker.quantity \/ s.remaining - traded = 0
    BY <1>1, <2>1, <2>3, <2>4 DEF Smaller
  <2>6. PICK rest : rest = AfterHeadTrade(s.levels, traded)
    OBVIOUS
  <2>7. /\ maker.quantity = traded => Entries(rest) = Entries(s.levels) \ {maker}
        /\ maker.quantity # traded =>
             Entries(rest) = (Entries(s.levels) \ {maker})
                              \cup {[maker EXCEPT !.quantity = maker.quantity - traded]}
    BY <1>1, <2>1, <2>2, <2>5, <2>6, AfterHeadTradeSound
  <2>8. PICK trade : /\ trade = [taker |-> order.id, maker |-> maker.id,
                                 price |-> s.levels[1].price, quantity |-> traded]
    OBVIOUS
  <2>9. PICK t : /\ t = Round(order, s)
                 /\ t = [levels |-> rest, remaining |-> s.remaining - traded,
                         trades |-> Append(s.trades, trade)]
    BY <1>2, <2>2, <2>4, <2>6, <2>8, Zenon DEF Round, MatchRound
  <2>10. /\ t.levels = rest /\ t.remaining = s.remaining - traded
         /\ t.trades = Append(s.trades, trade)
    BY <2>9
  <2>11. PICK n \in Nat : n = Len(s.trades)
    BY <1>1
  <2>12. /\ DOMAIN s.trades = 1..n /\ DOMAIN t.trades = 1..(n + 1)
         /\ t.trades[n + 1] = trade
         /\ \A k \in 1..n : t.trades[k] = s.trades[k]
    BY <1>1, <2>10, <2>11
  <2>13. trade.taker = order.id /\ trade.maker = maker.id /\ trade.quantity = traded
    BY <2>8
  <2>14. \A d, e \in Entries(s.levels) : d.id = e.id => d = e
    BY DEF RoundsSound, IdsApart
  <2>15. PICK left : /\ left = [maker EXCEPT !.quantity = maker.quantity - traded]
                     /\ left.id = maker.id
    <3>1. maker \in [id : Nat, side : Sides, type : Types, price : P, quantity : Nat \ {0}]
      BY DEF OrderRecords
    <3>2. [maker EXCEPT !.quantity = maker.quantity - traded].id = maker.id
      BY <3>1
    <3> QED
      BY <3>2, Zenon
  <2>16. \A e \in Entries(rest) : \/ e \in Entries(s.levels) /\ e.id # maker.id
                                  \/ e = left /\ maker.quantity # traded
    BY <2>2, <2>7, <2>14, <2>15
  <2>17. IdsApart(rest)
    BY <2>14, <2>15, <2>16 DEF IdsApart
  <2>18. t \in States(P, side)
    <3>1. order \in Takers(P)
      BY OrdersAreTakers
    <3> QED
      BY <2>9, <3>1, RoundStays DEF RoundsSound
  <2>19. \A e \in Entries(rest) : \E e0 \in Entries(levels) : e0.id = e.id
    <3>1. \A e \in Entries(s.levels) : \E e0 \in Entries(levels) : e0.id = e.id
      BY Zenon DEF RoundsSound
    <3>2. \A e \in Entries(rest) : \E d \in Entries(s.levels) : d.id = e.id
      BY <2>2, <2>15, <2>16, Zenon
    <3> QED
      BY <3>1, <3>2
  <2>20. \A k \in DOMAIN t.trades :
           /\ t.trades[k].taker = order.id
           /\ \E e0 \in Entries(levels) : e0.id = t.trades[k].maker
    <3>1. \A k \in 1..n : /\ s.trades[k].taker = order.id
                          /\ \E e0 \in Entries(levels) : e0.id = s.trades[k].maker
      BY <2>12 DEF RoundsSound
    <3>2. \E e0 \in Entries(levels) : e0.id = trade.maker
      BY <2>2, <2>13 DEF RoundsSound
    <3> QED
      BY <2>12, <2>13, <3>1, <3>2
  <2>21. ASSUME NEW e0 \in Entries(levels) PROVE Fate(t, e0)
    <3>1. Fate(s, e0)
      BY DEF RoundsSound
    <3>2. CASE e0.id = maker.id
      <4>1. Untouched(s, e0)
        <5>1. \A k : ~Filled(s, e0, k)
          BY <2>2, <3>2 DEF Filled
        <5>2. \A k : ~PartlyFilled(s, e0, k)
          BY <2>1 DEF PartlyFilled
        <5> QED
          BY <3>1, <5>1, <5>2 DEF Fate
      <4>2. e0 = maker
        BY <2>2, <2>14, <3>2, <4>1 DEF Untouched
      <4>3. TradedOnce(t, e0, n + 1)
        BY <2>12, <2>13, <3>2, <4>1 DEF TradedOnce, Untouched
      <4>4. n + 1 \in DOMAIN t.trades /\ t.trades[n + 1].quantity = traded
        BY <2>12, <2>13
      <4>5. CASE traded = maker.quantity
        <5>1. \A e \in Entries(t.levels) : e.id # e0.id
          BY <2>10, <2>16, <4>2, <4>5
        <5>2. Filled(t, e0, n + 1)
          BY <4>2, <4>3, <4>4, <4>5, <5>1 DEF Filled
        <5> QED
          BY <4>4, <5>2 DEF Fate
      <4>6. CASE traded # maker.quantity
        <5>1. left \in Entries(t.levels)
          BY <2>7, <2>10, <2>15, <4>6
        <5>2. left = [e0 EXCEPT !.quantity = e0.quantity - t.trades[n + 1].quantity]
          BY <2>15, <4>2, <4>4
        <5>3. t.remaining = 0 /\ t.trades[n + 1].quantity < e0.quantity
          BY <2>3, <2>5, <2>10, <4>2, <4>4, <4>6
        <5>4. PartlyFilled(t, e0, n + 1)
          BY <4>3, <5>1, <5>2, <5>3 DEF PartlyFilled
        <5> QED
          BY <4>4, <5>4 DEF Fate
      <4> QED
        BY <4>5, <4>6
    <3>3. CASE e0.id # maker.id
      <4>1. CASE Untouched(s, e0)
        <5>1. e0 \in Entries(rest)
          BY <2>7, <3>3, <4>1 DEF Untouched
        <5>2. Untouched(t, e0)
          BY <2>10, <2>12, <2>13, <3>3, <4>1, <5>1 DEF Untouched
        <5> QED
          BY <5>2 DEF Fate
      <4>2. CASE \E k \in DOMAIN s.trades : Filled(s, e0, k)
        <5>1. PICK k \in 1..n : Filled(s, e0, k)
          BY <2>12, <4>2
        <5>2. TradedOnce(t, e0, k) /\ t.trades[k] = s.trades[k] /\ k \in DOMAIN t.trades
          BY <2>12, <2>13, <3>3, <5>1 DEF Filled, TradedOnce
        <5>3. \A e \in Entries(t.levels) : e.id # e0.id
          BY <2>10, <2>15, <2>16, <3>3, <5>1 DEF Filled
        <5> QED
          BY <5>1, <5>2, <5>3 DEF Fate, Filled
      <4>3. CASE \E k \in DOMAIN s.trades : PartlyFilled(s, e0, k)
        BY <2>1, <4>3 DEF PartlyFilled
      <4> QED
        BY <3>1, <4>1, <4>2, <4>3 DEF Fate
    <3> QED
      BY <3>2, <3>3
  <2> QED
    BY <2>9, <2>10, <2>17, <2>18, <2>19, <2>20, <2>21 DEF RoundsSound
<1>3. CASE ~CanMatch(order, s.remaining, s.levels)
  BY <1>3 DEF Round
<1> QED
  BY <1>2, <1>3

LEMMA AllRoundsSound ==
  ASSUME NEW P \in SUBSET Nat, NEW order \in OrderRecords(P), NEW side \in Sides,
         NEW levels \in Seq(LevelRecords(P)), LevelsSound(side, levels), IdsApart(levels),
         NEW n \in Nat
  PROVE  RoundsSound(P, side, levels, order, Rounds(levels, order)[n])
<1> DEFINE Good(k) == RoundsSound(P, side, levels, order, Rounds(levels, order)[k])
           T == {k \in Nat : Good(k)}
<1>1. /\ Rounds(levels, order)[0] = First(levels, order)
      /\ \A k \in Nat : Rounds(levels, order)[k + 1] = Round(order, Rounds(levels, order)[k])
  BY RoundsRecur, OrdersAreTakers
<1>2. 0 \in T
  BY <1>1, FirstSound
<1>3. ASSUME NEW k \in T PROVE k + 1 \in T
  <2>1. k \in Nat /\ Good(k)
    OBVIOUS
  <2>2. PICK s : s = Rounds(levels, order)[k]
    OBVIOUS
  <2>3. RoundsSound(P, side, levels, order, Round(order, s))
    BY <2>1, <2>2, RoundSound
  <2> QED
    BY <1>1, <2>1, <2>2, <2>3
<1>4. T \subseteq Nat
  OBVIOUS
<1> HIDE DEF T
<1>5. T = Nat
  BY <1>2, <1>3, <1>4, Counting
<1> QED
  BY <1>5 DEF T

\* The rounds keep the orders of a level in the order of their times.
LEMMA AllRoundsInTime ==
  ASSUME NEW P \in SUBSET Nat, NEW order \in OrderRecords(P), NEW side \in Sides,
         NEW levels \in Seq(LevelRecords(P)), LevelsSound(side, levels), IdsApart(levels),
         NEW time, LevelsInTime(levels, time), NEW n \in Nat
  PROVE  LevelsInTime(Rounds(levels, order)[n].levels, time)
<1> DEFINE T == {k \in Nat : LevelsInTime(Rounds(levels, order)[k].levels, time)}
<1>1. /\ Rounds(levels, order)[0] = First(levels, order)
      /\ \A k \in Nat : Rounds(levels, order)[k + 1] = Round(order, Rounds(levels, order)[k])
  BY RoundsRecur, OrdersAreTakers
<1>2. 0 \in T
  BY <1>1 DEF First
<1>3. ASSUME NEW k \in T PROVE k + 1 \in T
  <2>1. k \in Nat
    OBVIOUS
  <2>2. PICK s : s = Rounds(levels, order)[k]
    OBVIOUS
  <2>3. /\ s.levels \in Seq(LevelRecords(P)) /\ LevelsSound(side, s.levels)
        /\ LevelsInTime(s.levels, time)
    BY <2>1, <2>2, AllRoundsSound DEF RoundsSound, States
  <2>6. LevelsInTime(Round(order, s).levels, time) => k + 1 \in T
    <3>1. Rounds(levels, order)[k + 1] = Round(order, s) /\ k + 1 \in Nat
      BY <1>1, <2>1, <2>2
    <3> QED
      BY <3>1, Zenon
  <2> HIDE DEF T
  <2>4. CASE CanMatch(order, s.remaining, s.levels)
    <3>1. s.levels # <<>>
      BY <2>4 DEF CanMatch
    <3>2. PICK traded : traded = Smaller(s.remaining, HeadOrder(s.levels).quantity)
      OBVIOUS
    <3>3. Round(order, s).levels = AfterHeadTrade(s.levels, traded)
      BY <2>4, <3>2 DEF Round, MatchRound
    <3>4. LevelsInTime(AfterHeadTrade(s.levels, traded), time)
      BY <2>3, <3>1, AfterHeadTradeInTime
    <3> QED
      BY <2>6, <3>3, <3>4
  <2>5. CASE ~CanMatch(order, s.remaining, s.levels)
    <3>1. Round(order, s) = s
      BY <2>5 DEF Round
    <3> QED
      BY <2>3, <2>6, <3>1
  <2> QED
    BY <2>4, <2>5
<1>4. T \subseteq Nat
  OBVIOUS
<1> HIDE DEF T
<1>5. T = Nat
  BY <1>2, <1>3, <1>4, Counting
<1> QED
  BY <1>5 DEF T

(***************************************************************************)
(* A book that placeOrder may be called with, and the whole of place.      *)
(***************************************************************************)
Books(P) == [Sides -> Seq(LevelRecords(P))]

BookSound(book) ==
  \A side \in Sides : LevelsSound(side, book[side]) /\ IdsApart(book[side])

Fresh(book, order) ==
  \A side \in Sides : \A e \in Entries(book[side]) : e.id # order.id

\* place, the whole of it: its rounds trade with resting orders of the opposite
\* side, with each at most once and for no more than it holds; what remains of a
\* limit order rests behind its level, of a market order nothing; both sides
\* stay sorted and sound.
THEOREM PlaceSound ==
  ASSUME NEW P \in SUBSET Nat, NEW book \in Books(P), BookSound(book),
         NEW order \in OrderRecords(P), Fresh(book, order),
         NEW side \in Sides, side = order.side, NEW other, other = Opposite(side),
         NEW end, end = Rounds(book[other], order)[order.quantity],
         NEW done, done = Place(book, order)
  PROVE  /\ other \in Sides
         /\ RoundsSound(P, other, book[other], order, end)
         /\ done.trades = end.trades
         /\ done.resting = IF end.remaining > 0 /\ order.type = "limit"
                           THEN end.remaining ELSE 0
         /\ done.book \in Books(P)
         /\ BookSound(done.book)
         /\ done.book[other] = end.levels
         /\ done.book[side] = IF done.resting = 0 THEN book[side]
              ELSE AddToBook(book[side], [order EXCEPT !.quantity = done.resting])
         /\ done.resting # 0 =>
              Entries(done.book[side]) = Entries(book[side])
                \cup {[order EXCEPT !.quantity = done.resting]}
<1>1. \A s \in Sides : /\ book[s] \in Seq(LevelRecords(P))
                       /\ LevelsSound(s, book[s]) /\ IdsApart(book[s])
                       /\ \A e \in Entries(book[s]) : e.id # order.id
  BY DEF Books, BookSound, Fresh
<1>2. other \in Sides
  BY DEF Opposite, Sides
<1>3. order \in [id : Nat, side : Sides, type : Types, price : P, quantity : Nat \ {0}]
  BY DEF OrderRecords
<1>4. RoundsSound(P, other, book[other], order, end)
  BY <1>1, <1>2, <1>3, AllRoundsSound, SMTT(20)
<1>5. /\ end.levels \in Seq(LevelRecords(P)) /\ LevelsSound(other, end.levels)
      /\ IdsApart(end.levels) /\ end.remaining \in Nat
  BY <1>4 DEF RoundsSound, States
<1>6. PICK rest : rest = IF end.remaining > 0 /\ order.type = "limit" THEN end.remaining ELSE 0
  OBVIOUS
<1>7. PICK new : new = IF rest = 0 THEN book[side]
                       ELSE AddToBook(book[side], [order EXCEPT !.quantity = rest])
  OBVIOUS
<1>8. /\ other # side /\ \A s \in Sides : s = side \/ s = other
      /\ done.trades = end.trades
      /\ done.resting = rest
      /\ done.book = [s \in Sides |-> IF s = side THEN new ELSE end.levels]
  <2>1. other \in Sides /\ other # side /\ \A s \in Sides : s = side \/ s = other
    BY DEF Sides, Opposite
  <2>2. /\ done.trades = end.trades
        /\ done.resting = IF end.remaining > 0 /\ order.type = "limit" THEN end.remaining ELSE 0
        /\ done.book = [book EXCEPT ![other] = end.levels,
                         ![side] = IF end.remaining > 0 /\ order.type = "limit"
                                   THEN AddToBook(@, [order EXCEPT !.quantity = end.remaining])
                                   ELSE @]
    BY DEF Place
  <2>3. PICK mid : mid = [book EXCEPT ![other] = end.levels]
    OBVIOUS
  <2>4. DOMAIN mid = Sides /\ mid[other] = end.levels /\ mid[side] = book[side]
    BY <2>1, <2>3 DEF Books
  <2>5. PICK after : after = done.book
    OBVIOUS
  <2>6. after = [mid EXCEPT ![side] = new]
    <3>1. CASE end.remaining > 0 /\ order.type = "limit"
      <4>1. rest = end.remaining /\ rest # 0
        BY <1>6, <3>1
      <4> QED
        BY <1>7, <2>2, <2>3, <2>4, <2>5, <3>1, <4>1
    <3>2. CASE ~(end.remaining > 0 /\ order.type = "limit")
      <4>1. rest = 0
        BY <1>6, <3>2
      <4> QED
        BY <1>7, <2>2, <2>3, <2>4, <2>5, <3>2, <4>1
    <3> QED
      BY <3>1, <3>2
  <2>7. after = [s \in DOMAIN mid |-> IF s = side THEN new ELSE mid[s]]
    BY <2>6, Zenon
  <2>8. after = [s \in Sides |-> IF s = side THEN new ELSE end.levels]
    <3>1. \A s \in Sides : s # side => mid[s] = end.levels
      BY <2>1, <2>4
    <3> QED
      BY <2>4, <2>7, <3>1
  <2> QED
    BY <1>6, <2>1, <2>2, <2>5, <2>8
<1>9. done.book[other] = end.levels /\ done.book[side] = new
  BY <1>2, <1>8
<1>10. /\ new \in Seq(LevelRecords(P)) /\ LevelsSound(side, new) /\ IdsApart(new)
       /\ rest = 0 => new = book[side]
       /\ rest # 0 =>
            Entries(new) = Entries(book[side]) \cup {[order EXCEPT !.quantity = rest]}
  <2>1. CASE rest = 0
    BY <1>1, <1>7, <2>1
  <2>2. CASE rest # 0
    <3>1. PICK left : left = [order EXCEPT !.quantity = rest]
      OBVIOUS
    <3>2. rest \in Nat \ {0}
      BY <1>5, <1>6, <2>2
    <3>3. left \in OrderRecords(P) /\ left.side = side /\ left.id = order.id
      BY <1>3, <3>1, <3>2 DEF OrderRecords
    <3>4. new = AddToBook(book[side], left)
      BY <1>7, <2>2, <3>1
    <3>5. /\ new \in Seq(LevelRecords(P)) /\ LevelsSound(side, new)
          /\ Entries(new) = Entries(book[side]) \cup {left}
      BY <1>1, <3>3, <3>4, AddToBookSound
    <3>6. IdsApart(new)
      BY <1>1, <3>3, <3>5 DEF IdsApart
    <3> QED
      BY <2>2, <3>1, <3>5, <3>6
  <2> QED
    BY <2>1, <2>2
<1>11. done.book \in Books(P)
  BY <1>5, <1>8, <1>10 DEF Books
<1>12. BookSound(done.book)
  <2>1. ASSUME NEW s \in Sides
        PROVE  LevelsSound(s, done.book[s]) /\ IdsApart(done.book[s])
    BY <1>5, <1>8, <1>9, <1>10
  <2> QED
    BY <2>1, Zenon DEF BookSound
<1>13. /\ done.book[side] = IF done.resting = 0 THEN book[side]
            ELSE AddToBook(book[side], [order EXCEPT !.quantity = done.resting])
       /\ done.resting # 0 =>
            Entries(done.book[side]) = Entries(book[side])
              \cup {[order EXCEPT !.quantity = done.resting]}
  BY <1>7, <1>8, <1>9, <1>10, Zenon
<1> QED
  BY <1>2, <1>4, <1>6, <1>8, <1>9, <1>11, <1>12, <1>13, Zenon

BookInTime(book, time) == \A side \in Sides : LevelsInTime(book[side], time)

Latest(book, order, time) ==
  \A side \in Sides : \A e \in Entries(book[side]) : time[e.id] <= time[order.id]

\* place keeps the orders of a level in the order of their times, when the new
\* order's time is not before theirs.
THEOREM PlaceInTime ==
  ASSUME NEW P \in SUBSET Nat, NEW book \in Books(P), BookSound(book),
         NEW order \in OrderRecords(P), Fresh(book, order), NEW time,
         BookInTime(book, time), Latest(book, order, time),
         NEW done, done = Place(book, order)
  PROVE  BookInTime(done.book, time)
<1>1. order \in [id : Nat, side : Sides, type : Types, price : P, quantity : Nat \ {0}]
  BY DEF OrderRecords
<1>2. PICK side \in Sides : side = order.side
  BY <1>1
<1>3. PICK other : other = Opposite(side)
  OBVIOUS
<1>4. PICK end : end = Rounds(book[other], order)[order.quantity]
  OBVIOUS
<1>5. /\ other \in Sides
      /\ RoundsSound(P, other, book[other], order, end)
      /\ done.resting = IF end.remaining > 0 /\ order.type = "limit" THEN end.remaining ELSE 0
      /\ done.book[other] = end.levels
      /\ done.book[side] = IF done.resting = 0 THEN book[side]
           ELSE AddToBook(book[side], [order EXCEPT !.quantity = done.resting])
  BY <1>2, <1>3, <1>4, PlaceSound
<1>6. end.remaining \in Nat
  BY <1>5 DEF RoundsSound, States
<1>7. \A s \in Sides : s = side \/ s = other
  BY <1>3 DEF Sides, Opposite
<1>8. \A s \in Sides : /\ book[s] \in Seq(LevelRecords(P))
                       /\ LevelsSound(s, book[s]) /\ IdsApart(book[s])
  <2>1. \A s \in Sides : book[s] \in Seq(LevelRecords(P))
    BY DEF Books
  <2> QED
    BY <2>1, Zenon DEF BookSound
<1>12. \A s \in Sides : /\ LevelsInTime(book[s], time)
                        /\ \A e \in Entries(book[s]) : time[e.id] <= time[order.id]
  BY Zenon DEF BookInTime, Latest
<1>9. LevelsInTime(end.levels, time)
  BY <1>12,  <1>1, <1>4, <1>5, <1>8, AllRoundsInTime
<1>10. LevelsInTime(done.book[side], time)
  <2>1. CASE done.resting = 0
    BY <1>5, <1>12, <2>1
  <2>2. CASE done.resting # 0
    <3>1. done.resting \in Nat \ {0}
      BY <1>5, <1>6, <2>2
    <3>2. PICK left : left = [order EXCEPT !.quantity = done.resting]
      OBVIOUS
    <3>3. left \in OrderRecords(P) /\ left.side = side /\ left.id = order.id
      BY <1>1, <1>2, <3>1, <3>2 DEF OrderRecords
    <3>4. LevelsInTime(AddToBook(book[side], left), time)
      BY <1>8, <1>12, <3>3, AddToBookInTime
    <3> QED
      BY <1>5, <2>2, <3>2, <3>4
  <2> QED
    BY <2>1, <2>2
<1>11. ASSUME NEW s \in Sides PROVE LevelsInTime(done.book[s], time)
  <2>1. CASE s = side
    BY <1>10, <2>1
  <2>2. CASE s = other
    BY <1>5, <1>9, <2>2
  <2> QED
    BY <1>7, <2>1, <2>2
<1> QED
  BY <1>11, Zenon DEF BookInTime

(***************************************************************************)
(* The rounds of place, cut after the first: the others are the rounds of  *)
(* what remains of the order, over the levels that the first has left.     *)
(***************************************************************************)
LEMMA RoundsReached ==
  ASSUME NEW P \in SUBSET Nat, NEW order \in Takers(P), NEW side \in Sides,
         NEW levels \in Seq(LevelRecords(P)), LevelsSound(side, levels), NEW n \in Nat
  PROVE  Rounds(levels, order)[n] \in States(P, side)
<1> DEFINE T == {k \in Nat : Rounds(levels, order)[k] \in States(P, side)}
<1>1. /\ Rounds(levels, order)[0] = First(levels, order)
      /\ \A k \in Nat : Rounds(levels, order)[k + 1] = Round(order, Rounds(levels, order)[k])
  BY RoundsRecur
<1>2. 0 \in T
  <2>1. order.quantity \in Nat /\ <<>> \in Seq(TradeRecords(P))
    BY DEF Takers
  <2>2. First(levels, order) \in States(P, side)
    BY <2>1 DEF First, States
  <2> QED
    BY <1>1, <2>2
<1>3. ASSUME NEW k \in T PROVE k + 1 \in T
  <2>1. k \in Nat /\ Rounds(levels, order)[k] \in States(P, side)
    OBVIOUS
  <2>2. PICK s \in States(P, side) : s = Rounds(levels, order)[k]
    BY <2>1
  <2>3. Round(order, s) \in States(P, side)
    BY RoundStays
  <2>4. Rounds(levels, order)[k + 1] = Round(order, s)
    BY <1>1, <2>1, <2>2
  <2>5. k + 1 \in Nat
    BY <2>1
  <2> QED
    BY <2>3, <2>4, <2>5, Zenon
<1>4. T \subseteq Nat
  OBVIOUS
<1> HIDE DEF T
<1>5. T = Nat
  BY <1>2, <1>3, <1>4, Counting
<1> QED
  BY <1>5 DEF T

\* A round trades at least one unit.
LEMMA RoundTrades ==
  ASSUME NEW P \in SUBSET Nat, NEW order \in Takers(P), NEW side \in Sides,
         NEW s \in States(P, side), CanMatch(order, s.remaining, s.levels)
  PROVE  Round(order, s).remaining \in Nat /\ Round(order, s).remaining < s.remaining
<1>1. /\ s.levels \in Seq(LevelRecords(P)) /\ s.remaining \in Nat
      /\ LevelsSound(side, s.levels) /\ s.remaining > 0 /\ s.levels # <<>>
  BY DEF States, CanMatch
<1>2. PICK maker \in OrderRecords(P) : maker = HeadOrder(s.levels)
  BY <1>1, HeadOrderSound
<1>3. PICK traded : traded = Smaller(s.remaining, maker.quantity)
  OBVIOUS
<1>4. traded \in Nat \ {0} /\ traded <= s.remaining
  <2>1. maker.quantity \in Nat \ {0}
    BY DEF OrderRecords
  <2> QED
    BY <1>1, <1>3, <2>1 DEF Smaller
<1>5. Round(order, s).remaining = s.remaining - traded
  BY <1>2, <1>3 DEF Round, MatchRound
<1> QED
  BY <1>1, <1>4, <1>5

\* After order.quantity rounds the loop has ended: another changes nothing.
LEMMA RoundsSettle ==
  ASSUME NEW P \in SUBSET Nat, NEW order \in Takers(P), NEW side \in Sides,
         NEW levels \in Seq(LevelRecords(P)), LevelsSound(side, levels),
         NEW n \in Nat, n >= order.quantity
  PROVE  Rounds(levels, order)[n] = Rounds(levels, order)[order.quantity]
<1> DEFINE R(k) == Rounds(levels, order)[k]
           Ended(k) == ~CanMatch(order, R(k).remaining, R(k).levels)
           Spent(k) == Ended(k) \/ R(k).remaining + k <= order.quantity
           T == {k \in Nat : Spent(k)}
           U == {k \in Nat : R(order.quantity + k) = R(order.quantity)}
<1>1. R(0) = First(levels, order) /\ \A k \in Nat : R(k + 1) = Round(order, R(k))
  BY RoundsRecur
<1>2. \A k \in Nat : R(k) \in States(P, side)
  BY RoundsReached
<1>3. order.quantity \in Nat
  BY DEF Takers
<1> HIDE DEF R
<1>4. ASSUME NEW k \in Nat, Ended(k) PROVE R(k + 1) = R(k)
  BY <1>1, <1>4 DEF Round
<1>5. T = Nat
  <2>1. 0 \in T
    <3>1. First(levels, order).remaining = order.quantity
      BY DEF First
    <3>2. R(0).remaining = order.quantity
      BY <1>1, <3>1, Zenon
    <3> QED
      BY <1>3, <3>2
  <2>2. ASSUME NEW k \in T PROVE k + 1 \in T
    <3>1. k \in Nat /\ Spent(k) /\ k + 1 \in Nat
      OBVIOUS
    <3>2. CASE Ended(k)
      BY <1>4, <3>1, <3>2
    <3>3. CASE ~Ended(k) /\ R(k).remaining + k <= order.quantity
      <4>1. PICK s \in States(P, side) : s = R(k)
        BY <1>2, <3>1
      <4>2. Round(order, s).remaining \in Nat /\ Round(order, s).remaining < s.remaining
        BY <3>3, <4>1, RoundTrades
      <4>3. s.remaining \in Nat
        BY DEF States
      <4>4. R(k + 1) = Round(order, s)
        BY <1>1, <3>1, <4>1
      <4>5. R(k + 1).remaining + (k + 1) <= order.quantity
        <5>1. PICK r \in Nat : r = Round(order, s).remaining
          BY <4>2
        <5>2. r < s.remaining /\ s.remaining + k <= order.quantity /\ R(k + 1).remaining = r
          BY <3>3, <4>1, <4>2, <4>4, <5>1, Zenon
        <5>3. \A a, b, c, d \in Nat : a < b /\ b + c <= d => a + (c + 1) <= d
          OBVIOUS
        <5>4. r + (k + 1) <= order.quantity
          BY <1>3, <3>1, <4>3, <5>2, <5>3, Zenon
        <5> QED
          BY <5>2, <5>4, Zenon
      <4> QED
        BY <3>1, <4>5
    <3> QED
      BY <3>1, <3>2, <3>3
  <2>3. T \subseteq Nat
    OBVIOUS
  <2> HIDE DEF T
  <2> QED
    BY <2>1, <2>2, <2>3, Counting
<1>6. Ended(order.quantity)
  <2>1. PICK s \in States(P, side) : s = R(order.quantity)
    BY <1>2, <1>3
  <2>2. s.remaining \in Nat
    BY DEF States
  <2>3. Spent(order.quantity)
    BY <1>3, <1>5
  <2>4. s.remaining + order.quantity <= order.quantity => s.remaining = 0
    BY <1>3, <2>2
  <2> QED
    BY <2>1, <2>3, <2>4 DEF CanMatch
<1>7. U = Nat
  <2>1. 0 \in U
    BY <1>3
  <2>2. ASSUME NEW k \in U PROVE k + 1 \in U
    <3>1. /\ k \in Nat /\ k + 1 \in Nat /\ R(order.quantity + k) = R(order.quantity)
          /\ order.quantity + k \in Nat /\ (order.quantity + k) + 1 = order.quantity + (k + 1)
      BY <1>3
    <3>2. Ended(order.quantity + k)
      BY <1>6, <3>1
    <3>3. R((order.quantity + k) + 1) = R(order.quantity + k)
      BY <1>4, <3>1, <3>2
    <3> QED
      BY <3>1, <3>3
  <2>3. U \subseteq Nat
    OBVIOUS
  <2> HIDE DEF U
  <2> QED
    BY <2>1, <2>2, <2>3, Counting
<1>8. PICK k \in Nat : n = order.quantity + k
  <2>1. n - order.quantity \in Nat /\ n = order.quantity + (n - order.quantity)
    BY <1>3
  <2> QED
    BY <2>1, Zenon
<1>9. R(n) = R(order.quantity)
  BY <1>7, <1>8
<1> QED
  BY <1>9 DEF R

\* Where an order can trade no more from the start, the loop does nothing.
LEMMA NoRounds ==
  ASSUME NEW P \in SUBSET Nat, NEW order \in Takers(P), NEW side \in Sides,
         NEW levels \in Seq(LevelRecords(P)), LevelsSound(side, levels),
         ~CanMatch(order, order.quantity, levels), NEW n \in Nat
  PROVE  Rounds(levels, order)[n] = First(levels, order)
<1> DEFINE T == {k \in Nat : Rounds(levels, order)[k] = First(levels, order)}
<1>1. /\ Rounds(levels, order)[0] = First(levels, order)
      /\ \A k \in Nat : Rounds(levels, order)[k + 1] = Round(order, Rounds(levels, order)[k])
  BY RoundsRecur
<1>2. Round(order, First(levels, order)) = First(levels, order)
  BY DEF Round, First
<1>3. T = Nat
  <2>1. 0 \in T
    BY <1>1
  <2>2. ASSUME NEW k \in T PROVE k + 1 \in T
    <3>1. k \in Nat /\ k + 1 \in Nat /\ Rounds(levels, order)[k] = First(levels, order)
      OBVIOUS
    <3>2. Rounds(levels, order)[k + 1] = First(levels, order)
      BY <1>1, <1>2, <3>1, Zenon
    <3> QED
      BY <3>1, <3>2, Zenon
  <2>3. T \subseteq Nat
    OBVIOUS
  <2> HIDE DEF T
  <2> QED
    BY <2>1, <2>2, <2>3, Counting
<1> QED
  BY <1>3

\* Two states that differ in the trades made before, and the same round.
FurtherBy(s, t, before) ==
  /\ s.levels = t.levels /\ s.remaining = t.remaining
  /\ s.trades = before \o t.trades

LEMMA SameRound ==
  ASSUME NEW P \in SUBSET Nat, NEW order \in Takers(P), NEW rest \in Nat,
         NEW later, later = [order EXCEPT !.quantity = rest],
         NEW side \in Sides, NEW s \in States(P, side), NEW t \in States(P, side),
         NEW before \in Seq(TradeRecords(P)), FurtherBy(s, t, before)
  PROVE  FurtherBy(Round(order, s), Round(later, t), before)
<1>1. /\ later.id = order.id /\ later.side = order.side
      /\ later.type = order.type /\ later.price = order.price
  BY DEF Takers
<1>2. s.levels = t.levels /\ s.remaining = t.remaining /\ s.trades = before \o t.trades
  BY DEF FurtherBy
<1>3. CanMatch(order, s.remaining, s.levels) <=> CanMatch(later, t.remaining, t.levels)
  BY <1>1, <1>2, Zenon DEF CanMatch, IsMatch
<1>4. CASE CanMatch(order, s.remaining, s.levels)
  <2>1. PICK traded : traded = Smaller(s.remaining, HeadOrder(s.levels).quantity)
    OBVIOUS
  <2>2. PICK trade : trade = [taker |-> order.id, maker |-> HeadOrder(s.levels).id,
                              price |-> s.levels[1].price, quantity |-> traded]
    OBVIOUS
  <2>3. Round(order, s) = [levels    |-> AfterHeadTrade(s.levels, traded),
                           remaining |-> s.remaining - traded,
                           trades    |-> Append(s.trades, trade)]
    BY <1>4, <2>1, <2>2, Zenon DEF Round, MatchRound
  <2>4. Round(later, t) = [levels    |-> AfterHeadTrade(s.levels, traded),
                           remaining |-> s.remaining - traded,
                           trades    |-> Append(t.trades, trade)]
    BY <1>1, <1>2, <1>3, <1>4, <2>1, <2>2, Zenon DEF Round, MatchRound
  <2>5. Append(before \o t.trades, trade) = before \o Append(t.trades, trade)
    <3>1. PICK S : before \in Seq(S) /\ t.trades \in Seq(S) /\ trade \in S
      <4>1. before \in Seq(TradeRecords(P) \cup {trade}) /\ t.trades \in Seq(TradeRecords(P) \cup {trade})
        BY DEF States
      <4> QED
        BY <4>1
    <3>2. /\ before \o t.trades \in Seq(S) /\ <<trade>> \in Seq(S)
      BY <3>1, ConcatProperties
    <3>3. /\ Append(before \o t.trades, trade) = (before \o t.trades) \o <<trade>>
          /\ Append(t.trades, trade) = t.trades \o <<trade>>
      BY <3>1, <3>2, AppendIsConcat
    <3>4. (before \o t.trades) \o <<trade>> = before \o (t.trades \o <<trade>>)
      <4>1. \A u \in Seq(S), v \in Seq(S), w \in Seq(S) : (u \o v) \o w = u \o (v \o w)
        BY ConcatAssociative, SMTT(20)
      <4> QED
        BY <3>1, <3>2, <4>1, Zenon
    <3> QED
      BY <3>3, <3>4, Zenon
  <2>6. /\ Round(order, s).levels = Round(later, t).levels
        /\ Round(order, s).remaining = Round(later, t).remaining
        /\ Round(order, s).trades = Append(s.trades, trade)
        /\ Round(later, t).trades = Append(t.trades, trade)
    <3>1. PICK after, left, sold, bought :
            /\ after = AfterHeadTrade(s.levels, traded) /\ left = s.remaining - traded
            /\ sold = Append(s.trades, trade) /\ bought = Append(t.trades, trade)
      OBVIOUS
    <3>2. /\ Round(order, s) = [levels |-> after, remaining |-> left, trades |-> sold]
          /\ Round(later, t) = [levels |-> after, remaining |-> left, trades |-> bought]
      BY <2>3, <2>4, <3>1, Zenon
    <3>3. /\ Round(order, s).levels = after /\ Round(later, t).levels = after
          /\ Round(order, s).remaining = left /\ Round(later, t).remaining = left
          /\ Round(order, s).trades = sold /\ Round(later, t).trades = bought
      BY <3>2
    <3> QED
      BY <3>1, <3>3, Zenon
  <2> QED
    BY <1>2, <2>5, <2>6, Zenon DEF FurtherBy
<1>5. CASE ~CanMatch(order, s.remaining, s.levels)
  BY <1>3, <1>5 DEF Round
<1> QED
  BY <1>4, <1>5

LEMMA RoundsAfterFirst ==
  ASSUME NEW P \in SUBSET Nat, NEW order \in Takers(P), NEW side \in Sides,
         NEW levels \in Seq(LevelRecords(P)), LevelsSound(side, levels),
         CanMatch(order, order.quantity, levels),
         NEW one, one = Round(order, First(levels, order)),
         NEW later, later = [order EXCEPT !.quantity = one.remaining]
  PROVE  /\ one \in States(P, side) /\ later \in Takers(P)
         /\ FurtherBy(Rounds(levels, order)[order.quantity],
                  Rounds(one.levels, later)[later.quantity], one.trades)
<1>1. First(levels, order) \in States(P, side)
  <2>1. order.quantity \in Nat /\ <<>> \in Seq(TradeRecords(P))
    BY DEF Takers
  <2> QED
    BY <2>1 DEF First, States
<1>2. one \in States(P, side)
  BY <1>1, RoundStays
<1>3. /\ one.levels \in Seq(LevelRecords(P)) /\ LevelsSound(side, one.levels)
      /\ one.remaining \in Nat /\ one.trades \in Seq(TradeRecords(P))
  BY <1>2 DEF States
<1>4. later \in Takers(P) /\ later.quantity = one.remaining /\ order.quantity \in Nat
  BY <1>3 DEF Takers
<1>5. one.remaining < order.quantity
  <2>1. First(levels, order).remaining = order.quantity /\ First(levels, order).levels = levels
    BY DEF First
  <2> QED
    BY <1>1, <2>1, RoundTrades
<1>rest. PICK rest \in Seq(LevelRecords(P)) : rest = one.levels /\ LevelsSound(side, rest)
  BY <1>3
<1> DEFINE R(k) == Rounds(levels, order)[k]
           L(k) == Rounds(rest, later)[k]
           T == {k \in Nat : FurtherBy(R(k + 1), L(k), one.trades)}
<1>6. R(0) = First(levels, order) /\ \A k \in Nat : R(k + 1) = Round(order, R(k))
  BY RoundsRecur
<1>7. L(0) = First(rest, later) /\ \A k \in Nat : L(k + 1) = Round(later, L(k))
  BY <1>4, <1>rest, RoundsRecur, ZenonT(40)
<1>8. \A k \in Nat : R(k) \in States(P, side)
  BY RoundsReached
<1>9. \A k \in Nat : L(k) \in States(P, side)
  BY <1>4, <1>rest, RoundsReached
<1>settle. \A k \in Nat : k >= later.quantity => L(k) = L(later.quantity)
  BY <1>4, <1>rest, RoundsSettle, ZenonT(40)
<1> HIDE DEF R, L
<1>10. 0 \in T
  <2>1. R(0 + 1) = one
    BY <1>6
  <2>2. L(0).levels = one.levels /\ L(0).remaining = one.remaining /\ L(0).trades = <<>>
    <3>1. /\ First(rest, later).levels = rest /\ First(rest, later).remaining = later.quantity
          /\ First(rest, later).trades = <<>>
      BY DEF First
    <3> QED
      BY <1>4, <1>7, <1>rest, <3>1, Zenon
  <2>3. one.trades \o <<>> = one.trades
    BY <1>3, ConcatEmptySeq
  <2> QED
    BY <2>1, <2>2, <2>3 DEF FurtherBy
<1>11. ASSUME NEW k \in T PROVE k + 1 \in T
  <2>1. k \in Nat /\ k + 1 \in Nat /\ FurtherBy(R(k + 1), L(k), one.trades)
    OBVIOUS
  <2>2. PICK s \in States(P, side), u \in States(P, side) : s = R(k + 1) /\ u = L(k)
    BY <1>8, <1>9, <2>1
  <2>3. FurtherBy(Round(order, s), Round(later, u), one.trades)
    BY <1>3, <2>1, <2>2, SameRound
  <2> QED
    BY <1>6, <1>7, <2>1, <2>2, <2>3
<1>12. T = Nat
  <2>1. T \subseteq Nat
    OBVIOUS
  <2> HIDE DEF T
  <2> QED
    BY <1>10, <1>11, <2>1, Counting
<1>13. PICK k \in Nat : k + 1 = order.quantity /\ k >= later.quantity
  <2>1. order.quantity - 1 \in Nat /\ (order.quantity - 1) + 1 = order.quantity
        /\ order.quantity - 1 >= later.quantity
    BY <1>3, <1>4, <1>5
  <2> QED
    BY <2>1, Zenon
<1>14. FurtherBy(R(order.quantity), L(later.quantity), one.trades)
  <2>1. FurtherBy(R(k + 1), L(k), one.trades)
    BY <1>12
  <2> QED
    BY <1>13, <1>settle, <2>1
<1> QED
  BY <1>2, <1>4, <1>14, <1>rest DEF R, L

\* The book with other levels on one side, and the remainder of an order.
WithLevels(book, side, levels) == [book EXCEPT ![side] = levels]
Reduced(order, left) == [order EXCEPT !.quantity = left]

CanTrade(book, order) == CanMatch(order, order.quantity, book[Opposite(order.side)])

FirstRound(book, order) == MatchRound(order, First(book[Opposite(order.side)], order))

\* What placing the remainder after the first round comes to.
PlaceRest(book, order) ==
  Place(WithLevels(book, Opposite(order.side), FirstRound(book, order).levels),
        Reduced(order, FirstRound(book, order).remaining))

\* What placing an order comes to that trades with nobody.
PlaceOnly(book, order) ==
  LET rests == order.quantity > 0 /\ order.type = "limit" IN
  [book    |-> IF rests THEN [book EXCEPT ![order.side] = AddToBook(@, order)] ELSE book,
   trades  |-> <<>>,
   resting |-> IF rests THEN order.quantity ELSE 0]

\* place, one round at a time: after a round of its loop, placing what remains
\* of the order on the book that the round left ends with the same book and the
\* same remainder, and with the trades that follow the round's.
THEOREM PlaceAfterRound ==
  ASSUME NEW P \in SUBSET Nat, NEW book \in Books(P), NEW order \in Takers(P),
         LevelsSound(Opposite(order.side), book[Opposite(order.side)]), CanTrade(book, order)
  PROVE  /\ Place(book, order).book = PlaceRest(book, order).book
         /\ Place(book, order).resting = PlaceRest(book, order).resting
         /\ Place(book, order).trades = FirstRound(book, order).trades \o PlaceRest(book, order).trades
         /\ PlaceRest(book, order).trades \in Seq(TradeRecords(P))
         /\ FirstRound(book, order) \in States(P, Opposite(order.side))
<1> PICK other : other = Opposite(order.side)
  OBVIOUS
<1> PICK one : one = FirstRound(book, order)
  OBVIOUS
<1>0. LevelsSound(other, book[other]) /\ CanMatch(order, order.quantity, book[other])
  BY DEF CanTrade
<1>1. PICK side \in Sides : side = order.side
  BY DEF Takers
<1>2. other \in Sides /\ other # side /\ DOMAIN book = Sides /\ book[other] \in Seq(LevelRecords(P))
  BY <1>1 DEF Opposite, Sides, Books
<1>3. PICK later : later = [order EXCEPT !.quantity = one.remaining]
  OBVIOUS
<1>4. one = Round(order, First(book[other], order))
  BY <1>0 DEF Round, First, FirstRound
<1>5. /\ one \in States(P, other) /\ later \in Takers(P)
      /\ FurtherBy(Rounds(book[other], order)[order.quantity],
               Rounds(one.levels, later)[later.quantity], one.trades)
  BY <1>0, <1>2, <1>3, <1>4, RoundsAfterFirst
<1>6. PICK end : end = Rounds(book[other], order)[order.quantity]
  OBVIOUS
<1>7. PICK fin : fin = Rounds(one.levels, later)[later.quantity]
  OBVIOUS
<1>8. end.levels = fin.levels /\ end.remaining = fin.remaining /\ end.trades = one.trades \o fin.trades
  BY <1>5, <1>6, <1>7, Zenon DEF FurtherBy
<1>9. fin.trades \in Seq(TradeRecords(P))
  <2>1. one.levels \in Seq(LevelRecords(P)) /\ LevelsSound(other, one.levels) /\ later.quantity \in Nat
    BY <1>5 DEF States, Takers
  <2>2. fin \in States(P, other)
    BY <1>2, <1>5, <1>7, <2>1, RoundsReached
  <2> QED
    BY <2>2 DEF States
<1>10. PICK rests : rests = (end.remaining > 0 /\ order.type = "limit")
  OBVIOUS
<1>11. PICK left : left = [order EXCEPT !.quantity = end.remaining]
  OBVIOUS
<1>12. /\ later.side = side /\ later.type = order.type
       /\ left = [later EXCEPT !.quantity = end.remaining]
  BY <1>1, <1>3, <1>11 DEF Takers
<1>13. PICK mid : mid = [book EXCEPT ![other] = one.levels]
  OBVIOUS
<1>14. DOMAIN mid = Sides /\ mid[other] = one.levels /\ mid[side] = book[side]
  BY <1>1, <1>2, <1>13
<1>15. Place(book, order) =
         [book |-> [book EXCEPT ![other] = end.levels,
                                ![side] = IF rests THEN AddToBook(@, left) ELSE @],
          trades |-> end.trades, resting |-> IF rests THEN end.remaining ELSE 0]
  BY <1>1, <1>6, <1>10, <1>11, Zenon DEF Place
<1>16. Place(mid, later) =
         [book |-> [mid EXCEPT ![other] = end.levels,
                               ![side] = IF rests THEN AddToBook(@, left) ELSE @],
          trades |-> fin.trades, resting |-> IF rests THEN end.remaining ELSE 0]
  BY <1>1, <1>7, <1>8, <1>10, <1>12, <1>14, Zenon DEF Place
<1>17. [book EXCEPT ![other] = end.levels, ![side] = IF rests THEN AddToBook(@, left) ELSE @]
         = [mid EXCEPT ![other] = end.levels, ![side] = IF rests THEN AddToBook(@, left) ELSE @]
  <2>1. [mid EXCEPT ![other] = end.levels] = [book EXCEPT ![other] = end.levels]
    BY <1>2, <1>13
  <2>2. PICK new : new = IF rests THEN AddToBook(book[side], left) ELSE book[side]
    OBVIOUS
  <2>3. ASSUME NEW m, DOMAIN m = Sides, m[side] = book[side],
               NEW half, half = [m EXCEPT ![other] = end.levels]
        PROVE  [m EXCEPT ![other] = end.levels, ![side] = IF rests THEN AddToBook(@, left) ELSE @]
                 = [half EXCEPT ![side] = new]
    <3>1. half[side] = book[side]
      BY <1>2, <2>3
    <3>2. CASE rests
      BY <2>2, <2>3, <3>1, <3>2
    <3>3. CASE ~rests
      BY <2>2, <2>3, <3>1, <3>3
    <3> QED
      BY <3>2, <3>3
  <2> QED
    BY <1>2, <1>14, <2>1, <2>3, Zenon
<1>18. /\ Place(book, order).book = Place(mid, later).book
       /\ Place(book, order).resting = Place(mid, later).resting
       /\ Place(book, order).trades = one.trades \o Place(mid, later).trades
       /\ Place(mid, later).trades \in Seq(TradeRecords(P))
  <2>1. PICK after : after =
          [mid EXCEPT ![other] = end.levels, ![side] = IF rests THEN AddToBook(@, left) ELSE @]
    OBVIOUS
  <2>2. PICK resting, all, others :
          /\ resting = IF rests THEN end.remaining ELSE 0
          /\ all = end.trades /\ others = fin.trades
    OBVIOUS
  <2>3. /\ Place(book, order) = [book |-> after, trades |-> all, resting |-> resting]
        /\ Place(mid, later) = [book |-> after, trades |-> others, resting |-> resting]
    BY <1>15, <1>16, <1>17, <2>1, <2>2, Zenon
  <2>4. /\ Place(book, order).book = after /\ Place(mid, later).book = after
        /\ Place(book, order).trades = all /\ Place(mid, later).trades = others
        /\ Place(book, order).resting = resting /\ Place(mid, later).resting = resting
    BY <2>3
  <2> QED
    BY <1>8, <1>9, <2>2, <2>4, Zenon
<1> QED
  BY <1>3, <1>5, <1>13, <1>18, Zenon DEF WithLevels, Reduced, PlaceRest

\* place, when its loop has ended: no trade, and what remains of a limit order
\* rests.
THEOREM PlaceAtEnd ==
  ASSUME NEW P \in SUBSET Nat, NEW book \in Books(P), NEW order \in Takers(P),
         LevelsSound(Opposite(order.side), book[Opposite(order.side)]), ~CanTrade(book, order)
  PROVE  Place(book, order) = PlaceOnly(book, order)
<1> PICK other : other = Opposite(order.side)
  OBVIOUS
<1> PICK rests : rests = (order.quantity > 0 /\ order.type = "limit")
  OBVIOUS
<1> PICK done : done = Place(book, order)
  OBVIOUS
<1>0. LevelsSound(other, book[other]) /\ ~CanMatch(order, order.quantity, book[other])
  BY DEF CanTrade
<1>1. PICK side \in Sides : side = order.side
  BY DEF Takers
<1>2. other \in Sides /\ other # side /\ DOMAIN book = Sides /\ book[other] \in Seq(LevelRecords(P))
  BY <1>1 DEF Opposite, Sides, Books
<1>3. Rounds(book[other], order)[order.quantity] = First(book[other], order)
  <2>1. order.quantity \in Nat
    BY DEF Takers
  <2> QED
    BY <1>0, <1>2, <2>1, NoRounds
<1>4. [order EXCEPT !.quantity = order.quantity] = order
  BY DEF Takers
<1>5. /\ First(book[other], order).remaining = order.quantity
      /\ First(book[other], order).levels = book[other]
      /\ First(book[other], order).trades = <<>>
  BY DEF First
<1>6. done = [book |-> [book EXCEPT ![other] = book[other],
                                    ![side] = IF rests THEN AddToBook(@, order) ELSE @],
              trades |-> <<>>, resting |-> IF rests THEN order.quantity ELSE 0]
  BY <1>1, <1>3, <1>4, <1>5, Zenon DEF Place
<1>7. [book EXCEPT ![other] = book[other]] = book /\ [book EXCEPT ![side] = book[side]] = book
  BY <1>2 DEF Books
<1>8. [book EXCEPT ![other] = book[other], ![side] = IF rests THEN AddToBook(@, order) ELSE @]
        = IF rests THEN [book EXCEPT ![side] = AddToBook(@, order)] ELSE book
  BY <1>7, Zenon
<1> QED
  BY <1>1, <1>6, <1>8, Zenon DEF PlaceOnly

=============================================================================
