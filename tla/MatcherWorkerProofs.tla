------------------------- MODULE MatcherWorkerProofs -------------------------
(***************************************************************************)
(* Every safety invariant the runs check of MatcherWorker, for any         *)
(* commands, any number of ticks, failing calls and restarts.              *)
(*                                                                         *)
(*   IInv       the numbering of the rows and the writer that holds it     *)
(*   Sound      what the engine, the tables and the work under way are     *)
(*   Explained  the book, the table and the trades between them add up     *)
(*   RowsAgree  what a row says is filled is what its trades add up to     *)
(*   CommandsSound, CacheAhead, Alone                                      *)
(*              how often a command was placed, how old the snapshot is,   *)
(*              and what the consumer keeps when the feed is silent        *)
(*                                                                         *)
(* Each is inductive relative to those above it.                           *)
(***************************************************************************)
EXTENDS MatcherWorker, OrderBookProofs, FiniteSetTheorems, TLAPS

(***************************************************************************)
(* The inductive invariant. Neither property is inductive alone: a commit  *)
(* extends the numbering because its transaction holds the number that     *)
(* follows the committed ones, and it holds that number because the insert *)
(* waited for every other transaction that does.                           *)
(***************************************************************************)
Stored == Cardinality(DOMAIN rows)

Shape ==
  /\ \E S : placed \in Seq(S)
  /\ DOMAIN op = Submitters
  /\ \A w \in Submitters : {"pc", "id", "sequence"} \subseteq DOMAIN op[w]

RowsPlaced == IsFiniteSet(DOMAIN rows) /\ DOMAIN rows \subseteq 1..Len(placed)

\* An order that is being persisted is placed, not stored, and nobody else's.
OwnOrder ==
  \A w \in Submitters : op[w].pc \in Persisting =>
    /\ op[w].id \in 1..Len(placed) /\ op[w].id \notin DOMAIN rows
    /\ \A v \in Submitters \ {w} : op[v].pc \in Persisting => op[v].id # op[w].id

AllocatedInRange ==
  \A w \in Submitters : op[w].pc = "create" => op[w].sequence \in 1..(Stored + 1)

WriterIsNext ==
  \A w \in Submitters : op[w].pc \in Writing =>
    /\ op[w].sequence = Stored + 1
    /\ \A v \in Submitters \ {w} : op[v].pc \notin Writing

IInv ==
  /\ Shape
  /\ RowsPlaced
  /\ OwnOrder
  /\ AllocatedInRange
  /\ WriterIsNext
  /\ SequencesContiguous

LEMMA StoredIsNat == ASSUME RowsPlaced PROVE Stored \in Nat
  BY FS_CardinalityType DEF RowsPlaced, Stored

LEMMA MaxOfNumbers ==
  ASSUME NEW n \in Nat
  PROVE  Max((1..n) \cup {0}) = n
<1>1. /\ n \in (1..n) \cup {0}
      /\ \A y \in (1..n) \cup {0} : n >= y
  OBVIOUS
<1>2. \A x \in (1..n) \cup {0} :
        (\A y \in (1..n) \cup {0} : x >= y) => x = n
  OBVIOUS
<1> QED
  BY <1>1, <1>2 DEF Max

(***************************************************************************)
(* Initially nothing is stored and nothing is under way.                   *)
(***************************************************************************)
LEMMA InitIInv == ASSUME Init PROVE IInv
<1>1. placed \in Seq({}) /\ Len(placed) = 0
  BY DEF Init
<1>2. DOMAIN rows = {}
  BY DEF Init
<1>3. IsFiniteSet(DOMAIN rows) /\ Stored = 0
  BY <1>2, FS_EmptySet DEF Stored
<1>4. /\ DOMAIN op = Submitters
      /\ \A w \in Submitters : op[w] = NoOp
  BY DEF Init
<1>5. \A w \in Submitters : op[w].pc \notin Persisting /\ op[w].pc = "idle"
  BY <1>4 DEF NoOp, Persisting, Writing
<1>6. Shape
  BY <1>1, <1>4 DEF Shape, NoOp
<1>7. RowsPlaced
  BY <1>2, <1>3 DEF RowsPlaced
<1>8. OwnOrder /\ AllocatedInRange /\ WriterIsNext
  BY <1>5 DEF OwnOrder, AllocatedInRange, WriterIsNext, Persisting
<1>9. SequencesContiguous
  <2>1. Sequences = {}
    BY <1>2 DEF Sequences
  <2> QED
    BY <1>2, <1>3, <2>1 DEF SequencesContiguous, Stored
<1> QED
  BY <1>6, <1>7, <1>8, <1>9 DEF IInv

(***************************************************************************)
(* Steps that store nothing, place nothing, and move no submitter into the *)
(* transaction or past its insert.                                         *)
(***************************************************************************)
Quiet(w) ==
  /\ {"pc", "id", "sequence"} \subseteq DOMAIN op'[w]
  /\ \/ op'[w].pc \notin Persisting
     \/ /\ op'[w].id = op[w].id /\ op'[w].sequence = op[w].sequence
        /\ op'[w].pc = op[w].pc \/ (op[w].pc \in Writing /\ op'[w].pc \in Writing)

LEMMA QuietStep ==
  ASSUME IInv, rows' = rows, placed' = placed,
         DOMAIN op' = Submitters, \A w \in Submitters : Quiet(w)
  PROVE  IInv'
<1>1. Stored' = Stored
  BY DEF Stored
<1>2. SequencesContiguous'
  BY DEF IInv, SequencesContiguous, Sequences
<1>3. RowsPlaced'
  BY DEF IInv, RowsPlaced
<1>4. Shape'
  BY Zenon DEF IInv, Shape, Quiet
<1>5. ASSUME NEW w \in Submitters, op'[w].pc \in Persisting
      PROVE  /\ op[w].pc \in Persisting
             /\ op'[w].id = op[w].id /\ op'[w].sequence = op[w].sequence
             /\ op'[w].pc = "create" => op[w].pc = "create"
             /\ op'[w].pc \in Writing => op[w].pc \in Writing
  BY <1>5 DEF Quiet, Persisting, Writing
<1>6. OwnOrder'
  BY <1>5 DEF IInv, OwnOrder
<1>7. AllocatedInRange'
  BY <1>1, <1>5 DEF IInv, AllocatedInRange, Persisting
<1>8. WriterIsNext'
  BY <1>1, <1>5 DEF IInv, WriterIsNext, Persisting
<1> QED
  BY <1>2, <1>3, <1>4, <1>6, <1>7, <1>8 DEF IInv

LEMMA SameIsQuiet ==
  ASSUME IInv, NEW w \in Submitters, op'[w] = op[w]
  PROVE  Quiet(w)
BY DEF IInv, Shape, Quiet

LEMMA NothingMoves ==
  ASSUME IInv, rows' = rows, placed' = placed, op' = op
  PROVE  IInv'
<1>1. DOMAIN op' = Submitters /\ \A w \in Submitters : Quiet(w)
  BY SameIsQuiet DEF IInv, Shape
<1> QED
  BY <1>1, QuietStep

\* One submitter leaves its processOrder.
LEMMA LeaveIsQuiet ==
  ASSUME IInv, rows' = rows, placed' = placed,
         NEW w \in Submitters, op' = [op EXCEPT ![w] = NoOp]
  PROVE  IInv'
<1>1. DOMAIN op' = Submitters /\ op'[w] = NoOp
      /\ \A v \in Submitters \ {w} : op'[v] = op[v]
  BY DEF IInv, Shape
<1>2. Quiet(w)
  BY <1>1 DEF Quiet, NoOp, Persisting, Writing
<1> QED
  BY <1>1, <1>2, QuietStep, SameIsQuiet

\* One submitter changes fields of its own that the invariant does not see.
LEMMA MoveIsQuiet ==
  ASSUME IInv, rows' = rows, placed' = placed,
         NEW w \in Submitters, DOMAIN op' = Submitters,
         \A v \in Submitters \ {w} : op'[v] = op[v],
         Quiet(w)
  PROVE  IInv'
BY QuietStep, SameIsQuiet

(***************************************************************************)
(* placeOrder: a new order, which only its submitter may persist.          *)
(***************************************************************************)
LEMMA SubmitKeeps ==
  ASSUME IInv, rows' = rows, NEW w \in Submitters, NEW input, NEW command,
         Submit(w, input, command)
  PROVE  IInv'
<1> DEFINE id == Len(placed) + 1
<1>1. PICK outcome :
        /\ placed' = Append(placed, [command |-> command,
                                     status  |-> outcome.status,
                                     order   |-> outcome.order,
                                     trades  |-> outcome.trades,
                                     resting |-> outcome.resting])
        /\ Begin(w, IF outcome.status = "accepted" THEN "allocate" ELSE "cache")
  BY Zenon DEF Submit
<1> DEFINE entry == [command |-> command, status |-> outcome.status,
                     order |-> outcome.order, trades |-> outcome.trades,
                     resting |-> outcome.resting]
           start == IF outcome.status = "accepted" THEN "allocate" ELSE "cache"
<1>2. placed' = Append(placed, entry) /\ Begin(w, start)
  BY <1>1
<1>3. start \in {"allocate", "cache"}
  OBVIOUS
<1> HIDE DEF entry, start
<1>4. /\ Len(placed) \in Nat /\ Len(placed') = id
      /\ \E S : placed' \in Seq(S)
  <2>1. PICK S : placed \in Seq(S)
    BY DEF IInv, Shape
  <2>2. placed \in Seq(S \cup {entry}) /\ entry \in S \cup {entry}
    BY <2>1
  <2> QED
    BY <1>2, <2>2
<1>5. /\ DOMAIN op' = Submitters
      /\ op'[w] = [NoOp EXCEPT !.pc = start, !.id = id, !.captured = <<id>>,
                               !.since = Cardinality(DOMAIN rows)]
      /\ \A v \in Submitters \ {w} :
           op'[v] = op[v] \/ op'[v] = [op[v] EXCEPT !.captured = Append(@, id)]
  BY <1>2 DEF Begin
<1>6. /\ {"pc", "id", "sequence"} \subseteq DOMAIN op'[w]
      /\ op'[w].pc = start /\ op'[w].id = id
  BY <1>5 DEF NoOp
<1>7. \A v \in Submitters \ {w} :
        /\ {"pc", "id", "sequence"} \subseteq DOMAIN op'[v]
        /\ op'[v].pc = op[v].pc /\ op'[v].id = op[v].id /\ op'[v].sequence = op[v].sequence
  BY <1>5 DEF IInv, Shape
<1>8. Stored' = Stored
  BY DEF Stored
<1>9. Shape'
  BY <1>4, <1>5, <1>6, <1>7 DEF Shape
<1>10. RowsPlaced'
  BY <1>4 DEF IInv, RowsPlaced
<1>11. OwnOrder'
  <2>1. id \in 1..Len(placed') /\ id \notin DOMAIN rows /\ 1..Len(placed) \subseteq 1..Len(placed')
    BY <1>4 DEF IInv, RowsPlaced
  <2>2. \A v \in Submitters \ {w} : op[v].pc \in Persisting =>
          op[v].id # id /\ op[v].id \in 1..Len(placed') /\ op[v].id \notin DOMAIN rows
    BY <1>4, <2>1 DEF IInv, OwnOrder
  <2> QED
    BY <1>6, <1>7, <2>1, <2>2 DEF IInv, OwnOrder
<1>12. op'[w].pc # "create" /\ op'[w].pc \notin Writing
  BY <1>3, <1>6 DEF Writing
<1>13. AllocatedInRange'
  BY <1>7, <1>8, <1>12 DEF IInv, AllocatedInRange
<1>14. WriterIsNext'
  BY <1>7, <1>8, <1>12 DEF IInv, WriterIsNext
<1>15. SequencesContiguous'
  BY DEF IInv, SequencesContiguous, Sequences
<1> QED
  BY <1>9, <1>10, <1>11, <1>13, <1>14, <1>15 DEF IInv

(***************************************************************************)
(* The transaction: SELECT MAX, INSERT, the maker's update, COMMIT.        *)
(***************************************************************************)
LEMMA AllocateKeeps ==
  ASSUME IInv, NEW w \in Submitters, Allocate(w)
  PROVE  IInv'
<1>1. /\ op[w].pc = "allocate" /\ rows' = rows /\ placed' = placed
      /\ op' = [op EXCEPT ![w].pc = "create", ![w].sequence = Max(Sequences \cup {0}) + 1]
  BY DEF Allocate, engine, database
<1>2. Stored \in Nat /\ Stored' = Stored
  BY <1>1, StoredIsNat DEF IInv, Stored
<1>3. Max(Sequences \cup {0}) + 1 = Stored + 1
  BY <1>2, MaxOfNumbers DEF IInv, SequencesContiguous, Stored
<1>4. /\ DOMAIN op' = Submitters
      /\ \A v \in Submitters \ {w} : op'[v] = op[v]
      /\ op'[w].pc = "create" /\ op'[w].sequence = Stored + 1 /\ op'[w].id = op[w].id
      /\ {"pc", "id", "sequence"} \subseteq DOMAIN op'[w]
  BY <1>1, <1>3 DEF IInv, Shape
<1>5. Shape'
  BY <1>1, <1>4 DEF IInv, Shape
<1>6. RowsPlaced' /\ SequencesContiguous'
  BY <1>1 DEF IInv, RowsPlaced, SequencesContiguous, Sequences
<1>7. OwnOrder'
  <2>1. \A v \in Submitters : /\ op'[v].id = op[v].id
                              /\ op'[v].pc \in Persisting => op[v].pc \in Persisting
    BY <1>1, <1>4 DEF Persisting
  <2> QED
    BY <1>1, <2>1 DEF IInv, OwnOrder
<1>8. AllocatedInRange'
  BY <1>2, <1>4 DEF IInv, AllocatedInRange
<1>9. WriterIsNext'
  BY <1>2, <1>4 DEF IInv, WriterIsNext, Writing
<1> QED
  BY <1>5, <1>6, <1>7, <1>8, <1>9 DEF IInv

LEMMA NextWriteIsWriting ==
  ASSUME NEW w, NEW k
  PROVE  NextWrite(w, k) \in Writing
BY DEF NextWrite, Writing

LEMMA CreateRowKeeps ==
  ASSUME IInv, NEW w \in Submitters, CreateRow(w)
  PROVE  IInv'
<1>1. /\ op[w].pc = "create" /\ rows' = rows /\ placed' = placed
      /\ op[w].sequence \notin Sequences
      /\ \A v \in Submitters : op[v].pc \in Writing => op[v].sequence # op[w].sequence
      /\ op' = [op EXCEPT ![w].pc = NextWrite(w, 1)]
  BY DEF CreateRow, engine, database
<1>2. Stored \in Nat /\ Stored' = Stored
  BY <1>1, StoredIsNat DEF IInv, Stored
<1>3. op[w].sequence = Stored + 1
  <2>1. op[w].sequence \in 1..(Stored + 1) /\ op[w].sequence \notin 1..Stored
    BY <1>1 DEF IInv, AllocatedInRange, SequencesContiguous, Stored
  <2> QED
    BY <1>2, <2>1
<1>4. \A v \in Submitters : op[v].pc \notin Writing
  BY <1>1, <1>3 DEF IInv, WriterIsNext
<1>5. /\ DOMAIN op' = Submitters
      /\ \A v \in Submitters \ {w} : op'[v] = op[v]
      /\ op'[w].pc \in Writing
      /\ op'[w].sequence = op[w].sequence /\ op'[w].id = op[w].id
      /\ {"pc", "id", "sequence"} \subseteq DOMAIN op'[w]
  BY <1>1, NextWriteIsWriting DEF IInv, Shape
<1>6. Shape'
  BY <1>1, <1>5 DEF IInv, Shape
<1>7. RowsPlaced' /\ SequencesContiguous'
  BY <1>1 DEF IInv, RowsPlaced, SequencesContiguous, Sequences
<1>8. OwnOrder'
  <2>1. \A v \in Submitters : /\ op'[v].id = op[v].id
                              /\ op'[v].pc \in Persisting => op[v].pc \in Persisting
    BY <1>1, <1>5 DEF Persisting
  <2> QED
    BY <1>1, <2>1 DEF IInv, OwnOrder
<1>9. AllocatedInRange'
  <2>1. op'[w].pc # "create"
    BY <1>5 DEF Writing
  <2> QED
    BY <1>2, <1>5, <2>1 DEF IInv, AllocatedInRange
<1>10. WriterIsNext'
  BY <1>2, <1>3, <1>4, <1>5 DEF WriterIsNext
<1> QED
  BY <1>6, <1>7, <1>8, <1>9, <1>10 DEF IInv

LEMMA CommitKeeps ==
  ASSUME IInv, NEW w \in Submitters, Commit(w)
  PROVE  IInv'
<1> DEFINE id == op[w].id
<1>1. /\ op[w].pc = "commit" /\ placed' = placed
      /\ op' = [op EXCEPT ![w].pc = "cache", ![w].writes = NoWrites]
      /\ DOMAIN rows' = DOMAIN rows \cup {id}
      /\ rows'[id].sequence = op[w].sequence
      /\ \A i \in DOMAIN rows \ {id} : rows'[i].sequence = rows[i].sequence
  BY DEF Commit, engine, Written
<1>2. /\ id \in 1..Len(placed) /\ id \notin DOMAIN rows
      /\ op[w].sequence = Stored + 1
      /\ \A v \in Submitters \ {w} : op[v].pc \notin Writing
      /\ \A v \in Submitters \ {w} : op[v].pc \in Persisting => op[v].id # id
  BY <1>1 DEF IInv, OwnOrder, WriterIsNext, Persisting, Writing
<1>3. Stored \in Nat /\ IsFiniteSet(DOMAIN rows') /\ Stored' = Stored + 1
  <2>1. Stored \in Nat /\ IsFiniteSet(DOMAIN rows)
    BY StoredIsNat DEF IInv, RowsPlaced
  <2> QED
    BY <1>1, <1>2, <2>1, FS_AddElement DEF Stored
<1>4. /\ DOMAIN op' = Submitters
      /\ \A v \in Submitters \ {w} : op'[v] = op[v]
      /\ op'[w].pc = "cache"
      /\ {"pc", "id", "sequence"} \subseteq DOMAIN op'[w]
  BY <1>1 DEF IInv, Shape
<1>5. op'[w].pc \notin Persisting /\ op'[w].pc \notin Writing /\ op'[w].pc # "create"
  BY <1>4 DEF Persisting, Writing
<1>6. Shape'
  BY <1>1, <1>4 DEF IInv, Shape
<1>7. RowsPlaced'
  BY <1>1, <1>2, <1>3 DEF IInv, RowsPlaced
<1>8. OwnOrder'
  BY <1>1, <1>2, <1>4, <1>5 DEF IInv, OwnOrder
<1>9. AllocatedInRange'
  <2>1. \A v \in Submitters \ {w} :
          op'[v].pc = "create" => op'[v].sequence \in 1..(Stored + 1)
    BY <1>4 DEF IInv, AllocatedInRange
  <2> QED
    BY <1>3, <1>5, <2>1 DEF AllocatedInRange
<1>10. WriterIsNext'
  BY <1>2, <1>4, <1>5 DEF WriterIsNext
<1>11. SequencesContiguous'
  <2>1. \A i \in DOMAIN rows : rows'[i].sequence = rows[i].sequence /\ i # id
    BY <1>1, <1>2
  <2>2. Sequences = 1..Stored
    BY DEF IInv, SequencesContiguous, Stored
  <2>3. Sequences' = Sequences \cup {Stored + 1}
    BY <1>1, <1>2, <2>1 DEF Sequences
  <2>4. Sequences' = 1..Stored'
    BY <1>3, <2>2, <2>3
  <2>5. \A i \in DOMAIN rows : rows[i].sequence \in 1..Stored
    BY <2>2 DEF Sequences
  <2>6. \A i \in DOMAIN rows : rows'[i].sequence # rows'[id].sequence
    BY <1>1, <1>2, <1>3, <2>1, <2>5
  <2>7. \A a, b \in DOMAIN rows' : rows'[a].sequence = rows'[b].sequence => a = b
    BY <1>1, <2>1, <2>6 DEF IInv, SequencesContiguous
  <2> QED
    BY <2>4, <2>7 DEF SequencesContiguous, Stored
<1> QED
  BY <1>6, <1>7, <1>8, <1>9, <1>10, <1>11 DEF IInv

(***************************************************************************)
(* The other steps of a processOrder, which leave the rows alone: they end *)
(* it, or move it between locations past its insert or outside the         *)
(* transaction.                                                            *)
(***************************************************************************)
LEMMA AbortKeeps ==
  ASSUME IInv, NEW w \in Submitters, Abort(w)
  PROVE  IInv'
<1>1. /\ rows' = rows /\ placed' = placed
      /\ op' = [op EXCEPT ![w] = NoOp]
  BY DEF Abort, Leave, engine, database
<1> QED
  BY <1>1, LeaveIsQuiet

LEMMA WriteKeeps ==
  ASSUME IInv, NEW w \in Submitters, InsertTrade(w) \/ ReadMaker(w) \/ UpdateMaker(w)
  PROVE  IInv'
<1> DEFINE same(v) == op'[v] = op[v]
<1>1. rows' = rows /\ placed' = placed
  BY DEF InsertTrade, ReadMaker, UpdateMaker, engine, database
<1>2. /\ DOMAIN op' = Submitters
      /\ \A v \in Submitters \ {w} : same(v)
      /\ op[w].pc \in Writing /\ op'[w].pc \in Writing
      /\ op'[w].id = op[w].id /\ op'[w].sequence = op[w].sequence
      /\ {"pc", "id", "sequence"} \subseteq DOMAIN op'[w]
  <2>1. CASE InsertTrade(w)
    BY <2>1 DEF InsertTrade, IInv, Shape, Writing
  <2>2. CASE ReadMaker(w)
    BY <2>2 DEF ReadMaker, IInv, Shape, Writing
  <2>3. CASE UpdateMaker(w)
    <3> DEFINE k == op[w].trade + 1
               left == Less(op[w].read, Trade(w).quantity)
               writes == With(op[w].writes, Trade(w).maker, left)
    <3>1. /\ op[w].pc = "update"
          /\ op' = [op EXCEPT ![w].pc = NextWrite(w, k), ![w].trade = k,
                              ![w].writes = writes]
      BY <2>3 DEF UpdateMaker
    <3>2. NextWrite(w, k) \in Writing
      BY NextWriteIsWriting
    <3> HIDE DEF k, left, writes
    <3> QED
      BY <3>1, <3>2 DEF IInv, Shape, Writing
  <2> QED
    BY <2>1, <2>2, <2>3
<1>3. Quiet(w)
  BY <1>2 DEF Quiet
<1> QED
  BY <1>1, <1>2, <1>3, MoveIsQuiet

LEMMA AfterCommitKeeps ==
  ASSUME IInv, NEW w \in Submitters,
         CacheNext(w) \/ CacheDone(w) \/ EnqueueAll(w) \/ EnqueueCommits(w)
  PROVE  IInv'
<1>1. rows' = rows /\ placed' = placed
  BY DEF CacheNext, CacheDone, EnqueueAll, EnqueueCommits, Leave, engine, database
<1>2. CASE EnqueueCommits(w)
  <2>1. op' = [op EXCEPT ![w] = NoOp]
    BY <1>2 DEF EnqueueCommits, Leave
  <2> QED
    BY <1>1, <2>1, LeaveIsQuiet
<1>3. CASE CacheNext(w) \/ CacheDone(w) \/ EnqueueAll(w)
  <2>1. /\ DOMAIN op' = Submitters
        /\ \A v \in Submitters \ {w} : op'[v] = op[v]
        /\ op'[w].pc \in {"cache", "enqueue", "flush"}
        /\ {"pc", "id", "sequence"} \subseteq DOMAIN op'[w]
    BY <1>3 DEF CacheNext, CacheDone, EnqueueAll, IInv, Shape
  <2>2. Quiet(w)
    BY <2>1 DEF Quiet, Persisting, Writing
  <2> QED
    BY <1>1, <2>1, <2>2, MoveIsQuiet
<1> QED
  BY <1>2, <1>3

LEMMA ProcessStepKeeps ==
  ASSUME IInv, NEW w \in Submitters, ProcessStep(w)
  PROVE  IInv'
<1>1. CASE Allocate(w)
  BY <1>1, AllocateKeeps
<1>2. CASE CreateRow(w)
  BY <1>2, CreateRowKeeps
<1>3. CASE CreateConflicts(w) \/ MakerMissing(w)
  BY <1>3, AbortKeeps DEF CreateConflicts, MakerMissing
<1>4. CASE InsertTrade(w) \/ ReadMaker(w) \/ UpdateMaker(w)
  BY <1>4, WriteKeeps
<1>5. CASE Commit(w)
  BY <1>5, CommitKeeps
<1>6. CASE CacheNext(w) \/ CacheDone(w) \/ EnqueueAll(w) \/ EnqueueCommits(w)
  BY <1>6, AfterCommitKeeps
<1> QED
  BY <1>1, <1>2, <1>3, <1>4, <1>5, <1>6 DEF ProcessStep

(***************************************************************************)
(* A restart: the rows stay, and nobody is in a transaction.               *)
(***************************************************************************)
LEMMA RestartKeeps ==
  ASSUME IInv, Restart
  PROVE  IInv'
<1>1. /\ rows' = rows /\ placed' = placed
      /\ DOMAIN op' = Submitters /\ \A w \in Submitters : op'[w] = NoOp
  BY DEF Restart, database
<1>2. \A w \in Submitters : Quiet(w)
  BY <1>1 DEF Quiet, NoOp, Persisting, Writing
<1> QED
  BY <1>1, <1>2, QuietStep

(***************************************************************************)
(* Every step.                                                             *)
(***************************************************************************)
LEMMA NextKeepsIInv ==
  ASSUME IInv, [Next]_vars
  PROVE  IInv'
<1>1. CASE Send
  BY <1>1, NothingMoves DEF Send, engine, database
<1>2. CASE Consume
  <2>1. rows' = rows /\ Submit("consumer", topic[next + 1], next + 1)
    BY <1>2 DEF Consume, database
  <2> QED
    BY <2>1, SubmitKeeps DEF Submitters
<1>3. CASE Tick
  <2>1. PICK maker \in MakerOrders : Submit("synthetic", maker, 0)
    BY <1>3 DEF Tick
  <2>2. rows' = rows
    BY <1>3 DEF Tick, database
  <2> QED
    BY <2>1, <2>2, SubmitKeeps DEF Submitters
<1>4. CASE TakeBack
  <2>1. rows' = rows /\ Submit("synthetic", pending, 0)
    BY <1>4 DEF TakeBack, database
  <2> QED
    BY <2>1, SubmitKeeps DEF Submitters
<1>5. ASSUME NEW w \in Submitters, ProcessStep(w)
      PROVE  IInv'
  BY <1>5, ProcessStepKeeps
<1>6. ASSUME NEW w \in Submitters, CallFails(w)
      PROVE  IInv'
  BY <1>6, AbortKeeps DEF CallFails
<1>7. CASE SnapshotExpires \/ CommitOffset
  BY <1>7, NothingMoves DEF SnapshotExpires, CommitOffset, engine, database
<1>8. CASE Restart
  BY <1>8, RestartKeeps
<1>9. CASE UNCHANGED vars
  BY <1>9, NothingMoves DEF vars, engine, database
<1>10. CASE Rejoin
  BY <1>10, NothingMoves DEF Rejoin, engine, database
<1> QED
  BY <1>1, <1>2, <1>3, <1>4, <1>5, <1>6, <1>7, <1>8, <1>9, <1>10 DEF Next

THEOREM Invariance == Spec => []IInv
<1>1. Init => IInv
  BY InitIInv
<1>2. IInv /\ [Next]_vars => IInv'
  BY NextKeepsIInv
<1> QED
  BY <1>1, <1>2, PTL DEF Spec

(***************************************************************************)
(* The properties the runs check.                                          *)
(***************************************************************************)
\* allocateSequence and the unique index number the stored orders 1, 2, 3, ...
\* whatever overlaps, fails or restarts.
THEOREM Numbered == Spec => []SequencesContiguous
<1>1. IInv => SequencesContiguous
  BY DEF IInv
<1> QED
  BY <1>1, Invariance, PTL

\* The unique index admits one transaction at a time to the trades and the
\* maker rows.
THEOREM Exclusive == Spec => []OneWriter
<1>1. ASSUME IInv PROVE OneWriter
  <2> DEFINE writers == {w \in Submitters : op[w].pc \in Writing}
  <2>1. CASE writers = {}
    BY <2>1, FS_EmptySet DEF OneWriter
  <2>2. CASE writers # {}
    <3>1. PICK w \in writers : TRUE
      BY <2>2
    <3>2. writers = {w}
      BY <1>1, <3>1 DEF IInv, WriterIsNext
    <3>3. Cardinality(writers) = 1
      BY <3>2, FS_Singleton
    <3> QED
      BY <3>3 DEF OneWriter
  <2> QED
    BY <2>1, <2>2
<1> QED
  BY <1>1, Invariance, PTL

(***************************************************************************)
(* Total is a recursion over subsets that picks an element at a time: it   *)
(* is well defined on finite sets, and does not depend on what is picked.  *)
(***************************************************************************)
Picked(s) == CHOOSE x \in s : TRUE

SumsUp(iter, S) ==
  iter = [s \in SUBSET S |-> IF s = {} THEN 0 ELSE Picked(s).quantity + iter[s \ {Picked(s)}]]

TotalOver(S) == CHOOSE iter : SumsUp(iter, S)

HaveQuantities(S) == IsFiniteSet(S) /\ \A t \in S : t.quantity \in Nat

LEMMA TotalIsLast == ASSUME NEW S PROVE Total(S) = TotalOver(S)[S]
BY DEF Total, TotalOver, MapThenSumSet, MapThenFoldSet, SumsUp, Picked

LEMMA PickedIsIn == ASSUME NEW s, s # {} PROVE Picked(s) \in s
BY DEF Picked

LEMMA SumExists ==
  ASSUME NEW S, HaveQuantities(S)
  PROVE  SumsUp(TotalOver(S), S)
<1> DEFINE Sums == [SUBSET S -> Nat]
           More(iter) == [s \in SUBSET S |-> IF s = {} THEN 0
                           ELSE Picked(s).quantity + iter[s \ {Picked(s)}]]
           F == [iter \in Sums |-> More(iter)]
           zero == [s \in SUBSET S |-> 0]
<1>1. ASSUME NEW iter \in Sums PROVE More(iter) \in Sums
  <2>1. ASSUME NEW s \in SUBSET S, s # {}
        PROVE  Picked(s).quantity + iter[s \ {Picked(s)}] \in Nat
    <3>1. Picked(s) \in S /\ s \ {Picked(s)} \in SUBSET S
      BY <2>1, PickedIsIn
    <3>2. Picked(s).quantity \in Nat /\ iter[s \ {Picked(s)}] \in Nat
      BY <3>1 DEF HaveQuantities
    <3> QED
      BY <3>2
  <2> QED
    BY <2>1
<1>2. zero \in Sums
  OBVIOUS
<1> HIDE DEF More
<1>3. F \in [Sums -> Sums]
  BY <1>1
<1>4. \A iter \in Sums : F[iter] = More(iter)
  OBVIOUS
<1> HIDE DEF F, zero, Sums
<1>5. PICK g : Generated(g, Sums, zero, F)
  BY <1>2, <1>3, Iterates
<1>6. \A s \in SUBSET S : IsFiniteSet(s) /\ Cardinality(s) \in Nat
  BY FS_Subset, FS_CardinalityType DEF HaveQuantities
<1> DEFINE total == [s \in SUBSET S |-> g[Cardinality(s)][s]]
<1>7. ASSUME NEW s \in SUBSET S
      PROVE  total[s] = IF s = {} THEN 0 ELSE Picked(s).quantity + total[s \ {Picked(s)}]
  <2>1. CASE s = {}
    <3>1. Cardinality(s) = 0
      BY <2>1, FS_EmptySet
    <3>2. total[s] = zero[s]
      BY <1>5, <3>1 DEF Generated
    <3> QED
      BY <2>1, <3>2 DEF zero
  <2>2. CASE s # {}
    <3>1. PICK x : x = Picked(s)
      OBVIOUS
    <3>2. x \in s /\ s \ {x} \in SUBSET S
      BY <2>2, <3>1, PickedIsIn
    <3>3. PICK n \in Nat : Cardinality(s \ {x}) = n
      BY <1>6, <3>2
    <3>4. Cardinality(s) = n + 1
      <4>1. s = (s \ {x}) \cup {x}
        BY <3>2
      <4>2. IsFiniteSet(s \ {x})
        BY <1>6, <3>2
      <4> QED
        BY <3>3, <4>1, <4>2, FS_AddElement
    <3>5. g[n + 1] = More(g[n])
      BY <1>4, <1>5 DEF Generated
    <3>6. total[s] = More(g[n])[s]
      BY <3>4, <3>5
    <3>7. total[s \ {x}] = g[n][s \ {x}]
      BY <3>2, <3>3
    <3> QED
      BY <2>2, <3>1, <3>6, <3>7 DEF More
  <2> QED
    BY <2>1, <2>2
<1>8. SumsUp(total, S)
  <2>1. \A s \in SUBSET S :
          total[s] = IF s = {} THEN 0 ELSE Picked(s).quantity + total[s \ {Picked(s)}]
    BY <1>7
  <2>2. total = [s \in SUBSET S |-> total[s]]
    OBVIOUS
  <2> HIDE DEF total
  <2> QED
    BY <2>1, <2>2 DEF SumsUp
<1> HIDE DEF total
<1> QED
  BY <1>8 DEF TotalOver

LEMMA SumStep ==
  ASSUME NEW S, HaveQuantities(S), NEW s \in SUBSET S
  PROVE  TotalOver(S)[s] = IF s = {} THEN 0
           ELSE Picked(s).quantity + TotalOver(S)[s \ {Picked(s)}]
<1>1. PICK iter : iter = TotalOver(S)
  OBVIOUS
<1>2. SumsUp(iter, S)
  BY <1>1, SumExists
<1>3. iter[s] = IF s = {} THEN 0 ELSE Picked(s).quantity + iter[s \ {Picked(s)}]
  BY <1>2 DEF SumsUp
<1> QED
  BY <1>1, <1>3

LEMMA SumAny ==
  ASSUME NEW S, HaveQuantities(S)
  PROVE  \A s \in SUBSET S :
           /\ TotalOver(S)[s] \in Nat
           /\ \A y \in s : TotalOver(S)[s] = y.quantity + TotalOver(S)[s \ {y}]
<1>1. PICK iter : iter = TotalOver(S)
  OBVIOUS
<1>2. \A s \in SUBSET S :
        iter[s] = IF s = {} THEN 0 ELSE Picked(s).quantity + iter[s \ {Picked(s)}]
  BY <1>1, SumStep
<1> DEFINE Fine(s) == /\ iter[s] \in Nat
                      /\ \A y \in s : iter[s] = y.quantity + iter[s \ {y}]
           T == {n \in Nat : \A s \in SUBSET S : Cardinality(s) <= n => Fine(s)}
<1>3. \A s \in SUBSET S : IsFiniteSet(s) /\ Cardinality(s) \in Nat
  BY FS_Subset, FS_CardinalityType DEF HaveQuantities
<1>4. ASSUME NEW s \in SUBSET S, NEW y \in s
      PROVE  Cardinality(s) = Cardinality(s \ {y}) + 1
  <2>1. s = (s \ {y}) \cup {y} /\ IsFiniteSet(s \ {y})
    BY <1>3
  <2> QED
    BY <2>1, FS_AddElement
<1>5. 0 \in T
  <2> SUFFICES ASSUME NEW s \in SUBSET S, Cardinality(s) = 0 PROVE Fine(s)
    BY <1>3
  <2>1. s = {}
    BY <1>3, FS_EmptySet
  <2> QED
    BY <1>2, <2>1
<1>6. ASSUME NEW n \in T PROVE n + 1 \in T
  <2>1. n \in Nat /\ \A s \in SUBSET S : Cardinality(s) <= n => Fine(s)
    OBVIOUS
  <2>20. (\A s \in SUBSET S : Cardinality(s) = n + 1 => Fine(s)) => n + 1 \in T
    <3> HIDE DEF Fine
    <3>1. \A s \in SUBSET S : Cardinality(s) <= n + 1 => Cardinality(s) <= n \/ Cardinality(s) = n + 1
      BY <1>3, <2>1
    <3>2. n + 1 \in Nat
      BY <2>1
    <3> QED
      BY <2>1, <3>1, <3>2
  <2> SUFFICES ASSUME NEW s \in SUBSET S, Cardinality(s) = n + 1 PROVE Fine(s)
    BY <2>20
  <2>2. PICK x : x = Picked(s)
    OBVIOUS
  <2>3. s # {}
    BY <1>3, <2>1, FS_EmptySet
  <2>4. x \in s
    BY <2>2, <2>3, PickedIsIn
  <2>5. iter[s] = x.quantity + iter[s \ {x}]
    BY <1>2, <2>2, <2>3
  <2>6. ASSUME NEW z \in s PROVE s \ {z} \in SUBSET S /\ Fine(s \ {z})
    <3>1. s \ {z} \in SUBSET S /\ Cardinality(s \ {z}) = n
      <4>1. s \ {z} \in SUBSET S /\ Cardinality(s) = Cardinality(s \ {z}) + 1
        BY <1>4
      <4> QED
        BY <1>3, <2>1, <4>1
    <3>2. Cardinality(s \ {z}) <= n
      BY <2>1, <3>1
    <3> QED
      BY <2>1, <3>1, <3>2, Zenon
  <2>7. \A z \in s : z.quantity \in Nat
    BY DEF HaveQuantities
  <2>8. ASSUME NEW y \in s PROVE iter[s] = y.quantity + iter[s \ {y}]
    <3>1. CASE y = x
      BY <2>5, <3>1
    <3>2. CASE y # x
      <4>1. iter[s \ {x}] = y.quantity + iter[(s \ {x}) \ {y}]
        BY <2>4, <2>6, <3>2
      <4>2. iter[s \ {y}] = x.quantity + iter[(s \ {y}) \ {x}]
        BY <2>4, <2>6, <3>2
      <4>3. (s \ {x}) \ {y} = (s \ {y}) \ {x} /\ (s \ {y}) \ {x} \in SUBSET S
        OBVIOUS
      <4>4. iter[(s \ {y}) \ {x}] \in Nat
        <5>1. Cardinality((s \ {y}) \ {x}) <= Cardinality(s \ {y})
          BY <1>3, FS_Subset
        <5>2. Cardinality(s \ {y}) = n
          BY <1>3, <1>4, <2>1
        <5> QED
          BY <1>3, <2>1, <5>1, <5>2
      <4>5. PICK c \in Nat : c = iter[(s \ {y}) \ {x}]
        BY <4>4
      <4>6. iter[s] = x.quantity + (y.quantity + c)
        BY <2>5, <4>1, <4>3, <4>5
      <4>7. iter[s \ {y}] = x.quantity + c
        BY <4>2, <4>5
      <4>8. x.quantity \in Nat /\ y.quantity \in Nat
        BY <2>4, <2>7
      <4> QED
        BY <4>5, <4>6, <4>7, <4>8
    <3> QED
      BY <3>1, <3>2
  <2>9. iter[s] \in Nat
    <3>1. iter[s \ {x}] \in Nat /\ x.quantity \in Nat
      BY <2>4, <2>6, <2>7
    <3> QED
      BY <2>5, <3>1
  <2> QED
    BY <2>8, <2>9
<1>7. T = Nat
  <2> HIDE DEF T
  <2>1. T \subseteq Nat
    BY DEF T
  <2> QED
    BY <1>5, <1>6, <2>1, Counting
<1>8. \A s \in SUBSET S : Fine(s)
  BY <1>3, <1>7
<1> QED
  BY <1>1, <1>8

\* What a set adds up to does not depend on the set it is a part of.
LEMMA SumSame ==
  ASSUME NEW S, HaveQuantities(S), NEW R \in SUBSET S
  PROVE  \A s \in SUBSET R : TotalOver(R)[s] = TotalOver(S)[s]
<1> DEFINE T == {n \in Nat : \A s \in SUBSET R :
                  Cardinality(s) = n => TotalOver(R)[s] = TotalOver(S)[s]}
<1>1. HaveQuantities(R)
  BY FS_Subset DEF HaveQuantities
<1>2. \A s \in SUBSET R : s \in SUBSET S /\ IsFiniteSet(s) /\ Cardinality(s) \in Nat
  BY <1>1, FS_Subset, FS_CardinalityType DEF HaveQuantities
<1>3. 0 \in T
  <2> SUFFICES ASSUME NEW s \in SUBSET R, Cardinality(s) = 0
               PROVE  TotalOver(R)[s] = TotalOver(S)[s]
    OBVIOUS
  <2>1. s = {}
    BY <1>2, FS_EmptySet
  <2> QED
    BY <1>1, <1>2, <2>1, SumStep
<1>4. ASSUME NEW n \in T PROVE n + 1 \in T
  <2> SUFFICES ASSUME NEW s \in SUBSET R, Cardinality(s) = n + 1
               PROVE  TotalOver(R)[s] = TotalOver(S)[s]
    OBVIOUS
  <2>1. PICK x : x = Picked(s)
    OBVIOUS
  <2>2. s # {}
    BY <1>2, FS_EmptySet
  <2>3. x \in s
    BY <2>1, <2>2, PickedIsIn
  <2>4. s \ {x} \in SUBSET R /\ Cardinality(s \ {x}) = n
    <3>1. PICK rest : rest = s \ {x}
      OBVIOUS
    <3>2. s = rest \cup {x} /\ x \notin rest /\ rest \in SUBSET R
      BY <2>3, <3>1
    <3>3. IsFiniteSet(rest) /\ Cardinality(rest) \in Nat
      BY <1>2, <3>2
    <3>4. Cardinality(s) = Cardinality(rest) + 1
      BY <3>2, <3>3, FS_AddElement
    <3> QED
      BY <3>1, <3>2, <3>3, <3>4
  <2>5. TotalOver(R)[s \ {x}] = TotalOver(S)[s \ {x}]
    BY <2>4
  <2>6. TotalOver(R)[s] = x.quantity + TotalOver(R)[s \ {x}]
    BY <1>1, <2>1, <2>2, SumStep
  <2>7. TotalOver(S)[s] = x.quantity + TotalOver(S)[s \ {x}]
    BY <1>2, <2>1, <2>2, SumStep
  <2> QED
    BY <2>5, <2>6, <2>7
<1>5. T = Nat
  <2> HIDE DEF T
  <2>1. T \subseteq Nat
    BY DEF T
  <2> QED
    BY <1>3, <1>4, <2>1, Counting
<1> QED
  BY <1>2, <1>5

LEMMA TotalOfNone == Total({}) = 0
<1>1. HaveQuantities({})
  BY FS_EmptySet DEF HaveQuantities
<1> QED
  BY <1>1, SumStep, TotalIsLast

LEMMA TotalWithout ==
  ASSUME NEW S, HaveQuantities(S), NEW y \in S
  PROVE  Total(S) = y.quantity + Total(S \ {y})
<1>1. S \ {y} \in SUBSET S /\ S \in SUBSET S /\ S \ {y} \in SUBSET (S \ {y})
  OBVIOUS
<1>2. TotalOver(S)[S] = y.quantity + TotalOver(S)[S \ {y}]
  BY <1>1, SumAny
<1>3. TotalOver(S \ {y})[S \ {y}] = TotalOver(S)[S \ {y}]
  BY <1>1, SumSame
<1> QED
  BY <1>2, <1>3, TotalIsLast

LEMMA TotalIsNat == ASSUME NEW S, HaveQuantities(S) PROVE Total(S) \in Nat
BY SumAny, TotalIsLast

LEMMA TotalWith ==
  ASSUME NEW S, HaveQuantities(S), NEW y, y \notin S, y.quantity \in Nat
  PROVE  HaveQuantities(S \cup {y}) /\ Total(S \cup {y}) = y.quantity + Total(S)
<1>1. HaveQuantities(S \cup {y})
  BY FS_AddElement DEF HaveQuantities
<1>2. (S \cup {y}) \ {y} = S
  OBVIOUS
<1> QED
  BY <1>1, <1>2, TotalWithout

LEMMA TotalOfOne == ASSUME NEW y, y.quantity \in Nat PROVE Total({y}) = y.quantity
<1>1. HaveQuantities({}) /\ y \notin {} /\ {} \cup {y} = {y}
  BY FS_EmptySet DEF HaveQuantities
<1> QED
  BY <1>1, TotalWith, TotalOfNone

\* A set adds up to at least each of its elements.
LEMMA TotalAtLeast ==
  ASSUME NEW S, HaveQuantities(S), NEW y \in S
  PROVE  y.quantity \in Nat /\ y.quantity <= Total(S)
<1>1. HaveQuantities(S \ {y})
  BY FS_RemoveElement DEF HaveQuantities
<1> QED
  BY <1>1, TotalWithout, TotalIsNat DEF HaveQuantities

(***************************************************************************)
(* The trades of one placement: each has a maker of its own, and together  *)
(* with what remains they add up to the order.                             *)
(***************************************************************************)
Elements(s) == {s[k] : k \in DOMAIN s}

MakersApart(s) == \A k, j \in DOMAIN s : s[k].maker = s[j].maker => k = j

LEMMA RoundsApart ==
  ASSUME NEW P, NEW side, NEW levels, NEW order, NEW s,
         RoundsSound(P, side, levels, order, s)
  PROVE  MakersApart(s.trades)
<1> SUFFICES ASSUME NEW k \in DOMAIN s.trades, NEW j \in DOMAIN s.trades,
                    s.trades[k].maker = s.trades[j].maker, k # j
             PROVE  FALSE
  BY DEF MakersApart
<1>1. PICK e0 \in Entries(levels) : e0.id = s.trades[k].maker
  BY DEF RoundsSound
<1>2. Fate(s, e0)
  BY DEF RoundsSound
<1>3. ASSUME NEW m, TradedOnce(s, e0, m) PROVE FALSE
  BY <1>1, <1>3 DEF TradedOnce
<1> QED
  BY <1>1, <1>2, <1>3 DEF Fate, Untouched, Filled, PartlyFilled

LEMMA ElementsFinite ==
  ASSUME NEW S, NEW s \in Seq(S)
  PROVE  IsFiniteSet(Elements(s))
<1>1. PICK n \in Nat : n = Len(s)
  OBVIOUS
<1>2. DOMAIN s = 1..n
  BY <1>1
<1>3. IsFiniteSet(DOMAIN s)
  BY <1>2, FS_Interval
<1>4. s \in Surjection(DOMAIN s, Elements(s))
  BY DEF Elements, Surjection
<1> QED
  BY <1>3, <1>4, FS_Surjection

LEMMA TradesHaveQuantities ==
  ASSUME NEW P, NEW s \in Seq(TradeRecords(P))
  PROVE  HaveQuantities(Elements(s))
<1>1. IsFiniteSet(Elements(s))
  BY ElementsFinite
<1>2. ASSUME NEW t \in Elements(s) PROVE t.quantity \in Nat
  <2>1. PICK k \in DOMAIN s : t = s[k]
    BY DEF Elements
  <2>2. t \in TradeRecords(P)
    BY <2>1, ElementOfSeq
  <2> QED
    BY <2>2 DEF TradeRecords
<1> QED
  BY <1>1, <1>2 DEF HaveQuantities

AddsUp(order, s) == s.remaining + Total(Elements(s.trades)) = order.quantity

LEMMA RoundAddsUp ==
  ASSUME NEW P \in SUBSET Nat, NEW order \in OrderRecords(P), NEW side \in Sides,
         NEW levels, NEW s, RoundsSound(P, side, levels, order, s), AddsUp(order, s)
  PROVE  AddsUp(order, Round(order, s))
<1>1. /\ s.levels \in Seq(LevelRecords(P)) /\ s.remaining \in Nat
      /\ s.trades \in Seq(TradeRecords(P)) /\ LevelsSound(side, s.levels)
  BY DEF RoundsSound, States
<1>2. CASE CanMatch(order, s.remaining, s.levels)
  <2>1. s.remaining > 0 /\ s.levels # <<>>
    BY <1>2 DEF CanMatch
  <2>2. PICK maker \in OrderRecords(P) : maker = HeadOrder(s.levels) /\ maker \in Entries(s.levels)
    BY <1>1, <2>1, HeadOrderSound
  <2>3. maker.quantity \in Nat \ {0}
    BY DEF OrderRecords
  <2>4. PICK traded : traded = Smaller(s.remaining, maker.quantity)
    OBVIOUS
  <2>5. traded \in Nat
    BY <1>1, <2>3, <2>4 DEF Smaller
  <2>6. PICK trade : trade = [taker |-> order.id, maker |-> maker.id,
                              price |-> s.levels[1].price, quantity |-> traded]
    OBVIOUS
  <2>7. trade.maker = maker.id /\ trade.quantity = traded
    BY <2>6
  <2>18. Round(order, s) = [levels |-> AfterHeadTrade(s.levels, traded),
                            remaining |-> s.remaining - traded,
                            trades |-> Append(s.trades, trade)]
    BY <1>2, <2>2, <2>4, <2>6, Zenon DEF Round, MatchRound
  <2>8. PICK t : /\ t = Round(order, s)
                 /\ t.remaining = s.remaining - traded
                 /\ t.trades = Append(s.trades, trade)
    BY <2>18
  <2>9. \A k \in DOMAIN s.trades : s.trades[k].maker # maker.id
    <3>1. PICK e0 \in Entries(levels) : e0.id = maker.id
      BY <2>2 DEF RoundsSound
    <3>2. Fate(s, e0)
      BY <3>1 DEF RoundsSound
    <3>3. \A k : ~Filled(s, e0, k) /\ ~PartlyFilled(s, e0, k)
      BY <2>1, <2>2, <3>1 DEF Filled, PartlyFilled
    <3> QED
      BY <3>1, <3>2, <3>3 DEF Fate, Untouched
  <2>10. trade \notin Elements(s.trades)
    BY <2>7, <2>9 DEF Elements
  <2>11. Elements(t.trades) = Elements(s.trades) \cup {trade}
    <3>1. PICK n \in Nat : n = Len(s.trades)
      BY <1>1
    <3>2. /\ DOMAIN s.trades = 1..n /\ DOMAIN t.trades = 1..(n + 1)
          /\ t.trades[n + 1] = trade
          /\ \A k \in 1..n : t.trades[k] = s.trades[k]
      BY <1>1, <2>8, <3>1
    <3>3. 1..(n + 1) = (1..n) \cup {n + 1}
      OBVIOUS
    <3> QED
      BY <3>2, <3>3 DEF Elements
  <2>12. PICK before : before = Elements(s.trades)
    OBVIOUS
  <2>13. HaveQuantities(before)
    BY <1>1, <2>12, TradesHaveQuantities
  <2>14. Total(before \cup {trade}) = traded + Total(before) /\ Total(before) \in Nat
    BY <2>5, <2>7, <2>10, <2>12, <2>13, TotalWith, TotalIsNat
  <2>15. s.remaining + Total(before) = order.quantity
    BY <2>12 DEF AddsUp
  <2>16. Total(Elements(t.trades)) = traded + Total(before)
    BY <2>11, <2>12, <2>14
  <2>17. t.remaining + Total(Elements(t.trades)) = order.quantity
    BY <1>1, <2>5, <2>8, <2>14, <2>15, <2>16
  <2> QED
    BY <2>8, <2>17 DEF AddsUp
<1>3. CASE ~CanMatch(order, s.remaining, s.levels)
  BY <1>3 DEF Round
<1> QED
  BY <1>2, <1>3

LEMMA AllRoundsAddUp ==
  ASSUME NEW P \in SUBSET Nat, NEW order \in OrderRecords(P), NEW side \in Sides,
         NEW levels \in Seq(LevelRecords(P)), LevelsSound(side, levels), IdsApart(levels),
         NEW n \in Nat
  PROVE  AddsUp(order, Rounds(levels, order)[n])
<1> DEFINE T == {k \in Nat : AddsUp(order, Rounds(levels, order)[k])}
<1>1. /\ Rounds(levels, order)[0] = First(levels, order)
      /\ \A k \in Nat : Rounds(levels, order)[k + 1] = Round(order, Rounds(levels, order)[k])
  BY RoundsRecur, OrdersAreTakers
<1>2. AddsUp(order, First(levels, order))
  <2>1. order.quantity \in Nat
    BY DEF OrderRecords
  <2>2. /\ First(levels, order).trades = <<>>
        /\ First(levels, order).remaining = order.quantity
    BY DEF First
  <2>3. Elements(<<>>) = {}
    BY DEF Elements
  <2>4. Total(Elements(First(levels, order).trades)) = 0
    BY <2>2, <2>3, TotalOfNone
  <2> QED
    BY <2>1, <2>2, <2>4 DEF AddsUp
<1>3. 0 \in T
  BY <1>1, <1>2
<1>4. ASSUME NEW k \in T PROVE k + 1 \in T
  <2>1. k \in Nat /\ AddsUp(order, Rounds(levels, order)[k])
    OBVIOUS
  <2>2. PICK s : s = Rounds(levels, order)[k]
    OBVIOUS
  <2>3. RoundsSound(P, side, levels, order, s)
    BY <2>1, <2>2, AllRoundsSound
  <2>4. AddsUp(order, Round(order, s))
    BY <2>1, <2>2, <2>3, RoundAddsUp
  <2> QED
    BY <1>1, <2>1, <2>2, <2>4
<1>5. T \subseteq Nat
  OBVIOUS
<1> HIDE DEF T
<1>6. T = Nat
  BY <1>3, <1>4, <1>5, Counting
<1> QED
  BY <1>6 DEF T

(***************************************************************************)
(* What placeOrder makes of an input.                                      *)
(***************************************************************************)
CanRest(all, p) ==
  p \in DOMAIN all /\ all[p].status = "accepted" /\ all[p].order.type = "limit"

PlacementSound(all, p) ==
  /\ all[p].order.id = p
  /\ all[p].status = "accepted" => all[p].order.quantity > 0
  /\ all[p].status = "rejected" => all[p].trades = <<>> /\ all[p].resting = 0
  /\ all[p].order.type = "market" => all[p].resting = 0
  /\ all[p].resting <= all[p].order.quantity
  /\ CanRest(all, p) =>
       all[p].resting + Total(Elements(all[p].trades)) = all[p].order.quantity
  /\ MakersApart(all[p].trades)
  /\ \A k \in DOMAIN all[p].trades :
       /\ all[p].trades[k].taker = p
       /\ all[p].trades[k].maker \in 1..(p - 1)
       /\ CanRest(all, all[p].trades[k].maker)

PlacedSound == \A p \in DOMAIN placed : PlacementSound(placed, p)

EngineTyped ==
  /\ placed \in Seq(Placements) /\ lastPrice \in Nat
  /\ book \in Books(Nat) /\ BookSound(book)

\* An order in the book was placed on that side as a limit order, and either
\* is stored or was placed by this process.
BookPlaced ==
  \A side \in Sides : \A e \in Entries(book[side]) :
    /\ CanRest(placed, e.id) /\ placed[e.id].order.side = side
    /\ e.id \in DOMAIN rows \/ e.id > epoch

OrderFields == [id : Nat, side : Sides, type : Types, price : Nat, quantity : Nat]

LEMMA OutcomeCases ==
  ASSUME EngineTyped, NEW input \in InputRecords,
         NEW p, p = Len(placed) + 1, NEW o, o = Outcome(input)
  PROVE  /\ p \in Nat
         /\ o.order \in OrderFields /\ o.order.id = p
         /\ \/ /\ o.status = "rejected"
               /\ o.book = book /\ o.trades = <<>> /\ o.resting = 0
            \/ /\ o.status = "accepted" /\ o.order \in OrderRecords(Nat)
               /\ o.book = Place(book, o.order).book
               /\ o.trades = Place(book, o.order).trades
               /\ o.resting = Place(book, o.order).resting
<1>1. input \in [side : Sides, type : Types, price : Nat, quantity : Nat]
  BY DEF InputRecords
<1>2. p \in Nat
  BY DEF EngineTyped
<1>3. PICK ref : ref = ReferencePriceIn(book, lastPrice, input.side, input.type, input.price)
  OBVIOUS
<1>4. ref \in Nat
  <2>1. BestPrice(book, input.side) \in Nat
    <3>1. PICK other \in Sides : other = Opposite(input.side)
      BY DEF Opposite, Sides
    <3>2. book[other] \in Seq(LevelRecords(Nat))
      BY DEF EngineTyped, Books
    <3>3. book[other] # <<>> => book[other][1].price \in Nat
      <4>1. book[other] # <<>> => book[other][1] \in LevelRecords(Nat)
        BY <3>2
      <4> QED
        BY <4>1 DEF LevelRecords
    <3> QED
      BY <3>1, <3>3 DEF BestPrice, NoPrice
  <2> QED
    BY <1>1, <1>3, <2>1 DEF ReferencePriceIn, EngineTyped
<1>5. PICK order : order = [id |-> p, side |-> input.side, type |-> input.type,
                            price |-> ref, quantity |-> input.quantity]
  OBVIOUS
<1>6. order \in OrderFields /\ order.id = p /\ order.quantity = input.quantity
  BY <1>1, <1>2, <1>4, <1>5 DEF OrderFields
<1>7. o = IF input.quantity = 0 \/ ref = NoPrice
          THEN [status |-> "rejected", order |-> order,
                book |-> book, trades |-> <<>>, resting |-> 0]
          ELSE [status |-> "accepted", order |-> order,
                book |-> Place(book, order).book, trades |-> Place(book, order).trades,
                resting |-> Place(book, order).resting]
  BY <1>3, <1>5, Zenon DEF Outcome
<1>8. CASE input.quantity = 0 \/ ref = NoPrice
  BY <1>2, <1>6, <1>7, <1>8
<1>9. CASE ~(input.quantity = 0 \/ ref = NoPrice)
  <2>1. order \in OrderRecords(Nat)
    <3>1. order.quantity \in Nat \ {0}
      BY <1>1, <1>6, <1>9
    <3> QED
      BY <1>6, <3>1 DEF OrderRecords, OrderFields
  <2>2. o = [status |-> "accepted", order |-> order,
             book |-> Place(book, order).book, trades |-> Place(book, order).trades,
             resting |-> Place(book, order).resting]
    BY <1>7, <1>9
  <2> QED
    BY <1>2, <1>6, <2>1, <2>2
<1> QED
  BY <1>8, <1>9

\* An accepted order: what the rounds of place leave of the opposite side,
\* and what rests of the order.
Accepts(o, side, other, end) ==
  /\ side \in Sides /\ other \in Sides /\ other # side
  /\ side = o.order.side
  /\ end = Rounds(book[other], o.order)[o.order.quantity]
  /\ RoundsSound(Nat, other, book[other], o.order, end)
  /\ o.trades = end.trades
  /\ o.resting = IF end.remaining > 0 /\ o.order.type = "limit" THEN end.remaining ELSE 0
  /\ o.book \in Books(Nat) /\ BookSound(o.book)
  /\ o.book[other] = end.levels
  /\ o.resting = 0 => o.book[side] = book[side]
  /\ o.resting # 0 => Entries(o.book[side]) = Entries(book[side])
                        \cup {[o.order EXCEPT !.quantity = o.resting]}

LEMMA OutcomeAccepts ==
  ASSUME EngineTyped, BookPlaced, NEW input \in InputRecords,
         NEW o, o = Outcome(input), o.status = "accepted"
  PROVE  \E side, other, end : Accepts(o, side, other, end)
<1>1. PICK p : p = Len(placed) + 1
  OBVIOUS
<1>2. /\ p \in Nat /\ o.order \in OrderRecords(Nat) /\ o.order.id = p
      /\ o.book = Place(book, o.order).book
      /\ o.trades = Place(book, o.order).trades
      /\ o.resting = Place(book, o.order).resting
  BY <1>1, OutcomeCases
<1>3. Fresh(book, o.order)
  <2>1. ASSUME NEW s \in Sides, NEW e \in Entries(book[s]) PROVE e.id # o.order.id
    <3>1. e.id \in DOMAIN placed
      BY DEF BookPlaced, CanRest
    <3> QED
      BY <1>1, <1>2, <3>1 DEF EngineTyped
  <2> QED
    BY <2>1, Zenon DEF Fresh
<1>4. PICK order \in OrderRecords(Nat) : order = o.order
  BY <1>2
<1>5. PICK side \in Sides : side = order.side
  BY DEF OrderRecords
<1>6. PICK other : other = Opposite(side)
  OBVIOUS
<1>7. PICK end : end = Rounds(book[other], order)[order.quantity]
  OBVIOUS
<1>8. PICK done : done = Place(book, order)
  OBVIOUS
<1>9. PICK b \in Books(Nat) : b = book /\ BookSound(b) /\ Fresh(b, order)
  BY <1>3, <1>4 DEF EngineTyped
<1>10. /\ other \in Sides
       /\ RoundsSound(Nat, other, b[other], order, end)
       /\ done.trades = end.trades
       /\ done.resting = IF end.remaining > 0 /\ order.type = "limit"
                         THEN end.remaining ELSE 0
       /\ done.book \in Books(Nat)
       /\ BookSound(done.book)
       /\ done.book[other] = end.levels
       /\ done.book[side] = IF done.resting = 0 THEN b[side]
            ELSE AddToBook(b[side], [order EXCEPT !.quantity = done.resting])
       /\ done.resting # 0 =>
            Entries(done.book[side]) = Entries(b[side])
              \cup {[order EXCEPT !.quantity = done.resting]}
  BY <1>5, <1>6, <1>7, <1>8, <1>9, PlaceSound, SMTT(20)
<1>11. other # side
  BY <1>6 DEF Opposite, Sides
<1>12. o.book = done.book /\ o.trades = done.trades /\ o.resting = done.resting
  BY <1>2, <1>4, <1>8
<1>13. done.resting = 0 => done.book[side] = b[side]
  BY <1>10
<1>14. Accepts(o, side, other, end)
  BY <1>4, <1>5, <1>7, <1>9, <1>10, <1>11, <1>12, <1>13, Zenon DEF Accepts
<1> QED
  BY <1>14

(***************************************************************************)
(* The process orders under way, and what a step makes of one.             *)
(***************************************************************************)
Writes == UNION {[D -> Nat] : D \in SUBSET Nat}

Operations ==
  [pc : Locations, id : Nat, since : Nat, sequence : Nat, trade : Nat, read : Nat,
   writes : Writes, captured : Seq(Nat), cached : Nat]

OpFits(o, all) ==
  /\ o \in Operations
  /\ o.id \in 0..Len(all)
  /\ o.captured \in Seq(1..Len(all))
  /\ o.cached \in 0..Len(o.captured)

OpTyped == DOMAIN op = Submitters /\ \A w \in Submitters : OpFits(op[w], placed)

\* Only w's processOrder changes, to the one given.
Becomes(w, new) ==
  /\ DOMAIN op' = Submitters /\ op'[w] = new
  /\ \A v \in Submitters \ {w} : op'[v] = op[v]

\* A later state of a processOrder: the fields a step may change.
Later(o, pc, sequence, trade, read, writes, cached) ==
  [pc |-> pc, id |-> o.id, since |-> o.since, sequence |-> sequence, trade |-> trade,
   read |-> read, writes |-> writes, captured |-> o.captured, cached |-> cached]

LEMMA NoOpTyped == NoOp \in Operations /\ NoWrites \in Writes
<1>1. NoWrites \in [{} -> Nat]
  BY DEF NoWrites
<1>2. NoWrites \in Writes
  BY <1>1 DEF Writes
<1>3. "idle" \in Locations /\ <<>> \in Seq(Nat)
  BY DEF Locations
<1> HIDE DEF NoWrites
<1> QED
  BY <1>2, <1>3 DEF NoOp, Operations

LEMMA OpAt ==
  ASSUME OpTyped, NEW w \in Submitters
  PROVE  /\ op[w] \in Operations
         /\ op[w].pc \in Locations /\ op[w].id \in Nat
         /\ op[w].since \in Nat /\ op[w].sequence \in Nat
         /\ op[w].trade \in Nat /\ op[w].read \in Nat /\ op[w].writes \in Writes
         /\ op[w].captured \in Seq(Nat) /\ op[w].cached \in Nat
<1>1. op[w] \in Operations
  BY DEF OpTyped, OpFits
<1> QED
  BY <1>1 DEF Operations

LEMMA LeaveEffect ==
  ASSUME OpTyped, NEW w \in Submitters, Leave(w)
  PROVE  Becomes(w, NoOp)
BY DEF Leave, OpTyped, Becomes

LEMMA AllocateEffect ==
  ASSUME OpTyped, NEW w \in Submitters, Allocate(w), NEW o, o = op[w]
  PROVE  Becomes(w, Later(o, "create", Max(Sequences \cup {0}) + 1,
                          o.trade, o.read, o.writes, o.cached))
<1>1. PICK s : s = Max(Sequences \cup {0}) + 1
  OBVIOUS
<1>2. op' = [op EXCEPT ![w].pc = "create", ![w].sequence = s]
  BY <1>1 DEF Allocate
<1>3. o \in Operations /\ DOMAIN op = Submitters
  BY DEF OpTyped, OpFits
<1>4. op'[w] = Later(o, "create", s, o.trade, o.read, o.writes, o.cached)
  BY <1>2, <1>3 DEF Later, Operations
<1>5. DOMAIN op' = Submitters /\ \A v \in Submitters \ {w} : op'[v] = op[v]
  BY <1>2, <1>3
<1> QED
  BY <1>1, <1>4, <1>5, Zenon DEF Becomes

LEMMA CreateRowEffect ==
  ASSUME OpTyped, NEW w \in Submitters, CreateRow(w), NEW o, o = op[w]
  PROVE  Becomes(w, Later(o, NextWrite(w, 1), o.sequence,
                          o.trade, o.read, o.writes, o.cached))
<1>1. PICK pc : pc = NextWrite(w, 1)
  OBVIOUS
<1>2. op' = [op EXCEPT ![w].pc = pc]
  BY <1>1 DEF CreateRow
<1>3. o \in Operations /\ DOMAIN op = Submitters
  BY DEF OpTyped, OpFits
<1>4. op'[w] = Later(o, pc, o.sequence, o.trade, o.read, o.writes, o.cached)
  BY <1>2, <1>3 DEF Later, Operations
<1>5. DOMAIN op' = Submitters /\ \A v \in Submitters \ {w} : op'[v] = op[v]
  BY <1>2, <1>3
<1> QED
  BY <1>1, <1>4, <1>5, Zenon DEF Becomes

LEMMA InsertTradeEffect ==
  ASSUME OpTyped, NEW w \in Submitters, InsertTrade(w), NEW o, o = op[w]
  PROVE  Becomes(w, Later(o, "read", o.sequence, o.trade, o.read, o.writes, o.cached))
<1>2. op' = [op EXCEPT ![w].pc = "read"]
  BY DEF InsertTrade
<1>3. o \in Operations /\ DOMAIN op = Submitters
  BY DEF OpTyped, OpFits
<1>4. op'[w] = Later(o, "read", o.sequence, o.trade, o.read, o.writes, o.cached)
  BY <1>2, <1>3 DEF Later, Operations
<1>5. DOMAIN op' = Submitters /\ \A v \in Submitters \ {w} : op'[v] = op[v]
  BY <1>2, <1>3
<1> QED
  BY <1>4, <1>5, Zenon DEF Becomes

LEMMA ReadMakerEffect ==
  ASSUME OpTyped, NEW w \in Submitters, ReadMaker(w), NEW o, o = op[w]
  PROVE  Becomes(w, Later(o, "update", o.sequence, o.trade,
                          rows[Trade(w).maker].remaining, o.writes, o.cached))
<1>1. PICK r : r = rows[Trade(w).maker].remaining
  OBVIOUS
<1>2. op' = [op EXCEPT ![w].pc = "update", ![w].read = r]
  BY <1>1 DEF ReadMaker
<1>3. o \in Operations /\ DOMAIN op = Submitters
  BY DEF OpTyped, OpFits
<1>4. op'[w] = Later(o, "update", o.sequence, o.trade, r, o.writes, o.cached)
  BY <1>2, <1>3 DEF Later, Operations
<1>5. DOMAIN op' = Submitters /\ \A v \in Submitters \ {w} : op'[v] = op[v]
  BY <1>2, <1>3
<1> QED
  BY <1>1, <1>4, <1>5, Zenon DEF Becomes

LEMMA UpdateMakerEffect ==
  ASSUME OpTyped, NEW w \in Submitters, UpdateMaker(w), NEW o, o = op[w],
         NEW t, t = Trade(w)
  PROVE  Becomes(w, Later(o, NextWrite(w, o.trade + 1), o.sequence, o.trade + 1, o.read,
                          With(o.writes, t.maker, Less(o.read, t.quantity)), o.cached))
<1>1. PICK pc : pc = NextWrite(w, o.trade + 1)
  OBVIOUS
<1>2. PICK left : left = Less(o.read, t.quantity)
  OBVIOUS
<1>3. PICK writes : writes = With(o.writes, t.maker, left)
  OBVIOUS
<1>5. op' = [op EXCEPT ![w].pc = pc, ![w].trade = o.trade + 1, ![w].writes = writes]
  BY <1>1, <1>2, <1>3 DEF UpdateMaker
<1>6. o \in Operations /\ DOMAIN op = Submitters
  BY DEF OpTyped, OpFits
<1>7. op'[w] = Later(o, pc, o.sequence, o.trade + 1, o.read, writes, o.cached)
  BY <1>5, <1>6 DEF Later, Operations
<1>8. DOMAIN op' = Submitters /\ \A v \in Submitters \ {w} : op'[v] = op[v]
  BY <1>5, <1>6
<1> QED
  BY <1>1, <1>2, <1>3, <1>7, <1>8, Zenon DEF Becomes

LEMMA CommitEffect ==
  ASSUME OpTyped, NEW w \in Submitters, Commit(w), NEW o, o = op[w]
  PROVE  Becomes(w, Later(o, "cache", o.sequence, o.trade, o.read, NoWrites, o.cached))
<1>1. PICK writes : writes = NoWrites
  OBVIOUS
<1>2. op' = [op EXCEPT ![w].pc = "cache", ![w].writes = writes]
  BY <1>1 DEF Commit
<1>3. o \in Operations /\ DOMAIN op = Submitters
  BY DEF OpTyped, OpFits
<1>4. op'[w] = Later(o, "cache", o.sequence, o.trade, o.read, writes, o.cached)
  BY <1>2, <1>3 DEF Later, Operations
<1>5. DOMAIN op' = Submitters /\ \A v \in Submitters \ {w} : op'[v] = op[v]
  BY <1>2, <1>3
<1> QED
  BY <1>1, <1>4, <1>5, Zenon DEF Becomes

LEMMA CacheNextEffect ==
  ASSUME OpTyped, NEW w \in Submitters, CacheNext(w), NEW o, o = op[w]
  PROVE  Becomes(w, Later(o, "cache", o.sequence, o.trade, o.read, o.writes, o.cached + 1))
<1>2. op' = [op EXCEPT ![w].cached = o.cached + 1] /\ o.pc = "cache"
  BY DEF CacheNext
<1>3. o \in Operations /\ DOMAIN op = Submitters
  BY DEF OpTyped, OpFits
<1>4. op'[w] = Later(o, "cache", o.sequence, o.trade, o.read, o.writes, o.cached + 1)
  BY <1>2, <1>3 DEF Later, Operations
<1>5. DOMAIN op' = Submitters /\ \A v \in Submitters \ {w} : op'[v] = op[v]
  BY <1>2, <1>3
<1> QED
  BY <1>4, <1>5, Zenon DEF Becomes

LEMMA GoOnEffect ==
  ASSUME OpTyped, NEW w \in Submitters, NEW pc, op' = [op EXCEPT ![w].pc = pc], NEW o, o = op[w]
  PROVE  Becomes(w, Later(o, pc, o.sequence, o.trade, o.read, o.writes, o.cached))
<1>3. o \in Operations /\ DOMAIN op = Submitters
  BY DEF OpTyped, OpFits
<1>4. op'[w] = Later(o, pc, o.sequence, o.trade, o.read, o.writes, o.cached)
  BY <1>3 DEF Later, Operations
<1>5. DOMAIN op' = Submitters /\ \A v \in Submitters \ {w} : op'[v] = op[v]
  BY <1>3
<1> QED
  BY <1>4, <1>5, Zenon DEF Becomes

(***************************************************************************)
(* placeOrder: the new placement, its submitter, and the other one, whose  *)
(* subscription captures the events as long as it is read.                 *)
(***************************************************************************)
Placement(command, o) ==
  [command |-> command, status |-> o.status, order |-> o.order,
   trades |-> o.trades, resting |-> o.resting]

Started(pc, id, since) ==
  [pc |-> pc, id |-> id, since |-> since, sequence |-> 0, trade |-> 1, read |-> 0,
   writes |-> NoWrites, captured |-> <<id>>, cached |-> 0]

Captures(o, id) ==
  IF o.pc \in {"idle", "flush"} THEN o
  ELSE [pc |-> o.pc, id |-> o.id, since |-> o.since, sequence |-> o.sequence,
        trade |-> o.trade, read |-> o.read, writes |-> o.writes,
        captured |-> Append(o.captured, id), cached |-> o.cached]

Placing(w, input, command, o) ==
  /\ o = Outcome(input)
  /\ op[w].pc = "idle"
  /\ placed' = Append(placed, Placement(command, o))
  /\ book' = o.book
  /\ lastPrice' = IF o.trades = <<>> THEN lastPrice ELSE o.trades[Len(o.trades)].price
  /\ DOMAIN op' = Submitters
  /\ op'[w] = Started(IF o.status = "accepted" THEN "allocate" ELSE "cache",
                      Len(placed) + 1, Stored)
  /\ \A v \in Submitters \ {w} : op'[v] = Captures(op[v], Len(placed) + 1)

LEMMA SubmitEffect ==
  ASSUME OpTyped, NEW w \in Submitters, NEW input, NEW command, Submit(w, input, command)
  PROVE  \E o : Placing(w, input, command, o)
<1>1. PICK o \in {Outcome(input)} :
        /\ placed' = Append(placed, [command |-> command, status |-> o.status,
                                     order |-> o.order, trades |-> o.trades,
                                     resting |-> o.resting])
        /\ book' = o.book
        /\ lastPrice' = IF o.trades = <<>> THEN lastPrice
                        ELSE o.trades[Len(o.trades)].price
        /\ Begin(w, IF o.status = "accepted" THEN "allocate" ELSE "cache")
  BY Zenon DEF Submit
<1>2. PICK id : id = Len(placed) + 1
  OBVIOUS
<1>3. PICK start : start = IF o.status = "accepted" THEN "allocate" ELSE "cache"
  OBVIOUS
<1>4. op' = [v \in Submitters |->
        IF v = w THEN [NoOp EXCEPT !.pc = start, !.id = id, !.captured = <<id>>,
                                   !.since = Stored]
        ELSE IF op[v].pc \in {"idle", "flush"} THEN op[v]
        ELSE [op[v] EXCEPT !.captured = Append(@, id)]]
  BY <1>1, <1>2, <1>3, Zenon DEF Begin, Stored
<1>5. op'[w] = Started(start, id, Stored)
  <2>1. op'[w] = [NoOp EXCEPT !.pc = start, !.id = id, !.captured = <<id>>, !.since = Stored]
    BY <1>4
  <2>2. PICK writes : writes = NoWrites
    OBVIOUS
  <2>3. NoOp = [pc |-> "idle", id |-> 0, since |-> 0, sequence |-> 0, trade |-> 1, read |-> 0,
                writes |-> writes, captured |-> <<>>, cached |-> 0]
    BY <2>2 DEF NoOp
  <2> QED
    BY <2>1, <2>2, <2>3 DEF Started
<1>6. ASSUME NEW v \in Submitters \ {w} PROVE op'[v] = Captures(op[v], id)
  <2>1. PICK x \in Operations : x = op[v]
    BY DEF OpTyped, OpFits
  <2>2. CASE x.pc \in {"idle", "flush"}
    BY <1>4, <2>1, <2>2 DEF Captures
  <2>3. CASE ~(x.pc \in {"idle", "flush"})
    <3>1. op'[v] = [x EXCEPT !.captured = Append(x.captured, id)]
      BY <1>4, <2>1, <2>3
    <3>2. PICK events : events = Append(x.captured, id)
      OBVIOUS
    <3>3. [x EXCEPT !.captured = events] =
            [pc |-> x.pc, id |-> x.id, since |-> x.since, sequence |-> x.sequence,
             trade |-> x.trade, read |-> x.read, writes |-> x.writes, captured |-> events, cached |-> x.cached]
      BY DEF Operations
    <3> QED
      BY <2>1, <2>3, <3>1, <3>2, <3>3, Zenon DEF Captures
  <2> QED
    BY <2>2, <2>3
<1>7. DOMAIN op' = Submitters /\ op[w].pc = "idle"
  BY <1>4 DEF Submit
<1>8. Placing(w, input, command, o)
  BY <1>1, <1>2, <1>3, <1>5, <1>6, <1>7, Zenon DEF Placing, Placement
<1> QED
  BY <1>8

(***************************************************************************)
(* A placement joins the history; the earlier ones stay as they are.       *)
(***************************************************************************)
Extends(all, last) ==
  /\ placed' = Append(placed, last)
  /\ placed' \in Seq(Placements)
  /\ Len(placed) \in Nat /\ Len(placed') = Len(placed) + 1
  /\ DOMAIN placed = 1..Len(placed) /\ DOMAIN placed' = 1..(Len(placed) + 1)
  /\ placed'[Len(placed) + 1] = last
  /\ \A p \in DOMAIN placed : all[p] = placed[p]

LEMMA PlacingExtends ==
  ASSUME EngineTyped, NEW w, NEW input \in InputRecords, NEW command \in Nat,
         NEW o, Placing(w, input, command, o),
         o.status = "accepted" => \E side, other, end : Accepts(o, side, other, end)
  PROVE  /\ Placement(command, o) \in Placements
         /\ Extends(placed', Placement(command, o))
<1>1. PICK p : p = Len(placed) + 1
  OBVIOUS
<1>2. /\ p \in Nat
      /\ o.order \in OrderFields /\ o.order.id = p
      /\ o.status \in {"accepted", "rejected"}
      /\ o.status = "rejected" => o.trades = <<>> /\ o.resting = 0
  BY <1>1, OutcomeCases DEF Placing
<1>3. o.trades \in Seq(TradeRecords(Nat)) /\ o.resting \in Nat
  <2>1. CASE o.status = "rejected"
    <3>1. <<>> \in Seq(TradeRecords(Nat))
      OBVIOUS
    <3>2. o.trades = <<>> /\ o.resting = 0
      BY <1>2, <2>1
    <3> QED
      BY <3>1, <3>2
  <2>2. CASE o.status = "accepted"
    <3>1. PICK side, other, end : Accepts(o, side, other, end)
      BY <2>2, SMTT(20)
    <3>2. /\ RoundsSound(Nat, other, book[other], o.order, end)
          /\ o.trades = end.trades
          /\ o.resting = IF end.remaining > 0 /\ o.order.type = "limit"
                         THEN end.remaining ELSE 0
      BY <3>1 DEF Accepts
    <3>3. end.trades \in Seq(TradeRecords(Nat)) /\ end.remaining \in Nat
      BY <3>2 DEF RoundsSound, States
    <3> QED
      BY <3>2, <3>3
  <2> QED
    BY <1>2, <2>1, <2>2
<1>4. PICK last : last = Placement(command, o)
  OBVIOUS
<1>5. last \in Placements
  BY <1>2, <1>3, <1>4 DEF Placement, Placements, OrderFields
<1>6. placed' = Append(placed, last)
  BY <1>4 DEF Placing
<1>7. placed \in Seq(Placements)
  BY DEF EngineTyped
<1>8. Extends(placed', last)
  BY <1>5, <1>6, <1>7 DEF Extends
<1> QED
  BY <1>4, <1>5, <1>8

LEMMA EarlierStays ==
  ASSUME NEW last, NEW all, all = placed', Extends(all, last), NEW p \in DOMAIN placed,
         PlacementSound(placed, p)
  PROVE  PlacementSound(all, p)
<1>1. all[p] = placed[p]
  BY DEF Extends
<1>2. \A m \in DOMAIN placed : CanRest(placed, m) <=> CanRest(all, m)
  BY DEF Extends, CanRest
<1>3. \A k \in DOMAIN placed[p].trades : CanRest(all, placed[p].trades[k].maker)
  <2>1. \A k \in DOMAIN placed[p].trades : CanRest(placed, placed[p].trades[k].maker)
    BY DEF PlacementSound
  <2>2. \A k \in DOMAIN placed[p].trades : placed[p].trades[k].maker \in DOMAIN placed
    BY <2>1 DEF CanRest
  <2> QED
    BY <1>2, <2>1, <2>2
<1> QED
  BY <1>1, <1>2, <1>3, Zenon DEF PlacementSound

LEMMA AcceptedSound ==
  ASSUME EngineTyped, BookPlaced, NEW o, NEW side, NEW other, NEW end,
         Accepts(o, side, other, end), o.order \in OrderRecords(Nat),
         o.order.id = Len(placed) + 1
  PROVE  /\ o.resting \in Nat /\ o.resting <= o.order.quantity
         /\ o.order.type = "limit" =>
              o.resting + Total(Elements(o.trades)) = o.order.quantity
         /\ MakersApart(o.trades)
         /\ \A k \in DOMAIN o.trades :
              /\ o.trades[k].taker = Len(placed) + 1
              /\ o.trades[k].maker \in DOMAIN placed
              /\ CanRest(placed, o.trades[k].maker)
<1>1. PICK order \in OrderRecords(Nat) : order = o.order
  OBVIOUS
<1>2. /\ other \in Sides
      /\ end = Rounds(book[other], order)[order.quantity]
      /\ RoundsSound(Nat, other, book[other], order, end)
      /\ o.trades = end.trades
      /\ o.resting = IF end.remaining > 0 /\ order.type = "limit" THEN end.remaining ELSE 0
  BY <1>1 DEF Accepts
<1>3. order.quantity \in Nat
  BY DEF OrderRecords
<1>4. /\ book[other] \in Seq(LevelRecords(Nat))
      /\ LevelsSound(other, book[other]) /\ IdsApart(book[other])
  <2>1. book[other] \in Seq(LevelRecords(Nat))
    BY <1>2 DEF EngineTyped, Books
  <2>2. LevelsSound(other, book[other]) /\ IdsApart(book[other])
    BY <1>2, Zenon DEF EngineTyped, BookSound
  <2> QED
    BY <2>1, <2>2
<1>5. end.remaining + Total(Elements(end.trades)) = order.quantity
  <2>1. AddsUp(order, end)
    BY <1>2, <1>3, <1>4, AllRoundsAddUp
  <2> QED
    BY <2>1 DEF AddsUp
<1>6. end.trades \in Seq(TradeRecords(Nat)) /\ end.remaining \in Nat
  BY <1>2 DEF RoundsSound, States
<1>7. Total(Elements(end.trades)) \in Nat
  BY <1>6, TradesHaveQuantities, TotalIsNat
<1>8. MakersApart(o.trades)
  BY <1>2, RoundsApart
<1>9. ASSUME NEW k \in DOMAIN o.trades
      PROVE  /\ o.trades[k].taker = Len(placed) + 1
             /\ o.trades[k].maker \in DOMAIN placed
             /\ CanRest(placed, o.trades[k].maker)
  <2>1. o.trades[k].taker = order.id
    BY <1>2 DEF RoundsSound
  <2>2. PICK e \in Entries(book[other]) : e.id = o.trades[k].maker
    BY <1>2 DEF RoundsSound
  <2>3. CanRest(placed, e.id)
    BY <1>2, <2>2 DEF BookPlaced
  <2> QED
    BY <1>1, <2>1, <2>2, <2>3 DEF CanRest
<1>10. /\ o.resting \in Nat /\ o.resting <= order.quantity
       /\ order.type = "limit" => o.resting + Total(Elements(o.trades)) = order.quantity
  BY <1>2, <1>3, <1>5, <1>6, <1>7
<1> QED
  BY <1>1, <1>8, <1>9, <1>10

LEMMA PlacingKeepsPlaced ==
  ASSUME EngineTyped, BookPlaced, PlacedSound, NEW w,
         NEW input \in InputRecords, NEW command \in Nat,
         NEW o, Placing(w, input, command, o)
  PROVE  /\ Extends(placed', Placement(command, o))
         /\ EngineTyped' /\ PlacedSound'
<1>1. PICK p : p = Len(placed) + 1
  OBVIOUS
<1>2. PICK last : last = Placement(command, o)
  OBVIOUS
<1>3. /\ p \in Nat
      /\ o.order \in OrderFields /\ o.order.id = p
      /\ \/ /\ o.status = "rejected"
            /\ o.book = book /\ o.trades = <<>> /\ o.resting = 0
         \/ o.status = "accepted" /\ o.order \in OrderRecords(Nat)
  BY <1>1, OutcomeCases DEF Placing
<1>4. o.status = "accepted" => \E side, other, end : Accepts(o, side, other, end)
  BY OutcomeAccepts DEF Placing
<1>5. last \in Placements /\ Extends(placed', last)
  BY <1>2, <1>4, PlacingExtends
<1>6. /\ last.order = o.order /\ last.status = o.status
      /\ last.trades = o.trades /\ last.resting = o.resting
  BY <1>2 DEF Placement
<1>7. /\ o.trades \in Seq(TradeRecords(Nat))
      /\ o.order \in [id : Nat, side : Sides, type : Types, price : Nat, quantity : Nat]
  BY <1>5, <1>6 DEF Placements
<1>8. o.book \in Books(Nat) /\ BookSound(o.book)
  <2>1. CASE o.status = "rejected"
    BY <1>3, <2>1 DEF EngineTyped
  <2>2. CASE o.status = "accepted"
    BY <1>4, <2>2 DEF Accepts
  <2> QED
    BY <1>3, <2>1, <2>2
<1>9. EngineTyped'
  <2>1. lastPrice' \in Nat
    <3>1. lastPrice' = IF o.trades = <<>> THEN lastPrice ELSE o.trades[Len(o.trades)].price
      BY DEF Placing
    <3>2. CASE o.trades = <<>>
      BY <3>1, <3>2 DEF EngineTyped
    <3>3. CASE o.trades # <<>>
      <4>1. o.trades[Len(o.trades)] \in TradeRecords(Nat)
        BY <1>7, <3>3
      <4> QED
        BY <3>1, <3>3, <4>1 DEF TradeRecords
    <3> QED
      BY <3>2, <3>3
  <2>2. placed' \in Seq(Placements)
    BY <1>5 DEF Extends
  <2>3. book' = o.book
    BY DEF Placing
  <2> QED
    BY <1>8, <2>1, <2>2, <2>3 DEF EngineTyped
<1>10. PICK all : all = placed'
  OBVIOUS
<1>11. /\ DOMAIN placed = 1..(p - 1) /\ DOMAIN all = 1..p /\ all[p] = last
       /\ \A q \in DOMAIN placed : all[q] = placed[q]
  BY <1>1, <1>3, <1>5, <1>10 DEF Extends, EngineTyped
<1>12. PlacementSound(all, p)
  <2>1. CASE o.status = "rejected"
    <3>1. /\ all[p].order.id = p /\ all[p].status = "rejected"
          /\ all[p].trades = <<>> /\ all[p].resting = 0 /\ all[p].order.quantity \in Nat
      BY <1>3, <1>6, <1>7, <1>11, <2>1
    <3>2. ~CanRest(all, p) /\ MakersApart(all[p].trades) /\ DOMAIN all[p].trades = {}
      BY <3>1 DEF CanRest, MakersApart
    <3> QED
      BY <3>1, <3>2 DEF PlacementSound
  <2>2. CASE o.status = "accepted"
    <3>1. o.order \in OrderRecords(Nat)
      BY <1>3, <2>2
    <3>2. PICK side, other, end : Accepts(o, side, other, end)
      BY <1>4, <2>2
    <3>3. /\ o.resting \in Nat /\ o.resting <= o.order.quantity
          /\ o.order.type = "limit" =>
               o.resting + Total(Elements(o.trades)) = o.order.quantity
          /\ MakersApart(o.trades)
          /\ \A k \in DOMAIN o.trades :
               /\ o.trades[k].taker = p
               /\ o.trades[k].maker \in DOMAIN placed
               /\ CanRest(placed, o.trades[k].maker)
      BY <1>1, <1>3, <3>1, <3>2, AcceptedSound
    <3>4. \A m \in DOMAIN placed : CanRest(placed, m) => CanRest(all, m)
      BY <1>3, <1>11 DEF CanRest
    <3>5. o.order.quantity > 0
      BY <3>1 DEF OrderRecords
    <3>6. o.order.type = "market" => o.resting = 0
      BY <3>2 DEF Accepts
    <3>7. \A k \in DOMAIN o.trades :
            /\ o.trades[k].taker = p
            /\ o.trades[k].maker \in 1..(p - 1)
            /\ CanRest(all, o.trades[k].maker)
      BY <1>11, <3>3, <3>4
    <3>8. CanRest(all, p) => o.order.type = "limit"
      BY <1>6, <1>11 DEF CanRest
    <3>9. /\ all[p].order = o.order /\ all[p].status = "accepted"
          /\ all[p].trades = o.trades /\ all[p].resting = o.resting
      BY <1>6, <1>11, <2>2
    <3> QED
      BY <1>3, <3>3, <3>5, <3>6, <3>7, <3>8, <3>9 DEF PlacementSound
  <2> QED
    BY <1>3, <2>1, <2>2
<1>13. ASSUME NEW q \in DOMAIN placed PROVE PlacementSound(all, q)
  <2>1. PlacementSound(placed, q)
    BY DEF PlacedSound
  <2> QED
    BY <1>5, <1>10, <2>1, EarlierStays
<1>14. \A q \in DOMAIN all : q = p \/ q \in DOMAIN placed
  BY <1>3, <1>11
<1>15. PlacedSound'
  <2>1. \A q \in DOMAIN all : PlacementSound(all, q)
    BY <1>12, <1>13, <1>14
  <2> QED
    BY <1>10, <2>1, Zenon DEF PlacedSound
<1> QED
  BY <1>2, <1>5, <1>9, <1>15

LEMMA PlacingKeepsBookPlaced ==
  ASSUME EngineTyped, BookPlaced, PlacedSound, NEW w,
         NEW input \in InputRecords, NEW command \in Nat,
         NEW o, Placing(w, input, command, o),
         epoch \in 0..Len(placed), epoch' = epoch, rows' = rows
  PROVE  BookPlaced'
<1>1. PICK p : p = Len(placed) + 1
  OBVIOUS
<1>2. PICK last : last = Placement(command, o)
  OBVIOUS
<1>3. PICK all : all = placed'
  OBVIOUS
<1>4. /\ p \in Nat /\ p >= 1
      /\ DOMAIN placed = 1..(p - 1) /\ DOMAIN all = 1..p /\ all[p] = last
      /\ \A q \in DOMAIN placed : all[q] = placed[q]
  <2>1. Extends(all, last)
    BY <1>2, <1>3, PlacingKeepsPlaced
  <2> QED
    BY <1>1, <1>3, <2>1 DEF Extends
<1>5. last.order = o.order /\ last.status = o.status
  BY <1>2 DEF Placement
<1>6. book' = o.book
  BY DEF Placing
<1> DEFINE Stands(s, q) == /\ CanRest(all, q) /\ all[q].order.side = s
                           /\ q \in DOMAIN rows \/ q > epoch
<1>7. ASSUME NEW s \in Sides, NEW e \in Entries(book[s]) PROVE Stands(s, e.id)
  <2>1. /\ CanRest(placed, e.id) /\ placed[e.id].order.side = s
        /\ e.id \in DOMAIN rows \/ e.id > epoch
    BY DEF BookPlaced
  <2> QED
    BY <1>4, <2>1 DEF CanRest
<1>8. ASSUME NEW s \in Sides, NEW e \in Entries(o.book[s]) PROVE Stands(s, e.id)
  <2>1. CASE o.status = "rejected"
    <3>1. o.book = book
      BY <2>1, OutcomeCases DEF Placing
    <3> QED
      BY <1>7, <3>1
  <2>2. CASE o.status = "accepted"
    <3>1. PICK side, other, end : Accepts(o, side, other, end)
      BY <2>2, OutcomeAccepts, SMTT(20) DEF Placing
    <3>2. /\ side \in Sides /\ other \in Sides /\ other # side /\ side = o.order.side
          /\ RoundsSound(Nat, other, book[other], o.order, end)
          /\ o.book[other] = end.levels
          /\ o.resting = IF end.remaining > 0 /\ o.order.type = "limit"
                         THEN end.remaining ELSE 0
          /\ o.resting = 0 => o.book[side] = book[side]
          /\ o.resting # 0 => Entries(o.book[side]) = Entries(book[side])
                                \cup {[o.order EXCEPT !.quantity = o.resting]}
      BY <3>1 DEF Accepts
    <3>3. CASE s = other
      <4>1. PICK e0 \in Entries(book[other]) : e0.id = e.id
        BY <3>2, <3>3 DEF RoundsSound
      <4> QED
        BY <1>7, <3>2, <3>3, <4>1
    <3>4. CASE s = side
      <4>1. CASE e \in Entries(book[side])
        BY <1>7, <3>2, <3>4, <4>1
      <4>2. CASE e \notin Entries(book[side])
        <5>1. o.resting # 0 /\ e = [o.order EXCEPT !.quantity = o.resting]
          BY <3>2, <3>4, <4>2
        <5>2. o.order \in [id : Nat, side : Sides, type : Types, price : Nat, quantity : Nat]
              /\ o.order.id = p
          BY <1>1, OutcomeCases DEF Placing, OrderFields
        <5>3. e.id = p
          BY <5>1, <5>2
        <5>4. o.order.type = "limit"
          BY <3>2, <5>1
        <5>5. CanRest(all, p) /\ all[p].order.side = s
          BY <1>4, <1>5, <2>2, <3>2, <3>4, <5>4 DEF CanRest
        <5>6. p > epoch
          BY <1>1, <1>4
        <5> QED
          BY <5>3, <5>5, <5>6
      <4> QED
        BY <4>1, <4>2
    <3>5. s = side \/ s = other
      BY <3>2 DEF Sides
    <3> QED
      BY <3>3, <3>4, <3>5
  <2>3. o.status \in {"rejected", "accepted"}
    BY <1>1, OutcomeCases DEF Placing
  <2> QED
    BY <2>1, <2>2, <2>3
<1> QED
  BY <1>3, <1>6, <1>8, Zenon DEF BookPlaced

(***************************************************************************)
(* The rows, and the book that a restart makes of them.                    *)
(***************************************************************************)
RowRecords == [sequence : Nat \ {0}, since : Nat, remaining : Nat, filled : Nat]

RowsTyped ==
  \A id \in DOMAIN rows :
    /\ id \in DOMAIN placed /\ placed[id].status = "accepted"
    /\ rows[id] \in RowRecords
    /\ rows[id].remaining <= placed[id].order.quantity
    /\ placed[id].order.type = "market" => rows[id].remaining = 0

RowEntry(id) == [placed[id].order EXCEPT !.quantity = rows[id].remaining]

\* The rows of a side with something remaining, up to a place in the order.
OpenRows(at, side, n) ==
  {id \in Open : at[id] <= n /\ placed[id].order.side = side}

\* An order of the open rows: no two of them at one place.
InOrder(at) ==
  /\ at \in [Open -> Nat \ {0}]
  /\ \A a, b \in Open : at[a] = at[b] => a = b

HoldsRows(levels, at, side, n) ==
  /\ \A e \in Entries(levels) : \E id \in OpenRows(at, side, n) : e = RowEntry(id)
  /\ \A id \in OpenRows(at, side, n) : RowEntry(id) \in Entries(levels)

RestoredUpTo(at, n, b) ==
  /\ b \in Books(Nat) /\ BookSound(b)
  /\ \A side \in Sides : HoldsRows(b[side], at, side, n) /\ LevelsInTime(b[side], at)

RestoreStep(at, b, n) ==
  IF OpenAt(at, n) = {} THEN b ELSE RestoreRow(b, CHOOSE id \in OpenAt(at, n) : TRUE)

TableSound == EngineTyped /\ PlacedSound /\ RowsTyped /\ SequencesContiguous

LEMMA RowEntrySound ==
  ASSUME TableSound, NEW id \in DOMAIN rows
  PROVE  /\ RowEntry(id).id = id
         /\ RowEntry(id).side = placed[id].order.side
         /\ RowEntry(id).price = placed[id].order.price
         /\ RowEntry(id).quantity = rows[id].remaining
         /\ rows[id].remaining > 0 => RowEntry(id) \in OrderRecords(Nat)
         /\ rows[id].sequence \in Nat \ {0} /\ rows[id].remaining \in Nat
         /\ placed[id].order.side \in Sides
<1>1. rows[id] \in RowRecords /\ id \in DOMAIN placed
  BY DEF TableSound, RowsTyped
<1>2. placed[id] \in Placements
  BY <1>1 DEF TableSound, EngineTyped
<1>3. placed[id].order \in OrderFields
  BY <1>2 DEF Placements, OrderFields
<1>4. placed[id].order.id = id
  BY <1>1 DEF TableSound, PlacedSound, PlacementSound
<1>5. PICK order \in OrderFields : order = placed[id].order
  BY <1>3
<1>6. PICK left \in Nat : left = rows[id].remaining
  BY <1>1 DEF RowRecords
<1>7. RowEntry(id) = [order EXCEPT !.quantity = left]
  BY <1>5, <1>6 DEF RowEntry
<1>8. rows[id].sequence \in Nat \ {0}
  BY <1>1 DEF RowRecords
<1>9. left > 0 => RowEntry(id) \in OrderRecords(Nat)
  BY <1>5, <1>6, <1>7 DEF OrderFields, OrderRecords
<1> QED
  BY <1>4, <1>5, <1>6, <1>7, <1>8, <1>9 DEF OrderFields

LEMMA NothingRestored ==
  ASSUME TableSound, NEW at, InOrder(at)
  PROVE  RestoredUpTo(at, 0, EmptyBook)
<1>1. EmptyBook \in Books(Nat) /\ \A side \in Sides : EmptyBook[side] = <<>>
  <2>1. <<>> \in Seq(LevelRecords(Nat))
    OBVIOUS
  <2> QED
    BY <2>1 DEF EmptyBook, Books
<1>2. Entries(<<>>) = {} /\ DOMAIN <<>> = {}
  BY DEF Entries
<1>3. \A side : OpenRows(at, side, 0) = {}
  BY DEF OpenRows, InOrder
<1>4. \A side : /\ LevelsSound(side, <<>>) /\ IdsApart(<<>>)
                /\ HoldsRows(<<>>, at, side, 0) /\ LevelsInTime(<<>>, at)
  BY <1>2, <1>3 DEF LevelsSound, IdsApart, HoldsRows, LevelsInTime
<1>5. BookSound(EmptyBook)
  <2>1. ASSUME NEW side \in Sides
        PROVE  LevelsSound(side, EmptyBook[side]) /\ IdsApart(EmptyBook[side])
    BY <1>1, <1>4
  <2> QED
    BY <2>1, Zenon DEF BookSound
<1>6. ASSUME NEW side \in Sides
      PROVE  HoldsRows(EmptyBook[side], at, side, 0) /\ LevelsInTime(EmptyBook[side], at)
  BY <1>1, <1>4
<1> QED
  BY <1>1, <1>5, <1>6, Zenon DEF RestoredUpTo

LEMMA RestoreStepSound ==
  ASSUME TableSound, NEW at, InOrder(at), NEW n \in Nat, NEW b, RestoredUpTo(at, n, b)
  PROVE  RestoredUpTo(at, n + 1, RestoreStep(at, b, n + 1))
<1>1. /\ b \in Books(Nat) /\ BookSound(b)
      /\ \A side \in Sides : HoldsRows(b[side], at, side, n) /\ LevelsInTime(b[side], at)
  BY Zenon DEF RestoredUpTo
<1>2. /\ Open \subseteq DOMAIN rows
      /\ \A id \in Open : at[id] \in Nat /\ rows[id].remaining > 0
  BY DEF InOrder, Open
<1>3. CASE OpenAt(at, n + 1) = {}
  <2>1. RestoreStep(at, b, n + 1) = b
    BY <1>3 DEF RestoreStep
  <2>2. \A id \in Open : at[id] <= n + 1 <=> at[id] <= n
    BY <1>2, <1>3 DEF OpenAt
  <2>3. \A side : OpenRows(at, side, n + 1) = OpenRows(at, side, n)
    BY <2>2 DEF OpenRows
  <2>4. ASSUME NEW side \in Sides PROVE HoldsRows(b[side], at, side, n + 1)
    <3>1. HoldsRows(b[side], at, side, n)
      BY <1>1
    <3> QED
      BY <2>3, <3>1, Zenon DEF HoldsRows
  <2> QED
    BY <1>1, <2>1, <2>4, Zenon DEF RestoredUpTo
<1>4. CASE OpenAt(at, n + 1) # {}
  <2>1. PICK id : id = CHOOSE x \in OpenAt(at, n + 1) : TRUE
    OBVIOUS
  <2>2. /\ id \in Open /\ id \in DOMAIN rows /\ at[id] = n + 1 /\ rows[id].remaining > 0
    BY <1>2, <1>4, <2>1 DEF OpenAt
  <2>3. PICK side \in Sides : side = placed[id].order.side
    BY <2>2, RowEntrySound
  <2>4. PICK e \in OrderRecords(Nat) : /\ e = RowEntry(id)
                                       /\ e.id = id /\ e.side = side
    BY <2>2, <2>3, RowEntrySound
  <2>5. PICK c : c = RestoreStep(at, b, n + 1)
    OBVIOUS
  <2>6. PICK new : new = AddToBook(b[side], e)
    OBVIOUS
  <2>7. c = [b EXCEPT ![side] = new]
    BY <1>4, <2>1, <2>3, <2>4, <2>5, <2>6, Zenon DEF RestoreStep, RestoreRow, RowEntry
  <2>8. c = [s \in DOMAIN b |-> IF s = side THEN new ELSE b[s]]
    BY <2>7, Zenon
  <2>9. DOMAIN b = Sides /\ \A s \in Sides : b[s] \in Seq(LevelRecords(Nat))
    BY <1>1 DEF Books
  <2>10. \A s \in Sides : LevelsSound(s, b[s]) /\ IdsApart(b[s])
    BY <1>1, Zenon DEF BookSound
  <2>11. c[side] = new /\ \A s \in Sides : s # side => c[s] = b[s]
    BY <2>8, <2>9
  <2>12. ASSUME NEW s \in Sides, NEW d \in Entries(b[s])
         PROVE  d.id \in Open /\ at[d.id] <= n
    <3>1. PICK k \in OpenRows(at, s, n) : d = RowEntry(k)
      BY <1>1 DEF HoldsRows
    <3>2. k \in Open /\ k \in DOMAIN rows /\ at[k] <= n
      BY <1>2, <3>1 DEF OpenRows
    <3> QED
      BY <3>1, <3>2, RowEntrySound
  <2>13. \A d \in Entries(b[side]) : d.id # e.id
    BY <1>2, <2>2, <2>4, <2>12
  <2>14. /\ new \in Seq(LevelRecords(Nat)) /\ LevelsSound(side, new)
         /\ Entries(new) = Entries(b[side]) \cup {e}
    BY <2>4, <2>6, <2>9, <2>10, <2>13, AddToBookSound
  <2>15. IdsApart(new)
    BY <2>10, <2>13, <2>14 DEF IdsApart
  <2>16. LevelsInTime(new, at)
    <3>1. \A d \in Entries(b[side]) : at[d.id] <= at[e.id]
      BY <1>2, <2>2, <2>4, <2>12
    <3>2. LevelsInTime(b[side], at)
      BY <1>1
    <3> QED
      BY <2>4, <2>6, <2>9, <2>10, <3>1, <3>2, AddToBookInTime
  <2>17. c \in Books(Nat)
    BY <2>8, <2>9, <2>14 DEF Books
  <2>18. BookSound(c)
    <3>1. ASSUME NEW s \in Sides PROVE LevelsSound(s, c[s]) /\ IdsApart(c[s])
      <4>1. CASE s = side
        BY <2>11, <2>14, <2>15, <4>1
      <4>2. CASE s # side
        BY <2>10, <2>11, <4>2
      <4> QED
        BY <4>1, <4>2
    <3> QED
      BY <3>1, Zenon DEF BookSound
  <2>19. \A k \in Open : at[k] = n + 1 => k = id
    BY <2>2 DEF InOrder
  <2>20. \A s : OpenRows(at, s, n + 1) = IF s = side THEN OpenRows(at, s, n) \cup {id}
                                         ELSE OpenRows(at, s, n)
    BY <1>2, <2>2, <2>3, <2>19 DEF OpenRows
  <2>21. ASSUME NEW s \in Sides
         PROVE  HoldsRows(c[s], at, s, n + 1) /\ LevelsInTime(c[s], at)
    <3>1. CASE s = side
      <4>1. Entries(c[s]) = Entries(b[s]) \cup {RowEntry(id)}
        BY <2>4, <2>11, <2>14, <3>1
      <4>2. OpenRows(at, s, n + 1) = OpenRows(at, s, n) \cup {id}
        BY <2>20, <3>1
      <4>3. HoldsRows(b[s], at, s, n)
        BY <1>1
      <4>4. HoldsRows(c[s], at, s, n + 1)
        BY <4>1, <4>2, <4>3 DEF HoldsRows
      <4> QED
        BY <2>11, <2>16, <3>1, <4>4
    <3>2. CASE s # side
      <4>1. c[s] = b[s] /\ OpenRows(at, s, n + 1) = OpenRows(at, s, n)
        BY <2>11, <2>20, <3>2
      <4> QED
        BY <1>1, <4>1 DEF HoldsRows
    <3> QED
      BY <3>1, <3>2
  <2>22. RestoredUpTo(at, n + 1, c)
    BY <2>17, <2>18, <2>21, Zenon DEF RestoredUpTo
  <2> QED
    BY <2>5, <2>22
<1> QED
  BY <1>3, <1>4

LEMMA RestoredSound ==
  ASSUME TableSound, IsFiniteSet(DOMAIN rows), NEW at \in RestoreOrders
  PROVE  /\ RestoredUpTo(at, Cardinality(Open), Restored(at))
         /\ \A id \in Open : at[id] <= Cardinality(Open)
<1> DEFINE S == {s \in Nat \X Books(Nat) : RestoredUpTo(at, s[1], s[2])}
           F == [s \in S |-> <<s[1] + 1, RestoreStep(at, s[2], s[1] + 1)>>]
           Recurs(loop) == loop = [n \in Nat |-> IF n = 0 THEN EmptyBook
                                                  ELSE RestoreStep(at, loop[n - 1], n)]
<1>0. InOrder(at) /\ Cardinality(Open) \in Nat /\ at \in [Open -> 1..Cardinality(Open)]
  <2>1. Open \subseteq DOMAIN rows
    BY DEF Open
  <2>2. Cardinality(Open) \in Nat
    BY <2>1, FS_Subset, FS_CardinalityType
  <2>3. at \in [Open -> 1..Cardinality(Open)] /\ \A a, b \in Open : at[a] = at[b] => a = b
    BY DEF RestoreOrders
  <2> QED
    BY <2>2, <2>3 DEF InOrder
<1>1. <<0, EmptyBook>> \in S
  BY <1>0, NothingRestored DEF RestoredUpTo
<1>2. ASSUME NEW s \in S PROVE <<s[1] + 1, RestoreStep(at, s[2], s[1] + 1)>> \in S
  <2>1. s[1] \in Nat /\ RestoredUpTo(at, s[1], s[2])
    OBVIOUS
  <2>2. RestoredUpTo(at, s[1] + 1, RestoreStep(at, s[2], s[1] + 1))
    BY <1>0, <2>1, RestoreStepSound
  <2>3. RestoreStep(at, s[2], s[1] + 1) \in Books(Nat)
    BY <2>2 DEF RestoredUpTo
  <2> QED
    BY <2>1, <2>2, <2>3
<1>3. F \in [S -> S]
  BY <1>2
<1>4. \A s \in S : F[s] = <<s[1] + 1, RestoreStep(at, s[2], s[1] + 1)>>
  OBVIOUS
<1> HIDE DEF S, F
<1>5. PICK g : Generated(g, S, <<0, EmptyBook>>, F)
  BY <1>1, <1>3, Iterates
<1>6. /\ g[0] = <<0, EmptyBook>>
      /\ \A n \in Nat : g[n + 1] = <<g[n][1] + 1, RestoreStep(at, g[n][2], g[n][1] + 1)>>
  BY <1>4, <1>5 DEF Generated
<1>7. \A n \in Nat : g[n][1] = n
  <2> DEFINE T == {n \in Nat : g[n][1] = n}
  <2>1. 0 \in T /\ \A n \in T : n + 1 \in T
    BY <1>6
  <2>2. T \subseteq Nat
    OBVIOUS
  <2> HIDE DEF T
  <2>3. T = Nat
    BY <2>1, <2>2, Counting
  <2> QED
    BY <2>3 DEF T
<1>8. PICK f : f = [n \in Nat |-> g[n][2]]
  OBVIOUS
<1>9. f[0] = EmptyBook /\ \A n \in Nat : f[n + 1] = RestoreStep(at, f[n], n + 1)
  BY <1>6, <1>7, <1>8
<1>10. Recurs(f)
  <2>1. ASSUME NEW n \in Nat
        PROVE  f[n] = IF n = 0 THEN EmptyBook ELSE RestoreStep(at, f[n - 1], n)
    <3>1. CASE n = 0
      BY <1>9, <3>1
    <3>2. CASE n # 0
      <4>1. PICK k : k = n - 1
        OBVIOUS
      <4>2. k \in Nat /\ k + 1 = n
        BY <3>2, <4>1
      <4>3. f[n] = RestoreStep(at, f[k], n)
        BY <1>9, <4>2
      <4> QED
        BY <3>2, <4>1, <4>3
    <3> QED
      BY <3>1, <3>2
  <2>2. f = [n \in Nat |-> f[n]]
    BY <1>8
  <2> QED
    BY <2>1, <2>2
<1>11. PICK loop : loop = CHOOSE h : Recurs(h)
  OBVIOUS
<1>12. PICK last \in Nat : last = Cardinality(Open)
  BY <1>0
<1>13. Restored(at) = loop[last]
  BY <1>11, <1>12, Zenon DEF Restored, RestoreStep
<1> HIDE DEF Recurs
<1>14. Recurs(loop)
  BY <1>10, <1>11
<1>15. loop[0] = EmptyBook
  BY <1>14 DEF Recurs
<1>16. ASSUME NEW n \in Nat PROVE loop[n + 1] = RestoreStep(at, loop[n], n + 1)
  <2>1. n + 1 \in Nat /\ n + 1 # 0 /\ (n + 1) - 1 = n
    OBVIOUS
  <2>2. loop[n + 1] = RestoreStep(at, loop[(n + 1) - 1], n + 1)
    BY <1>14, <2>1 DEF Recurs
  <2> QED
    BY <2>1, <2>2
<1>17. \A n \in Nat : RestoredUpTo(at, n, loop[n])
  <2> DEFINE T == {n \in Nat : RestoredUpTo(at, n, loop[n])}
  <2>1. 0 \in T
    BY <1>0, <1>15, NothingRestored
  <2>2. ASSUME NEW n \in T PROVE n + 1 \in T
    <3>1. n \in Nat /\ RestoredUpTo(at, n, loop[n])
      OBVIOUS
    <3>2. PICK b : b = loop[n]
      OBVIOUS
    <3>3. RestoredUpTo(at, n + 1, RestoreStep(at, b, n + 1))
      BY <1>0, <3>1, <3>2, RestoreStepSound
    <3> QED
      BY <1>16, <3>1, <3>2, <3>3
  <2>3. T \subseteq Nat
    OBVIOUS
  <2> HIDE DEF T
  <2>4. T = Nat
    BY <2>1, <2>2, <2>3, Counting
  <2> QED
    BY <2>4 DEF T
<1> QED
  BY <1>0, <1>12, <1>13, <1>17

(***************************************************************************)
(* How far a transaction has come: it has found the makers of the trades   *)
(* it has passed, and holds for each what is left of its committed row.    *)
(***************************************************************************)
Recorded(writes, t, stored) ==
  /\ t.maker \in DOMAIN stored /\ t.maker \in DOMAIN writes
  /\ writes[t.maker] = Less(stored[t.maker].remaining, t.quantity)

WriteSound(o, ts, stored) ==
  /\ o.trade \in 1..(Len(ts) + 1)
  /\ o.pc = "commit" <=> o.trade = Len(ts) + 1
  /\ \A k \in 1..(o.trade - 1) : Recorded(o.writes, ts[k], stored)
  /\ \A m \in DOMAIN o.writes : \E k \in 1..(o.trade - 1) : ts[k].maker = m
  /\ o.pc \in {"read", "update"} => ts[o.trade].maker \in DOMAIN stored
  /\ o.pc = "update" => o.read = stored[ts[o.trade].maker].remaining

WorkFits(o, all, stored, floor) ==
  /\ o.pc # "idle" => o.id > floor /\ o.id \in DOMAIN all
  /\ o.pc \in Persisting => all[o.id].status = "accepted"
  /\ o.pc \in {"allocate", "create"} => o.trade = 1
  /\ o.pc \notin Writing => o.writes = NoWrites
  /\ o.pc \in Writing => WriteSound(o, all[o.id].trades, stored)

Works == \A w \in Submitters : WorkFits(op[w], placed, rows, epoch)

LEMMA NoOpFits ==
  ASSUME NEW all \in Seq(Placements), NEW stored, NEW floor
  PROVE  OpFits(NoOp, all) /\ WorkFits(NoOp, all, stored, floor)
<1>1. Len(all) \in Nat
  OBVIOUS
<1>2. /\ NoOp.pc = "idle" /\ NoOp.id = 0 /\ NoOp.captured = <<>>
      /\ NoOp.cached = 0 /\ NoOp.writes = NoWrites
  BY DEF NoOp
<1>3. <<>> \in Seq(1..Len(all)) /\ Len(<<>>) = 0
  OBVIOUS
<1>4. OpFits(NoOp, all)
  BY <1>1, <1>2, <1>3, NoOpTyped DEF OpFits
<1>5. WorkFits(NoOp, all, stored, floor)
  BY <1>2 DEF WorkFits, Persisting, Writing
<1> QED
  BY <1>4, <1>5

\* One processOrder goes on; the table, the history and the other one do not.
LEMMA OneWorks ==
  ASSUME OpTyped, Works, placed' = placed, rows' = rows, epoch' = epoch,
         NEW w \in Submitters, NEW new, Becomes(w, new),
         OpFits(new, placed), WorkFits(new, placed, rows, epoch)
  PROVE  OpTyped' /\ Works'
<1>1. /\ DOMAIN op' = Submitters /\ op'[w] = new
      /\ \A v \in Submitters \ {w} : op'[v] = op[v]
  BY DEF Becomes
<1>2. ASSUME NEW v \in Submitters
      PROVE  OpFits(op'[v], placed') /\ WorkFits(op'[v], placed', rows', epoch')
  BY <1>1 DEF OpTyped, Works
<1> QED
  BY <1>1, <1>2 DEF OpTyped, Works

\* The parts of a processOrder that only its location and its progress change.
LEMMA LaterFits ==
  ASSUME NEW all \in Seq(Placements), NEW o, OpFits(o, all),
         NEW pc \in Locations, NEW sequence \in Nat, NEW trade \in Nat, NEW read \in Nat,
         NEW writes \in Writes, NEW cached \in 0..Len(o.captured)
  PROVE  OpFits(Later(o, pc, sequence, trade, read, writes, cached), all)
<1>1. /\ o \in Operations /\ o.id \in 0..Len(all) /\ o.captured \in Seq(1..Len(all))
      /\ Len(o.captured) \in Nat
  BY DEF OpFits
<1>2. /\ o.id \in Nat /\ o.since \in Nat /\ o.captured \in Seq(Nat)
      /\ cached \in Nat
  BY <1>1 DEF Operations
<1>3. PICK new : new = Later(o, pc, sequence, trade, read, writes, cached)
  OBVIOUS
<1>4. new \in Operations
  BY <1>2, <1>3 DEF Later, Operations
<1>5. new.id = o.id /\ new.captured = o.captured /\ new.cached = cached
  BY <1>3 DEF Later
<1> QED
  BY <1>1, <1>3, <1>4, <1>5 DEF OpFits

(***************************************************************************)
(* The steps of a transaction keep what is known of its work.              *)
(***************************************************************************)
LEMMA LocationsSplit ==
  /\ Writing = {"trade", "read", "update", "commit"}
  /\ Persisting = {"allocate", "create", "trade", "read", "update", "commit"}
  /\ Locations = {"idle", "cache", "enqueue", "flush", "allocate", "create",
                  "trade", "read", "update", "commit"}
BY SMTT(20) DEF Locations, Persisting, Writing

\* What a transaction past its insert is about.
LEMMA WritingFacts ==
  ASSUME EngineTyped, PlacedSound, OpTyped, Works,
         NEW w \in Submitters, NEW o, o = op[w], o.pc \in Writing,
         NEW ts, ts = placed[o.id].trades
  PROVE  /\ o.id \in DOMAIN placed /\ o.id > epoch /\ placed[o.id].status = "accepted"
         /\ ts \in Seq(TradeRecords(Nat)) /\ Len(ts) \in Nat /\ DOMAIN ts = 1..Len(ts)
         /\ MakersApart(ts)
         /\ \A k \in DOMAIN ts : /\ ts[k].maker \in Nat /\ ts[k].quantity \in Nat \ {0}
                                 /\ ts[k].taker = o.id
                                 /\ CanRest(placed, ts[k].maker) /\ ts[k].maker < o.id
         /\ WriteSound(o, ts, rows)
         /\ o.pc # "commit" => o.trade \in DOMAIN ts /\ Trade(w) = ts[o.trade]
         /\ \A k : NextWrite(w, k) = IF k <= Len(ts) THEN "trade" ELSE "commit"
<1>1. WorkFits(o, placed, rows, epoch)
  BY DEF Works
<1>2. /\ o.id \in DOMAIN placed /\ o.id > epoch /\ placed[o.id].status = "accepted"
      /\ WriteSound(o, ts, rows)
  BY <1>1, LocationsSplit DEF WorkFits
<1>3. placed[o.id] \in Placements
  BY <1>2 DEF EngineTyped
<1>4. ts \in Seq(TradeRecords(Nat)) /\ Len(ts) \in Nat /\ DOMAIN ts = 1..Len(ts)
  BY <1>3 DEF Placements
<1>5. PlacementSound(placed, o.id)
  BY <1>2, SMTT(20) DEF PlacedSound
<1>6. MakersApart(ts)
  BY <1>5, SMTT(20) DEF PlacementSound
<1>7. ASSUME NEW k \in DOMAIN ts
      PROVE  /\ ts[k].maker \in Nat /\ ts[k].quantity \in Nat \ {0}
             /\ ts[k].taker = o.id
             /\ CanRest(placed, ts[k].maker) /\ ts[k].maker < o.id
  <2>1. ts[k] \in TradeRecords(Nat)
    BY <1>4, ElementOfSeq, SMTT(20)
  <2>2. ts[k].taker = o.id /\ ts[k].maker \in 1..(o.id - 1) /\ CanRest(placed, ts[k].maker)
    BY <1>5 DEF PlacementSound
  <2>3. o.id \in Nat
    BY <1>2 DEF EngineTyped
  <2> QED
    BY <2>1, <2>2, <2>3 DEF TradeRecords
<1>8. o.pc # "commit" => o.trade \in DOMAIN ts /\ Trade(w) = ts[o.trade]
  <2>1. o.trade \in 1..(Len(ts) + 1) /\ (o.pc = "commit" <=> o.trade = Len(ts) + 1)
    BY <1>2 DEF WriteSound
  <2>2. Trade(w) = ts[o.trade]
    BY DEF Trade, Mine
  <2> QED
    BY <1>4, <2>1, <2>2
<1>9. \A k : NextWrite(w, k) = IF k <= Len(ts) THEN "trade" ELSE "commit"
  BY DEF NextWrite, Mine
<1> QED
  BY <1>2, <1>4, <1>6, <1>7, <1>8, <1>9

LEMMA SameUnlessOp ==
  ASSUME NEW w, \/ Allocate(w) \/ CreateRow(w) \/ InsertTrade(w) \/ ReadMaker(w)
                \/ UpdateMaker(w) \/ CacheDone(w) \/ EnqueueAll(w)
  PROVE  /\ UNCHANGED <<topic, first, next, committed, pending, book, lastPrice, placed>>
         /\ UNCHANGED <<rows, trades, outbox, cache, epoch, ticks, faults, restarts, rejoins>>
BY DEF Allocate, CreateRow, InsertTrade, ReadMaker, UpdateMaker, CacheDone, EnqueueAll,
       pipeline, engine, database, bounds

LEMMA AllocateWorks ==
  ASSUME EngineTyped, OpTyped, Works, Max(Sequences \cup {0}) + 1 \in Nat,
         NEW w \in Submitters, Allocate(w)
  PROVE  OpTyped' /\ Works'
<1>1. PICK o : o = op[w]
  OBVIOUS
<1>2. PICK s \in Nat : s = Max(Sequences \cup {0}) + 1
  OBVIOUS
<1>3. PICK new : new = Later(o, "create", s, o.trade, o.read, o.writes, o.cached)
  OBVIOUS
<1>4. Becomes(w, new)
  BY <1>1, <1>2, <1>3, AllocateEffect
<1>5. OpFits(o, placed) /\ WorkFits(o, placed, rows, epoch) /\ o.pc = "allocate"
  BY <1>1 DEF OpTyped, Works, Allocate
<1>6. OpFits(new, placed)
  <2>1. o.trade \in Nat /\ o.read \in Nat /\ o.writes \in Writes /\ o.cached \in 0..Len(o.captured)
    BY <1>1, <1>5, OpAt DEF OpFits
  <2>2. placed \in Seq(Placements) /\ "create" \in Locations
    BY LocationsSplit DEF EngineTyped
  <2> QED
    BY <1>3, <1>5, <2>1, <2>2, LaterFits
<1>7. WorkFits(new, placed, rows, epoch)
  <2>1. /\ new.pc = "create" /\ new.id = o.id /\ new.trade = o.trade /\ new.writes = o.writes
    BY <1>3 DEF Later
  <2> QED
    BY <1>5, <2>1, LocationsSplit DEF WorkFits
<1> QED
  BY <1>4, <1>6, <1>7, OneWorks, SameUnlessOp

LEMMA CreateRowWorks ==
  ASSUME EngineTyped, PlacedSound, OpTyped, Works, NEW w \in Submitters, CreateRow(w)
  PROVE  OpTyped' /\ Works'
<1>1. PICK o : o = op[w]
  OBVIOUS
<1>2. PICK pc : pc = NextWrite(w, 1)
  OBVIOUS
<1>3. PICK new : new = Later(o, pc, o.sequence, o.trade, o.read, o.writes, o.cached)
  OBVIOUS
<1>4. Becomes(w, new)
  BY <1>1, <1>2, <1>3, CreateRowEffect
<1>5. OpFits(o, placed) /\ WorkFits(o, placed, rows, epoch) /\ o.pc = "create"
  BY <1>1 DEF OpTyped, Works, CreateRow
<1>6. PICK ts : ts = placed[o.id].trades
  OBVIOUS
<1>7. pc = IF 1 <= Len(ts) THEN "trade" ELSE "commit"
  BY <1>1, <1>2, <1>6 DEF NextWrite, Mine
<1>8. OpFits(new, placed)
  <2>1. /\ o.sequence \in Nat /\ o.trade \in Nat /\ o.read \in Nat /\ o.writes \in Writes
        /\ o.cached \in 0..Len(o.captured)
    BY <1>1, <1>5, OpAt DEF OpFits
  <2>2. placed \in Seq(Placements) /\ pc \in Locations
    BY <1>7, LocationsSplit DEF EngineTyped
  <2> QED
    BY <1>3, <1>5, <2>1, <2>2, LaterFits
<1>9. WorkFits(new, placed, rows, epoch)
  <2>1. /\ new.pc = pc /\ new.id = o.id /\ new.trade = o.trade /\ new.writes = o.writes
    BY <1>3 DEF Later
  <2>2. /\ o.id > epoch /\ o.id \in DOMAIN placed /\ placed[o.id].status = "accepted"
        /\ o.trade = 1 /\ o.writes = NoWrites
    BY <1>5, LocationsSplit DEF WorkFits
  <2>3. Len(ts) \in Nat
    <3>1. placed[o.id] \in Placements
      BY <2>2 DEF EngineTyped
    <3>2. ts \in Seq(TradeRecords(Nat))
      BY <1>6, <3>1 DEF Placements
    <3> QED
      BY <3>2
  <2>4. 1..(new.trade - 1) = {} /\ DOMAIN new.writes = {}
    BY <2>1, <2>2 DEF NoWrites
  <2>5. WriteSound(new, ts, rows)
    BY <1>7, <2>1, <2>2, <2>3, <2>4 DEF WriteSound
  <2> QED
    BY <1>6, <1>7, <2>1, <2>2, <2>5, LocationsSplit DEF WorkFits
<1> QED
  BY <1>4, <1>8, <1>9, OneWorks, SameUnlessOp

LEMMA InsertTradeWorks ==
  ASSUME EngineTyped, PlacedSound, OpTyped, Works, NEW w \in Submitters, InsertTrade(w)
  PROVE  OpTyped' /\ Works'
<1>1. PICK o : o = op[w]
  OBVIOUS
<1>2. PICK new : new = Later(o, "read", o.sequence, o.trade, o.read, o.writes, o.cached)
  OBVIOUS
<1>3. Becomes(w, new)
  BY <1>1, <1>2, InsertTradeEffect
<1>4. /\ OpFits(o, placed) /\ WorkFits(o, placed, rows, epoch)
      /\ o.pc = "trade" /\ o.pc \in Writing
  BY <1>1, LocationsSplit DEF OpTyped, Works, InsertTrade
<1>5. PICK ts : ts = placed[o.id].trades
  OBVIOUS
<1>6. /\ WriteSound(o, ts, rows) /\ o.trade \in DOMAIN ts /\ Trade(w) = ts[o.trade]
      /\ DOMAIN ts = 1..Len(ts) /\ Len(ts) \in Nat
  BY <1>1, <1>4, <1>5, WritingFacts
<1>7. ts[o.trade].maker \in DOMAIN rows
  BY <1>6 DEF InsertTrade
<1>8. OpFits(new, placed)
  <2>1. /\ o.sequence \in Nat /\ o.trade \in Nat /\ o.read \in Nat /\ o.writes \in Writes
        /\ o.cached \in 0..Len(o.captured)
    BY <1>1, <1>4, OpAt DEF OpFits
  <2>2. placed \in Seq(Placements) /\ "read" \in Locations
    BY LocationsSplit DEF EngineTyped
  <2> QED
    BY <1>2, <1>4, <2>1, <2>2, LaterFits
<1>9. WorkFits(new, placed, rows, epoch)
  <2>1. /\ new.pc = "read" /\ new.id = o.id /\ new.trade = o.trade /\ new.writes = o.writes
    BY <1>2 DEF Later
  <2>2. WriteSound(new, ts, rows)
    BY <1>4, <1>6, <1>7, <2>1 DEF WriteSound
  <2> QED
    BY <1>4, <1>5, <2>1, <2>2, LocationsSplit DEF WorkFits
<1> QED
  BY <1>3, <1>8, <1>9, OneWorks, SameUnlessOp

LEMMA ReadMakerWorks ==
  ASSUME EngineTyped, PlacedSound, OpTyped, Works, RowsTyped,
         NEW w \in Submitters, ReadMaker(w)
  PROVE  OpTyped' /\ Works'
<1>1. PICK o : o = op[w]
  OBVIOUS
<1>2. PICK read : read = rows[Trade(w).maker].remaining
  OBVIOUS
<1>3. PICK new : new = Later(o, "update", o.sequence, o.trade, read, o.writes, o.cached)
  OBVIOUS
<1>4. Becomes(w, new)
  BY <1>1, <1>2, <1>3, ReadMakerEffect
<1>5. /\ OpFits(o, placed) /\ WorkFits(o, placed, rows, epoch)
      /\ o.pc = "read" /\ o.pc \in Writing
  BY <1>1, LocationsSplit DEF OpTyped, Works, ReadMaker
<1>6. PICK ts : ts = placed[o.id].trades
  OBVIOUS
<1>7. WriteSound(o, ts, rows) /\ o.trade \in DOMAIN ts /\ Trade(w) = ts[o.trade]
  BY <1>1, <1>5, <1>6, WritingFacts
<1>8. ts[o.trade].maker \in DOMAIN rows /\ read = rows[ts[o.trade].maker].remaining
  BY <1>2, <1>5, <1>7 DEF WriteSound
<1>9. read \in Nat
  BY <1>8 DEF RowsTyped, RowRecords
<1>10. OpFits(new, placed)
  <2>1. /\ o.sequence \in Nat /\ o.trade \in Nat /\ o.writes \in Writes
        /\ o.cached \in 0..Len(o.captured)
    BY <1>1, <1>5, OpAt DEF OpFits
  <2>2. placed \in Seq(Placements) /\ "update" \in Locations
    BY LocationsSplit DEF EngineTyped
  <2> QED
    BY <1>3, <1>5, <1>9, <2>1, <2>2, LaterFits
<1>11. WorkFits(new, placed, rows, epoch)
  <2>1. /\ new.pc = "update" /\ new.id = o.id /\ new.trade = o.trade
        /\ new.writes = o.writes /\ new.read = read
    BY <1>3 DEF Later
  <2>2. WriteSound(new, ts, rows)
    BY <1>5, <1>7, <1>8, <2>1 DEF WriteSound
  <2> QED
    BY <1>5, <1>6, <2>1, <2>2, LocationsSplit DEF WorkFits
<1> QED
  BY <1>4, <1>10, <1>11, OneWorks, SameUnlessOp

LEMMA WithTyped ==
  ASSUME NEW writes \in Writes, NEW maker \in Nat, NEW left \in Nat
  PROVE  With(writes, maker, left) \in Writes
<1>1. PICK D \in SUBSET Nat : writes \in [D -> Nat]
  BY DEF Writes
<1>2. With(writes, maker, left) \in [D \cup {maker} -> Nat] /\ D \cup {maker} \in SUBSET Nat
  BY <1>1 DEF With
<1> QED
  BY <1>2, Zenon DEF Writes

LEMMA UpdateMakerWorks ==
  ASSUME EngineTyped, PlacedSound, OpTyped, Works, NEW w \in Submitters, UpdateMaker(w)
  PROVE  OpTyped' /\ Works'
<1>1. PICK o : o = op[w]
  OBVIOUS
<1>2. PICK t : t = Trade(w)
  OBVIOUS
<1>3. PICK pc : pc = NextWrite(w, o.trade + 1)
  OBVIOUS
<1>4. PICK left : left = Less(o.read, t.quantity)
  OBVIOUS
<1>5. PICK writes : writes = With(o.writes, t.maker, left)
  OBVIOUS
<1>6. PICK new : new = Later(o, pc, o.sequence, o.trade + 1, o.read, writes, o.cached)
  OBVIOUS
<1>7. Becomes(w, new)
  BY <1>1, <1>2, <1>3, <1>4, <1>5, <1>6, UpdateMakerEffect
<1>8. /\ OpFits(o, placed) /\ WorkFits(o, placed, rows, epoch)
      /\ o.pc = "update" /\ o.pc \in Writing
  BY <1>1, LocationsSplit DEF OpTyped, Works, UpdateMaker
<1>9. PICK ts : ts = placed[o.id].trades
  OBVIOUS
<1>16. PICK n \in Nat : n = Len(ts) /\ DOMAIN ts = 1..n
  BY <1>1, <1>8, <1>9, WritingFacts
<1>10. /\ WriteSound(o, ts, rows) /\ o.trade \in 1..n /\ t = ts[o.trade]
       /\ MakersApart(ts)
       /\ t.maker \in Nat /\ t.quantity \in Nat
       /\ pc = IF o.trade + 1 <= n THEN "trade" ELSE "commit"
  <2>1. /\ WriteSound(o, ts, rows) /\ o.trade \in 1..n /\ Trade(w) = ts[o.trade]
        /\ MakersApart(ts)
    <3>1. o.pc # "commit"
      BY <1>8
    <3> QED
      BY <1>1, <1>8, <1>9, <1>16, <3>1, WritingFacts
  <2>2. t.maker \in Nat /\ t.quantity \in Nat
    <3>1. t = ts[o.trade] /\ o.trade \in DOMAIN ts
      BY <1>2, <1>16, <2>1
    <3>2. \A k \in DOMAIN ts : ts[k].maker \in Nat /\ ts[k].quantity \in Nat \ {0}
      BY <1>1, <1>8, <1>9, WritingFacts, ZenonT(40)
    <3> QED
      BY <3>1, <3>2
  <2>3. pc = IF o.trade + 1 <= n THEN "trade" ELSE "commit"
    BY <1>1, <1>3, <1>9, <1>16 DEF NextWrite, Mine
  <2> QED
    BY <1>2, <2>1, <2>2, <2>3
<1>11. /\ t.maker \in DOMAIN rows /\ o.read = rows[t.maker].remaining
  BY <1>8, <1>10 DEF WriteSound
<1>12. /\ o.sequence \in Nat /\ o.trade \in Nat /\ o.read \in Nat /\ o.writes \in Writes
       /\ o.cached \in 0..Len(o.captured)
  BY <1>1, <1>8, OpAt DEF OpFits
<1>13. left \in Nat
  <2>1. o.read \in Nat /\ t.quantity \in Nat
    BY <1>10, <1>12
  <2> QED
    BY <1>4, <2>1 DEF Less
<1>14. OpFits(new, placed)
  <2>1. placed \in Seq(Placements) /\ pc \in Locations
    BY <1>10, LocationsSplit DEF EngineTyped
  <2>2. writes \in Writes
    BY <1>5, <1>10, <1>12, <1>13, WithTyped
  <2>3. o.trade + 1 \in Nat
    BY <1>12
  <2> QED
    BY <1>6, <1>8, <1>12, <2>1, <2>2, <2>3, LaterFits
<1>15. WorkFits(new, placed, rows, epoch)
  <2>1. /\ new.pc = pc /\ new.id = o.id /\ new.trade = o.trade + 1
        /\ new.writes = writes /\ new.read = o.read
    BY <1>6 DEF Later
  <2>2. /\ DOMAIN writes = DOMAIN o.writes \cup {t.maker}
        /\ writes[t.maker] = left
        /\ \A m \in DOMAIN o.writes : m # t.maker => writes[m] = o.writes[m]
    BY <1>5 DEF With
  <2>3. Recorded(writes, t, rows)
    BY <1>4, <1>11, <2>2 DEF Recorded
  <2>4. ASSUME NEW k \in 1..o.trade PROVE Recorded(writes, ts[k], rows)
    <3>1. CASE k = o.trade
      BY <1>10, <2>3, <3>1
    <3>2. CASE k # o.trade
      <4>0. o.trade \in 1..n
        BY <1>10
      <4>1. k \in 1..(o.trade - 1) /\ k \in 1..n
        BY <3>2, <4>0
      <4>2. Recorded(o.writes, ts[k], rows)
        BY <1>10, <4>1 DEF WriteSound
      <4>3. ts[k].maker # t.maker
        BY <1>10, <1>16, <3>2, <4>1 DEF MakersApart
      <4> QED
        BY <2>2, <4>2, <4>3 DEF Recorded
    <3> QED
      BY <3>1, <3>2
  <2>5. ASSUME NEW m \in DOMAIN writes PROVE \E k \in 1..o.trade : ts[k].maker = m
    <3>1. CASE m = t.maker
      <4>1. o.trade \in 1..o.trade
        BY <1>10
      <4> QED
        BY <1>10, <3>1, <4>1
    <3>2. CASE m # t.maker
      <4>1. m \in DOMAIN o.writes
        BY <2>2, <3>2
      <4>2. PICK k \in 1..(o.trade - 1) : ts[k].maker = m
        BY <1>10, <4>1 DEF WriteSound
      <4>3. k \in 1..o.trade
        BY <1>12
      <4> QED
        BY <4>2, <4>3
    <3> QED
      BY <3>1, <3>2
  <2>6. /\ new.trade \in 1..(Len(ts) + 1)
        /\ new.pc = "commit" <=> new.trade = Len(ts) + 1
        /\ (new.trade - 1) = o.trade /\ new.pc \in {"trade", "commit"}
    <3>1. o.trade \in 1..n /\ pc = IF o.trade + 1 <= n THEN "trade" ELSE "commit"
      BY <1>10
    <3> QED
      BY <1>16, <2>1, <3>1
  <2>7. WriteSound(new, ts, rows)
    BY <2>1, <2>4, <2>5, <2>6 DEF WriteSound
  <2> QED
    BY <1>8, <1>9, <2>1, <2>6, <2>7, LocationsSplit DEF WorkFits
<1> QED
  BY <1>7, <1>14, <1>15, OneWorks, SameUnlessOp

\* Past the commit.
LEMMA AfterCommitWorks ==
  ASSUME EngineTyped, OpTyped, Works, NEW w \in Submitters,
         CacheNext(w) \/ CacheDone(w) \/ EnqueueAll(w)
  PROVE  OpTyped' /\ Works'
<1>1. PICK o : o = op[w]
  OBVIOUS
<1>2. OpFits(o, placed) /\ WorkFits(o, placed, rows, epoch) /\ o.pc \in {"cache", "enqueue"}
  BY <1>1 DEF OpTyped, Works, CacheNext, CacheDone, EnqueueAll
<1>3. /\ o.sequence \in Nat /\ o.trade \in Nat /\ o.read \in Nat /\ o.writes \in Writes
      /\ o.cached \in 0..Len(o.captured) /\ Len(o.captured) \in Nat
  BY <1>1, <1>2, OpAt DEF OpFits
<1>4. \E pc \in {"cache", "enqueue", "flush"} : \E cached \in 0..Len(o.captured) :
        Becomes(w, Later(o, pc, o.sequence, o.trade, o.read, o.writes, cached))
  <2>1. CASE CacheNext(w)
    <3>1. o.cached < Len(o.captured)
      BY <1>1, <2>1 DEF CacheNext
    <3>2. o.cached + 1 \in 0..Len(o.captured)
      BY <1>3, <3>1
    <3> QED
      BY <1>1, <2>1, <3>2, CacheNextEffect
  <2>2. CASE CacheDone(w)
    BY <1>1, <1>3, <2>2, GoOnEffect DEF CacheDone
  <2>3. CASE EnqueueAll(w)
    BY <1>1, <1>3, <2>3, GoOnEffect DEF EnqueueAll
  <2> QED
    BY <2>1, <2>2, <2>3
<1>5. PICK pc \in {"cache", "enqueue", "flush"}, cached \in 0..Len(o.captured) :
        Becomes(w, Later(o, pc, o.sequence, o.trade, o.read, o.writes, cached))
  BY <1>4
<1>6. PICK new : new = Later(o, pc, o.sequence, o.trade, o.read, o.writes, cached)
  OBVIOUS
<1>7. OpFits(new, placed)
  <2>1. placed \in Seq(Placements) /\ pc \in Locations
    BY LocationsSplit DEF EngineTyped
  <2> QED
    BY <1>2, <1>3, <1>6, <2>1, LaterFits
<1>8. WorkFits(new, placed, rows, epoch)
  <2>1. new.pc = pc /\ new.id = o.id /\ new.writes = o.writes
    BY <1>6 DEF Later
  <2> QED
    BY <1>2, <2>1, LocationsSplit DEF WorkFits
<1>9. placed' = placed /\ rows' = rows /\ epoch' = epoch
  BY DEF CacheNext, CacheDone, EnqueueAll, engine, database, bounds
<1> QED
  BY <1>5, <1>6, <1>7, <1>8, <1>9, OneWorks

LEMMA LeaveWorks ==
  ASSUME EngineTyped, OpTyped, Works, NEW w \in Submitters, Leave(w),
         placed' = placed, rows' = rows, epoch' = epoch
  PROVE  OpTyped' /\ Works'
<1>1. Becomes(w, NoOp)
  BY LeaveEffect
<1>2. OpFits(NoOp, placed) /\ WorkFits(NoOp, placed, rows, epoch)
  BY NoOpFits DEF EngineTyped
<1> QED
  BY <1>1, <1>2, OneWorks

(***************************************************************************)
(* What a commit makes of the table: the order's row, and for the maker of *)
(* each of its trades what the trade leaves of it.                         *)
(***************************************************************************)
MakerRow(m, q) ==
  [sequence  |-> rows[m].sequence,
   since     |-> rows[m].since,
   remaining |-> Less(rows[m].remaining, q),
   filled    |-> placed[m].order.quantity - Less(rows[m].remaining, q)]

CommitsTo(w, o, ts) ==
  /\ o = op[w] /\ o.pc = "commit" /\ ts = placed[o.id].trades
  /\ placed' = placed /\ epoch' = epoch /\ book' = book /\ lastPrice' = lastPrice
  /\ o.id \in DOMAIN placed /\ o.id > epoch /\ placed[o.id].status = "accepted"
  /\ o.id \notin DOMAIN rows
  /\ DOMAIN rows' = DOMAIN rows \cup {o.id}
  /\ rows'[o.id] = [sequence  |-> o.sequence,
                    since     |-> o.since,
                    remaining |-> placed[o.id].resting,
                    filled    |-> Total(Elements(ts))]
  /\ \A k \in DOMAIN ts : /\ ts[k].maker \in DOMAIN rows
                          /\ rows'[ts[k].maker] = MakerRow(ts[k].maker, ts[k].quantity)
  /\ \A m \in DOMAIN rows : (\A k \in DOMAIN ts : ts[k].maker # m) => rows'[m] = rows[m]
  /\ trades' = trades \cup Elements(ts)

LEMMA CommitWrites ==
  ASSUME IInv, EngineTyped, PlacedSound, OpTyped, Works,
         NEW w \in Submitters, Commit(w), NEW o, o = op[w],
         NEW ts, ts = placed[o.id].trades
  PROVE  CommitsTo(w, o, ts)
<1>1. o.pc = "commit" /\ o.pc \in Writing /\ o.pc \in Persisting
  BY LocationsSplit DEF Commit
<1>2. o.id \notin DOMAIN rows
  BY <1>1 DEF IInv, OwnOrder
<1>3. /\ o.id \in DOMAIN placed /\ o.id > epoch /\ placed[o.id].status = "accepted"
      /\ WriteSound(o, ts, rows) /\ MakersApart(ts)
  BY <1>1, WritingFacts
<1>4. PICK n \in Nat : n = Len(ts) /\ DOMAIN ts = 1..n
  BY <1>1, WritingFacts
<1>5. o.trade = n + 1
  BY <1>1, <1>3, <1>4 DEF WriteSound
<1>6. /\ \A k \in 1..n : Recorded(o.writes, ts[k], rows)
      /\ \A m \in DOMAIN o.writes : \E k \in 1..n : ts[k].maker = m
  <2>1. 1..(o.trade - 1) = 1..n
    BY <1>5
  <2> QED
    BY <1>3, <2>1 DEF WriteSound
<1>7. PICK id : id = o.id
  OBVIOUS
<1>8. /\ rows' = [m \in DOMAIN rows \cup {id} |->
           IF m = id
           THEN [sequence  |-> o.sequence, since |-> o.since,
                 remaining |-> placed[id].resting,
                 filled    |-> Traded(m)]
           ELSE IF m \in DOMAIN o.writes THEN Written(m, o.writes) ELSE rows[m]]
      /\ trades' = trades \cup TradesOf(id)
  BY <1>7, Zenon DEF Commit, Mine
<1>9. TradesOf(id) = Elements(ts)
  BY <1>7 DEF TradesOf, Elements
<1>10. DOMAIN rows' = DOMAIN rows \cup {id}
  BY <1>8
<1>11. rows'[id] = [sequence |-> o.sequence, since |-> o.since,
                    remaining |-> placed[id].resting,
                    filled |-> Total(Elements(ts))]
  BY <1>8, <1>9, SMTT(20) DEF Traded
<1>12. ASSUME NEW k \in 1..n
       PROVE  /\ ts[k].maker \in DOMAIN rows
              /\ rows'[ts[k].maker] = MakerRow(ts[k].maker, ts[k].quantity)
  <2>1. PICK m : m = ts[k].maker
    BY Zenon
  <2>2. /\ m \in DOMAIN rows /\ m \in DOMAIN o.writes
        /\ o.writes[m] = Less(rows[m].remaining, ts[k].quantity)
    BY <1>6, <2>1 DEF Recorded
  <2>3. m # id
    BY <1>2, <1>7, <2>2
  <2>4. rows'[m] = Written(m, o.writes)
    BY <1>8, <2>2, <2>3
  <2>5. Written(m, o.writes) = MakerRow(m, ts[k].quantity)
    BY <2>2 DEF Written, MakerRow
  <2> QED
    BY <2>1, <2>2, <2>4, <2>5
<1>13. ASSUME NEW m \in DOMAIN rows, \A k \in 1..n : ts[k].maker # m
       PROVE  rows'[m] = rows[m]
  <2>1. m # id /\ m \notin DOMAIN o.writes
    BY <1>2, <1>6, <1>7, <1>13
  <2> QED
    BY <1>8, <2>1
<1>14. placed' = placed /\ epoch' = epoch /\ book' = book /\ lastPrice' = lastPrice
  BY SMTT(20) DEF Commit, engine, bounds
<1>15. \A k \in DOMAIN ts : /\ ts[k].maker \in DOMAIN rows
                            /\ rows'[ts[k].maker] = MakerRow(ts[k].maker, ts[k].quantity)
  BY <1>4, <1>12
<1>16. \A m \in DOMAIN rows : (\A k \in DOMAIN ts : ts[k].maker # m) => rows'[m] = rows[m]
  BY <1>4, <1>13
<1>17. trades' = trades \cup Elements(ts)
  BY <1>8, <1>9
<1> QED
  BY <1>1, <1>2, <1>3, <1>7, <1>10, <1>11, <1>14, <1>15, <1>16, <1>17, Zenon
     DEF CommitsTo

LEMMA CommitKeepsRowsTyped ==
  ASSUME IInv, EngineTyped, PlacedSound, OpTyped, Works, RowsTyped,
         NEW w \in Submitters, Commit(w)
  PROVE  RowsTyped'
<1>1. PICK o : o = op[w]
  OBVIOUS
<1>2. PICK ts : ts = placed[o.id].trades
  OBVIOUS
<1>3. CommitsTo(w, o, ts)
  BY <1>1, <1>2, CommitWrites
<1>4. o.pc \in Writing
  BY <1>3, LocationsSplit DEF CommitsTo
<1>5. /\ placed' = placed /\ DOMAIN rows' = DOMAIN rows \cup {o.id}
      /\ o.id \in DOMAIN placed /\ placed[o.id].status = "accepted"
  BY <1>3 DEF CommitsTo
<1> DEFINE Typed(id, row) ==
      /\ id \in DOMAIN placed /\ placed[id].status = "accepted"
      /\ row \in RowRecords
      /\ row.remaining <= placed[id].order.quantity
      /\ placed[id].order.type = "market" => row.remaining = 0
<1>6. Typed(o.id, rows'[o.id])
  <2>1. rows'[o.id] = [sequence  |-> o.sequence, since |-> o.since,
                       remaining |-> placed[o.id].resting,
                       filled    |-> Total(Elements(ts))]
    BY <1>3 DEF CommitsTo
  <2>2. o.sequence \in Nat \ {0}
    <3>1. o.sequence = Stored + 1
      BY <1>1, <1>4 DEF IInv, WriterIsNext
    <3>2. Stored \in Nat
      BY StoredIsNat DEF IInv
    <3> QED
      BY <3>1, <3>2
  <2>3. Total(Elements(ts)) \in Nat
    <3>1. ts \in Seq(TradeRecords(Nat))
      BY <1>1, <1>2, <1>4, WritingFacts
    <3> QED
      BY <3>1, TradesHaveQuantities, TotalIsNat
  <2>4. /\ placed[o.id].resting <= placed[o.id].order.quantity
        /\ placed[o.id].order.type = "market" => placed[o.id].resting = 0
    BY <1>5 DEF PlacedSound, PlacementSound
  <2>5. placed[o.id].resting \in Nat
    <3>1. placed[o.id] \in Placements
      BY <1>5 DEF EngineTyped
    <3> QED
      BY <3>1 DEF Placements
  <2>6. o.since \in Nat
    BY <1>1, OpAt
  <2> QED
    BY <1>5, <2>1, <2>2, <2>3, <2>4, <2>5, <2>6 DEF RowRecords
<1>7. ASSUME NEW m \in DOMAIN rows PROVE Typed(m, rows'[m])
  <2>1. Typed(m, rows[m])
    BY DEF RowsTyped
  <2>2. CASE \A k \in DOMAIN ts : ts[k].maker # m
    BY <1>3, <2>1, <2>2 DEF CommitsTo
  <2>3. CASE \E k \in DOMAIN ts : ts[k].maker = m
    <3>1. PICK k \in DOMAIN ts : ts[k].maker = m
      BY <2>3
    <3>2. PICK q \in Nat : q = ts[k].quantity
      BY <1>1, <1>2, <1>4, WritingFacts
    <3>3. rows'[m] = MakerRow(m, q)
      BY <1>3, <3>1, <3>2 DEF CommitsTo
    <3>4. /\ rows[m].sequence \in Nat \ {0} /\ rows[m].since \in Nat
          /\ rows[m].remaining \in Nat
          /\ rows[m].remaining <= placed[m].order.quantity
      BY <2>1 DEF RowRecords
    <3>5. placed[m].order.quantity \in Nat
      <4>1. placed[m] \in Placements
        BY <2>1 DEF EngineTyped
      <4> QED
        BY <4>1 DEF Placements
    <3>6. PICK left : left = Less(rows[m].remaining, q)
      OBVIOUS
    <3>7. left \in Nat /\ left <= rows[m].remaining
      BY <3>2, <3>4, <3>6 DEF Less
    <3>8. rows'[m] = [sequence |-> rows[m].sequence, since |-> rows[m].since,
                      remaining |-> left,
                      filled |-> placed[m].order.quantity - left]
      BY <3>3, <3>6 DEF MakerRow
    <3>9. placed[m].order.quantity - left \in Nat
      BY <3>4, <3>5, <3>7
    <3>10. rows'[m] \in RowRecords /\ rows'[m].remaining = left
      BY <3>4, <3>7, <3>8, <3>9 DEF RowRecords
    <3>11. left <= placed[m].order.quantity /\ (rows[m].remaining = 0 => left = 0)
      BY <3>4, <3>5, <3>7
    <3> QED
      BY <2>1, <3>10, <3>11
  <2> QED
    BY <2>2, <2>3
<1>8. \A id \in DOMAIN rows' : Typed(id, rows'[id])
  BY <1>5, <1>6, <1>7
<1> QED
  BY <1>5, <1>8, Zenon DEF RowsTyped

LEMMA CommitWorks ==
  ASSUME IInv, EngineTyped, PlacedSound, OpTyped, Works,
         NEW w \in Submitters, Commit(w)
  PROVE  OpTyped' /\ Works'
<1>1. PICK o : o = op[w]
  OBVIOUS
<1>2. PICK new : new = Later(o, "cache", o.sequence, o.trade, o.read, NoWrites, o.cached)
  OBVIOUS
<1>3. Becomes(w, new)
  BY <1>1, <1>2, CommitEffect
<1>4. /\ OpFits(o, placed) /\ WorkFits(o, placed, rows, epoch) /\ o.pc = "commit"
  BY <1>1 DEF OpTyped, Works, Commit
<1>5. placed' = placed /\ epoch' = epoch
  BY DEF Commit, engine, bounds
<1>6. OpFits(new, placed)
  <2>1. /\ o.sequence \in Nat /\ o.trade \in Nat /\ o.read \in Nat
        /\ o.cached \in 0..Len(o.captured)
    BY <1>1, <1>4, OpAt DEF OpFits
  <2>2. placed \in Seq(Placements) /\ "cache" \in Locations
    BY LocationsSplit DEF EngineTyped
  <2> QED
    BY <1>2, <1>4, <2>1, <2>2, NoOpTyped, LaterFits
<1>7. WorkFits(new, placed, rows', epoch)
  <2>1. new.pc = "cache" /\ new.id = o.id /\ new.writes = NoWrites
    BY <1>2 DEF Later
  <2> QED
    BY <1>4, <2>1, LocationsSplit DEF WorkFits
<1>8. \A v \in Submitters \ {w} : op[v].pc \notin Writing
  <2>1. op[w].pc \in Writing
    BY <1>1, <1>4, LocationsSplit
  <2> QED
    BY <2>1 DEF IInv, WriterIsNext
<1>9. ASSUME NEW v \in Submitters
      PROVE  OpFits(op'[v], placed') /\ WorkFits(op'[v], placed', rows', epoch')
  <2>1. CASE v = w
    BY <1>3, <1>5, <1>6, <1>7, <2>1 DEF Becomes
  <2>2. CASE v # w
    <3>1. op'[v] = op[v] /\ op[v].pc \notin Writing
      BY <1>3, <1>8, <2>2 DEF Becomes
    <3>2. OpFits(op[v], placed) /\ WorkFits(op[v], placed, rows, epoch)
      BY DEF OpTyped, Works
    <3>3. WorkFits(op[v], placed, rows', epoch)
      BY <3>1, <3>2 DEF WorkFits
    <3> QED
      BY <1>5, <3>1, <3>2, <3>3
  <2> QED
    BY <2>1, <2>2
<1> QED
  BY <1>3, <1>9 DEF OpTyped, Works, Becomes

(***************************************************************************)
(* placeOrder, for the processOrders.                                      *)
(***************************************************************************)
LEMMA SeqOfMore ==
  ASSUME NEW n \in Nat, NEW s \in Seq(1..n)
  PROVE  s \in Seq(1..(n + 1)) /\ Append(s, n + 1) \in Seq(1..(n + 1))
<1>1. 1..n \subseteq 1..(n + 1) /\ n + 1 \in 1..(n + 1)
  OBVIOUS
<1>2. s \in Seq(1..(n + 1))
  BY <1>1
<1> QED
  BY <1>1, <1>2

LEMMA PlacingWorks ==
  ASSUME OpTyped, Works, epoch \in 0..Len(placed), epoch' = epoch, rows' = rows,
         NEW w \in Submitters, NEW input, NEW command, NEW o, Placing(w, input, command, o),
         NEW last, Extends(placed', last), last.status = o.status, Stored \in Nat
  PROVE  OpTyped' /\ Works'
<1> DEFINE size == Len(placed)
<1>0. size \in Nat
  BY DEF Extends
<1>1. PICK n \in Nat : n = size
  BY <1>0, Zenon
<1>2. PICK all : all = placed'
  OBVIOUS
<1>3. /\ DOMAIN placed = 1..n /\ DOMAIN all = 1..(n + 1) /\ Len(all) = n + 1
      /\ all[n + 1] = last /\ \A p \in 1..n : all[p] = placed[p]
  BY <1>1, <1>2 DEF Extends
<1>4. PICK start : start = IF o.status = "accepted" THEN "allocate" ELSE "cache"
  OBVIOUS
<1>5. PICK since \in Nat : since = Stored
  BY Zenon
<1> DEFINE begun == Started(start, n + 1, since)
<1>51. PICK new : new = begun
  OBVIOUS
<1>6. /\ DOMAIN op' = Submitters /\ op'[w] = new
      /\ \A v \in Submitters \ {w} : op'[v] = Captures(op[v], n + 1)
  BY <1>1, <1>4, <1>5, <1>51 DEF Placing
<1>7. /\ new.pc = start /\ new.id = n + 1 /\ new.trade = 1 /\ new.writes = NoWrites
      /\ new.captured = <<n + 1>> /\ new.cached = 0
  BY <1>51 DEF Started
<1>8. OpFits(new, all)
  <2>1. <<n + 1>> \in Seq(Nat) /\ <<n + 1>> \in Seq(1..(n + 1)) /\ Len(<<n + 1>>) = 1
    BY <1>1
  <2>2. start \in Locations /\ n + 1 \in Nat /\ NoWrites \in Writes
    BY <1>1, <1>4, LocationsSplit, NoOpTyped
  <2>3. new \in Operations
    BY <1>5, <1>51, <2>1, <2>2 DEF Started, Operations
  <2> QED
    BY <1>1, <1>3, <1>7, <2>1, <2>3 DEF OpFits
<1>9. WorkFits(new, all, rows, epoch)
  <2>1. n + 1 > epoch /\ n + 1 \in DOMAIN all
    BY <1>1, <1>3
  <2>2. start = "allocate" => all[n + 1].status = "accepted"
    BY <1>3, <1>4
  <2>3. start \in {"allocate", "cache"}
    BY <1>4
  <2> QED
    BY <1>7, <2>1, <2>2, <2>3, LocationsSplit DEF WorkFits
<1>10. ASSUME NEW v \in Submitters \ {w}
       PROVE  OpFits(op'[v], all) /\ WorkFits(op'[v], all, rows, epoch)
  <2>1. PICK x : x = op[v]
    OBVIOUS
  <2>2. OpFits(x, placed) /\ WorkFits(x, placed, rows, epoch)
    BY <2>1 DEF OpTyped, Works
  <2>3. PICK y : y = Captures(x, n + 1)
    OBVIOUS
  <2>4. /\ x \in Operations /\ x.id \in 0..n /\ x.captured \in Seq(1..n)
        /\ x.cached \in 0..Len(x.captured)
    BY <1>1, <2>2 DEF OpFits
  <2>5. /\ y.pc = x.pc /\ y.id = x.id /\ y.trade = x.trade /\ y.read = x.read
        /\ y.writes = x.writes /\ y.cached = x.cached
        /\ y.captured = x.captured \/ y.captured = Append(x.captured, n + 1)
        /\ y \in Operations
    <3>1. CASE x.pc \in {"idle", "flush"}
      <4>1. y = x
        BY <2>3, <3>1 DEF Captures
      <4> QED
        BY <2>4, <4>1
    <3>2. CASE ~(x.pc \in {"idle", "flush"})
      <4>1. y = [pc |-> x.pc, id |-> x.id, since |-> x.since, sequence |-> x.sequence,
                 trade |-> x.trade, read |-> x.read, writes |-> x.writes,
                 captured |-> Append(x.captured, n + 1), cached |-> x.cached]
        BY <2>3, <3>2, Zenon DEF Captures
      <4>2. Append(x.captured, n + 1) \in Seq(Nat)
        BY <1>1, <2>4 DEF Operations
      <4>3. y \in Operations
        BY <2>4, <4>1, <4>2 DEF Operations
      <4> QED
        BY <4>1, <4>3
    <3> QED
      BY <3>1, <3>2
  <2>6. OpFits(y, all)
    <3>1. y.captured \in Seq(1..(n + 1))
      BY <1>1, <2>4, <2>5, SeqOfMore
    <3>2. PICK m \in Nat : m = Len(x.captured)
      BY <2>4
    <3>3. y.cached \in 0..Len(y.captured)
      <4>1. y.cached \in 0..m
        BY <2>4, <2>5, <3>2
      <4>2. Len(Append(x.captured, n + 1)) = m + 1
        BY <2>4, <3>2
      <4>3. Len(y.captured) = m \/ Len(y.captured) = m + 1
        BY <2>5, <3>2, <4>2
      <4> QED
        BY <4>1, <4>3
    <3>4. y.id \in 0..(n + 1)
      BY <1>1, <2>4, <2>5
    <3> QED
      BY <1>3, <2>5, <3>1, <3>3, <3>4 DEF OpFits
  <2>7. WorkFits(y, all, rows, epoch)
    <3>1. x.pc # "idle" => x.id \in 1..n /\ x.id > epoch
      BY <1>3, <2>2 DEF WorkFits
    <3>2. x.pc # "idle" => all[x.id] = placed[x.id] /\ x.id \in DOMAIN all
      BY <1>1, <1>3, <3>1
    <3>3. x.pc \in Writing \/ x.pc \in Persisting => x.pc # "idle"
      BY LocationsSplit
    <3>4. x.pc \in Writing => WriteSound(y, all[x.id].trades, rows)
      <4> HAVE x.pc \in Writing
      <4>1. WriteSound(x, placed[x.id].trades, rows)
        BY <2>2 DEF WorkFits
      <4>2. all[x.id].trades = placed[x.id].trades
        BY <3>2, <3>3
      <4>3. /\ y.trade = x.trade /\ y.pc = x.pc /\ y.read = x.read /\ y.writes = x.writes
        BY <2>5
      <4>4. WriteSound(y, placed[x.id].trades, rows)
        BY <4>1, <4>3, Zenon DEF WriteSound
      <4> QED
        BY <4>2, <4>4
    <3> QED
      BY <2>2, <2>5, <3>1, <3>2, <3>3, <3>4 DEF WorkFits
  <2> QED
    BY <1>6, <2>1, <2>3, <2>6, <2>7
<1>11. ASSUME NEW v \in Submitters
       PROVE  OpFits(op'[v], placed') /\ WorkFits(op'[v], placed', rows', epoch')
  BY <1>2, <1>6, <1>8, <1>9, <1>10
<1> QED
  BY <1>6, <1>11 DEF OpTyped, Works

(***************************************************************************)
(* The rest of the state: the topic and its offsets, the outbox, the cache *)
(* and the bounds.                                                         *)
(***************************************************************************)
PipelineTyped ==
  /\ topic \in Seq(Commands)
  /\ next \in 0..Len(topic) /\ committed \in 0..next /\ first \in 0..committed
  /\ op["consumer"].pc # "idle" => next < Len(topic)
  /\ pending \in InputRecords

OutputTyped ==
  /\ outbox \in Seq(1..Len(placed)) /\ cache \in 0..Len(placed)

BoundsTyped ==
  /\ epoch \in 0..Len(placed)
  /\ ticks \in 0..MaxTicks
  /\ faults \in Nat /\ restarts \in Nat /\ rejoins \in Nat
  /\ faults + restarts + rejoins <= MaxFailures

EngineSound == EngineTyped /\ PlacedSound /\ BookPlaced
WorkSound == OpTyped /\ Works /\ RowsTyped
RestTyped == PipelineTyped /\ OutputTyped /\ BoundsTyped

Sound == EngineSound /\ WorkSound /\ RestTyped

(***************************************************************************)
(* A step places an order, commits a transaction, restarts the process, or *)
(* leaves the engine and the tables alone.                                 *)
(***************************************************************************)
Placed(w, input, command) ==
  /\ op[w].pc = "idle"
  /\ Submit(w, input, command)
  /\ UNCHANGED <<rows, trades, outbox, cache, epoch, faults, restarts, rejoins,
                 topic, first, next, committed>>

LEMMA ConsumeEffect ==
  ASSUME PipelineTyped, Consume
  PROVE  /\ Placed("consumer", topic[next + 1], next + 1)
         /\ topic[next + 1] \in InputRecords /\ next + 1 \in Nat
         /\ next < Len(topic) /\ UNCHANGED <<pending, ticks>>
<1>1. next \in Nat /\ next < Len(topic) /\ topic \in Seq(Commands) /\ Len(topic) \in Nat
  BY DEF PipelineTyped, Consume
<1>2. topic[next + 1] \in Commands
  <2>1. next + 1 \in 1..Len(topic)
    BY <1>1
  <2> QED
    BY <1>1, <2>1, ElementOfSeq
<1>3. topic[next + 1] \in InputRecords
  BY <1>2, CommandsAssumption
<1> QED
  BY <1>1, <1>3 DEF Consume, Placed, Submit, pipeline, database, bounds

LEMMA TickEffect ==
  ASSUME Tick, ticks \in Nat
  PROVE  \E maker \in MakerOrders :
           /\ Placed("synthetic", maker, 0) /\ maker \in InputRecords
           /\ pending = NoOrder /\ pending' \in InputRecords
           /\ ticks < MaxTicks /\ ticks' = ticks + 1
<1>1. PICK maker \in MakerOrders :
        /\ Submit("synthetic", maker, 0)
        /\ pending' = [side |-> Opposite(maker.side), type |-> "market",
                       price |-> NoPrice, quantity |-> maker.quantity]
  BY Zenon DEF Tick
<1>2. maker \in InputRecords
  BY MakerOrdersAssumption
<1>3. pending' \in InputRecords
  BY <1>1, <1>2 DEF InputRecords, Opposite, Sides, Types, NoPrice
<1> QED
  BY <1>1, <1>2, <1>3 DEF Tick, Placed, Submit, database

LEMMA TakeBackEffect ==
  ASSUME PipelineTyped, TakeBack
  PROVE  /\ Placed("synthetic", pending, 0)
         /\ pending \in InputRecords /\ pending # NoOrder /\ pending' = NoOrder
         /\ ticks' = ticks
BY DEF TakeBack, Placed, Submit, database, bounds, PipelineTyped

LEMMA NoOrderTyped == NoOrder \in InputRecords
BY DEF NoOrder, InputRecords, Sides, Types, NoPrice

\* Everything but a placement, a commit, a restart.
Elsewhere == UNCHANGED <<placed, book, lastPrice, rows, trades, epoch>>

Moves(w) == CallFails(w) \/ (ProcessStep(w) /\ ~Commit(w))

LEMMA Kinds ==
  ASSUME PipelineTyped, BoundsTyped, [Next]_vars
  PROVE  \/ /\ \E w \in Submitters, input \in InputRecords, command \in Nat :
                 Placed(w, input, command)
            /\ \/ Consume \/ Tick \/ TakeBack
         \/ \E w \in Submitters : Commit(w)
         \/ Restart
         \/ Elsewhere /\ (op' = op \/ \E w \in Submitters : Moves(w))
<1>1. CASE Consume
  BY <1>1, ConsumeEffect DEF Submitters
<1>2. CASE Tick
  <2>1. \E maker \in MakerOrders : Placed("synthetic", maker, 0) /\ maker \in InputRecords
    BY <1>2, TickEffect DEF BoundsTyped
  <2> QED
    BY <1>2, <2>1 DEF Submitters
<1>3. CASE TakeBack
  BY <1>3, TakeBackEffect DEF Submitters
<1>4. ASSUME Send \/ SnapshotExpires \/ CommitOffset \/ Rejoin \/ UNCHANGED vars
      PROVE  Elsewhere /\ op' = op
  BY <1>4 DEF Send, SnapshotExpires, CommitOffset, Rejoin, vars, engine, database, bounds,
     Elsewhere
<1>5. ASSUME NEW w \in Submitters, Moves(w)
      PROVE  Elsewhere
  <2>1. ASSUME Abort(w) PROVE Elsewhere
    BY <2>1 DEF Abort, engine, database, Elsewhere
  <2>2. ASSUME \/ Allocate(w) \/ CreateRow(w) \/ InsertTrade(w) \/ ReadMaker(w)
               \/ UpdateMaker(w) \/ CacheDone(w) \/ EnqueueAll(w)
        PROVE  Elsewhere
    BY <2>2, SameUnlessOp DEF Elsewhere
  <2>3. ASSUME CacheNext(w) \/ EnqueueCommits(w) PROVE Elsewhere
    BY <2>3 DEF CacheNext, EnqueueCommits, engine, database, bounds, Elsewhere
  <2>4. CallFails(w) \/ CreateConflicts(w) \/ MakerMissing(w) => Abort(w)
    BY DEF CallFails, CreateConflicts, MakerMissing
  <2> QED
    BY <1>5, <2>1, <2>2, <2>3, <2>4 DEF ProcessStep, Moves
<1> QED
  BY <1>1, <1>2, <1>3, <1>4, <1>5 DEF Next, Moves

(***************************************************************************)
(* Initially.                                                              *)
(***************************************************************************)
LEMMA InitSound == ASSUME Init PROVE Sound
<1>1. /\ placed = <<>> /\ topic = <<>> /\ outbox = <<>> /\ rows = [id \in {} |-> 0]
      /\ first = 0 /\ next = 0 /\ committed = 0 /\ cache = 0 /\ epoch = 0
      /\ ticks = 0 /\ faults = 0 /\ restarts = 0 /\ rejoins = 0 /\ lastPrice = 0
      /\ book = EmptyBook /\ pending = NoOrder
      /\ op = [w \in Submitters |-> NoOp]
  BY DEF Init, NoPrice
<1>2. /\ <<>> \in Seq(Placements) /\ <<>> \in Seq(Commands) /\ <<>> \in Seq(1..0)
      /\ Len(<<>>) = 0 /\ DOMAIN <<>> = {}
  OBVIOUS
<1>3. DOMAIN rows = {} /\ DOMAIN placed = {}
  BY <1>1, <1>2
<1>4. EmptyBook \in Books(Nat) /\ \A side \in Sides : EmptyBook[side] = <<>>
  <2>1. <<>> \in Seq(LevelRecords(Nat))
    OBVIOUS
  <2> QED
    BY <2>1 DEF EmptyBook, Books
<1>5. Entries(<<>>) = {}
  BY DEF Entries
<1>6. \A side \in Sides : LevelsSound(side, <<>>) /\ IdsApart(<<>>)
  BY <1>2, <1>5 DEF LevelsSound, IdsApart
<1>7. BookSound(EmptyBook)
  <2>1. ASSUME NEW side \in Sides
        PROVE  LevelsSound(side, EmptyBook[side]) /\ IdsApart(EmptyBook[side])
    BY <1>4, <1>6
  <2> QED
    BY <2>1, Zenon DEF BookSound
<1>8. EngineTyped
  BY <1>1, <1>2, <1>4, <1>7 DEF EngineTyped
<1>9. PlacedSound /\ RowsTyped
  BY <1>3 DEF PlacedSound, RowsTyped
<1>10. BookPlaced
  BY <1>1, <1>4, <1>5 DEF BookPlaced
<1>11. OpTyped /\ Works
  <2>1. placed \in Seq(Placements)
    BY <1>1, <1>2
  <2>2. OpFits(NoOp, placed) /\ WorkFits(NoOp, placed, rows, epoch)
    BY <2>1, NoOpFits
  <2>3. DOMAIN op = Submitters /\ \A w \in Submitters : op[w] = NoOp
    BY <1>1
  <2> QED
    BY <2>2, <2>3 DEF OpTyped, Works
<1>12. PipelineTyped
  <2>1. op["consumer"].pc = "idle"
    BY <1>1 DEF Submitters, NoOp
  <2> QED
    BY <1>1, <1>2, <2>1, NoOrderTyped DEF PipelineTyped
<1>13. OutputTyped
  BY <1>1, <1>2 DEF OutputTyped
<1>14. BoundsTyped
  BY <1>1, <1>2, BoundsAssumption DEF BoundsTyped
<1> QED
  BY <1>8, <1>9, <1>10, <1>11, <1>12, <1>13, <1>14
     DEF Sound, EngineSound, WorkSound, RestTyped

(***************************************************************************)
(* placeOrder.                                                             *)
(***************************************************************************)
LEMMA PlacedKeeps ==
  ASSUME Sound, NEW w \in Submitters, NEW input \in InputRecords, NEW command \in Nat,
         Placed(w, input, command)
  PROVE  /\ EngineSound' /\ WorkSound'
         /\ \E o : /\ Placing(w, input, command, o)
                   /\ Extends(placed', Placement(command, o))
<1>1. PICK o : Placing(w, input, command, o)
  BY SubmitEffect DEF Placed, Sound, WorkSound
<1>2. /\ EngineTyped /\ PlacedSound /\ BookPlaced /\ OpTyped /\ Works /\ RowsTyped
      /\ epoch \in 0..Len(placed)
  BY DEF Sound, EngineSound, WorkSound, RestTyped, BoundsTyped
<1>3. PICK last : last = Placement(command, o)
  OBVIOUS
<1>4. Extends(placed', last) /\ EngineTyped' /\ PlacedSound'
  BY <1>1, <1>2, <1>3, PlacingKeepsPlaced
<1>5. epoch' = epoch /\ rows' = rows
  BY DEF Placed
<1>6. BookPlaced'
  BY <1>1, <1>2, <1>5, PlacingKeepsBookPlaced
<1>7. last.status = o.status
  BY <1>3 DEF Placement
<1>8. OpTyped' /\ Works'
  <2>1. PICK n \in Nat : n = Len(placed)
    BY <1>2 DEF EngineTyped
  <2>2. DOMAIN rows \subseteq 1..n
    BY <1>2, <2>1 DEF EngineTyped, RowsTyped
  <2>3. IsFiniteSet(DOMAIN rows)
    <3>1. IsFiniteSet(1..n)
      BY FS_Interval
    <3> QED
      BY <2>2, <3>1, FS_Subset
  <2>4. Stored \in Nat
    BY <2>3, FS_CardinalityType DEF Stored
  <2> QED
    BY <1>1, <1>2, <1>4, <1>5, <1>7, <2>4, PlacingWorks
<1>9. RowsTyped'
  <2>1. PICK all : all = placed'
    OBVIOUS
  <2>2. \A p \in DOMAIN placed : p \in DOMAIN all /\ all[p] = placed[p]
    BY <1>4, <2>1 DEF Extends
  <2> QED
    BY <1>2, <1>5, <2>1, <2>2 DEF RowsTyped
<1> QED
  BY <1>1, <1>3, <1>4, <1>6, <1>8, <1>9 DEF EngineSound, WorkSound

(***************************************************************************)
(* A commit.                                                               *)
(***************************************************************************)
LEMMA CommitKeepsSound ==
  ASSUME IInv, Sound, NEW w \in Submitters, Commit(w)
  PROVE  EngineSound' /\ WorkSound'
<1>1. /\ EngineTyped /\ PlacedSound /\ BookPlaced /\ OpTyped /\ Works /\ RowsTyped
  BY DEF Sound, EngineSound, WorkSound
<1>2. OpTyped' /\ Works' /\ RowsTyped'
  BY <1>1, CommitWorks, CommitKeepsRowsTyped
<1>3. placed' = placed /\ book' = book /\ lastPrice' = lastPrice /\ epoch' = epoch
  BY DEF Commit, engine, bounds
<1>4. DOMAIN rows \subseteq DOMAIN rows'
  BY DEF Commit
<1>5. EngineTyped' /\ PlacedSound'
  BY <1>1, <1>3 DEF EngineTyped, PlacedSound
<1>6. BookPlaced'
  BY <1>1, <1>3, <1>4 DEF BookPlaced
<1> QED
  BY <1>2, <1>5, <1>6 DEF EngineSound, WorkSound

(***************************************************************************)
(* A restart: the book is made of the rows with something remaining.       *)
(***************************************************************************)
LEMMA TableIsSound == ASSUME IInv, Sound PROVE TableSound /\ IsFiniteSet(DOMAIN rows)
BY DEF IInv, RowsPlaced, Sound, EngineSound, WorkSound, TableSound

LEMMA OpenRowCanRest ==
  ASSUME Sound, NEW id \in DOMAIN rows, rows[id].remaining > 0
  PROVE  CanRest(placed, id)
<1>1. /\ id \in DOMAIN placed /\ placed[id].status = "accepted"
      /\ placed[id].order.type = "market" => rows[id].remaining = 0
  BY DEF Sound, WorkSound, RowsTyped
<1>2. placed[id] \in Placements
  BY <1>1 DEF Sound, EngineSound, EngineTyped
<1>3. placed[id].order.type \in {"limit", "market"}
  BY <1>2 DEF Placements, Types
<1> QED
  BY <1>1, <1>3 DEF CanRest

LEMMA RestartKeepsSound ==
  ASSUME IInv, Sound, Restart
  PROVE  EngineSound' /\ WorkSound'
<1>1. /\ placed' = placed /\ rows' = rows /\ lastPrice' = NoPrice /\ epoch' = Len(placed)
      /\ op' = [w \in Submitters |-> NoOp]
  BY DEF Restart, database
<1>2. PICK at \in RestoreOrders : book' = Restored(at)
  BY DEF Restart
<1>3. /\ EngineTyped /\ PlacedSound /\ RowsTyped
  BY DEF Sound, EngineSound, WorkSound
<1>4. PICK n : n = Cardinality(Open)
  OBVIOUS
<1>5. PICK b : b = Restored(at)
  OBVIOUS
<1>6. RestoredUpTo(at, n, b)
  BY <1>4, <1>5, TableIsSound, RestoredSound
<1>7. /\ b \in Books(Nat) /\ BookSound(b)
      /\ \A side \in Sides : HoldsRows(b[side], at, side, n)
  BY <1>6, Zenon DEF RestoredUpTo
<1>8. EngineTyped'
  BY <1>1, <1>2, <1>3, <1>5, <1>7 DEF EngineTyped, NoPrice
<1>9. PlacedSound' /\ RowsTyped'
  BY <1>1, <1>3 DEF PlacedSound, RowsTyped
<1>10. ASSUME NEW side \in Sides, NEW e \in Entries(b[side])
       PROVE  /\ CanRest(placed, e.id) /\ placed[e.id].order.side = side
              /\ e.id \in DOMAIN rows
  <2>1. PICK id \in OpenRows(at, side, n) : e = RowEntry(id)
    BY <1>7 DEF HoldsRows
  <2>2. /\ id \in DOMAIN rows /\ rows[id].remaining > 0
        /\ placed[id].order.side = side
    BY <2>1 DEF OpenRows, Open
  <2>3. e.id = id
    BY <2>1, <2>2, TableIsSound, RowEntrySound
  <2> QED
    BY <2>2, <2>3, OpenRowCanRest
<1>11. BookPlaced'
  BY <1>1, <1>2, <1>5, <1>10 DEF BookPlaced
<1>12. OpTyped' /\ Works'
  <2>1. OpFits(NoOp, placed) /\ \A floor : WorkFits(NoOp, placed, rows, floor)
    BY <1>3, NoOpFits DEF EngineTyped
  <2>2. DOMAIN op' = Submitters /\ \A w \in Submitters : op'[w] = NoOp
    BY <1>1
  <2> QED
    BY <1>1, <2>1, <2>2 DEF OpTyped, Works
<1> QED
  BY <1>8, <1>9, <1>11, <1>12 DEF EngineSound, WorkSound

(***************************************************************************)
(* The other steps of a processOrder.                                      *)
(***************************************************************************)
LEMMA NextSequenceIsNat == ASSUME IInv PROVE Max(Sequences \cup {0}) + 1 \in Nat
<1>1. PICK n \in Nat : n = Stored
  BY StoredIsNat DEF IInv
<1>2. Max(Sequences \cup {0}) = n
  BY <1>1, MaxOfNumbers DEF IInv, SequencesContiguous, Stored
<1> QED
  BY <1>2

LEMMA ProcessStepKeepsWorks ==
  ASSUME IInv, Sound, NEW w \in Submitters, Moves(w)
  PROVE  OpTyped' /\ Works'
<1>1. /\ EngineTyped /\ PlacedSound /\ OpTyped /\ Works /\ RowsTyped
  BY DEF Sound, EngineSound, WorkSound
<1>2. CASE CallFails(w) \/ CreateConflicts(w) \/ MakerMissing(w)
  <2>1. Abort(w)
    BY <1>2 DEF CallFails, CreateConflicts, MakerMissing
  <2>2. Leave(w) /\ placed' = placed /\ rows' = rows /\ epoch' = epoch
    BY <2>1 DEF Abort, engine, database
  <2> QED
    BY <1>1, <2>2, LeaveWorks
<1>3. CASE EnqueueCommits(w)
  <2>1. Leave(w) /\ placed' = placed /\ rows' = rows /\ epoch' = epoch
    BY <1>3 DEF EnqueueCommits, engine, bounds
  <2> QED
    BY <1>1, <2>1, LeaveWorks
<1>4. CASE Allocate(w)
  BY <1>1, <1>4, NextSequenceIsNat, AllocateWorks
<1>5. CASE CreateRow(w)
  BY <1>1, <1>5, CreateRowWorks
<1>6. CASE InsertTrade(w)
  BY <1>1, <1>6, InsertTradeWorks
<1>7. CASE ReadMaker(w)
  BY <1>1, <1>7, ReadMakerWorks
<1>8. CASE UpdateMaker(w)
  BY <1>1, <1>8, UpdateMakerWorks
<1>9. CASE CacheNext(w) \/ CacheDone(w) \/ EnqueueAll(w)
  BY <1>1, <1>9, AfterCommitWorks
<1> QED
  BY <1>2, <1>3, <1>4, <1>5, <1>6, <1>7, <1>8, <1>9 DEF ProcessStep, Moves

LEMMA ElsewhereKeeps ==
  ASSUME Sound, Elsewhere
  PROVE  EngineSound' /\ RowsTyped'
BY DEF Elsewhere, Sound, EngineSound, EngineTyped, PlacedSound, BookPlaced,
       WorkSound, RowsTyped

LEMMA NextKeepsEngineAndWork ==
  ASSUME IInv, Sound, [Next]_vars
  PROVE  EngineSound' /\ WorkSound'
<1>1. PipelineTyped /\ BoundsTyped
  BY DEF Sound, RestTyped
<1>2. CASE \E w \in Submitters, input \in InputRecords, command \in Nat :
             Placed(w, input, command)
  <2>1. PICK w \in Submitters, input \in InputRecords, command \in Nat :
          Placed(w, input, command)
    BY <1>2
  <2> QED
    BY <2>1, PlacedKeeps
<1>3. CASE \E w \in Submitters : Commit(w)
  BY <1>3, CommitKeepsSound
<1>4. CASE Restart
  BY <1>4, RestartKeepsSound
<1>5. CASE Elsewhere /\ (op' = op \/ \E w \in Submitters : Moves(w))
  <2>1. EngineSound' /\ RowsTyped'
    BY <1>5, ElsewhereKeeps
  <2>2. ASSUME op' = op PROVE OpTyped' /\ Works'
    BY <1>5, <2>2 DEF Elsewhere, Sound, WorkSound, OpTyped, Works
  <2>3. OpTyped' /\ Works'
    BY <1>5, <2>2, ProcessStepKeepsWorks
  <2> QED
    BY <2>1, <2>3 DEF WorkSound
<1> QED
  BY <1>1, <1>2, <1>3, <1>4, <1>5, Kinds

(***************************************************************************)
(* A step of a processOrder, and the rest of the state.                    *)
(***************************************************************************)
LEMMA OpStep ==
  ASSUME OpTyped, NEW w \in Submitters, ProcessStep(w) \/ CallFails(w)
  PROVE  /\ op[w].pc # "idle" /\ topic' = topic /\ first' = first /\ committed' = committed
         /\ pending' = pending \/ pending' = NoOrder
         /\ DOMAIN op' = Submitters /\ \A v \in Submitters \ {w} : op'[v] = op[v]
         /\ Leave(w) \/ next' = next
         /\ UNCHANGED <<placed, epoch, ticks, restarts, rejoins>>
<1>1. ASSUME Leave(w), op[w].pc # "idle",
             UNCHANGED <<topic, first, committed, placed, epoch, ticks, restarts, rejoins>>,
             pending' = pending \/ pending' = NoOrder
      PROVE  /\ op[w].pc # "idle" /\ topic' = topic /\ first' = first /\ committed' = committed
             /\ pending' = pending \/ pending' = NoOrder
             /\ DOMAIN op' = Submitters /\ \A v \in Submitters \ {w} : op'[v] = op[v]
             /\ Leave(w) \/ next' = next
             /\ UNCHANGED <<placed, epoch, ticks, restarts, rejoins>>
  BY <1>1, LeaveEffect DEF Becomes
<1>2. CASE CallFails(w) \/ CreateConflicts(w) \/ MakerMissing(w)
  BY <1>1, <1>2 DEF CallFails, CreateConflicts, MakerMissing, Abort, engine
<1>3. CASE EnqueueCommits(w)
  BY <1>1, <1>3 DEF EnqueueCommits, engine, bounds
<1>4. CASE \/ Allocate(w) \/ CreateRow(w) \/ InsertTrade(w) \/ ReadMaker(w)
           \/ UpdateMaker(w) \/ CacheDone(w) \/ EnqueueAll(w)
  <2>1. UNCHANGED <<topic, first, next, committed, pending, placed, epoch, ticks,
                  restarts, rejoins>>
    BY <1>4, SameUnlessOp
  <2>2. op[w].pc # "idle"
    BY <1>4 DEF Allocate, CreateRow, InsertTrade, ReadMaker, UpdateMaker, CacheDone, EnqueueAll
  <2>3. DOMAIN op' = Submitters /\ \A v \in Submitters \ {w} : op'[v] = op[v]
    <3>1. CASE Allocate(w)
      BY <3>1, AllocateEffect DEF Becomes
    <3>2. CASE CreateRow(w)
      BY <3>2, CreateRowEffect DEF Becomes
    <3>3. CASE InsertTrade(w)
      BY <3>3, InsertTradeEffect DEF Becomes
    <3>4. CASE ReadMaker(w)
      BY <3>4, ReadMakerEffect DEF Becomes
    <3>5. CASE UpdateMaker(w)
      BY <3>5, UpdateMakerEffect DEF Becomes
    <3>6. CASE CacheDone(w) \/ EnqueueAll(w)
      BY <3>6 DEF CacheDone, EnqueueAll, OpTyped
    <3> QED
      BY <1>4, <3>1, <3>2, <3>3, <3>4, <3>5, <3>6
  <2> QED
    BY <2>1, <2>2, <2>3
<1>5. CASE Commit(w)
  BY <1>5, CommitEffect DEF Commit, Becomes, pipeline, engine, bounds
<1>6. CASE CacheNext(w)
  BY <1>6, CacheNextEffect DEF CacheNext, Becomes, pipeline, engine, bounds
<1> QED
  BY <1>2, <1>3, <1>4, <1>5, <1>6 DEF ProcessStep

LEMMA OpStepKeepsPipeline ==
  ASSUME OpTyped, PipelineTyped, NEW w \in Submitters, ProcessStep(w) \/ CallFails(w)
  PROVE  PipelineTyped'
<1>1. /\ op[w].pc # "idle" /\ topic' = topic /\ first' = first /\ committed' = committed
      /\ pending' = pending \/ pending' = NoOrder
      /\ DOMAIN op' = Submitters /\ \A v \in Submitters \ {w} : op'[v] = op[v]
      /\ Leave(w) \/ next' = next
  BY OpStep
<1>2. pending' \in InputRecords
  BY <1>1, NoOrderTyped DEF PipelineTyped
<1>3. PICK n \in Nat : n = Len(topic)
  BY DEF PipelineTyped
<1>4. /\ next \in 0..n /\ committed \in 0..next /\ first \in 0..committed
      /\ op["consumer"].pc # "idle" => next < n
  BY <1>3 DEF PipelineTyped
<1>5. /\ next' \in 0..n /\ committed' \in 0..next' /\ first' \in 0..committed'
      /\ op'["consumer"].pc # "idle" => next' < n
  <2>1. CASE w = "consumer"
    <3>1. next < n
      BY <1>1, <1>4, <2>1
    <3>2. CASE Leave(w)
      <4>1. next' = next + 1 /\ op'["consumer"] = NoOp
        BY <2>1, <3>2, LeaveEffect DEF Leave, Becomes
      <4> QED
        BY <1>1, <1>4, <3>1, <4>1 DEF NoOp
    <3>3. CASE next' = next
      BY <1>1, <1>4, <3>1, <3>3
    <3> QED
      BY <1>1, <3>2, <3>3
  <2>2. CASE w # "consumer"
    <3>1. op'["consumer"] = op["consumer"] /\ next' = next
      BY <1>1, <2>2 DEF Leave, Submitters
    <3> QED
      BY <1>1, <1>4, <3>1
  <2> QED
    BY <2>1, <2>2
<1> QED
  BY <1>1, <1>2, <1>3, <1>5 DEF PipelineTyped

LEMMA OpStepKeepsOutput ==
  ASSUME EngineTyped, OpTyped, OutputTyped, NEW w \in Submitters, ProcessStep(w) \/ CallFails(w)
  PROVE  OutputTyped'
<1>1. placed' = placed
  BY OpStep
<1>2. PICK n \in Nat : n = Len(placed)
  BY DEF EngineTyped
<1>3. OpFits(op[w], placed)
  BY DEF OpTyped
<1>4. PICK captured \in Seq(1..n) : captured = op[w].captured
  BY <1>2, <1>3 DEF OpFits
<1>5. CASE CacheNext(w)
  <2>1. PICK k : k = op[w].cached + 1
    OBVIOUS
  <2>2. k \in 1..Len(captured)
    <3>1. PICK m \in Nat : m = Len(captured)
      BY <1>4
    <3>2. PICK c \in Nat : c = op[w].cached
      BY <1>3 DEF OpFits
    <3>3. c < m
      BY <1>4, <1>5, <3>1, <3>2 DEF CacheNext
    <3>4. c + 1 \in 1..m
      BY <3>3
    <3> QED
      BY <2>1, <3>1, <3>2, <3>4
  <2>3. PICK id : id = captured[k]
    OBVIOUS
  <2>4. id \in 1..n
    BY <2>2, <2>3, ElementOfSeq
  <2>5. cache' = cache \/ cache' = id
    BY <1>4, <1>5, <2>1, <2>3 DEF CacheNext
  <2>6. outbox' = outbox
    BY <1>5 DEF CacheNext, database
  <2> QED
    BY <1>1, <1>2, <2>4, <2>5, <2>6 DEF OutputTyped
<1>6. CASE EnqueueCommits(w)
  <2>1. outbox' = outbox \o captured /\ cache' = cache
    BY <1>4, <1>6 DEF EnqueueCommits
  <2>2. outbox \in Seq(1..n)
    BY <1>2 DEF OutputTyped
  <2>3. outbox \o captured \in Seq(1..n)
    BY <2>2
  <2> QED
    BY <1>1, <1>2, <2>1, <2>3 DEF OutputTyped
<1>7. CASE ~CacheNext(w) /\ ~EnqueueCommits(w)
  <2>1. outbox' = outbox /\ cache' = cache
    BY <1>7 DEF ProcessStep, CallFails, CreateConflicts, MakerMissing, Abort, Allocate,
       CreateRow, InsertTrade, ReadMaker, UpdateMaker, Commit, CacheDone, EnqueueAll, database
  <2> QED
    BY <1>1, <2>1 DEF OutputTyped
<1> QED
  BY <1>5, <1>6, <1>7

LEMMA OpStepKeepsBounds ==
  ASSUME OpTyped, BoundsTyped, NEW w \in Submitters, ProcessStep(w) \/ CallFails(w)
  PROVE  BoundsTyped'
<1>1. UNCHANGED <<placed, epoch, ticks, restarts, rejoins>>
  BY OpStep, SMTT(20)
<1>2. faults' = faults \/ (faults' = faults + 1 /\ faults + restarts + rejoins < MaxFailures)
  BY DEF ProcessStep, CallFails, CreateConflicts, MakerMissing, Allocate, CreateRow,
     InsertTrade, ReadMaker, UpdateMaker, Commit, CacheNext, CacheDone, EnqueueAll,
     EnqueueCommits, bounds
<1> QED
  BY <1>1, <1>2, BoundsAssumption DEF BoundsTyped

LEMMA PlacedKeepsRest ==
  ASSUME Sound, NEW w \in Submitters, NEW input \in InputRecords, NEW command \in Nat,
         Placed(w, input, command), Consume \/ Tick \/ TakeBack
  PROVE  RestTyped'
<1>1. PICK o : /\ Placing(w, input, command, o)
               /\ Extends(placed', Placement(command, o))
  BY PlacedKeeps
<1>2. PICK n \in Nat : n = Len(placed)
  BY DEF Sound, EngineSound, EngineTyped
<1>3. Len(placed') = n + 1
  BY <1>1, <1>2 DEF Extends
<1>4. PipelineTyped /\ OutputTyped /\ BoundsTyped
  BY DEF Sound, RestTyped
<1>5. /\ UNCHANGED <<rows, trades, outbox, cache, epoch, faults, restarts, rejoins,
                 topic, first, next, committed>>
      /\ op[w].pc = "idle"
  BY DEF Placed
<1>6. OutputTyped'
  <2>1. outbox \in Seq(1..n) /\ cache \in 0..n
    BY <1>2, <1>4 DEF OutputTyped
  <2>2. outbox \in Seq(1..(n + 1))
    BY <2>1, SeqOfMore
  <2>3. cache \in 0..(n + 1)
    BY <2>1
  <2> QED
    BY <1>3, <1>5, <2>2, <2>3 DEF OutputTyped
<1>7. BoundsTyped'
  <2>1. epoch \in 0..(n + 1)
    BY <1>2, <1>4 DEF BoundsTyped
  <2>2. ticks' \in 0..MaxTicks
    <3>1. CASE Tick
      BY <1>4, <3>1, BoundsAssumption DEF Tick, BoundsTyped
    <3>2. CASE Consume \/ TakeBack
      BY <1>4, <3>2 DEF Consume, TakeBack, BoundsTyped, bounds
    <3> QED
      BY <3>1, <3>2
  <2> QED
    BY <1>3, <1>4, <1>5, <2>1, <2>2 DEF BoundsTyped
<1>8. PipelineTyped'
  <2>1. pending' \in InputRecords
    <3>1. CASE Consume
      BY <1>4, <3>1, ConsumeEffect DEF PipelineTyped
    <3>2. CASE Tick
      BY <1>4, <3>2, TickEffect DEF BoundsTyped
    <3>3. CASE TakeBack
      BY <1>4, <3>3, TakeBackEffect, NoOrderTyped
    <3> QED
      BY <3>1, <3>2, <3>3
  <2>2. op'["consumer"].pc # "idle" => next < Len(topic)
    <3>1. CASE Consume
      BY <1>4, <3>1, ConsumeEffect
    <3>2. CASE Tick \/ TakeBack
      <4>1. Submit("synthetic", pending, 0) \/ \E m \in MakerOrders : Submit("synthetic", m, 0)
        BY <3>2 DEF Tick, TakeBack
      <4>2. \E i : \E x : Placing("synthetic", i, 0, x)
        BY <4>1, SubmitEffect DEF Submitters, Sound, WorkSound
      <4>3. op'["consumer"] = Captures(op["consumer"], Len(placed) + 1)
        BY <4>2 DEF Placing, Submitters
      <4>4. op'["consumer"].pc = op["consumer"].pc
        BY <4>3 DEF Captures
      <4> QED
        BY <1>4, <4>4 DEF PipelineTyped
    <3> QED
      BY <3>1, <3>2
  <2> QED
    BY <1>4, <1>5, <2>1, <2>2 DEF PipelineTyped
<1> QED
  BY <1>6, <1>7, <1>8 DEF RestTyped

\* Joining its group, the consumer resumes within the partition.
LEMMA ResumeKeeps ==
  ASSUME PipelineTyped, Resume, topic' = topic
  PROVE  next' \in 0..Len(topic') /\ committed' \in 0..next' /\ first' \in 0..committed'
<1>1. PICK n \in Nat : n = Len(topic)
  BY DEF PipelineTyped
<1>2. next \in 0..n /\ committed \in 0..next /\ first \in 0..committed
  BY <1>1 DEF PipelineTyped
<1>3. /\ committed' = next'
      /\ \/ next' = n /\ first' = n
         \/ next' = committed /\ first' = first
  BY <1>1 DEF Resume
<1> QED
  BY <1>1, <1>2, <1>3

LEMMA RejoinEffect ==
  ASSUME Rejoin
  PROVE  /\ Resume /\ op["consumer"].pc = "idle"
         /\ rejoins' = rejoins + 1 /\ faults + restarts + rejoins < MaxFailures
         /\ UNCHANGED <<topic, pending, book, lastPrice, placed, op, rows, trades, outbox,
                        cache, epoch, ticks, faults, restarts>>
BY DEF Rejoin, engine, database

LEMMA RejoinKeepsRest ==
  ASSUME Sound, Rejoin
  PROVE  RestTyped'
<1>1. PipelineTyped /\ OutputTyped /\ BoundsTyped
  BY DEF Sound, RestTyped
<1>2. PipelineTyped'
  BY <1>1, RejoinEffect, ResumeKeeps DEF PipelineTyped
<1>3. OutputTyped'
  BY <1>1, RejoinEffect DEF OutputTyped
<1>4. BoundsTyped'
  BY <1>1, RejoinEffect, BoundsAssumption DEF BoundsTyped
<1> QED
  BY <1>2, <1>3, <1>4 DEF RestTyped

LEMMA RestartKeepsRest ==
  ASSUME Sound, Restart
  PROVE  RestTyped'
<1>1. /\ PipelineTyped /\ OutputTyped /\ BoundsTyped /\ Len(placed) \in Nat
  BY DEF Sound, RestTyped, EngineSound, EngineTyped
<1>2. /\ topic' = topic /\ Resume /\ pending' = NoOrder
      /\ op' = [w \in Submitters |-> NoOp] /\ placed' = placed
      /\ epoch' = Len(placed) /\ ticks' = ticks /\ faults' = faults /\ rejoins' = rejoins
      /\ restarts' = restarts + 1 /\ faults + restarts + rejoins < MaxFailures
  BY DEF Restart
<1>3. outbox' = outbox /\ cache' = cache
  BY DEF Restart, database
<1>4. PipelineTyped'
  <2>1. op'["consumer"].pc = "idle"
    BY <1>2 DEF Submitters, NoOp
  <2>2. next' \in 0..Len(topic') /\ committed' \in 0..next' /\ first' \in 0..committed'
    BY <1>1, <1>2, ResumeKeeps
  <2> QED
    BY <1>1, <1>2, <2>1, <2>2, NoOrderTyped DEF PipelineTyped
<1>5. OutputTyped'
  BY <1>1, <1>2, <1>3 DEF OutputTyped
<1>6. BoundsTyped'
  BY <1>1, <1>2, BoundsAssumption DEF BoundsTyped
<1> QED
  BY <1>4, <1>5, <1>6 DEF RestTyped

LEMMA NextKeepsRest ==
  ASSUME Sound, [Next]_vars
  PROVE  RestTyped'
<1>1. /\ PipelineTyped /\ OutputTyped /\ BoundsTyped /\ OpTyped /\ EngineTyped
  BY DEF Sound, RestTyped, WorkSound, EngineSound
<1>2. CASE Consume \/ Tick \/ TakeBack
  <2>1. \E w \in Submitters, input \in InputRecords, command \in Nat :
          Placed(w, input, command)
    <3>1. CASE Consume
      BY <1>1, <3>1, ConsumeEffect DEF Submitters
    <3>2. CASE Tick
      <4>1. \E maker \in MakerOrders : Placed("synthetic", maker, 0) /\ maker \in InputRecords
        BY <1>1, <3>2, TickEffect DEF BoundsTyped
      <4> QED
        BY <4>1 DEF Submitters
    <3>3. CASE TakeBack
      BY <1>1, <3>3, TakeBackEffect DEF Submitters
    <3> QED
      BY <1>2, <3>1, <3>2, <3>3
  <2> QED
    BY <1>2, <2>1, PlacedKeepsRest
<1>3. CASE \E w \in Submitters : ProcessStep(w) \/ CallFails(w)
  <2>1. PipelineTyped' /\ OutputTyped' /\ BoundsTyped'
    BY <1>1, <1>3, OpStepKeepsPipeline, OpStepKeepsOutput, OpStepKeepsBounds
  <2> QED
    BY <2>1 DEF RestTyped
<1>4. CASE Restart
  BY <1>4, RestartKeepsRest
<1>5. CASE Send
  <2>1. /\ \E input \in Commands : topic' = Append(topic, input)
        /\ UNCHANGED <<first, next, committed, pending, op, placed, outbox, cache,
                       epoch, ticks, faults, restarts, rejoins>>
    BY <1>5 DEF Send, engine, database, bounds
  <2>2. PICK input \in Commands : topic' = Append(topic, input)
    BY <2>1
  <2>3. PICK n \in Nat : n = Len(topic)
    BY <1>1 DEF PipelineTyped
  <2>4. topic' \in Seq(Commands) /\ Len(topic') = n + 1
    BY <1>1, <2>2, <2>3 DEF PipelineTyped
  <2>5. PipelineTyped'
    <3>1. next \in 0..n /\ committed \in 0..next /\ first \in 0..committed
          /\ (op["consumer"].pc # "idle" => next < n)
          /\ pending \in InputRecords
      BY <1>1, <2>3 DEF PipelineTyped
    <3>2. next \in 0..(n + 1) /\ (op["consumer"].pc # "idle" => next < n + 1)
      BY <3>1
    <3> QED
      BY <2>1, <2>4, <3>1, <3>2 DEF PipelineTyped
  <2> QED
    BY <1>1, <2>1, <2>5 DEF RestTyped, OutputTyped, BoundsTyped
<1>6. CASE SnapshotExpires
  <2>1. PipelineTyped' /\ BoundsTyped'
    BY <1>1, <1>6 DEF SnapshotExpires, PipelineTyped, BoundsTyped, pipeline, bounds, engine
  <2>2. OutputTyped'
    <3>1. Len(placed) \in Nat
      BY <1>1 DEF EngineTyped
    <3> QED
      BY <1>1, <1>6, <3>1 DEF SnapshotExpires, OutputTyped, database, engine
  <2> QED
    BY <2>1, <2>2 DEF RestTyped
<1>7. CASE CommitOffset
  <2>1. /\ committed' = next
        /\ UNCHANGED <<topic, first, next, pending, op, placed, outbox, cache,
                       epoch, ticks, faults, restarts, rejoins>>
    BY <1>7 DEF CommitOffset, engine, database, bounds
  <2>2. next \in 0..next /\ first \in 0..next
    BY <1>1 DEF PipelineTyped
  <2> QED
    BY <1>1, <2>1, <2>2 DEF RestTyped, PipelineTyped, OutputTyped, BoundsTyped
<1>8. CASE UNCHANGED vars
  BY <1>1, <1>8 DEF vars, pipeline, engine, database, bounds, RestTyped, PipelineTyped,
     OutputTyped, BoundsTyped
<1>9. CASE Rejoin
  BY <1>9, RejoinKeepsRest
<1> QED
  BY <1>2, <1>3, <1>4, <1>5, <1>6, <1>7, <1>8, <1>9 DEF Next

LEMMA Soundness == Spec => []Sound
<1>1. Init => Sound
  BY InitSound
<1>2. IInv /\ Sound /\ [Next]_vars => Sound'
  BY NextKeepsEngineAndWork, NextKeepsRest DEF Sound
<1> QED
  BY <1>1, <1>2, Invariance, PTL DEF Spec

\* The engine, the table, the work under way, the offsets and the outbox have
\* their types in every reachable state; in particular a transaction only reads
\* and writes rows that are in the table (persistProcessedOrder).
THEOREM Typed == Spec => []TypeOK
<1>1. ASSUME IInv, Sound PROVE TypeOK
  <2>1. PipelineTyped /\ OutputTyped /\ BoundsTyped /\ EngineTyped /\ PlacedSound
        /\ OpTyped /\ Works /\ RowsTyped
    BY <1>1 DEF Sound, RestTyped, WorkSound, EngineSound
  <2>2. lastPrice \in Nat /\ placed \in Seq(Placements)
    BY <2>1 DEF EngineTyped
  <2>3. ASSUME NEW w \in Submitters
        PROVE  /\ op[w].pc \in Locations
               /\ op[w].id \in 0..Len(placed)
               /\ op[w].since \in Nat /\ op[w].sequence \in Nat /\ op[w].read \in Nat
               /\ op[w].pc \in {"trade", "read", "update"} => op[w].trade \in DOMAIN Mine(w).trades
               /\ \A id \in DOMAIN op[w].writes : id \in DOMAIN rows /\ op[w].writes[id] \in Nat
               /\ op[w].captured \in Seq(1..Len(placed))
               /\ op[w].cached \in 0..Len(op[w].captured)
    <3>1. PICK o : o = op[w]
      OBVIOUS
    <3>2. OpFits(o, placed) /\ WorkFits(o, placed, rows, epoch)
      BY <2>1, <3>1 DEF OpTyped, Works
    <3>3. /\ o.pc \in Locations /\ o.since \in Nat /\ o.sequence \in Nat /\ o.read \in Nat
          /\ o.writes \in Writes
      BY <2>1, <3>1, OpAt
    <3>4. PICK ts : ts = placed[o.id].trades
      OBVIOUS
    <3>5. o.pc \in {"trade", "read", "update"} => o.trade \in DOMAIN ts
      <4> HAVE o.pc \in {"trade", "read", "update"}
      <4>1. o.pc \in Writing /\ o.pc # "commit"
        BY LocationsSplit
      <4>2. WriteSound(o, ts, rows)
        BY <3>2, <3>4, <4>1 DEF WorkFits
      <4>3. DOMAIN ts = 1..Len(ts) /\ Len(ts) \in Nat
        BY <2>1, <3>1, <3>4, <4>1, WritingFacts
      <4>4. o.trade \in 1..(Len(ts) + 1) /\ o.trade # Len(ts) + 1
        BY <4>1, <4>2 DEF WriteSound
      <4> QED
        BY <4>3, <4>4
    <3>6. \A id \in DOMAIN o.writes : id \in DOMAIN rows /\ o.writes[id] \in Nat
      <4>1. CASE o.pc \in Writing
        <5>1. WriteSound(o, ts, rows)
          BY <3>2, <3>4, <4>1 DEF WorkFits
        <5>2. \A id \in DOMAIN o.writes : id \in DOMAIN rows
          BY <5>1 DEF WriteSound, Recorded
        <5> QED
          BY <3>3, <5>2 DEF Writes
      <4>2. CASE o.pc \notin Writing
        <5>1. o.writes = NoWrites
          BY <3>2, <4>2 DEF WorkFits
        <5> QED
          BY <5>1 DEF NoWrites
      <4> QED
        BY <4>1, <4>2
    <3> QED
      BY <3>1, <3>2, <3>3, <3>4, <3>5, <3>6 DEF OpFits, Mine
  <2>4. \A id \in DOMAIN rows :
          /\ id \in DOMAIN placed /\ placed[id].status = "accepted"
          /\ rows[id] \in [sequence : Nat \ {0}, since : Nat, remaining : Nat, filled : Nat]
    BY <2>1 DEF RowsTyped, RowRecords
  <2> QED
    BY <2>1, <2>2, <2>3, <2>4 DEF TypeOK, PipelineTyped, OutputTyped, BoundsTyped
<1> QED
  BY <1>1, Invariance, Soundness, PTL

(***************************************************************************)
(* A trade is stored with its taker, whose transaction found its maker's   *)
(* row: the maker's sequence is an earlier one.                            *)
(***************************************************************************)
LEMMA CommitMakers ==
  ASSUME IInv, Sound, MakerBeforeTaker, NEW w \in Submitters, Commit(w)
  PROVE  MakerBeforeTaker'
<1>1. PICK o : o = op[w]
  OBVIOUS
<1>2. PICK ts : ts = placed[o.id].trades
  OBVIOUS
<1>3. /\ EngineTyped /\ PlacedSound /\ OpTyped /\ Works /\ RowsTyped
  BY DEF Sound, EngineSound, WorkSound
<1>4. CommitsTo(w, o, ts)
  BY <1>1, <1>2, <1>3, CommitWrites
<1>5. o.pc \in Writing /\ o.id \notin DOMAIN rows
  BY <1>4, LocationsSplit DEF CommitsTo
<1>6. PICK n \in Nat : n = Stored
  BY StoredIsNat DEF IInv
<1>7. o.sequence = n + 1
  BY <1>1, <1>5, <1>6 DEF IInv, WriterIsNext
<1>8. \A m \in DOMAIN rows : rows[m].sequence \in 1..n
  BY <1>6 DEF IInv, SequencesContiguous, Sequences, Stored
<1>9. DOMAIN rows' = DOMAIN rows \cup {o.id} /\ rows'[o.id].sequence = n + 1
  BY <1>4, <1>7 DEF CommitsTo
<1>10. \A m \in DOMAIN rows : rows'[m].sequence = rows[m].sequence
  <2> SUFFICES ASSUME NEW m \in DOMAIN rows PROVE rows'[m].sequence = rows[m].sequence
    OBVIOUS
  <2>1. CASE \E k \in DOMAIN ts : ts[k].maker = m
    <3>1. PICK k \in DOMAIN ts : rows'[m] = MakerRow(m, ts[k].quantity)
      BY <1>4, <2>1, SMTT(20) DEF CommitsTo
    <3> QED
      BY <3>1 DEF MakerRow
  <2>2. CASE ~\E k \in DOMAIN ts : ts[k].maker = m
    BY <1>4, <2>2 DEF CommitsTo
  <2> QED
    BY <2>1, <2>2
<1>11. \A k \in DOMAIN ts : ts[k].maker \in DOMAIN rows /\ ts[k].taker = o.id
  <2>1. \A k \in DOMAIN ts : ts[k].taker = o.id
    <3>1. o.id \in DOMAIN placed
      BY <1>4 DEF CommitsTo
    <3> QED
      BY <1>2, <1>3, <3>1 DEF PlacedSound, PlacementSound
  <2>2. \A k \in DOMAIN ts : ts[k].maker \in DOMAIN rows
    BY <1>4 DEF CommitsTo
  <2> QED
    BY <2>1, <2>2
<1>12. trades' = trades \cup Elements(ts)
  BY <1>4 DEF CommitsTo
<1>13. ASSUME NEW t \in trades'
       PROVE  {t.maker, t.taker} \subseteq DOMAIN rows' /\ rows'[t.maker].sequence < rows'[t.taker].sequence
  <2>1. CASE t \in trades
    <3>1. {t.maker, t.taker} \subseteq DOMAIN rows /\ rows[t.maker].sequence < rows[t.taker].sequence
      BY <2>1 DEF MakerBeforeTaker
    <3> QED
      BY <1>9, <1>10, <3>1
  <2>2. CASE t \in Elements(ts)
    <3>1. t.maker \in DOMAIN rows /\ t.taker = o.id
      BY <1>11, <2>2 DEF Elements
    <3> QED
      BY <1>8, <1>9, <1>10, <3>1
  <2> QED
    BY <1>12, <2>1, <2>2
<1> QED
  BY <1>13 DEF MakerBeforeTaker

LEMMA NextKeepsMakers ==
  ASSUME IInv, Sound, MakerBeforeTaker, [Next]_vars
  PROVE  MakerBeforeTaker'
<1>1. PipelineTyped /\ BoundsTyped
  BY DEF Sound, RestTyped
<1>2. ASSUME rows' = rows, trades' = trades PROVE MakerBeforeTaker'
  BY <1>2 DEF MakerBeforeTaker
<1>3. CASE \E w \in Submitters : Commit(w)
  BY <1>3, CommitMakers
<1>4. CASE \E w \in Submitters, input \in InputRecords, command \in Nat : Placed(w, input, command)
  BY <1>2, <1>4 DEF Placed
<1>5. CASE Restart
  BY <1>2, <1>5 DEF Restart, database
<1>6. CASE Elsewhere
  BY <1>2, <1>6 DEF Elsewhere
<1> QED
  BY <1>1, <1>3, <1>4, <1>5, <1>6, Kinds

\* A stored trade joins two stored orders and its maker has the earlier
\* sequence: tx.trade.create wants the maker's row, and the order's own row is
\* numbered after every committed one.
THEOREM MakersFirst == Spec => []MakerBeforeTaker
<1>1. Init => MakerBeforeTaker
  BY DEF Init, MakerBeforeTaker
<1>2. IInv /\ Sound /\ MakerBeforeTaker /\ [Next]_vars => MakerBeforeTaker'
  BY NextKeepsMakers
<1> QED
  BY <1>1, <1>2, Invariance, Soundness, PTL DEF Spec

(***************************************************************************)
(* The table and the book. What is left of an order is in the book, or was *)
(* taken by a trade of this process that is not stored.                    *)
(***************************************************************************)
EntriesOf(levels, id) == {e \in Entries(levels) : e.id = id}

TakenFrom(s, id) == {t \in Elements(s) : t.maker = id}

\* The trades with a maker in the placements after `floor`, but for the
\* stored ones.
Owed(all, stored, floor, id) ==
  {t \in UNION {TakenFrom(all[p].trades, id) : p \in (floor + 1)..Len(all)} : t \notin stored}

Left(all, table, id) ==
  IF id \in DOMAIN table THEN table[id].remaining ELSE all[id].resting

Explains(b, all, table, stored, floor, id) ==
  /\ HaveQuantities(Owed(all, stored, floor, id))
  /\ Left(all, table, id) = Total(EntriesOf(b[all[id].order.side], id))
                              + Total(Owed(all, stored, floor, id))

IsOpen(all, table, floor, id) ==
  \/ id \in DOMAIN table
  \/ id \in DOMAIN all /\ id > floor /\ all[id].status = "accepted"

Explained ==
  \A id : IsOpen(placed, rows, epoch, id) => Explains(book, placed, rows, trades, epoch, id)

LEMMA OneEntry ==
  ASSUME NEW levels, IdsApart(levels), NEW e \in Entries(levels)
  PROVE  EntriesOf(levels, e.id) = {e}
BY DEF IdsApart, EntriesOf

LEMMA NoEntry ==
  ASSUME NEW levels, NEW id, \A e \in Entries(levels) : e.id # id
  PROVE  EntriesOf(levels, id) = {}
BY DEF EntriesOf

\* What the rounds take from an entry is in their trades.
LEMMA FateAddsUp ==
  ASSUME NEW side, NEW levels \in Seq(LevelRecords(Nat)), IdsApart(levels), NEW order,
         NEW s, RoundsSound(Nat, side, levels, order, s), NEW id
  PROVE  /\ HaveQuantities(TakenFrom(s.trades, id))
         /\ Total(EntriesOf(levels, id))
              = Total(EntriesOf(s.levels, id)) + Total(TakenFrom(s.trades, id))
<1>1. IdsApart(s.levels) /\ s.trades \in Seq(TradeRecords(Nat))
  BY DEF RoundsSound, States
<1>2. CASE \A e \in Entries(levels) : e.id # id
  <2>1. EntriesOf(levels, id) = {}
    BY <1>2, NoEntry
  <2>2. EntriesOf(s.levels, id) = {}
    BY <1>2 DEF RoundsSound, EntriesOf
  <2>3. TakenFrom(s.trades, id) = {}
    BY <1>2 DEF RoundsSound, TakenFrom, Elements
  <2>4. HaveQuantities({})
    BY FS_EmptySet DEF HaveQuantities
  <2> QED
    BY <2>1, <2>2, <2>3, <2>4, TotalOfNone
<1>3. CASE \E e \in Entries(levels) : e.id = id
  <2>1. PICK e0 \in Entries(levels) : e0.id = id
    BY <1>3
  <2>2. e0 \in OrderRecords(Nat)
    BY EntriesTyped
  <2>3. PICK q \in Nat : q = e0.quantity
    BY <2>2 DEF OrderRecords
  <2>4. Total(EntriesOf(levels, id)) = q
    BY <2>1, <2>3, OneEntry, TotalOfOne
  <2>5. Fate(s, e0)
    BY DEF RoundsSound
  <2>6. CASE Untouched(s, e0)
    <3>1. e0 \in Entries(s.levels) /\ TakenFrom(s.trades, id) = {}
      BY <2>1, <2>6 DEF Untouched, TakenFrom, Elements
    <3>2. Total(EntriesOf(s.levels, id)) = q
      BY <1>1, <2>1, <2>3, <3>1, OneEntry, TotalOfOne
    <3>3. HaveQuantities({})
      BY FS_EmptySet DEF HaveQuantities
    <3> QED
      BY <2>3, <2>4, <3>1, <3>2, <3>3, TotalOfNone
  <2>7. ASSUME NEW k, TradedOnce(s, e0, k)
        PROVE  /\ s.trades[k].quantity \in Nat
               /\ HaveQuantities(TakenFrom(s.trades, id))
               /\ Total(TakenFrom(s.trades, id)) = s.trades[k].quantity
    <3>1. PICK t : t = s.trades[k]
      OBVIOUS
    <3>2. t \in TradeRecords(Nat)
      BY <1>1, <2>7, <3>1, ElementOfSeq DEF TradedOnce
    <3>3. t.quantity \in Nat
      BY <3>2 DEF TradeRecords
    <3>4. TakenFrom(s.trades, id) = {t}
      BY <2>1, <2>7, <3>1 DEF TradedOnce, TakenFrom, Elements
    <3>5. IsFiniteSet({t})
      BY FS_Singleton
    <3> QED
      BY <3>1, <3>3, <3>4, <3>5, TotalOfOne DEF HaveQuantities
  <2>8. ASSUME NEW k, Filled(s, e0, k)
        PROVE  /\ HaveQuantities(TakenFrom(s.trades, id))
               /\ q = Total(EntriesOf(s.levels, id)) + Total(TakenFrom(s.trades, id))
    <3>1. TradedOnce(s, e0, k) /\ s.trades[k].quantity = q
      BY <2>3, <2>8 DEF Filled
    <3>2. EntriesOf(s.levels, id) = {}
      BY <2>1, <2>8 DEF Filled, EntriesOf
    <3> QED
      BY <2>3, <2>7, <3>1, <3>2, TotalOfNone
  <2>9. ASSUME NEW k, PartlyFilled(s, e0, k)
        PROVE  /\ HaveQuantities(TakenFrom(s.trades, id))
               /\ q = Total(EntriesOf(s.levels, id)) + Total(TakenFrom(s.trades, id))
    <3>1. TradedOnce(s, e0, k) /\ s.trades[k].quantity < q
      BY <2>3, <2>9 DEF PartlyFilled
    <3>2. PICK taken \in Nat : taken = s.trades[k].quantity
      BY <2>7, <3>1
    <3>3. PICK e1 : e1 = [e0 EXCEPT !.quantity = q - taken]
      OBVIOUS
    <3>4. e1 \in Entries(s.levels)
      BY <2>3, <2>9, <3>2, <3>3 DEF PartlyFilled
    <3>5. e1.id = id /\ e1.quantity = q - taken
      BY <2>1, <2>2, <3>3 DEF OrderRecords
    <3>6. q - taken \in Nat /\ (q - taken) + taken = q
      <4>1. taken < q
        BY <3>1, <3>2
      <4> QED
        BY <4>1
    <3>7. EntriesOf(s.levels, id) = {e1}
      BY <1>1, <3>4, <3>5, OneEntry
    <3>8. Total(EntriesOf(s.levels, id)) = q - taken
      BY <3>5, <3>6, <3>7, TotalOfOne
    <3>9. /\ HaveQuantities(TakenFrom(s.trades, id))
          /\ Total(TakenFrom(s.trades, id)) = taken
      BY <2>7, <3>1, <3>2
    <3> QED
      BY <3>6, <3>8, <3>9
  <2>10. CASE \E k \in DOMAIN s.trades : Filled(s, e0, k) \/ PartlyFilled(s, e0, k)
    BY <2>4, <2>8, <2>9, <2>10
  <2> QED
    BY <2>5, <2>6, <2>10 DEF Fate
<1> QED
  BY <1>2, <1>3

(***************************************************************************)
(* The trades of one placement with one maker: at most one.                *)
(***************************************************************************)
LEMMA TakenOnce ==
  ASSUME NEW s \in Seq(TradeRecords(Nat)), MakersApart(s), NEW id
  PROVE  \/ TakenFrom(s, id) = {}
         \/ \E t : /\ t \in Elements(s) /\ t.maker = id /\ t.quantity \in Nat \ {0}
                   /\ TakenFrom(s, id) = {t}
<1>1. CASE \A k \in DOMAIN s : s[k].maker # id
  BY <1>1 DEF TakenFrom, Elements
<1>2. CASE \E k \in DOMAIN s : s[k].maker = id
  <2>1. PICK k \in DOMAIN s : s[k].maker = id
    BY <1>2
  <2>2. s[k] \in TradeRecords(Nat)
    BY ElementOfSeq
  <2>3. s[k].quantity \in Nat \ {0}
    BY <2>2 DEF TradeRecords
  <2>4. TakenFrom(s, id) = {s[k]}
    BY <2>1 DEF TakenFrom, Elements, MakersApart
  <2> QED
    BY <2>1, <2>3, <2>4 DEF Elements
<1> QED
  BY <1>1, <1>2

LEMMA EntriesCount ==
  ASSUME NEW levels \in Seq(LevelRecords(Nat)), IdsApart(levels), NEW id
  PROVE  HaveQuantities(EntriesOf(levels, id))
<1>1. CASE \A e \in Entries(levels) : e.id # id
  <2>1. EntriesOf(levels, id) = {}
    BY <1>1, NoEntry
  <2> QED
    BY <2>1, FS_EmptySet DEF HaveQuantities
<1>2. CASE \E e \in Entries(levels) : e.id = id
  <2>1. PICK e \in Entries(levels) : e.id = id
    BY <1>2
  <2>2. EntriesOf(levels, id) = {e}
    BY <2>1, OneEntry
  <2>3. e \in OrderRecords(Nat)
    BY EntriesTyped
  <2>4. e.quantity \in Nat
    BY <2>3 DEF OrderRecords
  <2> QED
    BY <2>2, <2>4, FS_Singleton DEF HaveQuantities
<1> QED
  BY <1>1, <1>2

\* A set and one more trade, or the same set.
LEMMA TotalOfBoth ==
  ASSUME NEW S, HaveQuantities(S), NEW X,
         X = {} \/ \E t : X = {t} /\ t \notin S /\ t.quantity \in Nat
  PROVE  HaveQuantities(S \cup X) /\ Total(S \cup X) = Total(S) + Total(X)
<1>1. CASE X = {}
  <2>1. S \cup X = S
    BY <1>1
  <2>2. PICK n \in Nat : n = Total(S)
    BY TotalIsNat
  <2>3. Total(X) = 0
    BY <1>1, TotalOfNone
  <2>4. n + Total(X) = n
    BY <2>3
  <2>5. Total(S \cup X) = n /\ HaveQuantities(S \cup X)
    BY <2>1, <2>2
  <2> QED
    BY <2>2, <2>4, <2>5
<1>2. CASE \E t : X = {t} /\ t \notin S /\ t.quantity \in Nat
  <2>1. PICK t : X = {t} /\ t \notin S /\ t.quantity \in Nat
    BY <1>2
  <2>2. Total(S \cup {t}) = t.quantity + Total(S) /\ HaveQuantities(S \cup {t})
    BY <2>1, TotalWith
  <2>3. Total({t}) = t.quantity /\ Total(S) \in Nat
    BY <2>1, TotalOfOne, TotalIsNat
  <2> QED
    BY <2>1, <2>2, <2>3
<1> QED
  BY <1>1, <1>2

LEMMA OwedGrows ==
  ASSUME NEW n \in Nat, NEW all, Len(all) = n, NEW more, Len(more) = n + 1,
         \A p \in 1..n : more[p] = all[p],
         NEW stored, NEW floor \in 0..n, NEW id, NEW taken,
         taken = TakenFrom(more[n + 1].trades, id), \A t \in taken : t \notin stored
  PROVE  Owed(more, stored, floor, id) = Owed(all, stored, floor, id) \cup taken
<1>1. (floor + 1)..(n + 1) = ((floor + 1)..n) \cup {n + 1}
  OBVIOUS
<1>2. \A p \in (floor + 1)..n : more[p] = all[p]
  OBVIOUS
<1>3. UNION {TakenFrom(more[p].trades, id) : p \in (floor + 1)..(n + 1)}
        = (UNION {TakenFrom(all[p].trades, id) : p \in (floor + 1)..n}) \cup taken
  BY <1>1, <1>2
<1> QED
  BY <1>3 DEF Owed

LEMMA OwedPlaced ==
  ASSUME PlacedSound, EngineTyped, BoundsTyped, NEW id, NEW t \in Owed(placed, trades, epoch, id)
  PROVE  t.taker \in DOMAIN placed /\ t.maker \in 1..(t.taker - 1) /\ t.maker = id
<1>1. PICK p \in (epoch + 1)..Len(placed) : t \in TakenFrom(placed[p].trades, id)
  BY DEF Owed
<1>2. p \in DOMAIN placed
  BY DEF EngineTyped, BoundsTyped
<1>3. PICK k \in DOMAIN placed[p].trades : t = placed[p].trades[k] /\ t.maker = id
  BY <1>1 DEF TakenFrom, Elements
<1>4. t.taker = p /\ t.maker \in 1..(p - 1)
  BY <1>2, <1>3 DEF PlacedSound, PlacementSound
<1> QED
  BY <1>2, <1>3, <1>4

(***************************************************************************)
(* placeOrder: what the rounds take is owed, what rests is in the book.    *)
(***************************************************************************)
LEMMA PlacedExplains ==
  ASSUME Sound, MakerBeforeTaker, Explained,
         NEW w \in Submitters, NEW input \in InputRecords, NEW command \in Nat,
         Placed(w, input, command)
  PROVE  Explained'
<1>1. PICK o : Placing(w, input, command, o) /\ Extends(placed', Placement(command, o))
  BY PlacedKeeps
<1>2. PICK last : last = Placement(command, o)
  OBVIOUS
<1>3. PICK all : all = placed'
  OBVIOUS
<1>4. /\ EngineTyped /\ PlacedSound /\ BookPlaced /\ RowsTyped /\ BoundsTyped
  BY DEF Sound, EngineSound, WorkSound, RestTyped
<1>5. PICK n \in Nat : n = Len(placed)
  BY <1>4 DEF EngineTyped
<1>6. /\ DOMAIN placed = 1..n /\ DOMAIN all = 1..(n + 1) /\ Len(all) = n + 1
      /\ all[n + 1] = last /\ \A p \in 1..n : all[p] = placed[p]
  BY <1>1, <1>2, <1>3, <1>5 DEF Extends
<1>7. last.status = o.status /\ last.trades = o.trades /\ last.resting = o.resting
      /\ last.order = o.order
  BY <1>2 DEF Placement
<1>8. /\ rows' = rows /\ trades' = trades /\ epoch' = epoch /\ book' = o.book
  BY <1>1 DEF Placed, Placing
<1>9. epoch \in 0..n
  BY <1>4, <1>5 DEF BoundsTyped
<1>10. /\ PlacementSound(all, n + 1)
       /\ all[n + 1] \in Placements
  <2>1. PlacedSound' /\ EngineTyped'
    BY PlacedKeeps DEF EngineSound
  <2>2. \A p \in DOMAIN all : PlacementSound(all, p)
    BY <1>3, <2>1, Zenon DEF PlacedSound
  <2>3. all \in Seq(Placements)
    BY <1>3, <2>1 DEF EngineTyped
  <2>4. n + 1 \in DOMAIN all
    BY <1>6
  <2> QED
    BY <2>2, <2>3, <2>4
<1>11. o.trades \in Seq(TradeRecords(Nat)) /\ o.resting \in Nat
  BY <1>6, <1>7, <1>10 DEF Placements
<1>12. /\ MakersApart(o.trades)
       /\ \A k \in DOMAIN o.trades : /\ o.trades[k].taker = n + 1
                                     /\ o.trades[k].maker \in 1..n
  <2>1. MakersApart(all[n + 1].trades)
    BY <1>10 DEF PlacementSound
  <2>2. \A k \in DOMAIN all[n + 1].trades : /\ all[n + 1].trades[k].taker = n + 1
                                            /\ all[n + 1].trades[k].maker \in 1..((n + 1) - 1)
    BY <1>10 DEF PlacementSound
  <2>3. (n + 1) - 1 = n
    OBVIOUS
  <2> QED
    BY <1>6, <1>7, <2>1, <2>2, <2>3
<1>13. \A t \in Elements(o.trades) : t.taker = n + 1 /\ t.maker \in 1..n
  BY <1>12 DEF Elements
<1>14. \A t \in trades : t.taker \in 1..n
  <2>1. DOMAIN rows \subseteq 1..n
    BY <1>4, <1>6 DEF RowsTyped
  <2> QED
    BY <2>1 DEF MakerBeforeTaker
<1>15. ASSUME NEW id
       PROVE  /\ Owed(all, trades, epoch, id)
                   = Owed(placed, trades, epoch, id) \cup TakenFrom(o.trades, id)
              /\ \A t \in TakenFrom(o.trades, id) : t \notin Owed(placed, trades, epoch, id)
  <2>1. \A t \in TakenFrom(o.trades, id) : t.taker = n + 1
    BY <1>13 DEF TakenFrom
  <2>2. \A t \in TakenFrom(o.trades, id) : t \notin trades
    BY <1>14, <2>1
  <2>3. \A t \in Owed(placed, trades, epoch, id) : t.taker \in 1..n
    BY <1>4, <1>6, OwedPlaced
  <2>4. TakenFrom(o.trades, id) = TakenFrom(all[n + 1].trades, id)
    BY <1>6, <1>7
  <2>5. Owed(all, trades, epoch, id)
          = Owed(placed, trades, epoch, id) \cup TakenFrom(o.trades, id)
    BY <1>5, <1>6, <1>9, <2>2, <2>4, OwedGrows
  <2> QED
    BY <2>1, <2>3, <2>5
<1>16. ASSUME NEW id, HaveQuantities(Owed(placed, trades, epoch, id))
       PROVE  /\ HaveQuantities(Owed(all, trades, epoch, id))
              /\ Total(Owed(all, trades, epoch, id))
                   = Total(Owed(placed, trades, epoch, id)) + Total(TakenFrom(o.trades, id))
  <2>1. PICK S : S = Owed(placed, trades, epoch, id)
    OBVIOUS
  <2>2. PICK X : X = TakenFrom(o.trades, id)
    OBVIOUS
  <2>3. X = {} \/ \E t : X = {t} /\ t \notin S /\ t.quantity \in Nat
    <3>1. CASE X = {}
      BY <3>1
    <3>2. CASE X # {}
      <4>1. PICK t : t.quantity \in Nat \ {0} /\ X = {t}
        BY <1>11, <1>12, <2>2, <3>2, TakenOnce
      <4>2. t \notin S
        BY <1>15, <2>1, <2>2, <4>1
      <4> QED
        BY <4>1, <4>2
    <3> QED
      BY <3>1, <3>2
  <2> QED
    BY <1>15, <1>16, <2>1, <2>2, <2>3, TotalOfBoth
<1>20. \A s \in Sides : book[s] \in Seq(LevelRecords(Nat)) /\ IdsApart(book[s])
  BY <1>4 DEF EngineTyped, Books, BookSound
<1>17. ASSUME NEW id \in 1..n, IsOpen(all, rows, epoch, id)
       PROVE  Explains(o.book, all, rows, trades, epoch, id)
  <2>1. IsOpen(placed, rows, epoch, id)
    BY <1>6, <1>17 DEF IsOpen
  <2>2. Explains(book, placed, rows, trades, epoch, id)
    BY <2>1 DEF Explained
  <2>3. PICK side : side = placed[id].order.side
    OBVIOUS
  <2>4. side = all[id].order.side /\ side \in Sides
    <3>1. placed[id] \in Placements
      BY <1>4, <1>6 DEF EngineTyped
    <3> QED
      BY <1>6, <2>3, <3>1 DEF Placements
  <2>5. Left(all, rows, id) = Left(placed, rows, id)
    BY <1>6 DEF Left
  <2>6. PICK S : S = Owed(placed, trades, epoch, id)
    OBVIOUS
  <2>7. /\ HaveQuantities(S)
        /\ Left(all, rows, id) = Total(EntriesOf(book[side], id)) + Total(S)
    BY <2>2, <2>3, <2>5, <2>6 DEF Explains
  <2>8. PICK T : T = Owed(all, trades, epoch, id)
    OBVIOUS
  <2>9. PICK X : X = TakenFrom(o.trades, id)
    OBVIOUS
  <2>10. HaveQuantities(T) /\ Total(T) = Total(S) + Total(X)
    BY <1>16, <2>6, <2>7, <2>8, <2>9
  <2>11. Total(S) \in Nat
    BY <2>7, TotalIsNat
  <2>12. /\ HaveQuantities(X)
         /\ HaveQuantities(EntriesOf(o.book[side], id))
         /\ Total(EntriesOf(book[side], id)) = Total(EntriesOf(o.book[side], id)) + Total(X)
    <3>1. CASE o.status = "rejected"
      <4>1. o.book = book /\ o.trades = <<>>
        BY <1>1, <1>4, <3>1, OutcomeCases DEF Placing
      <4>2. X = {} /\ HaveQuantities({})
        BY <2>9, <4>1, FS_EmptySet DEF TakenFrom, Elements, HaveQuantities
      <4>3. HaveQuantities(EntriesOf(book[side], id))
        BY <1>20, <2>4, EntriesCount
      <4>4. Total(EntriesOf(book[side], id)) \in Nat /\ Total(X) = 0
        BY <4>2, <4>3, TotalIsNat, TotalOfNone
      <4> QED
        BY <4>1, <4>2, <4>3, <4>4
    <3>2. CASE o.status = "accepted"
      <4>1. PICK sold, other, end : Accepts(o, sold, other, end)
        BY <1>1, <1>4, <3>2, OutcomeAccepts, SMTT(20) DEF Placing
      <4>2. /\ sold \in Sides /\ other \in Sides /\ other # sold
            /\ RoundsSound(Nat, other, book[other], o.order, end)
            /\ o.trades = end.trades
            /\ o.book \in Books(Nat) /\ BookSound(o.book)
            /\ o.book[other] = end.levels
            /\ o.resting = 0 => o.book[sold] = book[sold]
            /\ o.resting # 0 => Entries(o.book[sold]) = Entries(book[sold])
                                  \cup {[o.order EXCEPT !.quantity = o.resting]}
        BY <4>1 DEF Accepts
      <4>3. o.book[side] \in Seq(LevelRecords(Nat)) /\ IdsApart(o.book[side])
        BY <2>4, <4>2 DEF Books, BookSound
      <4>4. HaveQuantities(EntriesOf(o.book[side], id))
        BY <4>3, EntriesCount
      <4>5. CASE side = other
        BY <1>20, <2>4, <2>9, <4>2, <4>4, <4>5, FateAddsUp
      <4>6. CASE side = sold
        <5>1. EntriesOf(o.book[side], id) = EntriesOf(book[side], id)
          <6>1. CASE o.resting = 0
            BY <4>2, <4>6, <6>1
          <6>2. CASE o.resting # 0
            <7>1. PICK e1 : e1 = [o.order EXCEPT !.quantity = o.resting]
              OBVIOUS
            <7>2. o.order \in OrderFields /\ o.order.id = n + 1
              BY <1>1, <1>4, <1>5, OutcomeCases DEF Placing
            <7>3. e1.id = n + 1
              BY <7>1, <7>2 DEF OrderFields
            <7>4. e1.id # id
              BY <7>3
            <7> QED
              BY <4>2, <4>6, <6>2, <7>1, <7>4 DEF EntriesOf
          <6> QED
            BY <6>1, <6>2
        <5>2. X = {}
          <6>1. SUFFICES ASSUME NEW k \in DOMAIN end.trades, end.trades[k].maker = id
                         PROVE  FALSE
            BY <2>9, <4>2 DEF TakenFrom, Elements
          <6>2. PICK e0 \in Entries(book[other]) : e0.id = id
            BY <4>2, <6>1 DEF RoundsSound
          <6>3. placed[id].order.side = other
            BY <1>4, <4>2, <6>2 DEF BookPlaced
          <6> QED
            BY <2>3, <4>2, <4>6, <6>3
        <5>3. HaveQuantities({}) /\ Total(X) = 0
          BY <5>2, FS_EmptySet, TotalOfNone DEF HaveQuantities
        <5>4. Total(EntriesOf(o.book[side], id)) \in Nat
          BY <4>4, TotalIsNat
        <5> QED
          BY <4>4, <5>1, <5>2, <5>3, <5>4
      <4>7. side = sold \/ side = other
        BY <2>4, <4>2 DEF Sides
      <4> QED
        BY <4>5, <4>6, <4>7
    <3>3. o.status \in {"rejected", "accepted"}
      BY <1>6, <1>7, <1>10 DEF Placements
    <3> QED
      BY <3>1, <3>2, <3>3
  <2>13. Total(X) \in Nat /\ Total(EntriesOf(o.book[side], id)) \in Nat
    BY <2>12, TotalIsNat
  <2>14. Left(all, rows, id) = Total(EntriesOf(o.book[side], id)) + Total(T)
    BY <2>7, <2>10, <2>11, <2>12, <2>13
  <2> QED
    BY <2>4, <2>8, <2>10, <2>14 DEF Explains
<1>18. ASSUME IsOpen(all, rows, epoch, n + 1)
       PROVE  Explains(o.book, all, rows, trades, epoch, n + 1)
  <2>1. n + 1 \notin DOMAIN rows
    BY <1>4, <1>6 DEF RowsTyped
  <2>2. all[n + 1].status = "accepted"
    BY <1>18, <2>1 DEF IsOpen
  <2>3. o.status = "accepted"
    BY <1>6, <1>7, <2>2
  <2>4. Left(all, rows, n + 1) = o.resting
    BY <1>6, <1>7, <2>1 DEF Left
  <2>5. PICK side, other, end : Accepts(o, side, other, end)
    BY <1>1, <1>4, <2>3, OutcomeAccepts, SMTT(20) DEF Placing
  <2>6. /\ side \in Sides /\ side = o.order.side
        /\ o.book \in Books(Nat) /\ BookSound(o.book)
        /\ o.resting = 0 => o.book[side] = book[side]
        /\ o.resting # 0 => Entries(o.book[side]) = Entries(book[side])
                              \cup {[o.order EXCEPT !.quantity = o.resting]}
    BY <2>5 DEF Accepts
  <2>7. side = all[n + 1].order.side
    BY <1>6, <1>7, <2>6
  <2>8. \A e \in Entries(book[side]) : e.id # n + 1
    BY <1>4, <1>6, <2>6 DEF BookPlaced, CanRest
  <2>9. Owed(all, trades, epoch, n + 1) = {}
    <3>1. Owed(placed, trades, epoch, n + 1) = {}
      <4>1. \A t \in Owed(placed, trades, epoch, n + 1) : n + 1 \in 1..(t.taker - 1) /\ t.taker \in 1..n
        BY <1>4, <1>6, OwedPlaced
      <4> QED
        BY <4>1
    <3>2. TakenFrom(o.trades, n + 1) = {}
      <4>1. \A t \in Elements(o.trades) : t.maker # n + 1
        BY <1>13
      <4> QED
        BY <4>1 DEF TakenFrom
    <3> QED
      BY <1>15, <3>1, <3>2
  <2>10. Total(EntriesOf(o.book[side], n + 1)) = o.resting
    <3>1. CASE o.resting = 0
      <4>1. EntriesOf(o.book[side], n + 1) = {}
        BY <2>6, <2>8, <3>1, NoEntry
      <4> QED
        BY <3>1, <4>1, TotalOfNone
    <3>2. CASE o.resting # 0
      <4>1. PICK e1 : e1 = [o.order EXCEPT !.quantity = o.resting]
        OBVIOUS
      <4>2. o.order \in OrderFields /\ o.order.id = n + 1
        BY <1>1, <1>4, <1>5, OutcomeCases DEF Placing
      <4>3. e1.id = n + 1 /\ e1.quantity = o.resting
        BY <4>1, <4>2 DEF OrderFields
      <4>4. IdsApart(o.book[side]) /\ e1 \in Entries(o.book[side])
        BY <2>6, <3>2, <4>1 DEF BookSound
      <4>5. EntriesOf(o.book[side], n + 1) = {e1}
        BY <4>3, <4>4, OneEntry
      <4> QED
        BY <1>11, <4>3, <4>5, TotalOfOne
    <3> QED
      BY <3>1, <3>2
  <2>11. HaveQuantities({}) /\ Total({}) = 0
    BY FS_EmptySet, TotalOfNone DEF HaveQuantities
  <2>12. Left(all, rows, n + 1) = Total(EntriesOf(o.book[side], n + 1)) + Total({})
    BY <1>11, <2>4, <2>10, <2>11
  <2> QED
    BY <2>7, <2>9, <2>11, <2>12 DEF Explains
<1>19. ASSUME NEW id, IsOpen(all, rows, epoch, id) PROVE id \in 1..n \/ id = n + 1
  BY <1>4, <1>6, <1>19 DEF IsOpen, RowsTyped
<1>21. \A id : IsOpen(all, rows, epoch, id) => Explains(o.book, all, rows, trades, epoch, id)
  BY <1>17, <1>18, <1>19
<1> QED
  BY <1>3, <1>8, <1>21, Zenon DEF Explained

(***************************************************************************)
(* A commit: the order's row has what rests, a maker's row has given what  *)
(* its trade took, and the trades are owed no more. A row has at least     *)
(* what an unstored trade takes from it, so the update never goes below 0. *)
(***************************************************************************)
\* The trades a transaction is about to store are owed.
LEMMA CommitOwed ==
  ASSUME Sound, MakerBeforeTaker, NEW w \in Submitters, NEW o, NEW ts, CommitsTo(w, o, ts),
         NEW k \in DOMAIN ts
  PROVE  /\ ts[k] \in Owed(placed, trades, epoch, ts[k].maker)
         /\ ts[k].taker = o.id /\ ts[k].maker \in DOMAIN rows
<1>1. /\ EngineTyped /\ PlacedSound /\ BoundsTyped
  BY DEF Sound, EngineSound, RestTyped
<1>2. /\ o.id \in DOMAIN placed /\ o.id > epoch /\ o.id \notin DOMAIN rows
      /\ ts = placed[o.id].trades /\ ts[k].maker \in DOMAIN rows
  BY DEF CommitsTo
<1>3. ts[k].taker = o.id
  BY <1>1, <1>2 DEF PlacedSound, PlacementSound
<1>4. ts[k] \notin trades
  BY <1>2, <1>3 DEF MakerBeforeTaker
<1>5. o.id \in (epoch + 1)..Len(placed)
  BY <1>1, <1>2 DEF EngineTyped, BoundsTyped
<1>6. ts[k] \in TakenFrom(placed[o.id].trades, ts[k].maker)
  BY <1>2 DEF TakenFrom, Elements
<1> QED
  BY <1>2, <1>3, <1>4, <1>5, <1>6 DEF Owed

LEMMA CommitCovers ==
  ASSUME Sound, MakerBeforeTaker, Explained,
         NEW w \in Submitters, NEW o, NEW ts, CommitsTo(w, o, ts), NEW k \in DOMAIN ts
  PROVE  ts[k].quantity \in Nat /\ ts[k].quantity <= rows[ts[k].maker].remaining
<1>1. PICK m : m = ts[k].maker
  OBVIOUS
<1>2. PICK S : S = Owed(placed, trades, epoch, m)
  OBVIOUS
<1>3. ts[k] \in S /\ m \in DOMAIN rows
  BY <1>1, <1>2, CommitOwed
<1>4. Explains(book, placed, rows, trades, epoch, m)
  BY <1>3 DEF Explained, IsOpen
<1>5. PICK levels : levels = book[placed[m].order.side]
  OBVIOUS
<1>6. HaveQuantities(S) /\ rows[m].remaining = Total(EntriesOf(levels, m)) + Total(S)
  BY <1>2, <1>3, <1>4, <1>5 DEF Explains, Left
<1>7. levels \in Seq(LevelRecords(Nat)) /\ IdsApart(levels)
  <2>1. placed[m] \in Placements /\ book \in Books(Nat) /\ BookSound(book)
    BY <1>3 DEF Sound, EngineSound, EngineTyped, WorkSound, RowsTyped
  <2> QED
    BY <1>5, <2>1 DEF Placements, Books, BookSound
<1>8. Total(EntriesOf(levels, m)) \in Nat /\ Total(S) \in Nat
  BY <1>6, <1>7, EntriesCount, TotalIsNat
<1>9. ts[k].quantity \in Nat /\ ts[k].quantity <= Total(S)
  BY <1>3, <1>6, TotalAtLeast
<1> QED
  BY <1>1, <1>6, <1>8, <1>9

LEMMA CommitExplains ==
  ASSUME IInv, Sound, MakerBeforeTaker, Explained, NEW w \in Submitters, Commit(w)
  PROVE  Explained'
<1>1. PICK o : o = op[w]
  OBVIOUS
<1>2. PICK ts : ts = placed[o.id].trades
  OBVIOUS
<1>3. CommitsTo(w, o, ts)
  BY <1>1, <1>2, CommitWrites DEF Sound, EngineSound, WorkSound
<1>4. PICK table : table = rows'
  OBVIOUS
<1>5. PICK stored : stored = trades'
  BY SMTT(20)
<1>6. /\ o.id \in DOMAIN placed /\ o.id > epoch /\ placed[o.id].status = "accepted"
      /\ o.id \notin DOMAIN rows
      /\ DOMAIN table = DOMAIN rows \cup {o.id}
      /\ table[o.id].remaining = placed[o.id].resting
      /\ \A k \in DOMAIN ts : /\ ts[k].maker \in DOMAIN rows
                              /\ table[ts[k].maker] = MakerRow(ts[k].maker, ts[k].quantity)
      /\ \A m \in DOMAIN rows : (\A k \in DOMAIN ts : ts[k].maker # m) => table[m] = rows[m]
      /\ stored = trades \cup Elements(ts)
  BY <1>3, <1>4, <1>5 DEF CommitsTo
<1>7. placed' = placed /\ epoch' = epoch /\ book' = book
  BY <1>3 DEF CommitsTo
<1>8. MakersApart(ts)
  BY <1>2, <1>6 DEF Sound, EngineSound, PlacedSound, PlacementSound
<1>9. ASSUME NEW id, IsOpen(placed, table, epoch, id)
      PROVE  Explains(book, placed, table, stored, epoch, id)
  <2>1. IsOpen(placed, rows, epoch, id)
    BY <1>6, <1>9 DEF IsOpen
  <2>2. PICK S : S = Owed(placed, trades, epoch, id)
    OBVIOUS
  <2>3. PICK n : n = Total(EntriesOf(book[placed[id].order.side], id))
    OBVIOUS
  <2>4. HaveQuantities(S) /\ Left(placed, rows, id) = n + Total(S)
    BY <2>1, <2>2, <2>3 DEF Explained, Explains
  <2>5. PICK T : T = Owed(placed, stored, epoch, id)
    OBVIOUS
  <2>6. T = {t \in S : t \notin Elements(ts)}
    BY <1>6, <2>2, <2>5 DEF Owed
  <2>7. \A t \in S : t.maker = id
    BY <2>2 DEF Owed, TakenFrom
  <2>8. CASE \A k \in DOMAIN ts : ts[k].maker # id
    <3>1. T = S
      BY <2>6, <2>7, <2>8 DEF Elements
    <3>2. Left(placed, table, id) = Left(placed, rows, id)
      BY <1>6, <2>8 DEF Left
    <3> QED
      BY <2>3, <2>4, <2>5, <3>1, <3>2 DEF Explains
  <2>9. CASE \E k \in DOMAIN ts : ts[k].maker = id
    <3>1. PICK k \in DOMAIN ts : ts[k].maker = id
      BY <2>9
    <3>2. PICK t : t = ts[k]
      OBVIOUS
    <3>3. t \in S /\ id \in DOMAIN rows
      BY <1>3, <2>2, <3>1, <3>2, CommitOwed
    <3>4. \A j \in DOMAIN ts : ts[j] \in S => j = k
      BY <1>8, <2>7, <3>1 DEF MakersApart
    <3>5. T = S \ {t}
      BY <2>6, <3>2, <3>4 DEF Elements
    <3>6. HaveQuantities(T)
      BY <2>4, <3>5, FS_RemoveElement DEF HaveQuantities
    <3>7. Total(S) = t.quantity + Total(T) /\ Total(T) \in Nat
      BY <2>4, <3>3, <3>5, <3>6, TotalWithout, TotalIsNat
    <3>8. t.quantity \in Nat /\ t.quantity <= rows[id].remaining
      BY <1>3, <3>1, <3>2, CommitCovers
    <3>9. PICK r : r = rows[id].remaining
      OBVIOUS
    <3>10. r \in Nat
      BY <3>3, <3>9 DEF Sound, WorkSound, RowsTyped, RowRecords
    <3>11. r = n + Total(S)
      BY <2>4, <3>3, <3>9 DEF Left
    <3>12. table[id].remaining = r - t.quantity
      <4>1. table[id].remaining = Less(r, t.quantity)
        <5>1. PICK left : left = Less(r, t.quantity)
          OBVIOUS
        <5>2. table[id] = MakerRow(id, t.quantity)
          BY <1>6, <3>1, <3>2
        <5>3. MakerRow(id, t.quantity).remaining = left
          BY <3>9, <5>1 DEF MakerRow
        <5> QED
          BY <5>1, <5>2, <5>3
      <4> QED
        BY <3>8, <3>9, <3>10, <4>1 DEF Less
    <3>13. Left(placed, table, id) = r - t.quantity
      BY <1>6, <3>3, <3>12 DEF Left
    <3>14. n \in Nat
      <4>1. placed[id] \in Placements /\ book \in Books(Nat) /\ BookSound(book)
        BY <3>3 DEF Sound, EngineSound, EngineTyped, WorkSound, RowsTyped
      <4>2. PICK levels : levels = book[placed[id].order.side]
        OBVIOUS
      <4>3. levels \in Seq(LevelRecords(Nat)) /\ IdsApart(levels)
        BY <4>1, <4>2 DEF Placements, Books, BookSound
      <4> QED
        BY <2>3, <4>2, <4>3, EntriesCount, TotalIsNat
    <3>15. r - t.quantity = n + Total(T)
      BY <3>7, <3>8, <3>10, <3>11, <3>14
    <3> QED
      BY <2>3, <2>5, <3>6, <3>13, <3>15 DEF Explains
  <2> QED
    BY <2>8, <2>9
<1> QED
  BY <1>4, <1>5, <1>7, <1>9, Zenon DEF Explained

(***************************************************************************)
(* A restart: nothing is owed, and the book is what the rows have left.    *)
(***************************************************************************)
LEMMA RestartExplains ==
  ASSUME IInv, Sound, Restart
  PROVE  Explained'
<1>0. PICK at \in RestoreOrders : book' = Restored(at)
  BY DEF Restart
<1>1. /\ placed' = placed /\ rows' = rows /\ trades' = trades
      /\ epoch' = Len(placed)
  BY DEF Restart, database
<1>2. PICK n : n = Cardinality(Open)
  OBVIOUS
<1>3. PICK b : b = Restored(at)
  OBVIOUS
<1>4. RestoredUpTo(at, n, b) /\ \A id \in Open : at[id] <= n
  BY <1>2, <1>3, TableIsSound, RestoredSound
<1>5. /\ b \in Books(Nat) /\ BookSound(b)
      /\ \A side \in Sides : HoldsRows(b[side], at, side, n)
  BY <1>4, Zenon DEF RestoredUpTo
<1>6. PICK size \in Nat : size = Len(placed) /\ DOMAIN placed = 1..size
  BY DEF Sound, EngineSound, EngineTyped
<1>7. ASSUME NEW id, IsOpen(placed, rows, size, id)
      PROVE  Explains(b, placed, rows, trades, size, id)
  <2>1. id \in DOMAIN rows
    BY <1>6, <1>7 DEF IsOpen
  <2>2. PICK side \in Sides : side = placed[id].order.side
    BY <2>1, TableIsSound, RowEntrySound
  <2>3. rows[id].remaining \in Nat /\ RowEntry(id).id = id
        /\ RowEntry(id).quantity = rows[id].remaining
    BY <2>1, TableIsSound, RowEntrySound
  <2>5. IdsApart(b[side])
    BY <1>5, Zenon DEF BookSound
  <2>6. Total(EntriesOf(b[side], id)) = rows[id].remaining
    <3>1. CASE rows[id].remaining > 0
      <4>1. RowEntry(id) \in Entries(b[side])
        BY <1>4, <1>5, <2>1, <2>2, <3>1 DEF HoldsRows, OpenRows, Open
      <4>2. EntriesOf(b[side], id) = {RowEntry(id)}
        BY <2>3, <2>5, <4>1, OneEntry
      <4> QED
        BY <2>3, <4>2, TotalOfOne
    <3>2. CASE rows[id].remaining = 0
      <4>1. ASSUME NEW e \in Entries(b[side]) PROVE e.id # id
        <5>1. PICK m \in OpenRows(at, side, n) : e = RowEntry(m)
          BY <1>5 DEF HoldsRows
        <5>2. m \in DOMAIN rows /\ rows[m].remaining > 0
          BY <5>1 DEF OpenRows, Open
        <5>3. e.id = m
          BY <5>1, <5>2, TableIsSound, RowEntrySound
        <5> QED
          BY <3>2, <5>2, <5>3
      <4>2. EntriesOf(b[side], id) = {}
        BY <4>1, NoEntry
      <4> QED
        BY <3>2, <4>2, TotalOfNone
    <3> QED
      BY <2>3, <3>1, <3>2
  <2>7. Owed(placed, trades, size, id) = {}
    <3>1. (size + 1)..size = {}
      OBVIOUS
    <3> QED
      BY <1>6, <3>1 DEF Owed
  <2>8. HaveQuantities({}) /\ Total({}) = 0
    BY FS_EmptySet, TotalOfNone DEF HaveQuantities
  <2>9. Left(placed, rows, id) = Total(EntriesOf(b[side], id)) + Total({})
    BY <2>1, <2>3, <2>6, <2>8 DEF Left
  <2> QED
    BY <2>2, <2>7, <2>8, <2>9 DEF Explains
<1> QED
  BY <1>0, <1>1, <1>3, <1>6, <1>7, Zenon DEF Explained

LEMMA NextKeepsExplained ==
  ASSUME IInv, Sound, MakerBeforeTaker, Explained, [Next]_vars
  PROVE  Explained'
<1>1. PipelineTyped /\ BoundsTyped
  BY DEF Sound, RestTyped
<1>2. CASE \E w \in Submitters, input \in InputRecords, command \in Nat : Placed(w, input, command)
  BY <1>2, PlacedExplains
<1>3. CASE \E w \in Submitters : Commit(w)
  BY <1>3, CommitExplains
<1>4. CASE Restart
  BY <1>4, RestartExplains
<1>5. CASE Elsewhere
  BY <1>5 DEF Elsewhere, Explained
<1> QED
  BY <1>1, <1>2, <1>3, <1>4, <1>5, Kinds

LEMMA Explanation == Spec => []Explained
<1>1. ASSUME Init PROVE Explained
  <2>1. DOMAIN rows = {} /\ DOMAIN placed = {}
    BY <1>1 DEF Init
  <2> QED
    BY <2>1 DEF Explained, IsOpen
<1>2. IInv /\ Sound /\ MakerBeforeTaker /\ Explained /\ [Next]_vars => Explained'
  BY NextKeepsExplained
<1> QED
  BY <1>1, <1>2, Invariance, Soundness, MakersFirst, PTL DEF Spec

\* What a row has remaining is what is left of the order in the engine's book
\* and what trades of this process that are not stored take from it: no
\* interleaving of two persistProcessedOrder calls, no failure and no restart
\* makes table and book disagree by anything else.
THEOREM BookExplained == Spec => []RowsExplainBook
<1>1. ASSUME Explained PROVE RowsExplainBook
  <2> SUFFICES ASSUME NEW id \in DOMAIN rows
               PROVE  rows[id].remaining = Total(InBook(id)) + Total(Unstored(id))
    BY DEF RowsExplainBook
  <2>1. Explains(book, placed, rows, trades, epoch, id)
    BY <1>1 DEF Explained, IsOpen
  <2>2. InBook(id) = EntriesOf(book[placed[id].order.side], id)
    BY DEF InBook, EntriesOf
  <2>3. Unstored(id) = Owed(placed, trades, epoch, id)
    <3>1. \A p : TradesOf(p) = Elements(placed[p].trades)
      BY DEF TradesOf, Elements
    <3>2. \A p : {t \in TradesOf(p) : t.maker = id} = TakenFrom(placed[p].trades, id)
      BY <3>1 DEF TakenFrom
    <3>3. PICK B : B = {TakenFrom(placed[p].trades, id) : p \in (epoch + 1)..Len(placed)}
      OBVIOUS
    <3>4. B = {{t \in TradesOf(p) : t.maker = id} : p \in (epoch + 1)..Len(placed)}
      BY <3>2, <3>3
    <3>5. Unstored(id) = (UNION B) \ trades
      BY <3>4 DEF Unstored
    <3>6. Owed(placed, trades, epoch, id) = {t \in UNION B : t \notin trades}
      BY <3>3 DEF Owed
    <3>7. PICK U : U = UNION B
      OBVIOUS
    <3>8. U \ trades = {t \in U : t \notin trades}
      OBVIOUS
    <3> QED
      BY <3>5, <3>6, <3>7, <3>8
  <2> QED
    BY <2>1, <2>2, <2>3 DEF Explains, Left
<1> QED
  BY <1>1, Explanation, PTL

(***************************************************************************)
(* What a row says is filled. The update of a maker's row adds the trade's *)
(* quantity because the row had that much left.                            *)
(***************************************************************************)
StoredWith(stored, id) == {t \in stored : t.taker = id \/ t.maker = id}

RowAgrees(all, table, stored, id) ==
  /\ HaveQuantities(StoredWith(stored, id))
  /\ table[id].filled = Total(StoredWith(stored, id))
  /\ all[id].order.type = "limit"
       => table[id].filled + table[id].remaining = all[id].order.quantity

RowsAgree == \A id \in DOMAIN rows : RowAgrees(placed, rows, trades, id)

LEMMA CommitAgrees ==
  ASSUME IInv, Sound, MakerBeforeTaker, Explained, RowsAgree,
         NEW w \in Submitters, Commit(w)
  PROVE  RowsAgree'
<1>1. PICK o : o = op[w]
  OBVIOUS
<1>2. PICK ts : ts = placed[o.id].trades
  OBVIOUS
<1>3. CommitsTo(w, o, ts)
  BY <1>1, <1>2, CommitWrites DEF Sound, EngineSound, WorkSound
<1>4. PICK table : table = rows'
  OBVIOUS
<1>5. PICK stored : stored = trades'
  BY SMTT(20)
<1>6. /\ o.id \in DOMAIN placed /\ placed[o.id].status = "accepted"
      /\ o.id \notin DOMAIN rows
      /\ DOMAIN table = DOMAIN rows \cup {o.id}
      /\ table[o.id] = [sequence  |-> o.sequence, since |-> o.since,
                        remaining |-> placed[o.id].resting,
                        filled    |-> Total(Elements(ts))]
      /\ \A k \in DOMAIN ts : table[ts[k].maker] = MakerRow(ts[k].maker, ts[k].quantity)
      /\ \A m \in DOMAIN rows : (\A k \in DOMAIN ts : ts[k].maker # m) => table[m] = rows[m]
      /\ stored = trades \cup Elements(ts)
      /\ placed' = placed
  BY <1>3, <1>4, <1>5 DEF CommitsTo
<1>7. /\ PlacementSound(placed, o.id)
      /\ placed[o.id] \in Placements
      /\ ts \in Seq(TradeRecords(Nat))
  <2>1. PlacementSound(placed, o.id)
    BY <1>6 DEF Sound, EngineSound, PlacedSound
  <2>2. placed[o.id] \in Placements
    BY <1>6 DEF Sound, EngineSound, EngineTyped
  <2>3. ts \in Seq(TradeRecords(Nat))
    BY <1>2, <2>2 DEF Placements
  <2> QED
    BY <2>1, <2>2, <2>3
<1>8. /\ MakersApart(ts)
      /\ \A k \in DOMAIN ts : CanRest(placed, ts[k].maker)
  BY <1>2, <1>7 DEF PlacementSound
<1>9. \A k \in DOMAIN ts : ts[k].taker = o.id /\ ts[k].maker \in DOMAIN rows
  BY <1>3, CommitOwed
<1>10. \A t \in trades : t.taker # o.id /\ t.maker # o.id
  BY <1>6 DEF MakerBeforeTaker
<1>11. RowAgrees(placed, table, stored, o.id)
  <2>1. StoredWith(stored, o.id) = Elements(ts)
    BY <1>6, <1>9, <1>10 DEF StoredWith, Elements
  <2>2. HaveQuantities(Elements(ts))
    BY <1>7, TradesHaveQuantities
  <2>3. Total(Elements(ts)) \in Nat
    BY <2>2, TotalIsNat
  <2>4. table[o.id].filled = Total(Elements(ts)) /\ table[o.id].remaining = placed[o.id].resting
    BY <1>6
  <2>5. placed[o.id].order.type = "limit" =>
          Total(Elements(ts)) + placed[o.id].resting = placed[o.id].order.quantity
    <3>1. placed[o.id].resting \in Nat
      BY <1>7 DEF Placements
    <3>2. CanRest(placed, o.id) =>
            placed[o.id].resting + Total(Elements(ts)) = placed[o.id].order.quantity
      BY <1>2, <1>7 DEF PlacementSound
    <3> QED
      BY <1>6, <2>3, <3>1, <3>2 DEF CanRest
  <2> QED
    BY <2>1, <2>2, <2>4, <2>5 DEF RowAgrees
<1>12. ASSUME NEW m \in DOMAIN rows PROVE RowAgrees(placed, table, stored, m)
  <2>1. PICK S : S = StoredWith(trades, m)
    OBVIOUS
  <2>2. /\ HaveQuantities(S) /\ rows[m].filled = Total(S)
        /\ placed[m].order.type = "limit"
             => rows[m].filled + rows[m].remaining = placed[m].order.quantity
    BY <2>1 DEF RowsAgree, RowAgrees
  <2>3. PICK T : T = StoredWith(stored, m)
    OBVIOUS
  <2>4. T = S \cup TakenFrom(ts, m)
    BY <1>6, <1>9, <2>1, <2>3 DEF StoredWith, TakenFrom, Elements
  <2>5. CASE \A k \in DOMAIN ts : ts[k].maker # m
    <3>1. TakenFrom(ts, m) = {}
      BY <2>5 DEF TakenFrom, Elements
    <3>2. T = S /\ table[m] = rows[m]
      BY <1>6, <2>4, <2>5, <3>1
    <3> QED
      BY <2>2, <2>3, <3>2 DEF RowAgrees
  <2>6. CASE \E k \in DOMAIN ts : ts[k].maker = m
    <3>1. PICK k \in DOMAIN ts : ts[k].maker = m
      BY <2>6
    <3>2. PICK t : t = ts[k]
      OBVIOUS
    <3>3. t.quantity \in Nat /\ t.quantity <= rows[m].remaining
      BY <1>3, <3>1, <3>2, CommitCovers
    <3>4. TakenFrom(ts, m) = {t}
      BY <1>8, <3>1, <3>2 DEF TakenFrom, Elements, MakersApart
    <3>5. t \notin S
      BY <1>9, <1>10, <2>1, <3>2 DEF StoredWith
    <3>6. HaveQuantities(T) /\ Total(T) = t.quantity + Total(S) /\ Total(S) \in Nat
      BY <2>2, <2>4, <3>3, <3>4, <3>5, TotalWith, TotalIsNat
    <3>7. placed[m].order.type = "limit"
      BY <1>8, <3>1 DEF CanRest
    <3>8. PICK r \in Nat : r = rows[m].remaining
      BY DEF Sound, WorkSound, RowsTyped, RowRecords
    <3>9. PICK q : q = placed[m].order.quantity
      OBVIOUS
    <3>10. Total(S) + r = q
      BY <2>2, <3>7, <3>8, <3>9
    <3>11. PICK left : left = Less(r, t.quantity)
      OBVIOUS
    <3>12. left = r - t.quantity
      BY <3>3, <3>8, <3>11 DEF Less
    <3>13. table[m] = MakerRow(m, t.quantity)
      BY <1>6, <3>1, <3>2
    <3>14. table[m].filled = q - left /\ table[m].remaining = left
      BY <3>8, <3>9, <3>11, <3>13 DEF MakerRow
    <3>15. q - left = t.quantity + Total(S) /\ (q - left) + left = q
      BY <3>3, <3>6, <3>8, <3>10, <3>12
    <3> QED
      BY <2>3, <3>6, <3>9, <3>14, <3>15 DEF RowAgrees
  <2> QED
    BY <2>5, <2>6
<1>13. \A id \in DOMAIN table : RowAgrees(placed, table, stored, id)
  BY <1>6, <1>11, <1>12
<1> QED
  BY <1>4, <1>5, <1>6, <1>13, Zenon DEF RowsAgree

LEMMA NextKeepsRowsAgree ==
  ASSUME IInv, Sound, MakerBeforeTaker, Explained, RowsAgree, [Next]_vars
  PROVE  RowsAgree'
<1>1. PipelineTyped /\ BoundsTyped
  BY DEF Sound, RestTyped
<1>2. CASE \E w \in Submitters, input \in InputRecords, command \in Nat : Placed(w, input, command)
  <2>1. PICK w \in Submitters, input \in InputRecords, command \in Nat : Placed(w, input, command)
    BY <1>2
  <2>2. PICK all : all = placed'
    OBVIOUS
  <2>3. \A p \in DOMAIN placed : all[p] = placed[p]
    BY <2>1, <2>2, PlacedKeeps DEF Extends
  <2>4. DOMAIN rows \subseteq DOMAIN placed
    BY DEF Sound, WorkSound, RowsTyped
  <2>5. rows' = rows /\ trades' = trades
    BY <2>1 DEF Placed
  <2>6. \A id \in DOMAIN rows : RowAgrees(all, rows, trades, id)
    BY <2>3, <2>4 DEF RowsAgree, RowAgrees
  <2> QED
    BY <2>2, <2>5, <2>6, Zenon DEF RowsAgree
<1>3. CASE \E w \in Submitters : Commit(w)
  BY <1>3, CommitAgrees
<1>4. CASE Restart
  BY <1>4 DEF Restart, database, RowsAgree
<1>5. CASE Elsewhere
  BY <1>5 DEF Elsewhere, RowsAgree
<1> QED
  BY <1>1, <1>2, <1>3, <1>4, <1>5, Kinds

\* What a row says is filled is what the stored trades of the order add up to:
\* tx.order.update, computed from an earlier read, never loses a fill.
THEOREM FillsMatch == Spec => []FilledMatchesTrades
<1>1. Init => RowsAgree
  BY DEF Init, RowsAgree
<1>2. IInv /\ Sound /\ MakerBeforeTaker /\ Explained /\ RowsAgree /\ [Next]_vars => RowsAgree'
  BY NextKeepsRowsAgree
<1>3. RowsAgree => FilledMatchesTrades
  BY DEF RowsAgree, RowAgrees, FilledMatchesTrades, TradesWith, StoredWith
<1> QED
  BY <1>1, <1>2, <1>3, Invariance, Soundness, MakersFirst, Explanation, PTL DEF Spec

(***************************************************************************)
(* What a step leaves of a processOrder: it ends, or it goes on with the   *)
(* same placement and the same captured events.                            *)
(***************************************************************************)
Persists(o, new) ==
  /\ o.pc \in Persisting /\ new.cached = o.cached
  /\ \/ o.pc = "allocate" /\ new.pc = "create"
     \/ o.pc # "allocate" /\ new.pc \in Writing
     \/ o.pc = "commit" /\ new.pc = "cache"

CachesOne(o, new) ==
  /\ o.pc = "cache" /\ new.pc = "cache"
  /\ o.cached < Len(o.captured) /\ new.cached = o.cached + 1

GoesOn(o, new) ==
  /\ new.id = o.id /\ new.since = o.since /\ new.captured = o.captured
  /\ \/ Persists(o, new)
     \/ CachesOne(o, new)
     \/ o.pc = "cache" /\ new.pc = "enqueue" /\ o.cached = Len(o.captured)
     \/ o.pc = "enqueue" /\ new.pc = "flush"

LEMMA StepOfOp ==
  ASSUME OpTyped, NEW w \in Submitters, ProcessStep(w) \/ CallFails(w)
  PROVE  \/ Leave(w) /\ Becomes(w, NoOp)
         \/ next' = next /\ GoesOn(op[w], op'[w])
<1>1. PICK o : o = op[w]
  OBVIOUS
<1>2. CASE Leave(w)
  BY <1>2, LeaveEffect
<1>3. CASE CallFails(w) \/ CreateConflicts(w) \/ MakerMissing(w) \/ EnqueueCommits(w)
  BY <1>2, <1>3 DEF CallFails, CreateConflicts, MakerMissing, Abort, EnqueueCommits
<1>4. \A k : NextWrite(w, k) \in Writing
  BY DEF NextWrite, Writing
<1>5. "create" \in Persisting /\ "read" \in Persisting /\ "update" \in Persisting
      /\ "allocate" \in Persisting /\ "trade" \in Persisting /\ "commit" \in Persisting
      /\ "read" \in Writing /\ "update" \in Writing
  BY DEF Persisting, Writing
<1>6. CASE Allocate(w)
  <2>1. o.pc = "allocate" /\ next' = next
    BY <1>1, <1>6 DEF Allocate, pipeline
  <2>2. PICK s : op'[w] = Later(o, "create", s, o.trade, o.read, o.writes, o.cached)
    BY <1>1, <1>6, AllocateEffect DEF Becomes
  <2>3. GoesOn(o, op'[w])
    BY <1>5, <2>1, <2>2 DEF GoesOn, Persists, Later
  <2> QED
    BY <1>1, <2>1, <2>3
<1>7. CASE CreateRow(w)
  <2>1. o.pc = "create" /\ next' = next
    BY <1>1, <1>7 DEF CreateRow, pipeline
  <2>2. op'[w] = Later(o, NextWrite(w, 1), o.sequence, o.trade, o.read, o.writes, o.cached)
    BY <1>1, <1>7, CreateRowEffect DEF Becomes
  <2>3. GoesOn(o, op'[w])
    BY <1>4, <1>5, <2>1, <2>2 DEF GoesOn, Persists, Later
  <2> QED
    BY <1>1, <2>1, <2>3
<1>8. CASE InsertTrade(w)
  <2>1. o.pc = "trade" /\ next' = next
    BY <1>1, <1>8 DEF InsertTrade, pipeline
  <2>2. op'[w] = Later(o, "read", o.sequence, o.trade, o.read, o.writes, o.cached)
    BY <1>1, <1>8, InsertTradeEffect DEF Becomes
  <2>3. GoesOn(o, op'[w])
    BY <1>5, <2>1, <2>2 DEF GoesOn, Persists, Later
  <2> QED
    BY <1>1, <2>1, <2>3
<1>9. CASE ReadMaker(w)
  <2>1. o.pc = "read" /\ next' = next
    BY <1>1, <1>9 DEF ReadMaker, pipeline
  <2>2. PICK r : op'[w] = Later(o, "update", o.sequence, o.trade, r, o.writes, o.cached)
    BY <1>1, <1>9, ReadMakerEffect DEF Becomes
  <2>3. GoesOn(o, op'[w])
    BY <1>5, <2>1, <2>2 DEF GoesOn, Persists, Later
  <2> QED
    BY <1>1, <2>1, <2>3
<1>10. CASE UpdateMaker(w)
  <2>1. o.pc = "update" /\ next' = next
    BY <1>1, <1>10 DEF UpdateMaker, pipeline
  <2>2. PICK t : t = Trade(w)
    OBVIOUS
  <2>3. PICK writes : writes = With(o.writes, t.maker, Less(o.read, t.quantity))
    OBVIOUS
  <2>4. op'[w] = Later(o, NextWrite(w, o.trade + 1), o.sequence, o.trade + 1, o.read,
                       writes, o.cached)
    BY <1>1, <1>10, <2>2, <2>3, UpdateMakerEffect DEF Becomes
  <2>5. GoesOn(o, op'[w])
    BY <1>4, <1>5, <2>1, <2>4 DEF GoesOn, Persists, Later
  <2> QED
    BY <1>1, <2>1, <2>5
<1>11. CASE Commit(w)
  <2>1. o.pc = "commit" /\ next' = next
    BY <1>1, <1>11 DEF Commit, pipeline
  <2>2. PICK writes : op'[w] = Later(o, "cache", o.sequence, o.trade, o.read, writes, o.cached)
    BY <1>1, <1>11, CommitEffect DEF Becomes
  <2>3. GoesOn(o, op'[w])
    BY <1>5, <2>1, <2>2 DEF GoesOn, Persists, Later
  <2> QED
    BY <1>1, <2>1, <2>3
<1>12. CASE CacheNext(w)
  <2>1. o.pc = "cache" /\ o.cached < Len(o.captured) /\ next' = next
    BY <1>1, <1>12 DEF CacheNext, pipeline
  <2>2. op'[w] = Later(o, "cache", o.sequence, o.trade, o.read, o.writes, o.cached + 1)
    BY <1>1, <1>12, CacheNextEffect DEF Becomes
  <2>3. GoesOn(o, op'[w])
    BY <2>1, <2>2 DEF GoesOn, CachesOne, Later
  <2> QED
    BY <1>1, <2>1, <2>3
<1>13. CASE CacheDone(w)
  <2>1. o.pc = "cache" /\ o.cached = Len(o.captured) /\ next' = next
    BY <1>1, <1>13 DEF CacheDone, pipeline
  <2>2. op'[w] = Later(o, "enqueue", o.sequence, o.trade, o.read, o.writes, o.cached)
    <3>1. Becomes(w, Later(o, "enqueue", o.sequence, o.trade, o.read, o.writes, o.cached))
      BY <1>1, <1>13, GoOnEffect DEF CacheDone
    <3> QED
      BY <3>1 DEF Becomes
  <2>3. GoesOn(o, op'[w])
    BY <2>1, <2>2 DEF GoesOn, Later
  <2> QED
    BY <1>1, <2>1, <2>3
<1>14. CASE EnqueueAll(w)
  <2>1. o.pc = "enqueue" /\ next' = next
    BY <1>1, <1>14 DEF EnqueueAll, pipeline
  <2>2. op'[w] = Later(o, "flush", o.sequence, o.trade, o.read, o.writes, o.cached)
    <3>1. Becomes(w, Later(o, "flush", o.sequence, o.trade, o.read, o.writes, o.cached))
      BY <1>1, <1>14, GoOnEffect DEF EnqueueAll
    <3> QED
      BY <3>1 DEF Becomes
  <2>3. GoesOn(o, op'[w])
    BY <2>1, <2>2 DEF GoesOn, Later
  <2> QED
    BY <1>1, <2>1, <2>3
<1> QED
  BY <1>3, <1>6, <1>7, <1>8, <1>9, <1>10, <1>11, <1>12, <1>13, <1>14 DEF ProcessStep

(***************************************************************************)
(* The commands: one the consumer has reached since its group began has    *)
(* been placed, and one is placed more often only by restarts and rejoins. *)
(***************************************************************************)
AttemptsOf(all, c) == {p \in DOMAIN all : all[p].command = c}

Reached(c) == c <= next \/ (c = next + 1 /\ op["consumer"].pc # "idle")

Tries == restarts + rejoins

AttemptsFit(all, c, more) ==
  Cardinality(AttemptsOf(all, c)) <= Tries + more

CommandSound(c) ==
  /\ AttemptsFit(placed, c, 1)
  /\ Reached(c) /\ c > first => AttemptsOf(placed, c) # {}
  /\ ~Reached(c) => AttemptsFit(placed, c, 0)

CommandsSound == \A c \in Nat \ {0} : CommandSound(c)

LEMMA AttemptsFinite ==
  ASSUME EngineTyped, NEW c
  PROVE  IsFiniteSet(AttemptsOf(placed, c)) /\ Cardinality(AttemptsOf(placed, c)) \in Nat
<1>1. PICK n \in Nat : n = Len(placed)
  BY DEF EngineTyped
<1>2. IsFiniteSet(1..n)
  BY FS_Interval
<1>3. DOMAIN placed = 1..n
  BY <1>1 DEF EngineTyped
<1>4. AttemptsOf(placed, c) \subseteq 1..n
  BY <1>3 DEF AttemptsOf
<1> QED
  BY <1>2, <1>4, FS_Subset, FS_CardinalityType

LEMMA PlacingAttempts ==
  ASSUME EngineTyped, NEW x, placed' = Append(placed, x), NEW c
  PROVE  /\ c # x.command => AttemptsOf(placed', c) = AttemptsOf(placed, c)
         /\ c = x.command =>
              /\ AttemptsOf(placed', c) # {}
              /\ Cardinality(AttemptsOf(placed', c)) = Cardinality(AttemptsOf(placed, c)) + 1
<1>1. PICK n \in Nat : n = Len(placed)
  BY DEF EngineTyped
<1>2. PICK all : all = placed'
  OBVIOUS
<1>3. DOMAIN placed = 1..n
  BY <1>1 DEF EngineTyped
<1>4. DOMAIN all = 1..(n + 1) /\ all[n + 1] = x /\ \A p \in 1..n : all[p] = placed[p]
  BY <1>1, <1>2 DEF EngineTyped
<1>5. 1..(n + 1) = 1..n \cup {n + 1} /\ n + 1 \notin 1..n
  OBVIOUS
<1>6. CASE c # x.command
  <2>1. AttemptsOf(all, c) = AttemptsOf(placed, c)
    BY <1>3, <1>4, <1>5, <1>6 DEF AttemptsOf
  <2> QED
    BY <1>2, <1>6, <2>1
<1>7. CASE c = x.command
  <2>1. AttemptsOf(all, c) = AttemptsOf(placed, c) \cup {n + 1}
    BY <1>3, <1>4, <1>5, <1>7 DEF AttemptsOf
  <2>2. n + 1 \notin AttemptsOf(placed, c)
    BY <1>3, <1>5 DEF AttemptsOf
  <2>3. Cardinality(AttemptsOf(placed, c) \cup {n + 1}) = Cardinality(AttemptsOf(placed, c)) + 1
    BY <2>2, AttemptsFinite, FS_AddElement
  <2> QED
    BY <1>2, <1>7, <2>1, <2>3
<1> QED
  BY <1>6, <1>7

\* Nothing is placed and the consumer is where it was.
LEMMA NoCommandMoves ==
  ASSUME CommandsSound, placed' = placed, Tries' = Tries, first' = first,
         \A c \in Nat \ {0} : Reached(c)' = Reached(c)
  PROVE  CommandsSound'
BY DEF CommandsSound, CommandSound, AttemptsFit

\* The consumer places the next command of its partition, the feed its own.
LEMMA WhatIsPlaced ==
  ASSUME PipelineTyped, BoundsTyped, Consume \/ Tick \/ TakeBack
  PROVE  \E w \in Submitters, input \in InputRecords, command \in Nat :
           /\ Placed(w, input, command)
           /\ w = "consumer" => command = next + 1
           /\ w # "consumer" => command = 0
<1>1. CASE Consume
  <2>1. PICK input : input = topic[next + 1]
    OBVIOUS
  <2>2. PICK command : command = next + 1
    OBVIOUS
  <2>3. Placed("consumer", input, command) /\ input \in InputRecords /\ command \in Nat
    BY <1>1, <2>1, <2>2, ConsumeEffect
  <2> QED
    BY <2>2, <2>3 DEF Submitters
<1>2. CASE Tick
  <2>1. \E maker \in MakerOrders : Placed("synthetic", maker, 0) /\ maker \in InputRecords
    BY <1>2, TickEffect DEF BoundsTyped
  <2> QED
    BY <2>1 DEF Submitters
<1>3. CASE TakeBack
  BY <1>3, TakeBackEffect DEF Submitters
<1> QED
  BY <1>1, <1>2, <1>3

LEMMA PlacedKeepsCommands ==
  ASSUME IInv, Sound, CommandsSound, Consume \/ Tick \/ TakeBack
  PROVE  CommandsSound'
<1>1. EngineTyped /\ OpTyped /\ PipelineTyped /\ BoundsTyped
  BY DEF Sound, EngineSound, WorkSound, RestTyped
<1>2. PICK w \in Submitters, input \in InputRecords, command \in Nat :
        /\ Placed(w, input, command)
        /\ w = "consumer" => command = next + 1
        /\ w # "consumer" => command = 0
  BY <1>1, WhatIsPlaced
<1>3. PICK o : Placing(w, input, command, o)
  BY <1>1, <1>2, SubmitEffect DEF Placed
<1>4. PICK x : x = Placement(command, o)
  OBVIOUS
<1>5. placed' = Append(placed, x) /\ x.command = command
  BY <1>3, <1>4 DEF Placing, Placement
<1>6. /\ next \in Nat /\ next' = next /\ first' = first
      /\ Tries' = Tries /\ Tries \in Nat
  <2>1. UNCHANGED <<first, next, restarts, rejoins>>
    BY <1>2 DEF Placed
  <2>2. next \in Nat
    BY <1>1 DEF PipelineTyped
  <2>3. restarts \in Nat /\ rejoins \in Nat
    BY <1>1 DEF BoundsTyped
  <2> QED
    BY <2>1, <2>2, <2>3 DEF Tries
<1>7. CASE w = "consumer"
  <2>1. op["consumer"].pc = "idle" /\ op'["consumer"].pc # "idle"
    BY <1>3, <1>7 DEF Placing, Started
  <2>2. command = next + 1
    BY <1>2, <1>7
  <2>3. ASSUME NEW c \in Nat \ {0} PROVE CommandSound(c)'
    <3>1. CASE c # command
      <4>1. Reached(c)' = Reached(c)
        BY <1>6, <2>1, <2>2, <3>1 DEF Reached
      <4>2. AttemptsOf(placed', c) = AttemptsOf(placed, c)
        BY <1>1, <1>5, <3>1, PlacingAttempts
      <4> QED
        BY <1>6, <4>1, <4>2 DEF CommandsSound, CommandSound, AttemptsFit
    <3>2. CASE c = command
      <4>1. Reached(c)' /\ ~Reached(c)
        BY <1>6, <2>1, <2>2, <3>2 DEF Reached
      <4>2. PICK k \in Nat : k = Cardinality(AttemptsOf(placed, c))
        BY <1>1, AttemptsFinite
      <4>3. k <= Tries + 0 /\ k <= Tries
        BY <1>6, <4>1, <4>2 DEF CommandsSound, CommandSound, AttemptsFit
      <4>4. AttemptsOf(placed', c) # {} /\ Cardinality(AttemptsOf(placed', c)) = k + 1
        BY <1>1, <1>5, <3>2, <4>2, PlacingAttempts
      <4>5. k + 1 <= Tries + 1
        BY <1>6, <4>3
      <4> QED
        BY <1>6, <4>1, <4>4, <4>5 DEF CommandSound, AttemptsFit
    <3> QED
      BY <3>1, <3>2
  <2> QED
    BY <2>3 DEF CommandsSound
<1>8. CASE w # "consumer"
  <2>1. op'["consumer"] = Captures(op["consumer"], Len(placed) + 1)
    BY <1>3, <1>8 DEF Placing, Submitters
  <2>2. op'["consumer"].pc = op["consumer"].pc
    BY <2>1 DEF Captures
  <2>3. ASSUME NEW c \in Nat \ {0} PROVE CommandSound(c)'
    <3>1. Reached(c)' = Reached(c)
      BY <1>6, <2>2 DEF Reached
    <3>2. AttemptsOf(placed', c) = AttemptsOf(placed, c)
      BY <1>1, <1>2, <1>5, <1>8, PlacingAttempts
    <3> QED
      BY <1>6, <3>1, <3>2 DEF CommandsSound, CommandSound, AttemptsFit
  <2> QED
    BY <2>3 DEF CommandsSound
<1> QED
  BY <1>7, <1>8

LEMMA OpStepKeepsCommands ==
  ASSUME Sound, CommandsSound, NEW w \in Submitters, ProcessStep(w) \/ CallFails(w)
  PROVE  CommandsSound'
<1>1. OpTyped /\ PipelineTyped
  BY DEF Sound, WorkSound, RestTyped
<1>2. /\ op[w].pc # "idle" /\ placed' = placed /\ Tries' = Tries /\ first' = first
      /\ \A v \in Submitters \ {w} : op'[v] = op[v]
      /\ Leave(w) \/ next' = next
  BY <1>1, OpStep DEF Tries
<1>3. next \in Nat
  BY <1>1 DEF PipelineTyped
<1>4. CASE w # "consumer"
  <2>1. op'["consumer"] = op["consumer"] /\ next' = next
    BY <1>2, <1>4 DEF Leave, Submitters
  <2> QED
    BY <1>2, <2>1, NoCommandMoves DEF Reached
<1>5. CASE w = "consumer" /\ Leave(w)
  <2>1. next' = next + 1 /\ op'["consumer"].pc = "idle" /\ op["consumer"].pc # "idle"
    BY <1>1, <1>2, <1>5, LeaveEffect DEF Leave, Becomes, NoOp
  <2>2. ASSUME NEW c \in Nat \ {0} PROVE Reached(c)' = Reached(c)
    <3>1. (c <= next + 1) = (c <= next \/ c = next + 1)
      BY <1>3
    <3> QED
      BY <2>1, <3>1 DEF Reached
  <2> QED
    BY <1>2, <2>2, NoCommandMoves
<1>6. CASE w = "consumer" /\ ~Leave(w)
  <2>1. next' = next /\ GoesOn(op[w], op'[w])
    BY <1>1, <1>6, StepOfOp
  <2>2. op'["consumer"].pc # "idle"
    BY <1>6, <2>1 DEF GoesOn, Persists, CachesOne, Persisting, Writing
  <2>3. ASSUME NEW c \in Nat \ {0} PROVE Reached(c)' = Reached(c)
    BY <1>2, <1>6, <2>1, <2>2 DEF Reached
  <2> QED
    BY <1>2, <2>3, NoCommandMoves
<1> QED
  BY <1>4, <1>5, <1>6

\* The consumer joins again. Where it goes back it has been; where it skips to
\* the end, the group begins there.
LEMMA ResumeKeepsCommands ==
  ASSUME Sound, CommandsSound, Resume, placed' = placed, op'["consumer"].pc = "idle",
         \/ restarts' = restarts + 1 /\ rejoins' = rejoins
         \/ restarts' = restarts /\ rejoins' = rejoins + 1
  PROVE  CommandsSound'
<1>1. EngineTyped /\ PipelineTyped /\ BoundsTyped
  BY DEF Sound, EngineSound, RestTyped
<1>2. PICK n \in Nat : n = Len(topic)
  BY <1>1 DEF PipelineTyped
<1>3. next \in Nat /\ committed \in Nat /\ committed <= next
  BY <1>1 DEF PipelineTyped
<1>4. Tries \in Nat /\ Tries' = Tries + 1
  BY <1>1 DEF BoundsTyped, Tries
<1>5. \/ next' = n /\ first' = n
      \/ next' = committed /\ first' = first
  BY <1>2 DEF Resume
<1>6. ASSUME NEW c \in Nat \ {0} PROVE CommandSound(c)'
  <2>1. (Reached(c) /\ c > first)' => Reached(c) /\ c > first
    BY <1>2, <1>3, <1>5 DEF Reached
  <2>2. PICK k \in Nat : k = Cardinality(AttemptsOf(placed, c))
    BY <1>1, AttemptsFinite
  <2>3. k <= Tries + 1
    BY <2>2 DEF CommandsSound, CommandSound, AttemptsFit
  <2>4. k <= (Tries + 1) + 0 /\ k <= (Tries + 1) + 1
    BY <1>4, <2>3
  <2> QED
    BY <1>4, <2>1, <2>2, <2>4 DEF CommandsSound, CommandSound, AttemptsFit
<1> QED
  BY <1>6 DEF CommandsSound

LEMMA NextKeepsCommands ==
  ASSUME IInv, Sound, CommandsSound, [Next]_vars
  PROVE  CommandsSound'
<1>1. CASE Consume \/ Tick \/ TakeBack
  BY <1>1, PlacedKeepsCommands
<1>2. CASE \E w \in Submitters : ProcessStep(w) \/ CallFails(w)
  BY <1>2, OpStepKeepsCommands
<1>3. CASE Send \/ SnapshotExpires \/ CommitOffset \/ UNCHANGED vars
  <2>1. UNCHANGED <<placed, op, next, first>> /\ Tries' = Tries
    BY <1>3 DEF Tries, Send, SnapshotExpires, CommitOffset, vars, pipeline, engine, bounds
  <2>2. ASSUME NEW c \in Nat \ {0} PROVE Reached(c)' = Reached(c)
    BY <2>1 DEF Reached
  <2> QED
    BY <2>1, <2>2, NoCommandMoves
<1>4. CASE Restart \/ Rejoin
  <2>1. /\ placed' = placed /\ Resume /\ op'["consumer"].pc = "idle"
        /\ \/ restarts' = restarts + 1 /\ rejoins' = rejoins
           \/ restarts' = restarts /\ rejoins' = rejoins + 1
    BY <1>4, RejoinEffect DEF Restart, NoOp, Submitters
  <2> QED
    BY <2>1, ResumeKeepsCommands
<1> QED
  BY <1>1, <1>2, <1>3, <1>4 DEF Next

\* Every command committed since the group began was placed, and a command is
\* placed again only when the consumer has joined its group again (eachMessage,
\* the committed offset, and where a group without one begins).
THEOREM Redelivered == Spec => []CommandsPlaced
<1>1. Init => CommandsSound
  <2>1. ASSUME Init, NEW c \in Nat \ {0} PROVE CommandSound(c)
    <3>1. /\ AttemptsOf(placed, c) = {} /\ next = 0 /\ restarts = 0 /\ rejoins = 0
          /\ op["consumer"].pc = "idle"
      BY <2>1 DEF Init, AttemptsOf, NoOp, Submitters
    <3>2. ~Reached(c)
      BY <3>1 DEF Reached
    <3> QED
      BY <3>1, <3>2, FS_EmptySet DEF CommandSound, AttemptsFit, Tries
  <2> QED
    BY <2>1 DEF CommandsSound
<1>2. IInv /\ Sound /\ CommandsSound /\ [Next]_vars => CommandsSound'
  BY NextKeepsCommands
<1>3. Sound /\ CommandsSound => CommandsPlaced
  <2> SUFFICES ASSUME Sound, CommandsSound PROVE CommandsPlaced
    OBVIOUS
  <2>1. EngineTyped /\ PipelineTyped /\ BoundsTyped
    BY DEF Sound, EngineSound, RestTyped
  <2>2. /\ restarts \in Nat /\ rejoins \in Nat /\ Tries = restarts + rejoins
        /\ next \in Nat /\ first \in Nat /\ committed \in Nat /\ committed <= next
    BY <2>1 DEF PipelineTyped, BoundsTyped, Tries
  <2>3. ASSUME NEW c \in (first + 1)..committed PROVE Attempts(c) # {}
    <3>1. c \in Nat \ {0} /\ c > first /\ c <= next
      BY <2>2
    <3>2. AttemptsOf(placed, c) # {}
      BY <3>1 DEF CommandsSound, CommandSound, Reached
    <3> QED
      BY <3>2 DEF AttemptsOf, Attempts
  <2>4. ASSUME NEW c \in 1..Len(topic)
        PROVE  Cardinality(Attempts(c)) <= 1 + restarts + rejoins
    <3>1. PICK k \in Nat : k = Cardinality(AttemptsOf(placed, c))
      BY <2>1, AttemptsFinite
    <3>2. c \in Nat \ {0}
      BY <2>1 DEF PipelineTyped
    <3>3. k <= Tries + 1
      BY <3>1, <3>2 DEF CommandsSound, CommandSound, AttemptsFit
    <3>4. k <= 1 + restarts + rejoins
      BY <2>2, <3>3
    <3> QED
      BY <3>1, <3>4 DEF AttemptsOf, Attempts
  <2> QED
    BY <2>3, <2>4 DEF CommandsPlaced
<1> QED
  BY <1>1, <1>2, <1>3, Invariance, Soundness, PTL DEF Spec

(***************************************************************************)
(* The snapshots: a processOrder that has not written its events to the    *)
(* outbox has captured every placement since its own, and the snapshot is  *)
(* older than a stored order only while a later one is about to be cached. *)
(***************************************************************************)
Capturing(o) == o.pc \in Persisting \cup {"cache", "enqueue"}

CapturesAll(o, n) ==
  /\ Capturing(o) => /\ Len(o.captured) = (n + 1) - o.id
                     /\ \A i \in 1..Len(o.captured) : o.captured[i] = o.id + (i - 1)
  /\ o.pc \in Persisting => o.cached = 0

CapturedSound == \A w \in Submitters : CapturesAll(op[w], Len(placed))

LEMMA NoOpCaptures == ASSUME NEW n PROVE CapturesAll(NoOp, n)
<1>1. NoOp.pc = "idle"
  BY DEF NoOp
<1> QED
  BY <1>1 DEF CapturesAll, Capturing, Persisting, Writing

LEMMA StartedCaptures ==
  ASSUME NEW n \in Nat, NEW pc, NEW since
  PROVE  CapturesAll(Started(pc, n + 1, since), n + 1)
<1>1. PICK id : id = n + 1
  OBVIOUS
<1>2. /\ Started(pc, id, since).id = id /\ Started(pc, id, since).captured = <<id>>
      /\ Started(pc, id, since).cached = 0
  BY DEF Started
<1>3. Len(<<id>>) = 1 /\ <<id>>[1] = id
  OBVIOUS
<1>4. (id + 1) - id = 1 /\ \A i \in 1..1 : <<id>>[i] = id + (i - 1)
  BY <1>1, <1>3
<1> QED
  BY <1>1, <1>2, <1>3, <1>4 DEF CapturesAll

LEMMA CapturesMore ==
  ASSUME NEW n \in Nat, NEW o \in Operations, o.id \in 0..n, CapturesAll(o, n)
  PROVE  CapturesAll(Captures(o, n + 1), n + 1)
<1>1. CASE o.pc \in {"idle", "flush"}
  BY <1>1 DEF Captures, CapturesAll, Capturing, Persisting, Writing
<1>2. CASE o.pc \notin {"idle", "flush"}
  <2>1. Capturing(o)
    BY <1>2, LocationsSplit DEF Capturing, Operations, Locations
  <2>2. PICK s \in Seq(Nat) : s = o.captured
    BY DEF Operations
  <2>3. PICK m \in Nat : m = Len(s)
    OBVIOUS
  <2>4. PICK id \in Nat : id = o.id
    BY DEF Operations
  <2>5. m = (n + 1) - id /\ \A i \in 1..m : s[i] = id + (i - 1)
    BY <2>1, <2>2, <2>3, <2>4 DEF CapturesAll
  <2>6. PICK t : t = Append(s, n + 1)
    OBVIOUS
  <2>7. Len(t) = m + 1 /\ t[m + 1] = n + 1 /\ \A i \in 1..m : t[i] = s[i]
    BY <2>2, <2>3, <2>6
  <2>8. m + 1 = ((n + 1) + 1) - id /\ n + 1 = id + ((m + 1) - 1)
    BY <2>5
  <2>9. \A i \in 1..(m + 1) : t[i] = id + (i - 1)
    <3>1. 1..(m + 1) = 1..m \cup {m + 1}
      OBVIOUS
    <3> QED
      BY <2>5, <2>7, <2>8, <3>1
  <2>10. PICK x : x = Captures(o, n + 1)
    OBVIOUS
  <2>11. x.id = id /\ x.captured = t /\ x.pc = o.pc /\ x.cached = o.cached
    BY <1>2, <2>2, <2>4, <2>6, <2>10 DEF Captures
  <2>12. /\ Len(x.captured) = ((n + 1) + 1) - x.id
         /\ \A i \in 1..Len(x.captured) : x.captured[i] = x.id + (i - 1)
    BY <2>7, <2>8, <2>9, <2>11
  <2>13. x.pc \in Persisting => x.cached = 0
    BY <2>11 DEF CapturesAll
  <2> QED
    BY <2>10, <2>12, <2>13 DEF CapturesAll
<1> QED
  BY <1>1, <1>2

LEMMA PlacedKeepsCaptured ==
  ASSUME Sound, CapturedSound, NEW w \in Submitters, NEW input \in InputRecords,
         NEW command \in Nat, Placed(w, input, command)
  PROVE  CapturedSound'
<1>1. EngineTyped /\ OpTyped
  BY DEF Sound, EngineSound, WorkSound
<1>2. PICK n \in Nat : n = Len(placed)
  BY <1>1 DEF EngineTyped
<1>3. PICK o : Placing(w, input, command, o)
  BY <1>1, SubmitEffect DEF Placed
<1>4. Len(placed') = n + 1
  BY <1>1, <1>2, <1>3 DEF Placing, EngineTyped
<1>5. CapturesAll(op'[w], n + 1)
  BY <1>2, <1>3, StartedCaptures DEF Placing
<1>6. ASSUME NEW v \in Submitters \ {w} PROVE CapturesAll(op'[v], n + 1)
  <2>1. op[v] \in Operations /\ op[v].id \in 0..n /\ CapturesAll(op[v], n)
    BY <1>1, <1>2 DEF OpTyped, OpFits, CapturedSound
  <2>2. op'[v] = Captures(op[v], n + 1)
    BY <1>2, <1>3 DEF Placing
  <2> QED
    BY <2>1, <2>2, CapturesMore
<1> QED
  BY <1>4, <1>5, <1>6 DEF CapturedSound

LEMMA OpStepKeepsCaptured ==
  ASSUME Sound, CapturedSound, NEW w \in Submitters, ProcessStep(w) \/ CallFails(w)
  PROVE  CapturedSound'
<1>1. OpTyped
  BY DEF Sound, WorkSound
<1>2. placed' = placed /\ \A v \in Submitters \ {w} : op'[v] = op[v]
  BY <1>1, OpStep
<1>3. PICK n : n = Len(placed)
  OBVIOUS
<1>4. CapturesAll(op'[w], n)
  <2>1. CASE op'[w] = NoOp
    BY <2>1, NoOpCaptures
  <2>2. CASE GoesOn(op[w], op'[w])
    <3>1. PICK o : o = op[w]
      OBVIOUS
    <3>2. PICK x : x = op'[w]
      OBVIOUS
    <3>3. CapturesAll(o, n) /\ GoesOn(o, x)
      BY <1>3, <2>2, <3>1, <3>2 DEF CapturedSound
    <3>4. Capturing(x) => Capturing(o)
      BY <3>3 DEF GoesOn, Persists, CachesOne, Capturing, Persisting, Writing
    <3>5. x.pc \in Persisting => o.pc \in Persisting /\ x.cached = o.cached
      BY <3>3 DEF GoesOn, Persists, CachesOne, Persisting, Writing
    <3>6. x.id = o.id /\ x.captured = o.captured
      BY <3>3 DEF GoesOn
    <3> QED
      BY <3>2, <3>3, <3>4, <3>5, <3>6 DEF CapturesAll
  <2> QED
    BY <1>1, <2>1, <2>2, StepOfOp DEF Becomes
<1>5. \A v \in Submitters \ {w} : CapturesAll(op'[v], n)
  BY <1>2, <1>3 DEF CapturedSound
<1> QED
  BY <1>2, <1>3, <1>4, <1>5 DEF CapturedSound

(***************************************************************************)
(* The cache.                                                              *)
(***************************************************************************)
Catching(o, all, id) ==
  /\ o.pc = "cache"
  /\ \E p \in DOMAIN all : p >= id /\ all[p].status = "accepted" /\ o.id + o.cached <= p

CacheAhead ==
  faults = 0 /\ cache # 0 =>
    \A id \in DOMAIN rows :
      id > epoch => cache >= id \/ \E w \in Submitters : Catching(op[w], placed, id)

LEMMA PlacedKeepsAhead ==
  ASSUME Sound, CacheAhead, NEW w \in Submitters, NEW input \in InputRecords,
         NEW command \in Nat, Placed(w, input, command)
  PROVE  CacheAhead'
<1>1. EngineTyped /\ OpTyped
  BY DEF Sound, EngineSound, WorkSound
<1>2. PICK o : Placing(w, input, command, o) /\ Extends(placed', Placement(command, o))
  BY PlacedKeeps
<1>3. PICK all : all = placed'
  OBVIOUS
<1>4. \A p \in DOMAIN placed : p \in DOMAIN all /\ all[p] = placed[p]
  BY <1>2, <1>3 DEF Extends
<1>5. faults' = faults /\ cache' = cache /\ rows' = rows /\ epoch' = epoch
  BY DEF Placed
<1>6. ASSUME NEW v \in Submitters, NEW id, Catching(op[v], placed, id)
      PROVE  Catching(op'[v], all, id)
  <2>1. v # w
    BY <1>2, <1>6 DEF Placing, Catching
  <2>2. op'[v] = Captures(op[v], Len(placed) + 1)
    BY <1>2, <2>1 DEF Placing
  <2>3. op'[v].pc = op[v].pc /\ op'[v].id = op[v].id /\ op'[v].cached = op[v].cached
    BY <2>2 DEF Captures
  <2> QED
    BY <1>4, <1>6, <2>3 DEF Catching
<1> QED
  BY <1>3, <1>5, <1>6 DEF CacheAhead

LEMMA CacheNextKeepsAhead ==
  ASSUME Sound, CapturedSound, CacheAhead, NEW w \in Submitters, CacheNext(w)
  PROVE  CacheAhead'
<1>1. OpTyped /\ EngineTyped /\ RowsTyped
  BY DEF Sound, EngineSound, WorkSound
<1>2. PICK o \in Operations : o = op[w]
  BY <1>1 DEF OpTyped, OpFits
<1>3. o.pc = "cache" /\ o.cached < Len(o.captured)
  BY <1>2 DEF CacheNext
<1>4. PICK c \in Nat : c = o.cached
  BY DEF Operations
<1>5. PICK own \in Nat : own = o.id
  BY DEF Operations
<1>6. PICK m \in Nat : m = Len(o.captured)
  BY DEF Operations
<1>7. PICK q : q = o.captured[c + 1]
  OBVIOUS
<1>8. q = own + c
  <2>1. c + 1 \in 1..m
    BY <1>3, <1>4, <1>6
  <2>2. CapturesAll(o, Len(placed)) /\ Capturing(o)
    BY <1>2, <1>3 DEF CapturedSound, Capturing
  <2>3. q = own + ((c + 1) - 1)
    BY <1>5, <1>6, <1>7, <2>1, <2>2 DEF CapturesAll
  <2> QED
    BY <2>3
<1>9. Becomes(w, Later(o, "cache", o.sequence, o.trade, o.read, o.writes, c + 1))
  BY <1>1, <1>2, <1>4, CacheNextEffect
<1>10. /\ op'[w].pc = "cache" /\ op'[w].id = own /\ op'[w].cached = c + 1
       /\ \A v \in Submitters \ {w} : op'[v] = op[v]
  BY <1>5, <1>9 DEF Becomes, Later
<1>11. placed' = placed /\ rows' = rows /\ faults' = faults /\ epoch' = epoch
  BY DEF CacheNext, engine, database, bounds
<1>12. cache' = IF placed[q].status = "accepted" THEN q ELSE cache
  BY <1>2, <1>4, <1>7 DEF CacheNext
<1>13. CASE placed[q].status = "accepted"
  <2>1. ASSUME NEW id \in DOMAIN rows PROVE cache' >= id \/ Catching(op'[w], placed, id)
    <3>1. id \in DOMAIN placed /\ placed[id].status = "accepted" /\ id \in Nat
      BY <1>1, RowsTyped DEF RowsTyped, EngineTyped
    <3>2. CASE id <= q
      BY <1>8, <1>12, <1>13, <3>1, <3>2
    <3>3. CASE ~(id <= q)
      <4>1. own + (c + 1) <= id
        BY <1>8, <3>1, <3>3
      <4> QED
        BY <1>10, <3>1, <4>1 DEF Catching
    <3> QED
      BY <3>2, <3>3
  <2> QED
    BY <1>11, <2>1 DEF CacheAhead
<1>14. CASE placed[q].status # "accepted"
  <2>1. ASSUME NEW v \in Submitters, NEW id, Catching(op[v], placed, id)
        PROVE  Catching(op'[v], placed, id)
    <3>1. CASE v # w
      BY <1>10, <2>1, <3>1
    <3>2. CASE v = w
      <4>1. PICK p \in DOMAIN placed :
              p >= id /\ placed[p].status = "accepted" /\ own + c <= p
        BY <1>2, <1>4, <1>5, <2>1, <3>2 DEF Catching
      <4>2. p # q /\ p \in Nat
        BY <1>1, <1>14, <4>1 DEF EngineTyped
      <4>3. own + (c + 1) <= p
        BY <1>8, <4>1, <4>2
      <4> QED
        BY <1>10, <3>2, <4>1, <4>3 DEF Catching
    <3> QED
      BY <3>1, <3>2
  <2>2. cache' = cache
    BY <1>12, <1>14
  <2> QED
    BY <1>11, <2>1, <2>2 DEF CacheAhead
<1> QED
  BY <1>13, <1>14

\* Only a processOrder that has cached everything leaves the caching loop.
LEMMA StillCatching ==
  ASSUME Sound, CapturedSound, NEW w \in Submitters, ProcessStep(w), ~CacheNext(w),
         NEW v \in Submitters, NEW id, Catching(op[v], placed, id)
  PROVE  Catching(op'[v], placed, id)
<1>1. OpTyped /\ EngineTyped
  BY DEF Sound, EngineSound, WorkSound
<1>2. CASE v # w
  <2>1. op'[v] = op[v]
    BY <1>1, <1>2, OpStep
  <2> QED
    BY <2>1
<1>3. CASE v = w
  <2>1. op[w].pc = "cache"
    BY <1>3 DEF Catching
  <2>2. CacheDone(w)
    BY <2>1 DEF ProcessStep, Allocate, CreateRow, CreateConflicts, InsertTrade, MakerMissing,
       ReadMaker, UpdateMaker, Commit, EnqueueAll, EnqueueCommits
  <2>3. PICK o \in Operations : o = op[w]
    BY <1>1 DEF OpTyped, OpFits
  <2>4. PICK n \in Nat : n = Len(placed)
    BY <1>1 DEF EngineTyped
  <2>5. PICK own \in Nat : own = o.id
    BY DEF Operations
  <2>6. PICK c \in Nat : c = o.cached
    BY DEF Operations
  <2>7. c = (n + 1) - own
    BY <2>1, <2>2, <2>3, <2>4, <2>5, <2>6 DEF CapturedSound, CapturesAll, Capturing, CacheDone
  <2>8. PICK p \in DOMAIN placed : own + c <= p
    BY <1>3, <2>3, <2>5, <2>6 DEF Catching
  <2>9. p \in Nat /\ p <= n
    BY <1>1, <2>4 DEF EngineTyped
  <2> QED
    BY <2>7, <2>8, <2>9
<1> QED
  BY <1>2, <1>3

LEMMA OpStepKeepsAhead ==
  ASSUME IInv, Sound, CapturedSound, CacheAhead, NEW w \in Submitters,
         ProcessStep(w) \/ CallFails(w)
  PROVE  CacheAhead'
<1>1. OpTyped /\ EngineTyped /\ RowsTyped /\ PlacedSound /\ Works
  BY DEF Sound, EngineSound, WorkSound
<1>2. placed' = placed /\ epoch' = epoch
  BY <1>1, OpStep
<1>3. faults \in Nat
  BY DEF Sound, RestTyped, BoundsTyped
<1>4. CASE CallFails(w)
  <2>1. faults' # 0
    BY <1>3, <1>4 DEF CallFails
  <2> QED
    BY <2>1 DEF CacheAhead
<1>5. CASE CacheNext(w)
  BY <1>5, CacheNextKeepsAhead
<1>6. CASE ProcessStep(w) /\ ~CacheNext(w) /\ ~Commit(w)
  <2>1. rows' = rows
    BY <1>6, SMTT(20) DEF ProcessStep, CreateConflicts, MakerMissing, Abort, Allocate,
       CreateRow, InsertTrade, ReadMaker, UpdateMaker, CacheDone, EnqueueAll,
       EnqueueCommits, database
  <2>2. cache' = cache /\ faults' = faults
    BY <1>6 DEF ProcessStep, CreateConflicts, MakerMissing, Abort, Allocate,
       CreateRow, InsertTrade, ReadMaker, UpdateMaker, CacheDone, EnqueueAll,
       EnqueueCommits, bounds
  <2>3. \A v \in Submitters, id \in DOMAIN rows :
          Catching(op[v], placed, id) => Catching(op'[v], placed, id)
    BY <1>6, StillCatching
  <2> QED
    BY <1>2, <2>1, <2>2, <2>3, SMTT(20) DEF CacheAhead
<1>7. CASE Commit(w)
  <2>1. PICK o \in Operations : o = op[w]
    BY <1>1 DEF OpTyped, OpFits
  <2>2. PICK ts : ts = placed[o.id].trades
    OBVIOUS
  <2>3. CommitsTo(w, o, ts)
    BY <1>1, <1>7, <2>1, <2>2, CommitWrites
  <2>4. /\ DOMAIN rows' = DOMAIN rows \cup {o.id} /\ o.id \in DOMAIN placed
        /\ placed[o.id].status = "accepted" /\ o.pc = "commit"
    BY <2>3 DEF CommitsTo
  <2>5. cache' = cache /\ faults' = faults
    BY <1>7 DEF Commit, bounds
  <2>6. \A v \in Submitters, id \in DOMAIN rows :
          Catching(op[v], placed, id) => Catching(op'[v], placed, id)
    BY <1>7, StillCatching DEF ProcessStep, Commit, CacheNext
  <2>7. Catching(op'[w], placed, o.id)
    <3>1. PICK writes : Becomes(w, Later(o, "cache", o.sequence, o.trade, o.read, writes, o.cached))
      BY <1>1, <1>7, <2>1, CommitEffect
    <3>2. op'[w].pc = "cache" /\ op'[w].id = o.id /\ op'[w].cached = o.cached
      BY <3>1 DEF Becomes, Later
    <3>3. o.cached = 0
      BY <2>1, <2>4 DEF CapturedSound, CapturesAll, Persisting, Writing
    <3>4. o.id \in Nat
      BY DEF Operations
    <3>5. o.id + 0 <= o.id /\ o.id >= o.id
      BY <3>4
    <3> QED
      BY <2>4, <3>2, <3>3, <3>5 DEF Catching
  <2> QED
    BY <1>2, <2>4, <2>5, <2>6, <2>7 DEF CacheAhead
<1> QED
  BY <1>4, <1>5, <1>6, <1>7

LEMMA NextKeepsAhead ==
  ASSUME IInv, Sound, CapturedSound, CacheAhead, [Next]_vars
  PROVE  CapturedSound' /\ CacheAhead'
<1>1. PipelineTyped /\ BoundsTyped /\ EngineTyped /\ RowsTyped
  BY DEF Sound, EngineSound, WorkSound, RestTyped
<1>2. CASE \E w \in Submitters, input \in InputRecords, command \in Nat : Placed(w, input, command)
  BY <1>2, PlacedKeepsCaptured, PlacedKeepsAhead
<1>3. CASE \E w \in Submitters : ProcessStep(w) \/ CallFails(w)
  BY <1>3, OpStepKeepsCaptured, OpStepKeepsAhead
<1>4. CASE Send \/ SnapshotExpires \/ CommitOffset \/ Rejoin \/ UNCHANGED vars
  <2>1. UNCHANGED <<placed, op, rows, faults, epoch>> /\ (cache' = cache \/ cache' = 0)
    BY <1>4 DEF Send, SnapshotExpires, CommitOffset, Rejoin, vars, engine, database, bounds
  <2> QED
    BY <2>1 DEF CapturedSound, CacheAhead
<1>5. CASE Restart
  <2>1. /\ \A w \in Submitters : op'[w] = NoOp
        /\ placed' = placed /\ rows' = rows /\ epoch' = Len(placed)
    BY <1>5 DEF Restart, database
  <2>2. ASSUME NEW id \in DOMAIN rows PROVE ~(id > Len(placed))
    BY <1>1 DEF RowsTyped, EngineTyped
  <2> QED
    BY <2>1, <2>2, NoOpCaptures DEF CapturedSound, CacheAhead
<1>6. CASE Consume \/ Tick \/ TakeBack
  BY <1>1, <1>2, <1>6, WhatIsPlaced
<1> QED
  BY <1>3, <1>4, <1>5, <1>6 DEF Next

LEMMA Ahead == Spec => [](CapturedSound /\ CacheAhead)
<1>1. Init => CapturedSound /\ CacheAhead
  BY NoOpCaptures DEF Init, CapturedSound, CacheAhead
<1>2. IInv /\ Sound /\ CapturedSound /\ CacheAhead /\ [Next]_vars => (CapturedSound /\ CacheAhead)'
  BY NextKeepsAhead
<1> QED
  BY <1>1, <1>2, Invariance, Soundness, PTL DEF Spec

\* When no call has failed and nothing is under way, a snapshot in Redis is at
\* least as new as every order this process stored (updateCacheFromEvents).
THEOREM CacheAheadOfTable == Spec => []CacheIsLatest
<1>1. CapturedSound /\ CacheAhead => CacheIsLatest
  BY DEF CacheAhead, CacheIsLatest, Catching, Idle
<1> QED
  BY <1>1, Ahead, PTL

(***************************************************************************)
(* The consumer on its own. Placements, sequences and book entries are all *)
(* in the order of the partition, and what is accepted is lost only by a   *)
(* failing call or a restart.                                              *)
(***************************************************************************)
InTurn == [n \in Nat |-> n]

FeedSilent == op["synthetic"].pc = "idle" /\ pending = NoOrder

ConsumerFits(o, all, table) ==
  /\ o.pc # "idle" => o.id = Len(all) /\ o.captured = <<Len(all)>>
  /\ o.pc \in Persisting => o.since = Cardinality(DOMAIN table)
  /\ o.pc = "create" => o.sequence = Cardinality(DOMAIN table) + 1
  /\ o.pc \in {"cache", "enqueue", "flush"} /\ all[Len(all)].status = "accepted"
       => Len(all) \in DOMAIN table

RowsInTurn(table) ==
  /\ \A a, b \in DOMAIN table : table[a].sequence < table[b].sequence => a < b
  /\ \A a \in DOMAIN table : table[a].sequence = table[a].since + 1

NothingLost(o, all, table) ==
  \A id \in DOMAIN all : all[id].status = "accepted" =>
    id \in DOMAIN table \/ (o.pc \in Persisting /\ id = o.id)

Alone ==
  ticks = 0 =>
    /\ FeedSilent
    /\ ConsumerFits(op["consumer"], placed, rows)
    /\ RowsInTurn(rows)
    /\ PersistedBeforePublished
    /\ BookInTime(book, InTurn)
    /\ faults = 0 /\ restarts = 0 => NothingLost(op["consumer"], placed, rows)

(***************************************************************************)
(* placeOrder: the latest order waits behind those of its level.           *)
(***************************************************************************)
LEMMA PlacingInTime ==
  ASSUME EngineTyped, BookPlaced, NEW input \in InputRecords,
         NEW o, o = Outcome(input), BookInTime(book, InTurn)
  PROVE  BookInTime(o.book, InTurn)
<1>1. PICK p : p = Len(placed) + 1
  OBVIOUS
<1>2. /\ p \in Nat /\ o.order.id = p
      /\ \/ o.status = "rejected" /\ o.book = book
         \/ /\ o.status = "accepted" /\ o.order \in OrderRecords(Nat)
            /\ o.book = Place(book, o.order).book
  BY <1>1, OutcomeCases
<1>3. CASE o.status = "rejected"
  BY <1>2, <1>3
<1>4. CASE o.status = "accepted"
  <2>1. PICK order \in OrderRecords(Nat) : order = o.order
    BY <1>2, <1>4
  <2>2. PICK b \in Books(Nat) : b = book /\ BookSound(b) /\ BookInTime(b, InTurn)
    BY DEF EngineTyped
  <2>3. ASSUME NEW s \in Sides, NEW e \in Entries(b[s])
        PROVE  e.id # order.id /\ InTurn[e.id] <= InTurn[order.id]
    <3>1. e.id \in DOMAIN placed
      BY <2>2 DEF BookPlaced, CanRest
    <3>2. PICK n \in Nat : n = Len(placed)
      BY DEF EngineTyped
    <3>3. e.id \in 1..n
      BY <3>1, <3>2 DEF EngineTyped
    <3>4. order.id = n + 1
      BY <1>1, <1>2, <2>1, <3>2
    <3>5. PICK k \in 1..n : k = e.id
      BY <3>3
    <3>6. InTurn[k] = k /\ InTurn[n + 1] = n + 1
      BY DEF InTurn
    <3> QED
      BY <3>4, <3>5, <3>6
  <2>4. Fresh(b, order)
    BY <2>3, Zenon DEF Fresh
  <2>5. Latest(b, order, InTurn)
    BY <2>3, Zenon DEF Latest
  <2>6. PICK done : done = Place(b, order)
    OBVIOUS
  <2>7. BookInTime(done.book, InTurn)
    BY <2>2, <2>4, <2>5, <2>6, PlaceInTime
  <2>8. o.book = done.book
    BY <1>2, <1>4, <2>1, <2>2, <2>6
  <2> QED
    BY <2>7, <2>8
<1> QED
  BY <1>2, <1>3, <1>4

LEMMA ConsumeKeepsAlone ==
  ASSUME IInv, Sound, Alone, Consume, ticks = 0
  PROVE  Alone'
<1>1. EngineTyped /\ BookPlaced /\ OpTyped /\ PipelineTyped /\ OutputTyped
  BY DEF Sound, EngineSound, WorkSound, RestTyped
<1>2. PICK input : input = topic[next + 1]
  OBVIOUS
<1>3. PICK command : command = next + 1
  OBVIOUS
<1>4. /\ Placed("consumer", input, command) /\ input \in InputRecords /\ command \in Nat
      /\ UNCHANGED <<pending, ticks>>
  BY <1>1, <1>2, <1>3, ConsumeEffect
<1>5. PICK o : Placing("consumer", input, command, o) /\ Extends(placed', Placement(command, o))
  BY <1>4, PlacedKeeps DEF Submitters
<1>6. PICK last : last = Placement(command, o)
  OBVIOUS
<1>7. PICK all : all = placed'
  OBVIOUS
<1>8. PICK n \in Nat : n = Len(placed)
  BY <1>1 DEF EngineTyped
<1>9. /\ Len(all) = n + 1 /\ DOMAIN placed = 1..n /\ DOMAIN all = 1..(n + 1)
      /\ all[n + 1] = last /\ \A p \in 1..n : all[p] = placed[p]
  BY <1>5, <1>6, <1>7, <1>8 DEF Extends
<1>10. UNCHANGED <<rows, outbox, faults, restarts>>
  BY <1>4 DEF Placed
<1>11. /\ FeedSilent /\ RowsInTurn(rows) /\ PersistedBeforePublished
       /\ BookInTime(book, InTurn)
       /\ faults = 0 /\ restarts = 0 => NothingLost(op["consumer"], placed, rows)
  BY DEF Alone
<1>12. PICK x : x = op'["consumer"]
  OBVIOUS
<1>13. x = Started(IF o.status = "accepted" THEN "allocate" ELSE "cache", n + 1, Stored)
       /\ op["consumer"].pc = "idle"
  BY <1>5, <1>8, <1>12 DEF Placing
<1>14. /\ x.pc = IF o.status = "accepted" THEN "allocate" ELSE "cache"
       /\ x.id = n + 1 /\ x.captured = <<n + 1>>
  BY <1>13 DEF Started
<1>15. last.status = o.status
  BY <1>6 DEF Placement
<1>16. FeedSilent'
  <2>1. op'["synthetic"] = Captures(op["synthetic"], Len(placed) + 1)
    BY <1>5 DEF Placing, Submitters
  <2> QED
    BY <1>4, <1>11, <2>1 DEF FeedSilent, Captures
<1>17. ConsumerFits(x, all, rows)
  <2>1. x.since = Cardinality(DOMAIN rows)
    BY <1>13 DEF Started, Stored
  <2> QED
    BY <1>9, <1>14, <1>15, <2>1 DEF ConsumerFits
<1>18. PersistedBeforePublished'
  <2>1. \A i \in DOMAIN outbox : outbox[i] \in 1..n
    BY <1>1, <1>8, ElementOfSeq DEF OutputTyped
  <2>2. \A i \in DOMAIN outbox : all[outbox[i]] = placed[outbox[i]]
    BY <1>9, <2>1
  <2> QED
    BY <1>7, <1>10, <1>11, <2>2 DEF PersistedBeforePublished
<1>19. BookInTime(book', InTurn)
  <2>1. o = Outcome(input) /\ book' = o.book
    BY <1>5 DEF Placing
  <2>2. BookInTime(o.book, InTurn)
    BY <1>1, <1>4, <1>11, <2>1, PlacingInTime
  <2> QED
    BY <2>1, <2>2
<1>20. ASSUME faults = 0, restarts = 0 PROVE NothingLost(x, all, rows)
  <2>1. NothingLost(op["consumer"], placed, rows)
    BY <1>11, <1>20
  <2>2. \A id \in 1..n : placed[id].status = "accepted" => id \in DOMAIN rows
    BY <1>9, <1>13, <2>1 DEF NothingLost, Persisting, Writing
  <2>3. all[n + 1].status = "accepted" => x.pc \in Persisting /\ x.id = n + 1
    BY <1>9, <1>14, <1>15 DEF Persisting
  <2>4. 1..(n + 1) = 1..n \cup {n + 1}
    OBVIOUS
  <2> QED
    BY <1>9, <2>2, <2>3, <2>4 DEF NothingLost
<1>21. RowsInTurn(rows')
  BY <1>10, <1>11
<1>22. (faults' = 0 /\ restarts' = 0) => NothingLost(x, all, rows')
  BY <1>10, <1>20
<1>23. ConsumerFits(x, all, rows')
  BY <1>10, <1>17
<1>24. /\ ConsumerFits(op'["consumer"], placed', rows')
       /\ (faults' = 0 /\ restarts' = 0) => NothingLost(op'["consumer"], placed', rows')
  BY <1>7, <1>12, <1>22, <1>23
<1> QED
  BY <1>16, <1>18, <1>19, <1>21, <1>24, Zenon DEF Alone

(***************************************************************************)
(* A restart: the table was written in the order of the partition.         *)
(***************************************************************************)
LEMMA RestoredInTurn ==
  ASSUME IInv, Sound, RowsInTurn(rows), NEW at \in RestoreOrders, NEW n, NEW b,
         RestoredUpTo(at, n, b)
  PROVE  BookInTime(b, InTurn)
<1>1. /\ b \in Books(Nat) /\ BookSound(b)
      /\ \A side \in Sides : HoldsRows(b[side], at, side, n) /\ LevelsInTime(b[side], at)
  BY Zenon DEF RestoredUpTo
<1>2. ASSUME NEW side \in Sides, NEW i \in DOMAIN b[side],
             NEW k \in DOMAIN b[side][i].orders, NEW l \in 1..(k - 1)
      PROVE  InTurn[b[side][i].orders[l].id] <= InTurn[b[side][i].orders[k].id]
  <2>1. PICK levels \in Seq(LevelRecords(Nat)) : levels = b[side]
    BY <1>1 DEF Books
  <2>2. PICK queue : queue = levels[i].orders
    OBVIOUS
  <2>3. k \in DOMAIN queue /\ l \in DOMAIN queue
    <3>1. DOMAIN levels[i].orders = 1..Len(levels[i].orders) /\ Len(levels[i].orders) \in Nat
      BY <2>1, LevelsTyped
    <3> QED
      BY <2>1, <2>2, <3>1
  <2>4. queue[k] \in Entries(levels) /\ queue[l] \in Entries(levels)
    BY <2>1, <2>2, <2>3 DEF Entries, QueueEntries
  <2>5. \A e \in Entries(levels) : e.id \in Open
    <3>1. ASSUME NEW e \in Entries(levels) PROVE e.id \in Open
      <4>1. PICK id \in OpenRows(at, side, n) : e = RowEntry(id)
        BY <1>1, <2>1 DEF HoldsRows
      <4>2. id \in Open /\ id \in DOMAIN rows
        BY <4>1 DEF OpenRows, Open
      <4> QED
        BY <4>1, <4>2, TableIsSound, RowEntrySound
    <3> QED
      BY <3>1
  <2>6. PICK early \in Open, late \in Open :
          early = queue[l].id /\ late = queue[k].id
    BY <2>4, <2>5
  <2>7. at[early] <= at[late]
    BY <1>1, <2>1, <2>2, <2>3, <2>6 DEF LevelsInTime, QueueInTime
  <2>8. early \in DOMAIN rows /\ late \in DOMAIN rows
    BY DEF Open
  <2>9. /\ rows[early].sequence \in Nat /\ rows[late].sequence \in Nat
        /\ rows[early].since \in Nat /\ early \in Nat /\ late \in Nat
    <3>1. rows[early] \in RowRecords /\ rows[late] \in RowRecords
          /\ early \in 1..Len(placed) /\ late \in 1..Len(placed)
      BY <2>8 DEF Sound, WorkSound, RowsTyped, IInv, RowsPlaced
    <3>2. /\ rows[early].sequence \in Nat /\ rows[late].sequence \in Nat
          /\ rows[early].since \in Nat
      BY <3>1 DEF RowRecords
    <3>3. early \in Nat /\ late \in Nat
      BY <3>1
    <3> QED
      BY <3>2, <3>3
  <2>10. early <= late
    <3>1. CASE rows[early].sequence = rows[late].sequence
      BY <2>8, <2>9, <3>1 DEF IInv, SequencesContiguous
    <3>2. CASE rows[early].sequence < rows[late].sequence
      BY <2>8, <2>9, <3>2 DEF RowsInTurn
    <3>3. CASE rows[late].sequence < rows[early].sequence
      <4>1. rows[late].sequence <= rows[early].since
        BY <2>8, <2>9, <3>3 DEF RowsInTurn
      <4>2. at[late] < at[early]
        BY <4>1 DEF RestoreOrders
      <4>3. PICK m \in Nat : m = Cardinality(Open)
        <5>1. Open \subseteq DOMAIN rows /\ IsFiniteSet(DOMAIN rows)
          BY TableIsSound DEF Open
        <5> QED
          BY <5>1, FS_Subset, FS_CardinalityType
      <4>4. at[late] \in 1..m /\ at[early] \in 1..m
        BY <4>3 DEF RestoreOrders
      <4> QED
        BY <2>7, <4>2, <4>3, <4>4
    <3> QED
      BY <2>9, <3>1, <3>2, <3>3
  <2>11. InTurn[early] = early /\ InTurn[late] = late
    BY <2>9 DEF InTurn
  <2> QED
    BY <2>1, <2>2, <2>6, <2>10, <2>11
<1> QED
  BY <1>2, Zenon DEF BookInTime, LevelsInTime, QueueInTime

LEMMA RestartKeepsAlone ==
  ASSUME IInv, Sound, Alone, Restart
  PROVE  Alone'
<1>1. /\ restarts' = restarts + 1 /\ pending' = NoOrder
      /\ op'["consumer"] = NoOp /\ op'["synthetic"] = NoOp
      /\ UNCHANGED <<ticks, placed, rows, outbox>>
  BY DEF Restart, database, Submitters
<1>2. restarts' # 0
  BY <1>1 DEF Sound, RestTyped, BoundsTyped
<1>3. NoOp.pc = "idle" /\ NoOp.pc \notin Persisting
  BY DEF NoOp, Persisting, Writing
<1>4. FeedSilent' /\ ConsumerFits(NoOp, placed, rows)
  BY <1>1, <1>3 DEF FeedSilent, ConsumerFits
<1>0. PICK at \in RestoreOrders : book' = Restored(at)
  BY DEF Restart
<1>5. PICK b : b = Restored(at)
  OBVIOUS
<1>6. RestoredUpTo(at, Cardinality(Open), b)
  BY <1>5, TableIsSound, RestoredSound
<1>7. ASSUME ticks = 0
      PROVE  RowsInTurn(rows) /\ PersistedBeforePublished' /\ BookInTime(b, InTurn)
  BY <1>1, <1>6, <1>7, RestoredInTurn DEF Alone, PersistedBeforePublished
<1>8. ASSUME ticks = 0
      PROVE  /\ ConsumerFits(op'["consumer"], placed', rows') /\ RowsInTurn(rows')
             /\ BookInTime(book', InTurn)
  BY <1>0, <1>1, <1>4, <1>5, <1>7, <1>8
<1> QED
  BY <1>1, <1>2, <1>4, <1>7, <1>8, Zenon DEF Alone

(***************************************************************************)
(* The consumer's own steps.                                               *)
(***************************************************************************)
LEMMA ConsumerSteps ==
  ASSUME Sound, FeedSilent, NEW w \in Submitters, ProcessStep(w) \/ CallFails(w)
  PROVE  /\ w = "consumer" /\ FeedSilent'
         /\ UNCHANGED <<placed, book, ticks, restarts>>
<1>1. OpTyped
  BY DEF Sound, WorkSound
<1>2. /\ op[w].pc # "idle" /\ (pending' = pending \/ pending' = NoOrder)
      /\ \A v \in Submitters \ {w} : op'[v] = op[v]
      /\ UNCHANGED <<placed, ticks, restarts>>
  BY <1>1, OpStep
<1>3. w = "consumer"
  BY <1>2 DEF FeedSilent, Submitters
<1>4. op'["synthetic"] = op["synthetic"]
  BY <1>2, <1>3, SMTT(20) DEF Submitters
<1>5. book' = book
  BY DEF ProcessStep, CallFails, CreateConflicts, MakerMissing, Abort, Allocate,
     CreateRow, InsertTrade, ReadMaker, UpdateMaker, Commit, CacheNext, CacheDone,
     EnqueueAll, EnqueueCommits, engine
<1> QED
  BY <1>2, <1>3, <1>4, <1>5 DEF FeedSilent

\* What Alone says of the consumer after a step that leaves the placements.
ConsumerAlone(o, table, calm) ==
  /\ ConsumerFits(o, placed, table) /\ RowsInTurn(table)
  /\ calm => NothingLost(o, placed, table)

Calm == faults = 0 /\ restarts = 0

LEMMA ConsumerEnds ==
  ASSUME Sound, ConsumerAlone(op["consumer"], rows, Calm), NEW calm,
         calm => Calm /\ op["consumer"].pc \notin Persisting
  PROVE  ConsumerAlone(NoOp, rows, calm)
<1>1. NoOp.pc = "idle"
  BY DEF NoOp
<1>2. ConsumerFits(NoOp, placed, rows)
  BY <1>1 DEF ConsumerFits, Persisting, Writing
<1>3. calm => NothingLost(NoOp, placed, rows)
  BY DEF ConsumerAlone, NothingLost
<1> QED
  BY <1>2, <1>3 DEF ConsumerAlone

LEMMA ConsumerGoesOn ==
  ASSUME Sound, ConsumerAlone(op["consumer"], rows, Calm),
         NEW o, o = op["consumer"], NEW x, GoesOn(o, x), o.pc # "commit",
         x.pc = "create" => x.sequence = Stored + 1
  PROVE  ConsumerAlone(x, rows, Calm)
<1>1. /\ ConsumerFits(o, placed, rows) /\ RowsInTurn(rows)
      /\ Calm => NothingLost(o, placed, rows)
  BY DEF ConsumerAlone
<1>2. /\ x.id = o.id /\ x.since = o.since /\ x.captured = o.captured /\ o.pc # "idle"
      /\ x.pc \in Persisting => o.pc \in Persisting
      /\ x.pc \in {"cache", "enqueue", "flush"} => o.pc \in {"cache", "enqueue", "flush"}
      /\ o.pc \in Persisting => x.pc \in Persisting
  BY DEF GoesOn, Persists, CachesOne, Persisting, Writing
<1>3. ConsumerFits(x, placed, rows)
  BY <1>1, <1>2 DEF ConsumerFits, Stored
<1>4. Calm => NothingLost(x, placed, rows)
  BY <1>1, <1>2 DEF NothingLost
<1> QED
  BY <1>1, <1>3, <1>4 DEF ConsumerAlone

LEMMA ConsumerCommits ==
  ASSUME IInv, Sound, ConsumerAlone(op["consumer"], rows, Calm), Commit("consumer")
  PROVE  ConsumerAlone(op'["consumer"], rows', Calm) /\ DOMAIN rows \subseteq DOMAIN rows'
<1>1. EngineTyped /\ PlacedSound /\ OpTyped /\ Works /\ RowsTyped
  BY DEF Sound, EngineSound, WorkSound
<1>2. PICK w \in Submitters : w = "consumer"
  BY DEF Submitters
<1>3. PICK o \in Operations : o = op[w]
  BY <1>1 DEF OpTyped, OpFits
<1>4. PICK n \in Nat : n = Len(placed)
  BY <1>1 DEF EngineTyped
<1>5. /\ o.pc = "commit" /\ DOMAIN rows' = DOMAIN rows \cup {o.id}
      /\ rows'[o.id].sequence = o.sequence /\ rows'[o.id].since = o.since
      /\ \A m \in DOMAIN rows \ {o.id} :
           rows'[m].sequence = rows[m].sequence /\ rows'[m].since = rows[m].since
  BY <1>2, <1>3 DEF Commit, Written
<1>6. o.id = n /\ o.captured = <<n>> /\ o.since = Stored
  BY <1>2, <1>3, <1>4, <1>5 DEF ConsumerAlone, ConsumerFits, Persisting, Writing, Stored
<1>7. o.sequence = Stored + 1 /\ n \notin DOMAIN rows
  BY <1>3, <1>5, <1>6 DEF IInv, WriterIsNext, OwnOrder, Persisting, Writing
<1>8. PICK k \in Nat : k = Stored
  BY StoredIsNat DEF IInv
<1>9. \A m \in DOMAIN rows : rows[m].sequence \in 1..k /\ m \in 1..n
  BY <1>4, <1>8 DEF IInv, SequencesContiguous, Sequences, Stored, RowsPlaced
<1>10. PICK table : table = rows'
  OBVIOUS
<1>11. /\ DOMAIN table = DOMAIN rows \cup {n}
       /\ table[n].sequence = k + 1 /\ table[n].since = k
       /\ \A m \in DOMAIN rows :
            m # n /\ table[m].sequence = rows[m].sequence /\ table[m].since = rows[m].since
  BY <1>5, <1>6, <1>7, <1>8, <1>10
<1>12. RowsInTurn(table)
  <2>1. ASSUME NEW a \in DOMAIN table, NEW b \in DOMAIN table,
               table[a].sequence < table[b].sequence
        PROVE  a < b
    <3>1. CASE a \in DOMAIN rows /\ b \in DOMAIN rows
      BY <1>11, <2>1, <3>1 DEF ConsumerAlone, RowsInTurn
    <3>2. CASE b = n /\ a \in DOMAIN rows
      BY <1>9, <1>11, <3>2
    <3>3. CASE a = n
      <4>1. CASE b = n
        BY <1>11, <2>1, <3>3, <4>1
      <4>2. CASE b \in DOMAIN rows
        <5>1. PICK s \in 1..k : s = rows[b].sequence
          BY <1>9, <4>2
        <5>2. k + 1 < s
          BY <1>11, <2>1, <3>3, <4>2, <5>1
        <5> QED
          BY <5>1, <5>2
      <4> QED
        BY <1>11, <4>1, <4>2
    <3> QED
      BY <1>11, <3>1, <3>2, <3>3
  <2>2. \A a \in DOMAIN table : table[a].sequence = table[a].since + 1
    BY <1>11 DEF ConsumerAlone, RowsInTurn
  <2> QED
    BY <2>1, <2>2 DEF RowsInTurn
<1>13. PICK x : x = op'[w]
  OBVIOUS
<1>14. x.pc = "cache" /\ x.id = n /\ x.captured = <<n>>
  <2>1. PICK writes : Becomes(w, Later(o, "cache", o.sequence, o.trade, o.read, writes, o.cached))
    BY <1>1, <1>2, <1>3, CommitEffect
  <2> QED
    BY <1>6, <1>13, <2>1 DEF Becomes, Later
<1>15. ConsumerFits(x, placed, table)
  BY <1>4, <1>11, <1>14 DEF ConsumerFits, Persisting, Writing
<1>16. ASSUME Calm PROVE NothingLost(x, placed, table)
  <2>1. NothingLost(o, placed, rows)
    BY <1>2, <1>3, <1>16 DEF ConsumerAlone
  <2> QED
    BY <1>6, <1>11, <2>1 DEF NothingLost
<1> QED
  BY <1>2, <1>10, <1>11, <1>12, <1>13, <1>15, <1>16 DEF ConsumerAlone

\* On its own the consumer's insert finds the sequence it allocated free, and
\* the makers of its trades are stored.
LEMMA ConsumerAborts ==
  ASSUME IInv, Sound, ConsumerAlone(op["consumer"], rows, Calm),
         CreateConflicts("consumer") \/ MakerMissing("consumer")
  PROVE  ~Calm
<1>1. EngineTyped /\ PlacedSound /\ OpTyped /\ Works
  BY DEF Sound, EngineSound, WorkSound
<1>2. PICK w \in Submitters : w = "consumer"
  BY DEF Submitters
<1>3. PICK o : o = op[w]
  OBVIOUS
<1>4. CASE CreateConflicts(w)
  <2>1. o.pc = "create" /\ o.sequence \in Sequences
    BY <1>3, <1>4 DEF CreateConflicts
  <2>2. o.sequence = Stored + 1
    BY <1>2, <1>3, <2>1 DEF ConsumerAlone, ConsumerFits, Stored
  <2>3. PICK k \in Nat : k = Stored
    BY StoredIsNat DEF IInv
  <2>4. k + 1 \in 1..k
    BY <2>1, <2>2, <2>3 DEF IInv, SequencesContiguous, Stored
  <2> QED
    BY <2>4
<1>5. ASSUME MakerMissing(w), Calm PROVE FALSE
  <2>1. o.pc = "trade" /\ Trade(w).maker \notin DOMAIN rows
    BY <1>3, <1>5 DEF MakerMissing
  <2>2. PICK ts : ts = placed[o.id].trades
    OBVIOUS
  <2>3. o.pc \in Writing
    BY <2>1 DEF Writing
  <2>4. /\ o.trade \in DOMAIN ts /\ Trade(w) = ts[o.trade] /\ o.id \in DOMAIN placed
        /\ \A k \in DOMAIN ts : CanRest(placed, ts[k].maker) /\ ts[k].maker < o.id
    <3>1. o.pc # "commit"
      BY <2>1
    <3> QED
      BY <1>1, <1>3, <2>2, <2>3, <3>1, WritingFacts, ZenonT(40)
  <2>5. PICK m : m = ts[o.trade].maker
    OBVIOUS
  <2>6. m \in DOMAIN placed /\ placed[m].status = "accepted" /\ m < o.id
    BY <2>4, <2>5 DEF CanRest
  <2>7. m # o.id
    BY <1>1, <2>4, <2>6 DEF EngineTyped
  <2>8. m \in DOMAIN rows
    BY <1>2, <1>3, <1>5, <2>6, <2>7 DEF ConsumerAlone, NothingLost
  <2> QED
    BY <2>1, <2>4, <2>5, <2>8
<1> QED
  BY <1>2, <1>4, <1>5

LEMMA ConsumerStepKeepsAlone ==
  ASSUME IInv, Sound, ConsumerAlone(op["consumer"], rows, Calm), FeedSilent,
         NEW w \in Submitters, ProcessStep(w) \/ CallFails(w)
  PROVE  ConsumerAlone(op'["consumer"], rows', Calm') /\ DOMAIN rows \subseteq DOMAIN rows'
<1>1. w = "consumer" /\ placed' = placed /\ restarts' = restarts
  BY ConsumerSteps
<1>2. OpTyped /\ faults \in Nat
  BY DEF Sound, WorkSound, RestTyped, BoundsTyped
<1>3. PICK o : o = op[w]
  OBVIOUS
<1>4. PICK x : x = op'[w]
  OBVIOUS
<1>5. CASE Commit(w)
  <2>1. Calm' = Calm
    BY <1>5 DEF Commit, bounds, Calm
  <2> QED
    BY <1>1, <1>5, <2>1, ConsumerCommits
<1>6. ASSUME ~Commit(w) PROVE rows' = rows
  BY <1>6 DEF ProcessStep, CallFails, CreateConflicts, MakerMissing, Abort, Allocate,
     CreateRow, InsertTrade, ReadMaker, UpdateMaker, CacheNext, CacheDone,
     EnqueueAll, EnqueueCommits, database
<1>7. CASE CallFails(w) \/ CreateConflicts(w) \/ MakerMissing(w) \/ EnqueueCommits(w)
  <2>1. x = NoOp
    BY <1>2, <1>4, <1>7, LeaveEffect
       DEF CallFails, CreateConflicts, MakerMissing, Abort, EnqueueCommits, Becomes
  <2>2. rows' = rows
    BY <1>7 DEF CallFails, CreateConflicts, MakerMissing, Abort, EnqueueCommits, database
  <2>3. PICK calm : calm = Calm'
    OBVIOUS
  <2>4. calm => Calm /\ op["consumer"].pc \notin Persisting
    <3>1. CASE CallFails(w)
      <4>1. faults' # 0
        BY <1>2, <3>1 DEF CallFails
      <4> QED
        BY <2>3, <4>1 DEF Calm
    <3>2. CASE CreateConflicts(w) \/ MakerMissing(w)
      <4>1. ~Calm
        BY <1>1, <3>2, ConsumerAborts
      <4>2. faults' = faults
        BY <3>2 DEF CreateConflicts, MakerMissing
      <4> QED
        BY <1>1, <2>3, <4>1, <4>2 DEF Calm
    <3>3. CASE EnqueueCommits(w)
      BY <1>1, <2>3, <3>3 DEF EnqueueCommits, bounds, Calm, Persisting, Writing
    <3> QED
      BY <1>7, <3>1, <3>2, <3>3
  <2>5. ConsumerAlone(NoOp, rows, calm)
    BY <2>4, ConsumerEnds
  <2> QED
    BY <1>1, <1>4, <2>1, <2>2, <2>3, <2>5
<1>8. CASE \/ Allocate(w) \/ CreateRow(w) \/ InsertTrade(w) \/ ReadMaker(w)
           \/ UpdateMaker(w) \/ CacheNext(w) \/ CacheDone(w) \/ EnqueueAll(w)
  <2>1. o.pc \notin {"idle", "commit", "flush"} /\ rows' = rows /\ faults' = faults
    BY <1>3, <1>8 DEF Allocate, CreateRow, InsertTrade, ReadMaker, UpdateMaker, CacheNext,
       CacheDone, EnqueueAll, database, bounds
  <2>2. next' = next
    BY <1>8 DEF Allocate, CreateRow, InsertTrade, ReadMaker, UpdateMaker, CacheNext,
       CacheDone, EnqueueAll, pipeline
  <2>3. GoesOn(o, x)
    <3>1. next \in Nat
      BY DEF Sound, RestTyped, PipelineTyped
    <3>2. ~Leave(w)
      BY <1>1, <2>2, <3>1 DEF Leave
    <3>3. ProcessStep(w)
      BY <1>8 DEF ProcessStep
    <3> QED
      BY <1>2, <1>3, <1>4, <3>2, <3>3, StepOfOp
  <2>4. x.pc = "create" => x.sequence = Stored + 1
    <3>1. ASSUME x.pc = "create" PROVE o.pc = "allocate"
      BY <2>3, <3>1 DEF GoesOn, Persists, CachesOne, Writing
    <3>2. ASSUME o.pc = "allocate" PROVE x.sequence = Stored + 1
      <4>1. Allocate(w)
        BY <1>3, <1>8, <3>2 DEF CreateRow, InsertTrade, ReadMaker, UpdateMaker, CacheNext,
           CacheDone, EnqueueAll
      <4>2. Becomes(w, Later(o, "create", Max(Sequences \cup {0}) + 1,
                             o.trade, o.read, o.writes, o.cached))
        BY <1>2, <1>3, <4>1, AllocateEffect
      <4>3. PICK k \in Nat : k = Stored
        BY StoredIsNat DEF IInv
      <4>4. Sequences = 1..k
        BY <4>3 DEF IInv, SequencesContiguous, Stored
      <4>5. Max(Sequences \cup {0}) + 1 = k + 1
        BY <4>4, MaxOfNumbers
      <4> QED
        BY <1>4, <4>2, <4>3, <4>5 DEF Becomes, Later
    <3> QED
      BY <3>1, <3>2
  <2>5. ConsumerAlone(x, rows, Calm)
    BY <1>1, <1>3, <2>1, <2>3, <2>4, ConsumerGoesOn
  <2>6. Calm' = Calm
    BY <1>1, <2>1 DEF Calm
  <2> QED
    BY <1>1, <1>4, <2>1, <2>5, <2>6
<1> QED
  BY <1>5, <1>7, <1>8 DEF ProcessStep

\* The consumer puts into the outbox the events of the order it has stored.
LEMMA ConsumerPublishes ==
  ASSUME Sound, ConsumerAlone(op["consumer"], rows, Calm), FeedSilent,
         PersistedBeforePublished, NEW w \in Submitters, ProcessStep(w) \/ CallFails(w),
         DOMAIN rows \subseteq DOMAIN rows'
  PROVE  PersistedBeforePublished'
<1>1. w = "consumer" /\ placed' = placed
  BY ConsumerSteps
<1>2. CASE EnqueueCommits(w)
  <2>1. PICK n \in Nat : n = Len(placed)
    BY DEF Sound, EngineSound, EngineTyped
  <2>2. op[w].pc = "flush" /\ outbox' = outbox \o op[w].captured
    BY <1>2 DEF EnqueueCommits
  <2>3. op[w].captured = <<n>> /\ (placed[n].status = "accepted" => n \in DOMAIN rows)
    BY <1>1, <2>1, <2>2 DEF ConsumerAlone, ConsumerFits
  <2>4. PICK sent \in Seq(1..n) : sent = outbox
    BY <2>1 DEF Sound, RestTyped, OutputTyped
  <2>5. PICK more : more = sent \o <<n>>
    OBVIOUS
  <2>6. PICK m \in Nat : m = Len(sent)
    BY <2>4
  <2>7. /\ DOMAIN sent = 1..m /\ DOMAIN more = 1..(m + 1)
        /\ more[m + 1] = n /\ \A i \in 1..m : more[i] = sent[i]
    BY <2>4, <2>5, <2>6
  <2>8. ASSUME NEW i \in DOMAIN more, placed[more[i]].status = "accepted"
        PROVE  more[i] \in DOMAIN rows
    <3>1. CASE i = m + 1
      BY <2>3, <2>7, <2>8, <3>1
    <3>2. CASE i \in 1..m
      BY <2>4, <2>7, <2>8, <3>2 DEF PersistedBeforePublished
    <3> QED
      BY <2>7, <3>1, <3>2
  <2>9. outbox' = more
    BY <2>2, <2>3, <2>4, <2>5
  <2> QED
    BY <1>1, <2>8, <2>9 DEF PersistedBeforePublished
<1>3. CASE ~EnqueueCommits(w)
  <2>1. outbox' = outbox
    BY <1>3 DEF ProcessStep, CallFails, CreateConflicts, MakerMissing, Abort, Allocate,
       CreateRow, InsertTrade, ReadMaker, UpdateMaker, Commit, CacheNext, CacheDone,
       EnqueueAll, database
  <2> QED
    BY <1>1, <2>1, SMTT(20) DEF PersistedBeforePublished
<1> QED
  BY <1>2, <1>3

LEMMA OpStepKeepsAlone ==
  ASSUME IInv, Sound, Alone, NEW w \in Submitters, ProcessStep(w) \/ CallFails(w)
  PROVE  Alone'
<1>1. ticks' = ticks
  BY OpStep DEF Sound, WorkSound
<1> SUFFICES ASSUME ticks = 0 PROVE Alone'
  BY <1>1 DEF Alone
<1>2. /\ FeedSilent /\ ConsumerAlone(op["consumer"], rows, Calm)
      /\ PersistedBeforePublished /\ BookInTime(book, InTurn)
  BY DEF Alone, ConsumerAlone, Calm
<1>3. /\ FeedSilent' /\ placed' = placed /\ book' = book /\ restarts' = restarts
  BY <1>2, ConsumerSteps
<1>4. ConsumerAlone(op'["consumer"], rows', Calm') /\ DOMAIN rows \subseteq DOMAIN rows'
  BY <1>2, ConsumerStepKeepsAlone
<1>5. PersistedBeforePublished'
  BY <1>2, <1>4, ConsumerPublishes
<1>6. BookInTime(book', InTurn)
  BY <1>2, <1>3
<1>7. /\ ConsumerFits(op'["consumer"], placed', rows') /\ RowsInTurn(rows')
      /\ faults' = 0 /\ restarts' = 0 => NothingLost(op'["consumer"], placed', rows')
  BY <1>3, <1>4 DEF ConsumerAlone, Calm
<1> QED
  BY <1>3, <1>5, <1>6, <1>7, Zenon DEF Alone

LEMMA NextKeepsAlone ==
  ASSUME IInv, Sound, Alone, [Next]_vars
  PROVE  Alone'
<1>1. PipelineTyped /\ BoundsTyped
  BY DEF Sound, RestTyped
<1>2. CASE Consume
  <2>1. ticks' = ticks
    BY <1>1, <1>2, ConsumeEffect
  <2> QED
    BY <1>2, <2>1, ConsumeKeepsAlone DEF Alone
<1>3. CASE Tick
  <2>1. ticks' # 0
    BY <1>1, <1>3, TickEffect DEF BoundsTyped
  <2> QED
    BY <2>1 DEF Alone
<1>4. CASE TakeBack
  <2>1. pending # NoOrder /\ ticks' = ticks
    BY <1>1, <1>4, TakeBackEffect
  <2> QED
    BY <2>1 DEF Alone, FeedSilent
<1>5. CASE \E w \in Submitters : ProcessStep(w) \/ CallFails(w)
  BY <1>5, OpStepKeepsAlone
<1>6. CASE Send \/ SnapshotExpires \/ CommitOffset \/ Rejoin \/ UNCHANGED vars
  <2>1. UNCHANGED <<pending, book, placed, op, rows, outbox, ticks, faults, restarts>>
    BY <1>6 DEF Send, SnapshotExpires, CommitOffset, Rejoin, vars, pipeline, engine, database,
       bounds
  <2>2. FeedSilent' = FeedSilent /\ PersistedBeforePublished' = PersistedBeforePublished
    BY <2>1 DEF FeedSilent, PersistedBeforePublished
  <2> QED
    BY <2>1, <2>2 DEF Alone
<1>7. CASE Restart
  BY <1>7, RestartKeepsAlone
<1> QED
  BY <1>2, <1>3, <1>4, <1>5, <1>6, <1>7 DEF Next

LEMMA InitAlone == ASSUME Init, Sound PROVE Alone
<1>1. /\ \A w \in Submitters : op[w] = NoOp
      /\ pending = NoOrder /\ DOMAIN rows = {} /\ outbox = <<>> /\ book = EmptyBook
      /\ placed = <<>>
  BY DEF Init
<1>2. op["consumer"].pc = "idle" /\ op["synthetic"].pc = "idle"
  BY <1>1 DEF NoOp, Submitters
<1>3. FeedSilent /\ ConsumerFits(op["consumer"], placed, rows) /\ RowsInTurn(rows)
  BY <1>1, <1>2 DEF FeedSilent, ConsumerFits, RowsInTurn, Persisting, Writing
<1>4. DOMAIN <<>> = {}
  OBVIOUS
<1>5. PersistedBeforePublished /\ NothingLost(op["consumer"], placed, rows)
  BY <1>1, <1>4 DEF PersistedBeforePublished, NothingLost
<1>6. BookInTime(book, InTurn)
  BY <1>1, <1>4 DEF BookInTime, LevelsInTime, EmptyBook
<1> QED
  BY <1>3, <1>5, <1>6, Zenon DEF Alone

\* A book whose levels are in the order of the placements is first come, first
\* served, as the orders of a level are distinct.
LEMMA BookInTurn ==
  ASSUME Sound, BookInTime(book, InTurn)
  PROVE  FifoWithinLevel
<1> SUFFICES ASSUME NEW side \in Sides, NEW i \in DOMAIN book[side],
                    NEW k \in DOMAIN book[side][i].orders, NEW l \in 1..(k - 1)
             PROVE  book[side][i].orders[l].id < book[side][i].orders[k].id
  BY DEF FifoWithinLevel
<1>1. PICK levels \in Seq(LevelRecords(Nat)) : levels = book[side] /\ LevelsSound(side, levels)
  BY DEF Sound, EngineSound, EngineTyped, Books, BookSound
<1>2. PICK queue : queue = levels[i].orders
  OBVIOUS
<1>3. k \in DOMAIN queue /\ l \in DOMAIN queue
  <2>1. DOMAIN levels[i].orders = 1..Len(levels[i].orders) /\ Len(levels[i].orders) \in Nat
    BY <1>1, LevelsTyped
  <2> QED
    BY <1>1, <1>2, <2>1
<1>4. queue[k] \in Entries(levels) /\ queue[l] \in Entries(levels)
  BY <1>1, <1>2, <1>3 DEF Entries, QueueEntries
<1>5. \A e \in Entries(levels) : e.id \in DOMAIN placed
  BY <1>1 DEF Sound, EngineSound, BookPlaced, CanRest
<1>6. PICK early \in Nat, late \in Nat : early = queue[l].id /\ late = queue[k].id
  BY <1>4, <1>5 DEF Sound, EngineSound, EngineTyped
<1>7. InTurn[early] <= InTurn[late]
  BY <1>1, <1>2, <1>3, <1>6 DEF BookInTime, LevelsInTime, QueueInTime
<1>8. early # late
  BY <1>1, <1>2, <1>3, <1>6 DEF LevelsSound, QueueSound
<1>9. InTurn[early] = early /\ InTurn[late] = late
  BY DEF InTurn
<1>10. early < late
  BY <1>6, <1>7, <1>8, <1>9
<1> QED
  BY <1>1, <1>2, <1>6, <1>10

\* As long as the feed is silent, the consumer loses no accepted order without
\* a failure, publishes no event of an accepted order before its row is stored,
\* and keeps each level of the book first come, first served, over restarts.
THEOREM ConsumerKeeps == Spec => []ConsumerKeepsPromises
<1>1. Init /\ Sound => Alone
  BY InitAlone
<1>2. IInv /\ Sound /\ Alone /\ [Next]_vars => Alone'
  BY NextKeepsAlone
<1>3. Sound /\ Alone => ConsumerKeepsPromises
  <2> SUFFICES ASSUME Sound, Alone, ticks = 0
               PROVE  AcceptedIsStored /\ PersistedBeforePublished /\ FifoWithinLevel
    BY DEF ConsumerKeepsPromises
  <2>1. PersistedBeforePublished /\ BookInTime(book, InTurn)
        /\ (faults = 0 /\ restarts = 0 => NothingLost(op["consumer"], placed, rows))
    BY DEF Alone
  <2>2. FifoWithinLevel
    BY <2>1, BookInTurn
  <2>3. ASSUME Idle, faults = 0, restarts = 0, NEW id \in DOMAIN placed,
               placed[id].status = "accepted"
        PROVE  id \in DOMAIN rows
    <3>1. op["consumer"].pc \notin Persisting
      BY <2>3 DEF Idle, Submitters, Persisting, Writing
    <3> QED
      BY <2>1, <2>3, <3>1 DEF NothingLost
  <2> QED
    BY <2>1, <2>2, <2>3 DEF AcceptedIsStored
<1> QED
  BY <1>1, <1>2, <1>3, Invariance, Soundness, PTL DEF Spec
==============================================================================
