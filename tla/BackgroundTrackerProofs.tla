----------------------- MODULE BackgroundTrackerProofs -----------------------
(***************************************************************************)
(* What BackgroundTracker's runs show on a small instance, proved for      *)
(* every set of ids and kinds and every cap.                               *)
(*                                                                         *)
(* The type invariant alone is not inductive: that a removal never makes a *)
(* kind's outstanding count negative follows from Books, so the two are    *)
(* proved together.  A step changes the books in one of four ways (not at  *)
(* all, a reset, an addition, a removal), and there is a lemma for each.   *)
(***************************************************************************)
EXTENDS BackgroundTracker, FiniteSetTheorems, TLAPS

\* The part of TypeOK that is about the books.
BooksOK ==
  /\ pending \in [Ids -> Kinds \cup {Absent}]
  /\ tracked \in SUBSET Kinds
  /\ started \in [Kinds -> Nat]
  /\ finished \in [Kinds -> Nat]
  /\ \A k \in Kinds : Outstanding(k) \in 0 .. MaxPendingPerKind

-----------------------------------------------------------------------------
(* Counting the ids stored under a kind.                                   *)

\* A part of the ids is finite.
LEMMA PartFinite ==
  ASSUME NEW S \in SUBSET Ids
  PROVE  IsFiniteSet(S) /\ Cardinality(S) \in Nat
BY TrackerAssumption, FS_Subset, FS_CardinalityType

\* Storing an absent id under kind k makes one more id of kind k and leaves the
\* other kinds alone.
LEMMA AddCounts ==
  ASSUME NEW p \in [Ids -> Kinds \cup {Absent}], NEW id \in Ids, NEW k \in Kinds,
         p[id] = Absent, NEW j \in Kinds
  PROVE  Cardinality({x \in Ids : [p EXCEPT ![id] = k][x] = j}) =
           IF j = k THEN Cardinality({x \in Ids : p[x] = j}) + 1
                    ELSE Cardinality({x \in Ids : p[x] = j})
<1> DEFINE S == {x \in Ids : p[x] = j}
           T == {x \in Ids : [p EXCEPT ![id] = k][x] = j}
<1>1. id \notin S
  BY TrackerAssumption
<1>2. CASE j = k
  <2>1. T = S \cup {id}
    BY <1>2
  <2>2. Cardinality(S \cup {id}) = Cardinality(S) + 1
    BY <1>1, PartFinite, FS_AddElement
  <2> QED
    BY <1>2, <2>1, <2>2
<1>3. CASE j # k
  <2>1. T = S
    BY <1>1, <1>3
  <2> QED
    BY <1>3, <2>1
<1> QED
  BY <1>2, <1>3

\* Removing the ids of R takes from a kind's count those stored under it.
LEMMA RemoveCounts ==
  ASSUME NEW p \in [Ids -> Kinds \cup {Absent}], NEW R, NEW j \in Kinds
  PROVE  LET S == {x \in Ids : p[x] = j}
             q == [x \in Ids |-> IF x \in R THEN Absent ELSE p[x]]
         IN  /\ Cardinality({x \in Ids : q[x] = j})
                  = Cardinality(S) - Cardinality(S \cap R)
             /\ Cardinality(S \cap R) \in 0 .. Cardinality(S)
<1> DEFINE S == {x \in Ids : p[x] = j}
           q == [x \in Ids |-> IF x \in R THEN Absent ELSE p[x]]
           T == {x \in Ids : q[x] = j}
<1>1. T = S \ R
  BY TrackerAssumption
<1>2. /\ Cardinality(S \cap R) \in Nat /\ Cardinality(S) \in Nat /\ Cardinality(T) \in Nat
      /\ IsFiniteSet(S \cap R) /\ IsFiniteSet(T)
  BY PartFinite
<1>4. /\ S = T \cup (S \cap R)
      /\ T \cap (S \cap R) = {}
  BY <1>1
<1>5. Cardinality(T \cup (S \cap R))
        = Cardinality(T) + Cardinality(S \cap R) - Cardinality(T \cap (S \cap R))
  BY <1>2, FS_Union
<1>6. Cardinality(T \cap (S \cap R)) = 0
  BY <1>4, FS_EmptySet
<1> HIDE DEF S, T
<1>7. Cardinality(S) = Cardinality(T) + Cardinality(S \cap R)
  BY <1>2, <1>4, <1>5, <1>6
<1>8. /\ Cardinality(T) = Cardinality(S) - Cardinality(S \cap R)
      /\ Cardinality(S \cap R) \in 0 .. Cardinality(S)
  BY <1>2, <1>7
<1> QED
  BY <1>8 DEF S, T

-----------------------------------------------------------------------------
(* The four ways a step changes the books.                                 *)

LEMMA BooksReset ==
  ASSUME opts' \in [subagents : BOOLEAN, trackShell : BOOLEAN], ResetState
  PROVE  BooksOK' /\ Books'
<1>1. /\ pending' = [id \in Ids |-> Absent]
      /\ tracked' = Seeded
      /\ started' = Zero
      /\ finished' = Zero
  BY DEF ResetState
<1>2. \A k \in Kinds : PendingOf(k)' = {}
  BY <1>1, TrackerAssumption DEF PendingOf
<1>3. \A k \in Kinds : Outstanding(k)' = 0
  BY <1>1 DEF Outstanding, Zero
<1>4. Cardinality({}) = 0
  BY FS_EmptySet
<1>5. Books'
  BY <1>2, <1>3, <1>4 DEF Books
<1>6. tracked' \in SUBSET Kinds
  BY <1>1, TrackerAssumption DEF Seeded
<1>7. \A k \in Kinds : Outstanding(k)' \in 0 .. MaxPendingPerKind
  BY <1>3, TrackerAssumption
<1> QED
  BY <1>1, <1>5, <1>6, <1>7 DEF BooksOK, Zero

LEMMA BooksAdd ==
  ASSUME BooksOK, Books, NEW task \in Task, AddTask(task)
  PROVE  BooksOK' /\ Books'
<1> DEFINE id == task.id
           k == task.kind
<1>1. /\ id \in Ids /\ k \in Kinds
      /\ pending[id] = Absent
      /\ HasRoom(k)
  BY DEF AddTask, CanAdd, Task
<1>2. /\ pending' = [pending EXCEPT ![id] = k]
      /\ tracked' = tracked \cup {k}
      /\ started' = [started EXCEPT ![k] = @ + 1]
      /\ finished' = finished
  BY DEF AddTask
<1> HIDE DEF id, k
<1>3. /\ pending' \in [Ids -> Kinds \cup {Absent}]
      /\ tracked' \in SUBSET Kinds
      /\ started' \in [Kinds -> Nat]
      /\ finished' \in [Kinds -> Nat]
  BY <1>1, <1>2 DEF BooksOK
<1>4. ASSUME NEW j \in Kinds
      PROVE  /\ Outstanding(j)' \in 0 .. MaxPendingPerKind
             /\ Outstanding(j)' = Cardinality(PendingOf(j)')
  <2>1. Outstanding(j)' = IF j = k THEN Outstanding(j) + 1 ELSE Outstanding(j)
    BY <1>1, <1>2 DEF BooksOK, Outstanding
  <2>2. Cardinality(PendingOf(j)') =
          IF j = k THEN Cardinality(PendingOf(j)) + 1 ELSE Cardinality(PendingOf(j))
    BY <1>1, <1>2, AddCounts DEF BooksOK, PendingOf
  <2>3. Outstanding(j) = Cardinality(PendingOf(j))
    BY DEF Books
  <2>4. /\ Outstanding(j) \in 0 .. MaxPendingPerKind
        /\ j = k => Outstanding(j) < MaxPendingPerKind
    BY <1>1 DEF BooksOK, HasRoom
  <2> QED
    BY <2>1, <2>2, <2>3, <2>4, TrackerAssumption
<1> QED
  BY <1>3, <1>4 DEF BooksOK, Books

LEMMA BooksRemove ==
  ASSUME BooksOK, Books, NEW R, RemoveIds(R)
  PROVE  BooksOK' /\ Books'
<1>1. /\ pending' = [id \in Ids |-> IF id \in R THEN Absent ELSE pending[id]]
      /\ finished' = [k \in Kinds |-> finished[k] + Cardinality(PendingOf(k) \cap R)]
      /\ tracked' = tracked
      /\ started' = started
  BY DEF RemoveIds
<1>2. ASSUME NEW j \in Kinds
      PROVE  /\ Cardinality(PendingOf(j)')
                  = Cardinality(PendingOf(j)) - Cardinality(PendingOf(j) \cap R)
             /\ Cardinality(PendingOf(j) \cap R) \in 0 .. Cardinality(PendingOf(j))
  <2>1. pending \in [Ids -> Kinds \cup {Absent}]
    BY DEF BooksOK
  <2>2. PendingOf(j) = {x \in Ids : pending[x] = j}
    BY DEF PendingOf
  <2>3. PendingOf(j)' =
          {x \in Ids : [y \in Ids |-> IF y \in R THEN Absent ELSE pending[y]][x] = j}
    BY <1>1 DEF PendingOf
  <2>4. /\ Cardinality({x \in Ids :
                  [y \in Ids |-> IF y \in R THEN Absent ELSE pending[y]][x] = j})
             = Cardinality({x \in Ids : pending[x] = j})
                 - Cardinality({x \in Ids : pending[x] = j} \cap R)
        /\ Cardinality({x \in Ids : pending[x] = j} \cap R)
             \in 0 .. Cardinality({x \in Ids : pending[x] = j})
    BY <2>1, RemoveCounts
  <2> QED
    BY <2>2, <2>3, <2>4, Zenon
<1>3. ASSUME NEW j \in Kinds
      PROVE  /\ finished'[j] \in Nat
             /\ Outstanding(j)' \in 0 .. MaxPendingPerKind
             /\ Outstanding(j)' = Cardinality(PendingOf(j)')
  <2>1. /\ Outstanding(j) = Cardinality(PendingOf(j))
        /\ Outstanding(j) \in 0 .. MaxPendingPerKind
        /\ started[j] \in Nat /\ finished[j] \in Nat
    BY DEF Books, BooksOK
  <2>2. finished'[j] = finished[j] + Cardinality(PendingOf(j) \cap R)
    BY <1>1
  <2>3. Outstanding(j)' = started[j] - finished'[j] /\ Outstanding(j) = started[j] - finished[j]
    BY <1>1 DEF Outstanding
  <2>4. /\ Cardinality(PendingOf(j)')
             = Cardinality(PendingOf(j)) - Cardinality(PendingOf(j) \cap R)
        /\ Cardinality(PendingOf(j) \cap R) \in 0 .. Cardinality(PendingOf(j))
    BY <1>2
  <2> DEFINE n == Cardinality(PendingOf(j))
             m == Cardinality(PendingOf(j) \cap R)
  <2>5. n \in Nat /\ m \in Nat /\ m <= n /\ n <= MaxPendingPerKind
    BY <2>1, <2>4, TrackerAssumption
  <2>6. /\ finished'[j] = finished[j] + m
        /\ Outstanding(j)' = started[j] - finished'[j]
        /\ started[j] - finished[j] = n
        /\ Cardinality(PendingOf(j)') = n - m
    BY <2>1, <2>2, <2>3, <2>4
  <2> HIDE DEF n, m
  <2> QED
    BY <2>1, <2>5, <2>6, TrackerAssumption
<1>4. pending' \in [Ids -> Kinds \cup {Absent}]
  BY <1>1 DEF BooksOK
<1>5. finished' \in [Kinds -> Nat]
  BY <1>1, <1>3
<1> QED
  BY <1>1, <1>3, <1>4, <1>5 DEF BooksOK, Books

LEMMA BooksKept ==
  ASSUME BooksOK, Books, UNCHANGED books
  PROVE  BooksOK' /\ Books'
BY DEF BooksOK, Books, Outstanding, PendingOf, books

-----------------------------------------------------------------------------
(* Type correctness and the per-kind books.                                *)

\* The rest of TypeOK: the options, the latch and the loop over a batch.
LoopOK ==
  /\ opts \in [subagents : BOOLEAN, trackShell : BOOLEAN]
  /\ native \in BOOLEAN
  /\ lastResumeID \in ResumeIds \cup {NoResume}
  /\ batch \in Seq(Task)
  /\ next \in 1 .. Len(batch) + 1
  /\ seen \in Nat

LEMMA TypeParts == TypeOK <=> BooksOK /\ LoopOK
BY DEF TypeOK, BooksOK, LoopOK

\* A batch of at most MaxBatch tasks is a sequence, and Len bounds its domain.
LEMMA BatchIsSeq ==
  ASSUME NEW S, NEW b \in Batches(S)
  PROVE  b \in Seq(S) /\ Len(b) \in Nat /\ DOMAIN b = 1 .. Len(b)
<1>1. PICK n \in 0 .. MaxBatch : b \in [1 .. n -> S]
  BY DEF Batches
<1>2. n \in Nat
  BY <1>1, TrackerAssumption
<1>3. b \in Seq(S)
  BY <1>1, <1>2
<1> QED
  BY <1>3

LEMMA LoopKept ==
  ASSUME LoopOK, Observe, UNCHANGED <<batch, next>>,
         native' \in BOOLEAN, lastResumeID' \in ResumeIds \cup {NoResume}
  PROVE  LoopOK'
BY DEF LoopOK, Observe

LEMMA NewBatch ==
  ASSUME LoopOK, Observe, native' \in BOOLEAN, UNCHANGED lastResumeID,
         batch' \in Seq(Task), next' = 1
  PROVE  LoopOK'
<1>1. Len(batch') \in Nat
  OBVIOUS
<1>2. next' \in 1 .. Len(batch') + 1
  BY <1>1
<1> QED
  BY <1>2 DEF LoopOK, Observe

LEMMA InitInv == Init => TypeOK /\ Books
<1> SUFFICES ASSUME Init PROVE TypeOK /\ Books
  OBVIOUS
<1>1. \A k \in Kinds : PendingOf(k) = {}
  BY TrackerAssumption DEF Init, PendingOf
<1>2. \A k \in Kinds : Outstanding(k) = 0
  BY DEF Init, Outstanding, Zero
<1>3. Books
  BY <1>1, <1>2, FS_EmptySet DEF Books
<1>4. BooksOK
  BY <1>2, TrackerAssumption DEF Init, BooksOK, Seeded, Zero
<1>5. LoopOK
  <2>1. <<>> \in Seq(Task) /\ Len(<<>>) = 0
    OBVIOUS
  <2>2. 1 \in 1 .. 0 + 1
    OBVIOUS
  <2> QED
    BY <2>1, <2>2 DEF Init, LoopOK
<1> QED
  BY <1>3, <1>4, <1>5, TypeParts

LEMMA NextInv ==
  ASSUME TypeOK, Books, [Next]_vars
  PROVE  TypeOK' /\ Books'
<1> USE TypeParts
<1>0. BooksOK /\ LoopOK
  OBVIOUS
<1> SUFFICES BooksOK' /\ Books' /\ LoopOK'
  BY DEF TypeOK, BooksOK, LoopOK
<1>1. CASE FoldTask
  <2>1. batch[next] \in Task /\ next + 1 \in 1 .. Len(batch) + 1
    BY <1>0, <1>1 DEF FoldTask, LoopOK
  <2>2. LoopOK'
    BY <1>0, <1>1, <2>1 DEF FoldTask, LoopOK
  <2>3. AddTask(batch[next]) \/ UNCHANGED books
    BY <1>1 DEF FoldTask, SkipTask
  <2> QED
    BY <1>0, <2>1, <2>2, <2>3, BooksAdd, BooksKept
<1>2. CASE ObserveResult
  BY <1>0, <1>2, BooksKept, LoopKept DEF ObserveResult, LoopOK
<1>3. ASSUME NEW r \in ResumeIds \cup {NoResume}, ObserveInit(r)
      PROVE  BooksOK' /\ Books' /\ LoopOK'
  <2>1. LoopOK'
    BY <1>0, <1>3, LoopKept DEF ObserveInit, LoopOK
  <2>2. ResetState \/ UNCHANGED books
    BY <1>3 DEF ObserveInit
  <2>3. opts' \in [subagents : BOOLEAN, trackShell : BOOLEAN]
    BY <2>1 DEF LoopOK
  <2> QED
    BY <1>0, <2>1, <2>2, <2>3, BooksReset, BooksKept
<1>4. ASSUME NEW id \in Ids \cup {NoId}, ObserveTaskResult(id)
      PROVE  BooksOK' /\ Books' /\ LoopOK'
  <2>1. LoopOK'
    BY <1>0, <1>4, LoopKept DEF ObserveTaskResult, LoopOK
  <2>2. RemoveIds({id}) \/ UNCHANGED books
    BY <1>4 DEF ObserveTaskResult
  <2> QED
    BY <1>0, <2>1, <2>2, BooksRemove, BooksKept
<1>5. ASSUME NEW calls \in Batches(Ids \cup {NoId}), CountNameBased(calls)
      PROVE  BooksOK' /\ Books' /\ LoopOK'
  <2>1. calls \in Seq(Ids \cup {NoId}) /\ Len(calls) \in Nat /\ DOMAIN calls = 1 .. Len(calls)
    BY BatchIsSeq
  <2>2. \A i \in 1 .. Len(calls) : [id |-> calls[i], kind |-> Subagent] \in Task
    BY <2>1, TrackerAssumption DEF Task
  <2>3. batch' = [i \in 1 .. Len(calls) |-> [id |-> calls[i], kind |-> Subagent]]
    BY <1>5, <2>1 DEF CountNameBased
  <2>4. batch' \in [1 .. Len(calls) -> Task]
    BY <2>2, <2>3
  <2>5. batch' \in Seq(Task)
    BY <2>1, <2>4
  <2>6. LoopOK'
    BY <1>0, <1>5, <2>5, NewBatch DEF CountNameBased, LoopOK
  <2> QED
    BY <1>0, <1>5, <2>6, BooksKept DEF CountNameBased
<1>6. ASSUME NEW tasks \in Batches(Task), ApplySnapshot(tasks)
      PROVE  BooksOK' /\ Books' /\ LoopOK'
  <2>1. LoopOK'
    BY <1>0, <1>6, BatchIsSeq, NewBatch DEF ApplySnapshot, Latch, RemoveUnreported, LoopOK
  <2>2. ResetState \/ RemoveIds(Ids \ Reported(tasks))
    BY <1>6 DEF ApplySnapshot, Latch, RemoveUnreported
  <2>3. opts' \in [subagents : BOOLEAN, trackShell : BOOLEAN]
    BY <2>1 DEF LoopOK
  <2> QED
    BY <1>0, <2>1, <2>2, <2>3, BooksReset, BooksRemove
<1>7. CASE UNCHANGED vars
  BY <1>0, <1>7, BooksKept DEF vars, LoopOK
<1> QED
  BY <1>1, <1>2, <1>3, <1>4, <1>5, <1>6, <1>7 DEF Next

\* The tracker's documented invariants I1 and I2: at any moment each kind has as
\* many tasks outstanding as there are ids stored under it, and never more than
\* its own cap.
THEOREM TypesAndBooks == Spec => []TypeOK /\ []Books
<1>1. TypeOK /\ Books /\ [Next]_vars => (TypeOK /\ Books)'
  BY NextInv
<1> QED
  BY <1>1, InitInv, PTL DEF Spec

\* Type correctness of the tracker: the started and finished counts of every kind
\* are natural numbers no further apart than the cap, whatever messages arrive.
THEOREM TypeCorrect == Spec => []TypeOK
BY TypesAndBooks, PTL

-----------------------------------------------------------------------------
(* What a snapshot leaves behind.                                          *)

\* What a step does to the ids: nothing, drop all, add one, remove some.
LEMMA PendingStep ==
  ASSUME TypeOK, [Next]_vars
  PROVE  \/ UNCHANGED books
         \/ FoldTask /\ AddTask(batch[next])
         \/ ResetState
         \/ \E R : RemoveIds(R)
BY DEF Next, vars, FoldTask, SkipTask, ObserveResult, ObserveInit, ObserveTaskResult,
       CountNameBased, ApplySnapshot, Latch, RemoveUnreported

\* In native mode only a snapshot or a new session takes ids out of the books.
LEMMA NativeStep ==
  ASSUME TypeOK, [Next]_vars, native'
  PROVE  \/ native /\ FoldTask
         \/ native /\ UNCHANGED <<books, opts, native, batch, next>>
         \/ \E tasks \in Batches(Task) : ApplySnapshot(tasks)
BY DEF Next, vars, FoldTask, Observe, ObserveResult, ObserveInit, ObserveTaskResult,
       CountNameBased, TypeOK

LEMMA TrackedKindsStep ==
  ASSUME TypeOK, TrackedKinds, [Next]_vars
  PROVE  TrackedKinds'
<1>1. opts' = opts
  BY DEF Next, vars, FoldTask, Observe, ObserveResult, ObserveInit, ObserveTaskResult,
         CountNameBased, ApplySnapshot
<1>2. Seeded' = Seeded /\ \A k : Enabled(k)' = Enabled(k)
  BY <1>1 DEF Seeded, Enabled
<1>3. CASE UNCHANGED books
  BY <1>2, <1>3 DEF TrackedKinds, books
<1>4. CASE FoldTask /\ AddTask(batch[next])
  <2>1. batch[next] \in Task
    BY <1>4 DEF TypeOK, FoldTask
  <2> QED
    BY <1>2, <1>4, <2>1 DEF TrackedKinds, AddTask, CanAdd, TypeOK, Task
<1>5. CASE ResetState
  BY <1>2, <1>5 DEF TrackedKinds, ResetState, Seeded
<1>6. CASE \E R : RemoveIds(R)
  BY <1>2, <1>6 DEF TrackedKinds, RemoveIds
<1> QED
  BY <1>3, <1>4, <1>5, <1>6, PendingStep

LEMMA SnapshotCompleteStep ==
  ASSUME TypeOK, Books, SnapshotComplete, [Next]_vars
  PROVE  SnapshotComplete'
<1> SUFFICES ASSUME native' PROVE \A i \in 1 .. next' - 1 : Accounted(batch[i])'
  BY DEF SnapshotComplete
<1>1. CASE native /\ FoldTask
  <2>1. /\ batch' = batch /\ next' = next + 1 /\ opts' = opts
        /\ next \in 1 .. Len(batch)
        /\ \A i \in 1 .. Len(batch) : batch[i] \in Task
    BY <1>1 DEF FoldTask, TypeOK
  <2>2. \A k : Enabled(k)' = Enabled(k)
    BY <2>1 DEF Enabled
  <2>3. ASSUME NEW task \in Task, Accounted(task) \/ task = batch[next]
        PROVE  Accounted(task)'
    <3>1. CASE AddTask(batch[next])
      <4>1. PICK t \in Task : t = batch[next]
        BY <2>1
      <4>2. /\ t.id \in Ids /\ t.kind \in Kinds
            /\ pending[t.id] = Absent
            /\ Outstanding(t.kind) < MaxPendingPerKind
            /\ pending' = [pending EXCEPT ![t.id] = t.kind]
        BY <3>1, <4>1 DEF AddTask, CanAdd, HasRoom, Task
      <4>3. /\ pending'[t.id] # Absent
            /\ \A id \in Ids : pending[id] # Absent => pending'[id] # Absent
        BY <4>2, TrackerAssumption DEF TypeOK
      <4>4. ASSUME NEW k \in Kinds, Cardinality(PendingOf(k)) = MaxPendingPerKind
            PROVE  PendingOf(k)' = PendingOf(k)
        <5>1. k # t.kind
          BY <4>2, <4>4, TrackerAssumption DEF Books
        <5> QED
          BY <4>2, <5>1, TrackerAssumption DEF PendingOf, TypeOK
      <4> QED
        BY <2>2, <2>3, <4>1, <4>2, <4>3, <4>4 DEF Accounted, Task
    <3>2. CASE SkipTask(batch[next])
      <4>1. Accounted(task)
        <5>1. /\ Outstanding(task.kind) \in 0 .. MaxPendingPerKind
              /\ Outstanding(task.kind) = Cardinality(PendingOf(task.kind))
          BY DEF TypeOK, Books, Task
        <5>2. ~HasRoom(task.kind) => Cardinality(PendingOf(task.kind)) = MaxPendingPerKind
          BY <5>1, TrackerAssumption DEF HasRoom
        <5> QED
          BY <2>3, <3>2, <5>2 DEF SkipTask, CanAdd, Accounted
      <4> QED
        BY <2>2, <3>2, <4>1 DEF Accounted, SkipTask, books, PendingOf
    <3> QED
      BY <1>1, <3>1, <3>2 DEF FoldTask
  <2>4. \A i \in 1 .. next : batch[i] \in Task /\ (Accounted(batch[i]) \/ batch[i] = batch[next])
    BY <1>1, <2>1 DEF SnapshotComplete
  <2>5. next' - 1 = next
    BY <2>1
  <2> QED
    BY <2>1, <2>3, <2>4, <2>5 DEF Accounted
<1>2. CASE native /\ UNCHANGED <<books, opts, native, batch, next>>
  <2>1. \A k : PendingOf(k)' = PendingOf(k) /\ Enabled(k)' = Enabled(k)
    BY <1>2 DEF books, PendingOf, Enabled
  <2> QED
    BY <1>2, <2>1 DEF SnapshotComplete, Accounted, books
<1>3. CASE \E tasks \in Batches(Task) : ApplySnapshot(tasks)
  BY <1>3 DEF ApplySnapshot
<1> QED
  BY <1>1, <1>2, <1>3, NativeStep

LEMMA PendingReportedStep ==
  ASSUME TypeOK, PendingReported, [Next]_vars
  PROVE  PendingReported'
<1> SUFFICES ASSUME native', NEW id \in Ids, pending'[id] # Absent
             PROVE  id \in Reported(batch)'
  BY DEF PendingReported
<1>1. CASE native /\ FoldTask
  <2>1. batch' = batch /\ next \in 1 .. Len(batch) /\ batch[next] \in Task
    BY <1>1 DEF FoldTask, TypeOK
  <2>2. CASE pending[id] # Absent
    BY <1>1, <2>1, <2>2 DEF PendingReported, Reported
  <2>3. CASE pending[id] = Absent
    <3>1. AddTask(batch[next])
      BY <1>1, <2>3 DEF FoldTask, SkipTask, books
    <3>2. id = batch[next].id
      BY <2>1, <2>3, <3>1 DEF AddTask, TypeOK
    <3> QED
      BY <2>1, <3>2, TrackerAssumption DEF Reported, TypeOK
  <2> QED
    BY <2>2, <2>3
<1>2. CASE native /\ UNCHANGED <<books, opts, native, batch, next>>
  BY <1>2 DEF PendingReported, books, Reported
<1>3. ASSUME NEW tasks \in Batches(Task), ApplySnapshot(tasks)
      PROVE  id \in Reported(batch)'
  BY <1>3 DEF ApplySnapshot, Latch, ResetState, RemoveUnreported, RemoveIds, Reported
<1> QED
  BY <1>1, <1>2, <1>3, NativeStep

\* Invariants of the native mode: every task the last snapshot listed is
\* accounted for, nothing else is pending, and a kind that is not tracked never
\* enters the books.
THEOREM SnapshotFaithful ==
  Spec => []TrackedKinds /\ []SnapshotComplete /\ []PendingReported
<1> DEFINE Inv == TrackedKinds /\ SnapshotComplete /\ PendingReported
<1>1. Init => Inv
  BY TrackerAssumption DEF Init, TrackedKinds, SnapshotComplete, PendingReported, Seeded
<1>2. TypeOK /\ Books /\ Inv /\ [Next]_vars => Inv'
  BY TrackedKindsStep, SnapshotCompleteStep, PendingReportedStep
<1> QED
  BY <1>1, <1>2, TypesAndBooks, PTL DEF Spec

\* Whatever option is off, its kind never enters the books: pending ids are of
\* tracked kinds, and the kinds an option seeds always have their entry.
THEOREM OnlyTrackedKinds == Spec => []TrackedKinds
BY SnapshotFaithful, PTL

\* In native mode nothing is pending that the last snapshot did not report.
THEOREM PendingIsReported == Spec => []PendingReported
BY SnapshotFaithful, PTL

-----------------------------------------------------------------------------
(* What a step may never do.                                               *)

\* The kind an id was stored under does not change while it is pending.
THEOREM KindIsStable == Spec => KindStable
<1> DEFINE Stable == \A id \in Ids : pending[id] # Absent => pending'[id] \in {pending[id], Absent}
<1>1. ASSUME TypeOK, [Next]_vars PROVE Stable
  <2>1. CASE UNCHANGED books
    BY <2>1 DEF books
  <2>2. CASE FoldTask /\ AddTask(batch[next])
    BY <2>2 DEF AddTask, CanAdd, TypeOK
  <2>3. CASE ResetState
    BY <2>3 DEF ResetState
  <2>4. CASE \E R : RemoveIds(R)
    BY <2>4 DEF RemoveIds
  <2> QED
    BY <1>1, <2>1, <2>2, <2>3, <2>4, PendingStep
<1>2. TypeOK /\ [Next]_vars => [Stable]_vars
  BY <1>1
<1> QED
  BY <1>2, TypesAndBooks, PTL DEF Spec, KindStable

\* A counter falls only when a new session begins or the first snapshot latches:
\* re-initialising the same session leaves the books alone.
THEOREM ResetsAreJustified == Spec => NoSilentReset
<1> DEFINE Justified ==
      \A k \in Kinds : started'[k] < started[k] =>
         \/ ~native /\ native'
         \/ lastResumeID # NoResume /\ lastResumeID' # lastResumeID
<1>1. ASSUME TypeOK, [Next]_vars PROVE Justified
  <2>1. CASE started' = started
    BY <1>1, <2>1 DEF TypeOK
  <2>2. CASE FoldTask /\ AddTask(batch[next])
    <3>1. batch[next].kind \in Kinds
      <4>1. batch[next] \in Task
        BY <1>1, <2>2 DEF FoldTask, TypeOK
      <4> QED
        BY <4>1 DEF Task
    <3>2. \A k \in Kinds : started'[k] >= started[k] /\ started[k] \in Nat /\ started'[k] \in Nat
      BY SMTT(40), <1>1, <2>2, <3>1 DEF AddTask, TypeOK
    <3> QED
      BY <3>2
  <2>3. ASSUME NEW r \in ResumeIds \cup {NoResume}, ObserveInit(r), started' # started
        PROVE  lastResumeID # NoResume /\ lastResumeID' # lastResumeID
    BY <2>3 DEF ObserveInit, IsNewSession, books
  <2>4. ASSUME NEW tasks \in Batches(Task), ApplySnapshot(tasks), started' # started
        PROVE  ~native /\ native'
    BY <2>4 DEF ApplySnapshot, Latch, RemoveUnreported, RemoveIds
  <2>5. \/ started' = started
        \/ FoldTask /\ AddTask(batch[next])
        \/ \E r \in ResumeIds \cup {NoResume} : ObserveInit(r)
        \/ \E tasks \in Batches(Task) : ApplySnapshot(tasks)
    BY <1>1 DEF Next, vars, books, FoldTask, SkipTask, ObserveResult, ObserveTaskResult,
                RemoveIds, CountNameBased
  <2> QED
    BY <2>1, <2>2, <2>3, <2>4, <2>5
<1>2. TypeOK /\ [Next]_vars => [Justified]_vars
  BY <1>1
<1> QED
  BY <1>2, TypesAndBooks, PTL DEF Spec, NoSilentReset

\* The BackgroundStats put on a message are those after that message: the ids it
\* lists are still pending, and it lists none only for a kind that has drained.
THEOREM StampsAreCurrent == Spec => StampCurrent
<1> DEFINE Current ==
      \A k \in tracked' : /\ stamp'[k].ids \subseteq PendingOf(k)'
                          /\ stamp'[k].ids = {} => Outstanding(k)' = 0
<1>1. ASSUME TypeOK', Books', stamp' \in Stats' PROVE Current
  <2> SUFFICES ASSUME NEW k \in tracked'
               PROVE  /\ stamp'[k].ids \subseteq PendingOf(k)'
                      /\ stamp'[k].ids = {} => Outstanding(k)' = 0
    OBVIOUS
  <2>1. stamp'[k].ids \in View(k)'
    BY <1>1 DEF Stats
  <2>2. /\ PendingOf(k)' \in SUBSET Ids
        /\ Outstanding(k)' = Cardinality(PendingOf(k)')
    BY <1>1 DEF PendingOf, TypeOK, Books
  <2>3. Cardinality(PendingOf(k)') \in Nat
    BY <2>2, PartFinite
  <2>4. ASSUME stamp'[k].ids = {} PROVE Cardinality(PendingOf(k)') = 0
    BY <2>1, <2>3, <2>4, FS_EmptySet, TrackerAssumption DEF View
  <2> QED
    BY <2>1, <2>2, <2>4 DEF View
<1>2. ASSUME [Next]_vars, stamp' # stamp PROVE stamp' \in Stats'
  <2>1. \/ UNCHANGED books /\ stamp' \in Stats
        \/ stamp' \in Stats'
    BY <1>2 DEF Next, vars, FoldTask, ObserveResult, ObserveInit, ObserveTaskResult,
                CountNameBased, ApplySnapshot
  <2>2. ASSUME UNCHANGED books PROVE Stats' = Stats
    <3>1. pending' = pending /\ tracked' = tracked /\ started' = started /\ finished' = finished
      BY <2>2 DEF books
    <3>2. \A k : View(k)' = View(k)
      BY <3>1 DEF View, PendingOf
    <3> QED
      BY <3>1, <3>2 DEF Stats
  <2> QED
    BY <2>1, <2>2
<1>3. TypeOK' /\ Books' /\ [Next]_vars => [stamp' # stamp => Current]_vars
  BY <1>1, <1>2
<1> QED
  BY <1>3, TypesAndBooks, PTL DEF Spec, StampCurrent

=============================================================================
