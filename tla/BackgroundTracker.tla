-------------------------- MODULE BackgroundTracker --------------------------
(***************************************************************************)
(* The books one readLoop keeps of the background work an agent has        *)
(* outstanding (engine/cli/background.go): which task ids are pending,     *)
(* under which kind, and how many of each kind were started and finished.  *)
(* The tracker is local to a readLoop; a state is what it holds between    *)
(* two messages, or between two iterations of the loop that adds the tasks *)
(* of one message.                                                         *)
(*                                                                         *)
(* Before any MessageBackgroundTasks snapshot arrives the tracker counts   *)
(* spawning tool calls by name; the first snapshot discards that and makes *)
(* the snapshots authoritative (`native`).                                 *)
(***************************************************************************)
EXTENDS Integers, Sequences, FiniteSets

CONSTANTS
  Ids,                \* task and tool-call ids
  NoId,               \* the empty id
  Kinds,              \* BackgroundKind values, raw pass-through tags included
  Subagent, Shell,    \* BackgroundSubagent, BackgroundShell
  Absent,             \* stands for "not in the map"
  ResumeIds,          \* session ids a MessageInit may carry
  NoResume,           \* the empty ResumeID
  MaxPendingPerKind,  \* maxPendingPerKind
  MaxStamped,         \* maxPendingIDsStampPerKind
  MaxBatch,           \* bound: tasks in one message
  MaxMessages         \* bound: messages observed

ASSUME TrackerAssumption ==
  /\ IsFiniteSet(Ids) /\ NoId \notin Ids
  /\ {Subagent, Shell} \subseteq Kinds /\ Subagent # Shell /\ Absent \notin Kinds
  /\ NoResume \notin ResumeIds
  /\ MaxPendingPerKind \in Nat \ {0} /\ MaxStamped \in Nat \ {0}
  /\ MaxBatch \in Nat /\ MaxMessages \in Nat

VARIABLES
  opts,          \* WithSubagentTools set?  WithShellTracking in force?
  pending,       \* t.pending: the kind each outstanding id was added under
  tracked,       \* the kinds that have an entry in t.counts
  started,       \* t.counts[k].started
  finished,      \* t.counts[k].finished
  native,        \* t.native
  lastResumeID,  \* t.lastResumeID
  batch,         \* the tasks of the last message that carried some
  next,          \* the first of them that is not folded in yet
  stamp,         \* the last BackgroundStats stamped on a message
  seen           \* messages observed

books == <<pending, tracked, started, finished>>
vars  == <<opts, books, native, lastResumeID, batch, next, stamp, seen>>

Task  == [id : Ids \cup {NoId}, kind : Kinds]
Count == [started : Nat, finished : Nat, ids : SUBSET Ids]

Enabled(k) == IF k = Subagent THEN opts.subagents ELSE opts.trackShell

\* The kinds resetState seeds with a zero count.
Seeded == {k \in {Subagent, Shell} : Enabled(k)}

PendingOf(k) == {id \in Ids : pending[id] = k}
Outstanding(k) == started[k] - finished[k]

Zero == [k \in Kinds |-> 0]

\* newBackgroundTracker with at least one of the two options; without any the
\* tracker is nil and does nothing.
Init ==
  /\ opts \in [subagents : BOOLEAN, trackShell : BOOLEAN]
  /\ opts.subagents \/ opts.trackShell
  /\ pending = [id \in Ids |-> Absent]
  /\ tracked = Seeded
  /\ started = Zero
  /\ finished = Zero
  /\ native = FALSE
  /\ lastResumeID = NoResume
  /\ batch = <<>>
  /\ next = 1
  /\ stamp = <<>>
  /\ seen = 0

ResetState ==
  /\ pending' = [id \in Ids |-> Absent]
  /\ tracked' = Seeded
  /\ started' = Zero
  /\ finished' = Zero

\* The next message is observed once the tasks of the previous one are folded.
Observe ==
  /\ next > Len(batch)
  /\ seen < MaxMessages
  /\ seen' = seen + 1
  /\ UNCHANGED opts

-----------------------------------------------------------------------------
(* stamp: a copy of the books, with at most MaxStamped of the ids.  Which  *)
(* ones is up to the order Go iterates over a map.                         *)

View(k) ==
  {S \in SUBSET PendingOf(k) :
     LET n == Cardinality(PendingOf(k))
     IN  Cardinality(S) = IF n < MaxStamped THEN n ELSE MaxStamped}

Stats ==
  {[k \in tracked |-> [started |-> started[k], finished |-> finished[k], ids |-> v[k]]] :
     v \in {w \in [tracked -> SUBSET Ids] : \A k \in tracked : w[k] \in View(k)}}

\* A MessageResult changes no book; it is stamped.
ObserveResult ==
  /\ Observe
  /\ stamp' \in Stats
  /\ UNCHANGED <<books, native, lastResumeID, batch, next>>

-----------------------------------------------------------------------------
(* MessageInit.                                                            *)

\* Mutant of IsNewSession: every init that names a session starts a new one.
IsAnySession(r) == lastResumeID # NoResume /\ r # NoResume

\* An auto-resume initialises the same session again; that is not a new one.
IsNewSession(r) == lastResumeID # NoResume /\ r # NoResume /\ r # lastResumeID

ObserveInit(r) ==
  /\ Observe
  /\ IF IsNewSession(r)
       THEN ResetState /\ native' = FALSE
       ELSE UNCHANGED <<books, native>>
  /\ lastResumeID' = IF r # NoResume THEN r ELSE lastResumeID
  /\ UNCHANGED <<batch, next, stamp>>

-----------------------------------------------------------------------------
(* add and remove.                                                         *)

\* Mutant of HasRoom: one task too many.
HasRoomOffByOne(k) == Outstanding(k) <= MaxPendingPerKind

\* Mutant of HasRoom: one cap for the kinds together.
HasRoomShared(k) ==
  Cardinality({id \in Ids : pending[id] # Absent}) < MaxPendingPerKind

HasRoom(k) == Outstanding(k) < MaxPendingPerKind

\* Mutant of CanAdd: an id that is pending is added again.
CanAddTwice(task) ==
  /\ task.id # NoId
  /\ Enabled(task.kind)
  /\ HasRoom(task.kind)

\* Mutant of CanAdd: whether the kind is tracked is not asked.
CanAddDisabled(task) ==
  /\ task.id # NoId
  /\ pending[task.id] = Absent
  /\ HasRoom(task.kind)

\* The kind an id was first added under stays its kind.
CanAdd(task) ==
  /\ task.id # NoId
  /\ pending[task.id] = Absent
  /\ Enabled(task.kind)
  /\ HasRoom(task.kind)

AddTask(task) ==
  /\ CanAdd(task)
  /\ pending' = [pending EXCEPT ![task.id] = task.kind]
  /\ tracked' = tracked \cup {task.kind}
  /\ started' = [started EXCEPT ![task.kind] = @ + 1]
  /\ UNCHANGED finished

SkipTask(task) == ~CanAdd(task) /\ UNCHANGED books

\* One iteration of the loop over the tasks of a message.
FoldTask ==
  /\ next <= Len(batch)
  /\ AddTask(batch[next]) \/ SkipTask(batch[next])
  /\ next' = next + 1
  /\ UNCHANGED <<opts, native, lastResumeID, batch, stamp, seen>>

\* Mutant of RemoveIds: the removal is charged to one kind whatever was stored.
RemoveIdsUncharged(R) ==
  /\ pending' = [id \in Ids |-> IF id \in R THEN Absent ELSE pending[id]]
  /\ finished' = [finished EXCEPT ![Subagent] =
                    @ + Cardinality({id \in Ids \cap R : pending[id] # Absent})]
  /\ UNCHANGED <<tracked, started>>

\* Each id removed is charged to the kind it was stored under.
RemoveIds(R) ==
  /\ pending' = [id \in Ids |-> IF id \in R THEN Absent ELSE pending[id]]
  /\ finished' = [k \in Kinds |-> finished[k] + Cardinality(PendingOf(k) \cap R)]
  /\ UNCHANGED <<tracked, started>>

-----------------------------------------------------------------------------
(* MessageTaskResult: a completion counts only until snapshots take over.  *)
(* It is stamped after the removal.                                        *)

\* Mutant of ObserveTaskResult: stamped before the completion is folded in.
ObserveTaskResultStampFirst(id) ==
  /\ Observe
  /\ IF native THEN UNCHANGED books ELSE RemoveIds({id})
  /\ stamp' \in Stats
  /\ UNCHANGED <<native, lastResumeID, batch, next>>

ObserveTaskResult(id) ==
  /\ Observe
  /\ IF native THEN UNCHANGED books ELSE RemoveIds({id})
  /\ stamp' \in Stats'
  /\ UNCHANGED <<native, lastResumeID, batch, next>>

-----------------------------------------------------------------------------
(* countNameBased: the parent's tool calls whose name is in the tracked    *)
(* set.  Calls of other tools, and a subagent's own, leave no trace.       *)

CountNameBased(calls) ==
  /\ Observe
  /\ ~native
  /\ opts.subagents
  /\ batch' = [i \in DOMAIN calls |-> [id |-> calls[i], kind |-> Subagent]]
  /\ next' = 1
  /\ UNCHANGED <<books, native, lastResumeID, stamp>>

-----------------------------------------------------------------------------
(* applySnapshot: latch, remove what the snapshot no longer lists, then    *)
(* add what it lists (FoldTask).                                           *)

Reported(tasks) == {tasks[i].id : i \in DOMAIN tasks} \ {NoId}

\* Mutant of Latch: the name-based counts survive the first snapshot.
LatchKeepsFallback ==
  /\ ~native
  /\ native' = TRUE
  /\ UNCHANGED books

Latch ==
  /\ ~native
  /\ native' = TRUE
  /\ ResetState

RemoveUnreported(tasks) ==
  /\ native
  /\ RemoveIds(Ids \ Reported(tasks))
  /\ UNCHANGED native

ApplySnapshot(tasks) ==
  /\ Observe
  /\ Latch \/ RemoveUnreported(tasks)
  /\ batch' = tasks
  /\ next' = 1
  /\ UNCHANGED <<lastResumeID, stamp>>

-----------------------------------------------------------------------------
Batches(S) == UNION {[1 .. n -> S] : n \in 0 .. MaxBatch}

Next ==
  \/ FoldTask
  \/ ObserveResult
  \/ \E r \in ResumeIds \cup {NoResume} : ObserveInit(r)
  \/ \E id \in Ids \cup {NoId} : ObserveTaskResult(id)
  \/ \E calls \in Batches(Ids \cup {NoId}) : CountNameBased(calls)
  \/ \E tasks \in Batches(Task) : ApplySnapshot(tasks)

Spec == Init /\ [][Next]_vars

-----------------------------------------------------------------------------
(* Properties.                                                             *)

\* Every variable stays within its values, and no kind ever has more tasks
\* outstanding than its cap, nor fewer than none.
TypeOK ==
  /\ opts \in [subagents : BOOLEAN, trackShell : BOOLEAN]
  /\ pending \in [Ids -> Kinds \cup {Absent}]
  /\ tracked \in SUBSET Kinds
  /\ started \in [Kinds -> Nat]
  /\ finished \in [Kinds -> Nat]
  /\ \A k \in Kinds : Outstanding(k) \in 0 .. MaxPendingPerKind
  /\ native \in BOOLEAN
  /\ lastResumeID \in ResumeIds \cup {NoResume}
  /\ batch \in Seq(Task)
  /\ next \in 1 .. Len(batch) + 1
  /\ seen \in Nat

\* background.go's per-kind books: for every kind, Started - Finished is the
\* number of pending ids stored under it.
Books == \A k \in Kinds : Outstanding(k) = Cardinality(PendingOf(k))

\* The entries of t.counts, hence of a stamp, are the seeded kinds and others
\* that are enabled: what is pending is enabled and has an entry.
TrackedKinds ==
  /\ Seeded \subseteq tracked
  /\ \A k \in tracked : Enabled(k)
  /\ \A id \in Ids : pending[id] # Absent => pending[id] \in tracked

\* A task the snapshot lists is pending, of a kind that is not tracked, or of a
\* kind that has reached its own cap.
Accounted(task) ==
  \/ task.id = NoId
  \/ pending[task.id] # Absent
  \/ ~Enabled(task.kind)
  \/ Cardinality(PendingOf(task.kind)) = MaxPendingPerKind

\* No false quiescence: what the last snapshot reports as live is accounted for
\* in the books, even when the same snapshot retires as many tasks as it brings
\* and the kind is at its cap, or when another kind fills up.
SnapshotComplete == native => \A i \in 1 .. next - 1 : Accounted(batch[i])

\* Nothing lingers: once snapshots are authoritative nothing is pending but what
\* the last one reported, the provisional name-based ids included.
PendingReported ==
  native => \A id \in Ids : pending[id] # Absent => id \in Reported(batch)

\* First observation wins: the kind of an id does not change while it is pending.
KindStable ==
  [][\A id \in Ids : pending[id] # Absent => pending'[id] \in {pending[id], Absent}]_vars

\* Counters fall back to zero only for a new session or when the first snapshot
\* latches: an auto-resume, which initialises the same session again, loses no
\* outstanding task.
NoSilentReset ==
  [][\A k \in Kinds : started'[k] < started[k] =>
       \/ ~native /\ native'
       \/ lastResumeID # NoResume /\ lastResumeID' # lastResumeID]_vars

\* The stamp of a message shows the books after that message was folded in: it
\* names only ids still pending, and none only for a kind that has drained.
StampCurrent ==
  [][stamp' # stamp =>
       \A k \in tracked' : /\ stamp'[k].ids \subseteq PendingOf(k)'
                           /\ stamp'[k].ids = {} => Outstanding(k)' = 0]_vars
=============================================================================
