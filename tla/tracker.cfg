\* Sessions of three messages that report, complete and reset background work.
SPECIFICATION Spec

CONSTANTS
  Ids = {i1, i2, i3}
  NoId = NoId
  Kinds <- MCKinds
  Subagent = "subagent"
  Shell = "shell"
  Absent = Absent
  ResumeIds = {r1, r2}
  NoResume = NoResume
  MaxPendingPerKind = 1
  MaxStamped = 1
  MaxBatch = 2
  MaxMessages = 3

SYMMETRY MCSymmetry

INVARIANTS
  TypeOK
  Books
  TrackedKinds
  SnapshotComplete
  PendingReported

PROPERTIES
  KindStable
  NoSilentReset
  StampCurrent

CHECK_DEADLOCK FALSE
