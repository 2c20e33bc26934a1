\* A caller that drains Output() to its close before each Send, and a Stop.
SPECIFICATION Spec

CONSTANTS
  Senders = {s1}
  Stoppers = {t1}
  Backends <- SpawnPerTurn
  OutputBuffer = 1
  Discipline = "afterClose"
  Faults = {"read", "panic", "spawn"}
  MaxSends = 2
  MaxText = 1

INVARIANTS
  SingleReader
  StoppedMeansDead
  CleanExitHasResult

CHECK_DEADLOCK FALSE
