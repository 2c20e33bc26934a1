\* Three turns, each begun as soon as the previous one had its result.
SPECIFICATION Spec

CONSTANTS
  Senders = {s1}
  Stoppers = {}
  Backends <- SpawnPerTurn
  OutputBuffer = 1
  Discipline = "afterResult"
  Faults = {}
  MaxSends = 2
  MaxText = 0

INVARIANTS
  SingleReader

CHECK_DEADLOCK FALSE
