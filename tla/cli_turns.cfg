\* A caller that runs turn after turn, as RunTurn does; nobody calls Stop.
SPECIFICATION DeadlineSpec

CONSTANTS
  Senders = {s1}
  Stoppers = {}
  Backends <- Resumable
  OutputBuffer = 1
  Discipline = "afterResult"
  Faults = {"spawn"}
  MaxSends = 3
  MaxText = 0

INVARIANTS
  TypeOK
  ReplacementKeepsChannel

PROPERTIES
  NoResultTruthful
  SendReturns
  ImplementsContract

CHECK_DEADLOCK FALSE
