\* The rarer lines of a claude session, two at a time.
SPECIFICATION Spec
CONSTANTS
  BufferSize = 3
  MaxLine = 5
  Ids = {"s1", "s2"}
  Nothing = "nothing"
  Sentinel = "sentinel"
  Scenes <- Rare
  Backend <- MCBackend
  Options <- MCOptions
  Lines <- MCLines
  MaxHeard <- MCMaxHeard
  MaxSpawns <- MCMaxSpawns
INVARIANTS
  SubagentReasonsStay
CHECK_DEADLOCK FALSE
