\* Sessions of the four backends: their lines, their options and their restarts.
SPECIFICATION Spec
CONSTANTS
  BufferSize = 3
  MaxLine = 5
  Ids = {"s1", "s2"}
  Nothing = "nothing"
  Sentinel = "sentinel"
  Scenes <- MCScenes
  Backend <- MCBackend
  Options <- MCOptions
  Lines <- MCLines
  MaxHeard <- MCMaxHeard
  MaxSpawns <- MCMaxSpawns
INVARIANTS
  StreamFaithful
  SameSession
  NoEscalation
CHECK_DEADLOCK FALSE
