\* Three tool calls, one live session, two tokens, one tick of the reaper.
SPECIFICATION FairSpec

CONSTANTS
  a = a
  b = b
  c = c
  Nobody = Nobody
  Requests = {a, b, c}
  Scripts <- Scenes
  MaxSessions = 1
  SemCapacity = 2
  RateLimit = 1
  MaxTicks = 1

INVARIANTS
  TypeOK
  NoOrphan
  LiveBound
  OwnAnswer

PROPERTIES
  FailedSessionsLeave
  

CHECK_DEADLOCK FALSE
