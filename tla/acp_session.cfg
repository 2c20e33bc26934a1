\* Two Sends and a Stop against an agent that may fail in every way.
SPECIFICATION FairSpec

CONSTANTS
  MaxSends = 2
  Perms = {r1}
  OutputBuffer = 2
  QueueSize = 1
  Scenarios <- Scenes
  MaxUpdates = 3
  MaxKept = 2
  MaxReplay = 1

INVARIANTS
  TypeOK
  ChannelsOpen
  ResultLast
  OwnUpdates

PROPERTIES
  ResultKept
  EverythingEnds
  ImplementsContract

CHECK_DEADLOCK FALSE
