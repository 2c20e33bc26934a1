\* A Send whose context ends, and the next one, while the agent works on both prompts.
SPECIFICATION Spec

CONSTANTS
  MaxSends = 2
  Perms = {r1}
  OutputBuffer = 1
  QueueSize = 1
  Scenarios <- LateScenes
  MaxUpdates = 2
  MaxKept = 2
  MaxReplay = 1

INVARIANTS
  LateFramesIgnored

CHECK_DEADLOCK FALSE
