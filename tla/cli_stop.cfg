\* Concurrent Sends and Stops of a streaming session that cannot resume.
SPECIFICATION FairSpec

CONSTANTS
  Senders = {s1, s2}
  Stoppers = {t1, t2}
  Backends <- Persistent
  OutputBuffer = 1
  Discipline = "any"
  Faults = {}
  MaxSends = 2
  MaxText = 0

PROPERTIES
  StopReturns
  ReadersEnd

CHECK_DEADLOCK FALSE
