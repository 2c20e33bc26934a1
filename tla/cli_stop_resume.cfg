\* Stop while a Send resumes the session.
SPECIFICATION FairSpec

CONSTANTS
  Senders = {s1}
  Stoppers = {t1}
  Backends <- SpawnPerTurn
  OutputBuffer = 1
  Discipline = "afterClose"
  Faults = {}
  MaxSends = 1
  MaxText = 0

PROPERTIES
  StopReturns

CHECK_DEADLOCK FALSE
