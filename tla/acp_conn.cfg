\* Two calls, a request of the agent and a notification over one connection.
SPECIFICATION FairSpec

CONSTANTS
  Calls = {c1, c2}
  Requests = {r1}
  Notices = {n1}
  Reader = Reader
  MaxFrames = 3

INVARIANTS
  TypeOK
  DeliverySafe
  PendingInProgress

PROPERTIES
  CallsReturn
  RequestsReplied
  ImplementsCalls

CHECK_DEADLOCK FALSE
