\* Liveness: the server and the nodes keep running, one socket may be lost.
CONSTANTS
  a = a
  b = b
  Peers = {a, b}
  Messages = {m1}
  From <- OneWayFrom
  To <- OneWayTo
  Sessions = {s1, s2, s3}
  Refused = {}
  QueueCap = 1
  MaxFaults = 1
  FaultKinds = {"drop"}
  None = None
SPECIFICATION FairSpec
PROPERTIES
  EventuallyAcknowledged
  LoginDeliversBacklog
CHECK_DEADLOCK FALSE
