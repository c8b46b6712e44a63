CONSTANTS
  a = a
  b = b
  Peers = {a, b}
  Messages = {m1}
  From <- OneWayFrom
  To <- OneWayTo
  Sessions = {s1, s2, s3}
  Refused = {m1}
  QueueCap = 1
  MaxFaults = 1
  FaultKinds = {"drop", "crash", "expire", "enqueue", "drain", "delete",
                "restart", "forget", "outbox", "send", "store"}
  None = None
SPECIFICATION Spec
INVARIANTS
  PeerAckMeansHandled
  CapHolds
  AckMeansTaken
  QueuedMeansKept
PROPERTIES
  ImplementsMailbox
CHECK_DEADLOCK FALSE
