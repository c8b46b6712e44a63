CONSTANTS
  a = a
  b = b
  Peers = {a, b}
  Sessions = {s1, s2, s3}
  Contacts <- Strangers
  Invited <- AInvitesB
  MaxFaults = 1
  None = None
SPECIFICATION Spec
INVARIANTS
  RegisteredIsServed
  NoChangeMissed
PROPERTIES
  NewerConnectionKept
CHECK_DEADLOCK FALSE
