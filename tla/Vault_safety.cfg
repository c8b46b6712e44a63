SPECIFICATION VaultSpec
CONSTANTS
  a = a
  b = b
  x = x
  y = y
  Agents = {a, b}
  Names = {x, y}
  MaxNotes = 3
  MaxSuffix = 1
  Bodies <- MCBodies
  Callers = {a}
  Edited <- MCEdited
  MaxCmds = 3
  MaxEdits = 1
  MaxCrashes = 1
  Broken = Broken
  Nil = Nil
INVARIANTS
  IndexExact
  InSyncWhenQuiet
PROPERTIES
  NoteKept
CHECK_DEADLOCK FALSE
