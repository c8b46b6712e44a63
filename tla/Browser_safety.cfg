SPECIFICATION Spec
CONSTANTS
  Conversations = {c1, c2}
  Actors = {a1, a2, a3, a4}
  Domains = {d1}
  Knobs = {proxy, headless}
  Values = {empty, v1}
  Empty = empty
  Detected = {proxy}
  Starts <- MCStarts
  MaxIds = 3
  MaxProcs = 2
  Budgets <- MCBudgets
  None = None
SYMMETRY Symmetry
INVARIANTS
  SidecarFollowsSettings
  MapMatchesSidecar
  ApprovalKept
CHECK_DEADLOCK FALSE
