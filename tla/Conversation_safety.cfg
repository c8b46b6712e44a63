SPECIFICATION Spec
SYMMETRY ConvSymmetry
CONSTANTS
  Convs = {c1, c2}
  MinMessages = 2
  MaxIds = 4
  MaxVisits = 2
  MaxSummaries = 2
  MaxMoves = 3
  MaxDeletes = 1
  MaxFlows = 2
  WithImage = {1}
  None = None
  Gone = Gone
INVARIANTS
  NoDanglingFile
  SummaryExact
  ConsolidationSound
CHECK_DEADLOCK FALSE
