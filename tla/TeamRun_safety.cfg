CONSTANTS
  Agents = {a1, a2, a3}
  MaxCrashes = 1
SPECIFICATION Spec
SYMMETRY AgentSymmetry
INVARIANTS
  SynthesisAfterAll
  StatusFitsTasks
  AbortStops
PROPERTIES
  OnlyAbortDiscardsReports
CHECK_DEADLOCK FALSE
