SPECIFICATION Spec
CONSTANTS
  None = None
  Runs = {r1, r2}
  Cancellers = {}
  UserStops = {u1}
  MaxAttempts = 1
  MaxMishaps = 0
  DatabaseFaults = TRUE
  Ticks = {0}
  StepTimeout = FALSE
SYMMETRY RunSymmetry
INVARIANTS
  AgentInLeasedSandbox
PROPERTIES
  SparesForeignSandbox
CHECK_DEADLOCK FALSE
