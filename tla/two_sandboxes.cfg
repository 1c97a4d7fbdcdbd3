SPECIFICATION Spec
CONSTANTS
  None = None
  Runs = {r1, r2}
  Cancellers = {}
  UserStops = {}
  MaxAttempts = 1
  MaxMishaps = 0
  DatabaseFaults = TRUE
  Ticks = {1}
  StepTimeout = FALSE
INVARIANTS
  OneProviderSandbox
CHECK_DEADLOCK FALSE
