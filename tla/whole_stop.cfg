SPECIFICATION Spec
CONSTANTS
  None = None
  Runs = {r1}
  Cancellers = {}
  UserStops = {}
  MaxAttempts = 2
  MaxMishaps = 1
  DatabaseFaults = TRUE
  Ticks = {1}
  StepTimeout = TRUE
PROPERTIES
  StopsSandboxOnlyWithoutProcessRef
CHECK_DEADLOCK FALSE
