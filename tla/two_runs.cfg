SPECIFICATION Spec
CONSTANTS
  None = None
  Runs = {r1, r2}
  Cancellers = {}
  UserStops = {}
  MaxAttempts = 1
  MaxMishaps = 1
  DatabaseFaults = FALSE
  Ticks = {1}
  StepTimeout = FALSE
SYMMETRY RunSymmetry
PROPERTIES
  ImplementsLifecycle
  SparesForeignSandbox
CHECK_DEADLOCK FALSE
