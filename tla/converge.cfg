SPECIFICATION FairSpec
CONSTANTS
  None = None
  Runs = {r1}
  Cancellers = {c1}
  UserStops = {}
  MaxAttempts = 2
  MaxMishaps = 0
  DatabaseFaults = TRUE
  Ticks = {1}
  StepTimeout = FALSE
PROPERTIES
  RunsConverge
CHECK_DEADLOCK FALSE
