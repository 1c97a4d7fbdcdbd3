SPECIFICATION FairSpec
CONSTANTS
  None = None
  Runs = {r1}
  Cancellers = {c1}
  UserStops = {}
  MaxAttempts = 2
  MaxMishaps = 1
  DatabaseFaults = TRUE
  Ticks = {1}
  StepTimeout = FALSE
PROPERTIES
  ConfirmedStopConverges
CHECK_DEADLOCK FALSE
