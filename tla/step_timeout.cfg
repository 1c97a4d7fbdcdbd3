SPECIFICATION Spec
CONSTANTS
  None = None
  Runs = {r1}
  Cancellers = {}
  UserStops = {}
  MaxAttempts = 2
  MaxMishaps = 2
  DatabaseFaults = TRUE
  Ticks = {1}
  StepTimeout = TRUE
INVARIANTS
  NoAgentAfterTerminal
  AgentInLeasedSandbox
  LeaseInUseOnlyByActiveRun
PROPERTIES
  ClaimedOnce
CHECK_DEADLOCK FALSE
