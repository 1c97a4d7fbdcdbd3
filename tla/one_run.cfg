SPECIFICATION Spec
CONSTANTS
  None = None
  Runs = {r1}
  Cancellers = {c1}
  UserStops = {u1}
  MaxAttempts = 2
  MaxMishaps = 1
  DatabaseFaults = TRUE
  Ticks = {1}
  StepTimeout = FALSE
INVARIANTS
  TypeOK
  NoAgentAfterTerminal
  AgentInLeasedSandbox
  LeaseInUseOnlyByActiveRun
  PendingTransitionsAreLegal
  NoOrphanWithoutMishap
PROPERTIES
  ImplementsLifecycle
  StopsSandboxOnlyWithoutProcessRef
CHECK_DEADLOCK FALSE
