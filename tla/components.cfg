SPECIFICATION ComponentsSpec
CONSTANTS
  PendingBytes = 3
  PendingEvents = 2
  TotalBytes = 6
  MaxChunks = 4
  MaxQueued = 2
  MaxFrames = 1
  ModelRuns = {m1, m2}
  Requests = {q1, q2}
  MaxPerHour = 1
  MaxPerDay = 1
  MaxPerRun = 2
  TokenBudget = 1
  MaxUsage = 2
  MaxFaults = 1
  LastHour = 2
  Duration = 4
  MaxLifetime = 2
  ClockSkew = 1
  MaxSessions = 2
  LastInstant = 7
  MaxRuns = 1
  OldMessages = 1
  PageSize = 1
  Uploads = {u1, u2}
  BodySize = 1
  MaxFileSize = 1
  MaxRecord = 1
  MaxHistoryBytes = 12
  MaxHistoryMessages = 3
  MaxStatusEntries = 2
  MaxRecords = 3
  MaxHistory = 5
  MaxStatuses = 4
  MaxTurns = 3
  RowIds = {1, 2, 3}
  Instants = {1, 2}
  ListPageSize = 1
  UsageProjects = {1, 2}
  UsageRuns = {a1, a2, a3}
  UsagePageSize = 1
  UsageBudgets = {1, 3}
  MaxRunUsage = 1
  MaxDiff = 1
  MaxEdits = 1
  EntryNames = {".git", "a", "b"}
  MaxPathDepth = 2
  MaxDirectoryEntries = 1
  MaxBodyBytes = 3
  MaxChunkCount = 3
  MaxUsageEvents = 3
  MaxInstant = 6
  MaxCapabilityLifetime = 2
  CapabilitySkew = 1
  MaxOutputTokens = 1
  MaxParts = 2
  MaxAnswerSize = 1
  MaxLink = 3
INVARIANTS
  QueueBounded
  AdmissionHolds
  UsageIsAccounted
  ContentUrlFollowsSession
  UploadsAreWhole
  AlgorithmsAgree
  ListingIsComplete
  UsageSurvivesDeletion
  ChangesAreCurrent
PROPERTIES
  ImplementsStream
  EndReachesReader
  NoTerminalOutlivesItsSocket
  ViewSettles
  ConsoleShowsOutcome
CHECK_DEADLOCK FALSE
