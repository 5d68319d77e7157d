SPECIFICATION Spec
CONSTANTS
  MaxJobs = 2
  Kinds <- MCKinds
  Deduped <- MCDeduped
  Priority <- MCPriority
  Callers = {"c1"}
  Procs <- MCProcs
  Handles <- MCHandles
  Runs <- MCRuns
  ProcOf <- MCProcOf
  Concurrency = 1
  MaxAttempts = 2
  None = None
  Overrun = FALSE
  CancelRunning = TRUE
  EagerRetry = FALSE
  BlindReads = FALSE
  MaxCrashes = 0
  MaxFaults = 0
  MaxCancels = 1
  MaxRetries = 0
PROPERTY CancelSticks
CHECK_DEADLOCK FALSE
