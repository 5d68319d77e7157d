SPECIFICATION FairSpec
CONSTANTS
  MaxJobs = 2
  Kinds <- MCKinds
  Deduped <- MCDeduped
  Priority <- MCPriority
  Callers = {"c1"}
  Procs <- MCProcs
  Handles <- MCHandles
  Runs <- MCRuns
  ProcOf <- MCProcOf
  Concurrency = 1
  MaxAttempts = 2
  None = None
  Overrun = FALSE
  CancelRunning = FALSE
  EagerRetry = FALSE
  BlindReads = FALSE
  MaxCrashes = 1
  MaxFaults = 1
  MaxCancels = 0
  MaxRetries = 1
CONSTRAINT OneFailure
PROPERTIES
  ImplementsLedger
  EveryJobSettles
