SPECIFICATION HSpec
CONSTANTS
  Sweep = "sweep"
  MaxJobs = 3
  Kinds = {"sweep"}
  Deduped = {"sweep"}
  Priority <- MCPriority
  Callers = {}
  Procs <- MCProcs
  Handles <- MCHandles
  Runs <- MCRuns
  ProcOf <- MCProcOf
  Concurrency = 1
  MaxAttempts = 3
  None = None
  Overrun = FALSE
  CancelRunning = FALSE
  EagerRetry = FALSE
  BlindReads = TRUE
  MaxCrashes = 1
  MaxFaults = 1
  MaxCancels = 0
  MaxRetries = 0
INVARIANTS
  OneLivePerWork
PROPERTY BootSweepRuns
