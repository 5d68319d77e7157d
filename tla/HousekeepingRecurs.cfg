SPECIFICATION HSpec
CONSTANTS
  Sweep = "sweep"
  MaxJobs = 3
  Kinds = {"sweep"}
  Deduped = {"sweep"}
  Priority <- MCPriority
  Callers = {}
  Procs <- MCProcs
  Handles <- MCHandles
  Runs <- MCRuns
  ProcOf <- MCProcOf
  Concurrency = 1
  MaxAttempts = 2
  None = None
  Overrun = FALSE
  CancelRunning = FALSE
  EagerRetry = FALSE
  BlindReads = FALSE
  MaxCrashes = 0
  MaxFaults = 0
  MaxCancels = 0
  MaxRetries = 0
CHECK_DEADLOCK FALSE
PROPERTY SweepRecurs
