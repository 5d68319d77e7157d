SPECIFICATION Spec
CONSTANTS
  MaxJobs = 2
  Kinds <- MCKinds
  Deduped <- MCDeduped
  Priority <- MCPriority
  Callers = {c1, c2}
  Procs <- MCProcs
  Handles <- MCHandles
  Runs <- MCRuns
  ProcOf <- MCProcOf
  Concurrency = 1
  MaxAttempts = 2
  None = None
  Overrun = FALSE
  CancelRunning = TRUE
  EagerRetry = FALSE
  BlindReads = FALSE
  MaxCrashes = 1
  MaxFaults = 0
  MaxCancels = 1
  MaxRetries = 1
SYMMETRY CallerSymmetry
INVARIANTS
  TypeOK
  OneExecutor
  ClaimHeld
  SlotsRespected
  DoneMeansWorked
  OneLiveUntilOperator
