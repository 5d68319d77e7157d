SPECIFICATION Spec
CONSTANTS
  NumVolumes = 2
  ReadOnly = {2}
  Actors = {a}
  Together = {}
  RetainCount = 1
  None = None
  MaxUploads = 3
  MaxVersionNo = 3
  MaxFaults = 0
  MaxAborts = 1
INVARIANT ActiveIsServed
CHECK_DEADLOCK FALSE
