SPECIFICATION FairSpec
CONSTANTS
  Masters = {"m1", "m2"}
  Reqs = {"r1", "r2", "r3"}
  Purgers = {}
  Weight <- MCWeight
  MaxBytes = 1
  LowBytes = 0
  Boots = FALSE
  None = None
  MaxVersion = 1
  MaxDrift = 2
INVARIANTS
  BytesCounted
  IndexIsDisk
PROPERTY Answered
