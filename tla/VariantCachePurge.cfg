SPECIFICATION Spec
CONSTANTS
  Masters = {"m1", "m2"}
  Reqs = {"r1", "r2"}
  Purgers = {"w1"}
  Weight <- MCWeight
  MaxBytes = 2
  LowBytes = 1
  Boots = FALSE
  None = None
  MaxVersion = 2
  MaxDrift = 2
INVARIANT CapKept
