SPECIFICATION Spec
CONSTANTS
  Masters = {"m1"}
  Reqs = {"r1", "r2"}
  Purgers = {"w1"}
  Weight <- MCWeight
  MaxBytes = 1
  LowBytes = 0
  Boots = TRUE
  None = None
  MaxVersion = 2
  MaxDrift = 2
INVARIANTS
  TypeOK
  ServedFresh
  SingleRender
  NoLostWaiter
