SPECIFICATION Spec
CHECK_DEADLOCK FALSE
CONSTANTS
  User = {ann, bob, cy}
  Admins = {ann, bob}
  Members = {cy}
  Slot = {s1, s2}
  AllowRegistration = FALSE
  MaxFailures = 1
  None = None
  MaxCalls = 3
  MaxFaults = 1
SYMMETRY AccountSymmetry
INVARIANTS
  SessionsFollowChange
  CodeSpentOnce
PROPERTIES
  AdminRemains
