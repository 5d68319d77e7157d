SPECIFICATION Spec
CONSTANTS
  NVols = 2
  Rels = {"a/x", "b"}
  Dirs <- MCDirs
  Root = "root"
  Parent <- MCParent
  WalkRank <- MCWalkRank
  StringRank <- MCStringRank
  Writers = {"w1"}
  None = None
  MaxVersion = 2
  MaxScans = 1
  MaxAttempts = 2
  MaxCancels = 1
INVARIANTS
  ProgressSound
PROPERTIES
  NeverFalselyMissing
  Reconciled
CHECK_DEADLOCK FALSE
