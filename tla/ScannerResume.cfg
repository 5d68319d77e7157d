SPECIFICATION Spec
CONSTANTS
  NVols = 1
  Rels = {"a/x", "a.txt", "b"}
  Dirs <- MCDirs
  Root = "root"
  Parent <- MCParent
  WalkRank <- MCWalkRank
  StringRank <- MCStringRank
  Writers = {}
  None = None
  MaxVersion = 1
  MaxScans = 1
  MaxAttempts = 2
  MaxCancels = 0
CHECK_DEADLOCK FALSE
PROPERTY NeverFalselyMissing
