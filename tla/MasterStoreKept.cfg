SPECIFICATION Spec
CONSTANTS
  NumVolumes = 2
  ReadOnly = {}
  Actors = {a, b}
  Together <- Safe
  RetainCount = 2
  None = None
  MaxUploads = 3
  MaxVersionNo = 3
  MaxFaults = 1
  MaxAborts = 1
CONSTRAINT OneFailure
SYMMETRY ActorSymmetry
INVARIANTS
  TypeOK
  Recoverable
  VersionsKept
  OneCopy
  TrashedIsUnserved
PROPERTY VersionFrozen
