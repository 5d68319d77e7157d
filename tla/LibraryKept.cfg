SPECIFICATION Spec
CONSTANTS
  Dir = {d, e}
  Name = {x, y}
  Actors = {a, b}
  Links = {l}
  Visitors = {v, w}
  MaxDownloads = 1
  None = None
  MaxWrites = 4
  MaxRequests = 2
  MaxFaults = 1
CONSTRAINT OneRequestWithLinks
SYMMETRY LibrarySymmetry
INVARIANTS
  NothingLost
  IndexAgrees
  CapHolds
CHECK_DEADLOCK FALSE
