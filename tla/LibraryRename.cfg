SPECIFICATION Spec
CONSTANTS
  Dir = {d, e}
  Name = {x, y}
  Actors = {a}
  Links = {}
  Visitors = {}
  MaxDownloads = 1
  None = None
  MaxWrites = 4
  MaxRequests = 2
  MaxFaults = 0
INVARIANT RenameKeepsIndex
CHECK_DEADLOCK FALSE
