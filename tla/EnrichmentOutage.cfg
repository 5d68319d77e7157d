SPECIFICATION Spec
CONSTANTS
  Asset = {f, g}
  Tag = {t}
  People = {p, q}
  Backfills = {w, x}
  Budget = 2
  Live = 2
  Half = 1
  None = None
  MaxBatches = 2
  MaxRuns = 3
  MaxActs = 2
  MaxFaults = 1
CONSTRAINT OneConcern
SYMMETRY EnrichmentSymmetry
INVARIANTS
  CeilingHolds
  NothingAbsent
CHECK_DEADLOCK FALSE
