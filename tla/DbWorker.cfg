SPECIFICATION Spec
CONSTANTS
  w = w
  v = v
  p = p
  q = q
  d = d
  Workers = {w, v}
  ParentHashes = {p, q}
  AuxHashes = {d}
  MaxQueue = 2
  MayRefuse = TRUE
  MaxRecords = 3
  MaxOutages = 1
  MaxRestarts = 1
INVARIANTS
  RoundsExact
PROPERTIES
  NothingReordered
  EventuallySettled
CHECK_DEADLOCK FALSE
