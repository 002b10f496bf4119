SPECIFICATION Spec
CONSTANTS
  Miners = {a, b}
  Nobody = nobody
  OutCap = 3
  PendCap = 1
  NodeRole = TRUE
  MaxLines = 2
  MaxSaid = 1
  MaxBlocks = 1
  MaxDrops = 2
SYMMETRY Alike
CHECK_DEADLOCK FALSE
INVARIANTS
  TypeOK
  EndsMatch
  LinesRelayed
