SPECIFICATION Spec
CONSTANTS
  NLinks = 2
  Cost <- Costs
  Sessions = {a, b}
  Nobody = nobody
  V2Sets <- OneOfEach
  Span = 2
  Modes = {"failover", "activeactive"}
  Diffs = {2}
  MaxUp = 2
  MaxDown = 3
  MaxShares = 1
SYMMETRY Miners
CHECK_DEADLOCK FALSE
INVARIANTS
  OneVerdict
  InStep
  WaiterKnown
