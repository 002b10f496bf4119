SPECIFICATION Spec
CONSTANTS
  a = a
  b = b
  c = c
  x = x
  y = y
  lo = lo
  hi = hi
  V1 = {a, b}
  V2 = {c}
  Space <- MCSpace
  Nonces = {lo, hi}
  Diff <- MCDiff
  Targets <- MCTargets
  NetDiff = 3
  A = A
  B = B
  Tips = {A, B}
  NoTip = NoTip
  Window = 2
  SeenCap = 1
  MayWithhold = TRUE
  MaxJobs = 3
  MaxLines = 3
INVARIANTS
  CountedOncePerRound
  SolvesReachNode
  RoundBestKept
  LateSharesBounded
SYMMETRY InterchangeSymmetry
