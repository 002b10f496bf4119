SPECIFICATION Spec
CONSTANTS
  a = a
  b = b
  c = c
  x = x
  y = y
  lo = lo
  hi = hi
  V1 = {a}
  V2 = {c}
  Space <- MCSpace
  Nonces = {lo, hi}
  Diff <- MCDiff
  Targets <- MCTargets
  NetDiff = 3
  A = A
  B = B
  Tips = {A, B}
  NoTip = NoTip
  Window = 3
  SeenCap = 9
  MayWithhold = FALSE
  MaxJobs = 3
  MaxLines = 3
INVARIANTS
  DuplicateNeverRecounted
