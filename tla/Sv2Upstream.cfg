SPECIFICATION FairSpec
CONSTANTS
  Sessions = {a}
  Span = 2
  Window = 2
  Kept = 1
  Diffs = {2}
  MaxJobs = 2
  MaxShares = 2
  MaxEvents = 1
CHECK_DEADLOCK FALSE
INVARIANTS
  InStep
  RebuiltAsHashed
  VerdictsHonest
  StaysDown
PROPERTY LinkRecovers
