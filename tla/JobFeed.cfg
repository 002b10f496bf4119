SPECIFICATION Spec
CONSTANTS
  MaxJobs = 3
  Kinds = {"plain", "merged", "equihash", "standard"}
  Names = {n1, n2}
  Nobody = nobody
  AuxJobs = {2, 3}
  Unswappable = {3}
  Unit = 3
  Diffs = {3, 4, 12}
  MinDiff = 3
  MaxDiff = 9
  StartDiff = 6
  CustomMin = 5
  CustomMax = 12
  SharesPerCheck = 2
  Cap = 1
  MaxRequests = 4
INVARIANTS
  TypeOK
  NewestJobLast
  CurrentJobRebuilt
  ThresholdAdvertised
  AuxSubmittedOnce
