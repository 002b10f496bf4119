SPECIFICATION Spec
CONSTANTS
  Modes = {"notify", "template"}
  AuxModes = {}
  MaxTip = 1
  MaxAuxTip = 0
  MaxPolls = 1
  MaxPosts = 1
  MaxFaults = 1
  MayStop = TRUE
CHECK_DEADLOCK FALSE
INVARIANT
  StopNeverBlocksThread
