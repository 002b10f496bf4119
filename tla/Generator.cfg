SPECIFICATION Spec
CONSTANTS
  Modes = {"rpc", "zmq", "notify", "template"}
  AuxModes = {"rpc"}
  MaxTip = 1
  MaxAuxTip = 1
  MaxPolls = 1
  MaxPosts = 1
  MaxFaults = 1
  MayStop = TRUE
CHECK_DEADLOCK FALSE
INVARIANTS
  PollChainUnbroken
  RetiredBeforeDropped
PROPERTIES
  WorkFollowsNode
  FeedsHealOrEnd
