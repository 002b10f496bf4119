SPECIFICATION ClientSpec
CONSTANTS
  N = 2
  Extra = {x1}
  Calls = {c1}
  Blocks = {b1}
  MaxAttempts = 2
  Ipc = TRUE
  Precious = TRUE
  MaxFaults = 2
  MaxThrows = 1
INVARIANTS
  CallsAccounted
PROPERTIES
  EveryCallEnds
  PrimaryRegained
