SPECIFICATION Spec
CONSTANTS
  Sizes = {1, 2}
  HighWater = 4
  PeerFails = TRUE
  MaxLines = 5
INVARIANTS
  TypeOK
  ChainUnbroken
  CleanedUpOnce
PROPERTIES
  NoWriteAfterClose
  OutboxPromise
  AllDelivered
CHECK_DEADLOCK FALSE
