SPECIFICATION SessionSpec
CONSTANTS
  S = {1, 2}
  Ips = {a1}
  Workers = {w1}
  w1 = w1
  Junk = junk
  Nobody = nobody
  TiersOf <- SmallTiers
  MaxOpen = 2
  BanAt = 2
  Aux = TRUE
  DrainOn = TRUE
  LineReads <- SmallLines
  FrameReads <- SmallFrames
  MaxEvents = 2
INVARIANTS
  SlotsExact
  PresenceTruth
  ToldBeforeForced
PROPERTIES
  SilentReaped
