CONSTANTS
  NoPid = NoPid
  Readers = {r1, r2}
  Blocks = {b1}
  NSlots = 1
  TwilightZone = 1
  LazyGC = 2
  CellMod = 16
  IntHalf = 8
  Wraps = TRUE
  MaxSpan = 2
  MaxBacklog = 3
  MaxDelay = 1
  MaxNest = 1
  Signalable = {r1, r2}
  Detaching = {r1}
  Reused = {}
  Unregistered = {r2}
  OtherShares = FALSE
SPECIFICATION FairSpec
INVARIANTS NoPrematureFree SearchIsPublished
PROPERTIES GarbageIsCollected
