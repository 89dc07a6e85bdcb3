CONSTANTS
  NoPid = NoPid
  Readers = {r1}
  Blocks = {b1}
  NSlots = 1
  TwilightZone = 1
  LazyGC = 1
  CellMod = 8
  IntHalf = 4
  Wraps = FALSE
  MaxSpan = 2
  MaxBacklog = 8
  MaxDelay = 1
  MaxNest = 2
  Signalable = {r1}
  Detaching = {}
  Reused = {}
  Unregistered = {}
  OtherShares = FALSE
SPECIFICATION Spec
INVARIANTS NoPrematureFree
CHECK_DEADLOCK FALSE
