CONSTANTS
  NoPid = NoPid
  Readers = {r1, r2}
  Blocks = {b1}
  NSlots = 2
  TwilightZone = 1
  LazyGC = 1
  CellMod = 8
  IntHalf = 4
  Wraps = FALSE
  MaxSpan = 2
  MaxBacklog = 8
  MaxDelay = 1
  MaxNest = 1
  Signalable = {r1, r2}
  Detaching = {}
  Reused = {}
  Unregistered = {}
  OtherShares = FALSE
SPECIFICATION Spec
SYMMETRY Symmetric
INVARIANTS TypeOK NoPrematureFree SlotIsMine
PROPERTIES KeepsGracePeriod
CHECK_DEADLOCK FALSE
