CONSTANTS
  NoPid = NoPid
  Readers = {r1}
  Blocks = {b1, b2}
  NSlots = 1
  TwilightZone = 1
  LazyGC = 2
  CellMod = 8
  IntHalf = 4
  Wraps = FALSE
  MaxSpan = 2
  MaxBacklog = 8
  MaxDelay = 1
  MaxNest = 1
  Signalable = {r1}
  Detaching = {r1}
  Reused = {r1}
  Unregistered = {}
  OtherShares = TRUE
SPECIFICATION Spec
SYMMETRY Symmetric
INVARIANTS GarbageIsQueued GarbageOrdered
 
CHECK_DEADLOCK FALSE
