CONSTANTS
  NoPid = NoPid
  Procs = {p1, p2}
  Mortal = {p1}
  Reborn = {p1}
  Failing = {p1}
  Timeout = 1
  SleepTime = 4500
  MaxLevel = 2
  SlowGuard = TRUE
SPECIFICATION BusySpec
INVARIANTS MutualExclusion HolderHasFile
PROPERTIES  CallsReturn StaleIsDeleted
CHECK_DEADLOCK FALSE
