CONSTANTS
  Rows = {r1, r2}
  NoRow = NoRow
  Keys = {k1, k2}
  NoKey = NoKey
  NFields = 3
  Values = {0, 1}
  Null = Null
  Out = Out
  Default <- Defaults
  Unique = {1}
  NotNull = {2}
  Chars = {3}
  Repeats = TRUE
SPECIFICATION Spec
SYMMETRY Symmetric
INVARIANTS TypeOK HashIsTable IndexIsSound UniqueIsUnique IndexIsComplete
CHECK_DEADLOCK FALSE
