SPECIFICATION Spec
CONSTANTS
  r1 = r1
  r2 = r2
  r3 = r3
  c1 = c1
  c2 = c2
  NoRow = NoRow
  Rows = {r1, r2}
  Values = {1, 2}
  Names = {c1, c2}
  Asks <- CoreAsks
  Inner <- InnerAsks
  Shares = {"none", "reader"}
  MaxDepth = 2
  MaxTouched = 1
  Careful = TRUE
INVARIANTS OffsetIsBypassed
SYMMETRY Symmetric
