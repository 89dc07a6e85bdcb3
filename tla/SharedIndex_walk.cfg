CONSTANTS
  Rows = {r1, r2, r3}
  Nodes = {n1, n2, n3}
  Top = Top
  Nil = Nil
  Values = {0, 1}
  MaxHeight = 2
  Searches <- Terms
  Others = {r1, r2, r3}
  MaxRestarts = 1
  MaxCycle = 4
SPECIFICATION Spec
SYMMETRY Symmetric
INVARIANTS IndexIsWhole WalksEnd ReportsRows QuietSearch FailsForAReason
