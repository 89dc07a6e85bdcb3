CONSTANTS
  Rows = {r1, r2}
  Nodes = {n1, n2}
  Top = Top
  Nil = Nil
  Values = {0, 1}
  MaxHeight = 1
  Searches <- Terms
  Others = {r1, r2}
  MaxRestarts = 1
  MaxCycle = 3
SPECIFICATION Spec
INVARIANTS NeverPartial
