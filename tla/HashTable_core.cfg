SPECIFICATION Spec
CONSTANTS
  k1 = k1
  k2 = k2
  k3 = k3
  k4 = k4
  Keys = {k1, k2, k3, k4}
  NoKey = NoKey
  Entries = {e1, e2, e3, e4}
  Nil = Nil
  Hash <- Hashes
  Base = 2
  Digits = 3
  Multiplier = 1
SYMMETRY Symmetric
INVARIANTS ChainsAreWhole EachOnce
PROPERTIES ImplementsMap
