---------------------------- MODULE MCTableIndex ----------------------------
(* TableIndex on small instances: field 1 is nullable, field 2 is not.      *)
EXTENDS TableIndexProofs, TLC

Zero == 0
Defaults == [f \in 1 .. NFields |-> IF f = 1 THEN Null ELSE Zero]

Symmetric == Permutations(Rows) \cup Permutations(Keys)
=============================================================================
