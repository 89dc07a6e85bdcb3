---------------------------- MODULE MCSharedIndex ---------------------------
(* SharedIndex on small instances.                                          *)
EXTENDS SharedIndex, TLC

Terms == {[op |-> "lt", row1 |-> 1, row2 |-> 0], [op |-> "eq", row1 |-> 1, row2 |-> 0],
          [op |-> "gt", row1 |-> 0, row2 |-> 0]}

Symmetric == Permutations(Others) \cup Permutations(Rows \ Others) \cup Permutations(Nodes)
=============================================================================
