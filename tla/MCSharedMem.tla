---------------------------- MODULE MCSharedMem ----------------------------
(* SharedMem on small instances.                                           *)
EXTENDS SharedMemProofs, TLC

Symmetric == Permutations(Readers) \cup Permutations(Blocks)
=============================================================================
