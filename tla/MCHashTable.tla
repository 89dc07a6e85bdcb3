---------------------------- MODULE MCHashTable ----------------------------
(* HashTable on a small instance: buckets split in two, two keys with the  *)
(* same hash, and one bucket with most of the others.                      *)
EXTENDS HashTable

CONSTANTS k1, k2, k3, k4

Hashes == k1 :> 0 @@ k2 :> 0 @@ k3 :> 1 @@ k4 :> 6

\* The rows are alike, and so are the two keys with the same hash.
Symmetric == Permutations(Entries) \cup Permutations({k1, k2})
=============================================================================
