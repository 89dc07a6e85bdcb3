------------------------------- MODULE KeyMap -------------------------------
(***************************************************************************)
(* What the other parts of a table take its hash table for: a function     *)
(* from keys to rows, that one command changes at a time.  TableIndex has  *)
(* it as its variable hash.                                                *)
(***************************************************************************)
CONSTANTS Keys, Entries, Nil

VARIABLE map

Init == map = [k \in Keys |-> Nil]

Unused(e) == \A k \in Keys : map[k] # e

Store(k, e) == map[k] = Nil /\ Unused(e) /\ map' = [map EXCEPT ![k] = e]

Rename(k, l) ==
  /\ map[k] # Nil /\ map[l] = Nil
  /\ map' = [map EXCEPT ![l] = map[k], ![k] = Nil]

Delete(k) == map[k] # Nil /\ map' = [map EXCEPT ![k] = Nil]

Clear == map' = [k \in Keys |-> Nil]

Next ==
  \/ \E k \in Keys :
       \/ \E e \in Entries : Store(k, e)
       \/ \E l \in Keys : Rename(k, l)
       \/ Delete(k)
  \/ Clear

Spec == Init /\ [][Next]_map
=============================================================================
