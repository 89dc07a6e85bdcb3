---------------------------- MODULE LockService ----------------------------
(***************************************************************************)
(* What lock.tcl promises: the lock has at most one holder at a time.      *)
(***************************************************************************)
CONSTANT Procs
VARIABLE holders

Init == holders = {}
Acquire(p) == holders = {} /\ holders' = {p}
Release(p) == p \in holders /\ holders' = holders \ {p}
Next == \E p \in Procs : Acquire(p) \/ Release(p)

Spec == Init /\ [][Next]_holders
=============================================================================
