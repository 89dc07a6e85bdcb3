----------------------------- MODULE GracePeriod -----------------------------
(***************************************************************************)
(* What the garbage queue of ctables/shared promises: a retired block is   *)
(* given back only when every search that was running when it was retired  *)
(* has ended.  No cycles, no slots, no scan.                               *)
(***************************************************************************)
CONSTANTS Readers, Blocks

VARIABLES
  where,      \* is a block free, linked in the table, or garbage?
  searching,  \* readers that may hold pointers
  owed        \* for a garbage block, the searches it has to outlast

vars == <<where, searching, owed>>

Init ==
  /\ where = [b \in Blocks |-> "free"]
  /\ searching = {}
  /\ owed = [b \in Blocks |-> {}]

Begin(r) ==
  /\ r \notin searching
  /\ searching' = searching \cup {r}
  /\ UNCHANGED <<where, owed>>

End(r) ==
  /\ r \in searching
  /\ searching' = searching \ {r}
  /\ owed' = [b \in Blocks |-> owed[b] \ {r}]
  /\ UNCHANGED where

Link(b) ==
  /\ where[b] = "free"
  /\ where' = [where EXCEPT ![b] = "linked"]
  /\ owed' = [owed EXCEPT ![b] = {}]
  /\ UNCHANGED searching

Retire(b) ==
  /\ where[b] = "linked"
  /\ where' = [where EXCEPT ![b] = "garbage"]
  /\ owed' = [owed EXCEPT ![b] = searching]
  /\ UNCHANGED searching

Free(B) ==
  /\ \A b \in B : where[b] = "garbage" /\ owed[b] = {}
  /\ where' = [b \in Blocks |-> IF b \in B THEN "free" ELSE where[b]]
  /\ UNCHANGED <<searching, owed>>

Next ==
  \/ \E r \in Readers : Begin(r) \/ End(r)
  \/ \E b \in Blocks : Link(b) \/ Retire(b)
  \/ \E B \in SUBSET Blocks : Free(B)

Spec == Init /\ [][Next]_vars
=============================================================================
