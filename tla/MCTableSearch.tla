---- MODULE MCTableSearch ----
(* Small instances of TableSearch. *)
EXTENDS TableSearchProofs

CONSTANTS r1, r2, r3, c1, c2

Plain == [find |-> "all", arg |-> <<>>, offset |-> 0, limit |-> 0, sort |-> "no",
          buffer |-> FALSE, does |-> "code", tran |-> "none", to |-> 1, name |-> c1,
          poll |-> FALSE]

\* The searches of the checked instance.
CoreAsks == {
  [Plain EXCEPT !.find = "ge", !.arg = <<1>>],
  [Plain EXCEPT !.find = "eq", !.arg = <<1>>, !.does = "write", !.offset = 2, !.limit = 1],
  [Plain EXCEPT !.find = "le", !.arg = <<2>>, !.does = "count", !.limit = 2],
  [Plain EXCEPT !.find = "in", !.arg = <<2, 1>>, !.sort = "up", !.limit = 2],
  [Plain EXCEPT !.find = "ge", !.arg = <<1>>, !.sort = "up", !.offset = 1, !.limit = 1],
  [Plain EXCEPT !.poll = TRUE, !.buffer = TRUE, !.does = "write"],
  [Plain EXCEPT !.tran = "delete", !.offset = 1, !.limit = 1],
  [Plain EXCEPT !.find = "ge", !.arg = <<2>>, !.does = "pick", !.tran = "update"],
  [Plain EXCEPT !.find = "le", !.arg = <<1>>, !.tran = "delete", !.does = "pick", !.poll = TRUE],
  [Plain EXCEPT !.find = "in", !.arg = <<1, 2>>, !.tran = "update", !.offset = 1, !.limit = 1],
  [Plain EXCEPT !.find = "ge", !.arg = <<2>>, !.does = "write", !.sort = "down",
               !.buffer = TRUE, !.offset = 1],
  [Plain EXCEPT !.find = "ge", !.arg = <<1>>, !.does = "cursor", !.tran = "cursor", !.limit = 2],
  [Plain EXCEPT !.does = "cursor", !.tran = "cursor", !.name = c2, !.offset = 2]}
  \cup {[Plain EXCEPT !.find = "keys", !.arg = ks, !.does = "write", !.sort = "down"] :
          ks \in {<<q, r>> : q, r \in Rows} \ {<<r, r>> : r \in Rows}}
  \cup {[Plain EXCEPT !.find = "keys", !.arg = ks, !.tran = "delete", !.does = "pick", !.poll = TRUE] :
          ks \in {<<q, r>> : q, r \in Rows} \ {<<r, r>> : r \in Rows}}

InnerAsks == {o \in CoreAsks : (o.find = "ge" /\ o.does \in {"pick", "cursor"})
                                \/ o.does = "count"}

Symmetric == Permutations(Rows)
====
