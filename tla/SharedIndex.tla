---------------------------- MODULE SharedIndex ----------------------------
(***************************************************************************)
(* An index in shared memory: the master inserts, moves and removes rows   *)
(* while a reader searches it.  Nothing but the order of the stores and    *)
(* the restart of the search stands between them.                          *)
(*                                                                         *)
(* An index is a skip list (jsw_slib.c) with a node for each value; a node *)
(* heads the list of the rows with its value (ctable_lists.c).  Each store *)
(* of the master that a reader can see and each load of the reader is a    *)
(* step.  The search is the walk of ctable_PerformSearch over a skip list; *)
(* SharedMem models how its memory is kept, so that here a row or a node   *)
(* the search could have reached is not used again before the search ends. *)
(*                                                                         *)
(* Stores become visible in program order.  A comparison loads a row and   *)
(* its value in one step.                                                  *)
(***************************************************************************)
EXTENDS Integers, FiniteSets, Sequences

CONSTANTS
  Rows,        \* the structures of rows
  Nodes,       \* the nodes of the skip list
  Top,         \* its header, of full height
  Nil,         \* a null pointer
  Values,      \* the values of the indexed field, by their rank
  MaxHeight,   \* skip->maxh - 1, the levels a node can have
  Searches,    \* the search terms the reader uses
  Others,      \* the rows that satisfy its other terms
  MaxRestarts, \* MAX_RESTARTS
  MaxCycle     \* bound: write locks the master takes

Levels == 0 .. MaxHeight
Places == Nodes \cup {Top}
Cells  == Nodes \cup Rows        \* node->row, row->_ll_nodes[index].next
Ops    == {"lt", "le", "eq", "ge", "gt", "range"}

ASSUME SizesAssumption ==
  MaxHeight \in Nat \ {0} /\ MaxRestarts \in Nat \ {0} /\ MaxCycle \in Nat
ASSUME DataAssumption ==
  /\ Values \subseteq Nat /\ Values # {}
  /\ Others \subseteq Rows
  /\ Searches \subseteq [op : Ops, row1 : Values, row2 : Values]
ASSUME PointersAssumption ==
  Nil \notin Cells \cup {Top} /\ Top \notin Cells /\ Nodes \cap Rows = {}

VARIABLES
  \* shared memory
  next,      \* node->next[i]
  curh,      \* skip->publicdata->curh
  to,        \* the rows that a node and a row point to
  prev,      \* row->_ll_nodes[index].prev: the cell that points to the row
  head,      \* row->_ll_nodes[index].head: the node of the row
  tall,      \* the levels a node of the skip list has, 0 for the others
  val,       \* the field
  stamp,     \* row->_row_cycle
  count,     \* ctable->count
  cycle,     \* map->cycle
  \* the master: where it is, the command, its row, the new value, a node and a level
  pc, op, target, new, node, level,
  \* the reader: where it is, the search term, num_restarts, ctable->count
  \* and main_cycle as it read them, p, i and next of locate, skip->curl, row,
  \* walkRow, myCount and the table of matches
  rpc, search, restarts, size, since, at, lev, cand, curl, row, walk, steps, matches,
  born,      \* history: the cycle in which a row was put in its list
  \* history of the search: rows and nodes that were in the index while it
  \* ran, matching rows no command has named, what else has happened
  seen, seenNodes, stay, met

shared  == <<next, curh, to, prev, head, tall, val, stamp, count, cycle>>
command == <<pc, op, target, new, node, level, born>>
reader  == <<rpc, search, restarts, size, since, at, lev, cand, curl, row, walk, steps, matches>>
history == <<seen, seenNodes, stay, met>>
vars    == <<shared, command, reader, history>>

Outcomes == {"done", "crashed", "overflow", "endless", "exhausted"}
Walking  == {"enter", "start", "locate", "compare", "arrive", "skip", "pass", "fetch", "check", "ended", "walk"}
Changes  == {"set", "incr"}
NoSearch == [op |-> "none", row1 |-> 0, row2 |-> 0]

SharedType ==
  /\ next \in [Places -> [Levels -> Nodes \cup {Nil}]]
  /\ curh \in Levels
  /\ to \in [Cells -> Rows \cup {Nil}]
  /\ prev \in [Rows -> Cells \cup {Nil}]
  /\ head \in [Rows -> Nodes \cup {Nil}]
  /\ tall \in [Nodes -> Levels]
  /\ val \in [Rows -> Values]
  /\ stamp \in [Rows -> Nat] /\ count \in Int /\ cycle \in Nat

CommandType ==
  /\ pc \in {"idle", "unlink", "empty", "erase", "clear", "store", "insert", "link", "publish", "free"}
  /\ op \in {"none", "add", "delete"} \cup Changes
  /\ target \in Rows \cup {Nil} /\ new \in Values \cup {Nil}
  /\ node \in Nodes \cup {Nil} /\ level \in Levels
  /\ born \in [Rows -> Nat]

ReaderType ==
  /\ rpc \in {"idle", "lock"} \cup Walking \cup Outcomes
  /\ search \in Searches \cup {NoSearch}
  /\ restarts \in Nat /\ size \in Int /\ since \in Nat
  /\ at \in Places /\ lev \in Levels
  /\ cand \in Nodes \cup {Nil} /\ curl \in Nodes \cup {Nil}
  /\ row \in Rows \cup {Nil} /\ walk \in Rows \cup {Nil}
  /\ steps \in Nat /\ matches \in Seq(Rows)

HistoryType ==
  /\ seen \subseteq Rows /\ seenNodes \subseteq Nodes
  /\ stay \subseteq Rows /\ met \subseteq {"add", "early", "move", "erase", "tall"}

TypeOK == SharedType /\ CommandType /\ ReaderType /\ HistoryType

-----------------------------------------------------------------------------
(* Search terms.                                                           *)

\* skipTypes: where a search starts and where it ends.
FromReset(s) == s.op \in {"lt", "le"}

PastEnd(v, s) == \/ s.op = "lt" /\ v >= s.row1
                 \/ s.op \in {"le", "eq"} /\ v > s.row1
                 \/ s.op = "range" /\ v >= s.row2

BeforeStart(v, s) == \/ s.op \in {"ge", "range"} /\ v < s.row1
                     \/ s.op = "gt" /\ v <= s.row1
                     \/ s.op = "eq" /\ v # s.row1

\* ctable_SearchRestartNeeded
SearchRestartNeeded(v, s) == PastEnd(v, s) \/ BeforeStart(v, s)

Matching(v, s) == ~PastEnd(v, s) /\ ~BeforeStart(v, s)

-----------------------------------------------------------------------------
(* What is in the index.                                                   *)

InList == {n \in Nodes : tall[n] > 0}

\* The rows in the list of a node.  jsw_serase runs with the removed row put back.
Listed == {r \in Rows : prev[r] # Nil} \cup (IF pc \in {"erase", "clear"} THEN {target} ELSE {})

OnLevel(i) == {Top} \cup {n \in InList : tall[n] > i}

Value(n) == val[to[n]]

\* locate, in the master, where nothing changes meanwhile: p is skip->fix[i].
Fix(p, i, v) ==
  /\ p \in OnLevel(i)
  /\ p # Top => Value(p) < v
  /\ next[p][i] # Nil => Value(next[p][i]) >= v

\* What the command does that a search may notice.
Doing ==
  (IF op = "add" THEN {"add"} ELSE {})
    \cup (IF op \in Changes THEN {"move"} ELSE {})
    \cup (IF pc \in {"empty", "erase", "clear"} THEN {"erase"} ELSE {})
    \cup (IF pc = "publish" /\ tall[node] > 1 THEN {"tall"} ELSE {})

\* Each step of the master until a search returns is part of its history.
Observing == rpc \in (Walking \cup Outcomes) \ {"exhausted"}

Observe ==
  IF Observing
  THEN /\ seen' = seen \cup Listed'
       /\ seenNodes' = seenNodes \cup InList'
       /\ stay' = stay \ {target'}
       /\ met' = met \cup Doing'
  ELSE UNCHANGED history

Init ==
  /\ next = [p \in Places |-> [i \in Levels |-> Nil]] /\ curh = 0
  /\ to = [c \in Cells |-> Nil]
  /\ prev = [r \in Rows |-> Nil] /\ head = [r \in Rows |-> Nil]
  /\ tall = [n \in Nodes |-> 0]
  /\ val = [r \in Rows |-> CHOOSE v \in Values : TRUE]
  /\ stamp = [r \in Rows |-> 0] /\ count = 0 /\ cycle = 0
  /\ pc = "idle" /\ op = "none" /\ target = Nil /\ new = Nil /\ node = Nil /\ level = 0
  /\ born = [r \in Rows |-> 0]
  /\ rpc = "idle" /\ search = NoSearch /\ restarts = 0 /\ size = 0 /\ since = 0
  /\ at = Top /\ lev = 0 /\ cand = Nil /\ curl = Nil /\ row = Nil /\ walk = Nil
  /\ steps = 0 /\ matches = <<>>
  /\ seen = {} /\ seenNodes = {} /\ stay = {} /\ met = {}

-----------------------------------------------------------------------------
(* The master.  A command begins with begin_write.                         *)

Begin(o, r, v) ==
  /\ pc = "idle" /\ cycle < MaxCycle
  /\ cycle' = cycle + 1
  /\ op' = o /\ target' = r /\ new' = v
  /\ UNCHANGED <<next, curh, to, prev, head, tall, node, level, born, reader>>

\* find_or_create and set, for a new row: a row structure no search can be on.
Add(r, v) ==
  /\ Begin("add", r, v)
  /\ r \notin Listed /\ r \notin seen
  /\ val' = [val EXCEPT ![r] = v]
  /\ stamp' = [stamp EXCEPT ![r] = cycle']
  /\ count' = count + 1
  /\ pc' = "insert"
  /\ Observe

Set(r, v) ==
  /\ Begin("set", r, v)
  /\ r \in Listed /\ v # val[r]
  /\ stamp' = [stamp EXCEPT ![r] = cycle']
  /\ pc' = "unlink"
  /\ UNCHANGED <<val, count>>
  /\ Observe

\* incr does not set _row_cycle.
Incr(r, v) ==
  /\ Begin("incr", r, v)
  /\ r \in Listed /\ v = val[r] + 1
  /\ pc' = "unlink"
  /\ UNCHANGED <<val, stamp, count>>
  /\ Observe

Delete(r) ==
  /\ Begin("delete", r, Nil)
  /\ r \in Listed
  /\ pc' = "unlink"
  /\ UNCHANGED <<val, stamp, count>>
  /\ Observe

Removed == IF op = "delete" THEN "free" ELSE "store"

\* Mutant: the pointer to the row is left as it is.
Unlink_StillThere ==
  /\ pc = "unlink"
  /\ prev' = [prev EXCEPT ![target] = Nil]
  /\ pc' = Removed
  /\ UNCHANGED <<next, curh, to, head, tall, val, stamp, count, cycle, op, target, new, node, level, born, reader>>
  /\ Observe

\* ctable_ListRemoveMightBeTheLastOne
Unlink ==
  /\ pc = "unlink"
  /\ to' = [to EXCEPT ![prev[target]] = to[target]]
  /\ prev' = [r \in Rows |-> CASE r = target     -> Nil
                               [] r = to[target] -> prev[target]
                               [] OTHER          -> prev[r]]
  /\ pc' = IF to[target] = Nil /\ to'[head[target]] = Nil THEN "empty" ELSE Removed
  /\ UNCHANGED <<next, curh, head, tall, val, stamp, count, cycle, op, target, new, node, level, born, reader>>
  /\ Observe

\* ctable_RemoveFromIndex: the pointer is put back for jsw_serase to compare.
PutBack ==
  /\ pc = "empty"
  /\ to' = [to EXCEPT ![head[target]] = target]
  /\ pc' = "erase" /\ node' = head[target] /\ level' = 0
  /\ UNCHANGED <<next, curh, prev, head, tall, val, stamp, count, cycle, op, target, new, born, reader>>
  /\ Observe

\* jsw_serase stops at the first level that does not lead to the node.
Leads(p) == level < curh /\ Fix(p, level, val[target]) /\ next[p][level] = node

EraseLevel ==
  /\ pc = "erase"
  /\ \E p \in Places :
       /\ Leads(p)
       /\ next' = [next EXCEPT ![p][level] = next[node][level]]
  /\ level' = level + 1
  /\ UNCHANGED <<curh, to, prev, head, tall, val, stamp, count, cycle, pc, op, target, new, node, born, reader>>
  /\ Observe

LowerHeight ==
  /\ pc = "erase" /\ \A p \in Places : ~Leads(p)
  /\ curh' \in 0 .. curh
  /\ curh' > 0 => next[Top][curh' - 1] # Nil
  /\ \A i \in curh' .. curh - 1 : next[Top][i] = Nil
  /\ pc' = "clear"
  /\ UNCHANGED <<next, to, prev, head, tall, val, stamp, count, cycle, op, target, new, node, level, born, reader>>
  /\ Observe

\* "don't think this is needed, but do it anyway"
Clear ==
  /\ pc = "clear"
  /\ to' = [to EXCEPT ![node] = Nil]
  /\ tall' = [tall EXCEPT ![node] = 0]
  /\ pc' = Removed /\ node' = Nil /\ level' = 0
  /\ UNCHANGED <<next, curh, prev, head, val, stamp, count, cycle, op, target, new, born, reader>>
  /\ Observe

\* The field itself is set while the row is in no list.
Store ==
  /\ pc = "store"
  /\ val' = [val EXCEPT ![target] = new]
  /\ pc' = "insert"
  /\ UNCHANGED <<next, curh, to, prev, head, tall, stamp, count, cycle, op, target, new, node, level, born, reader>>
  /\ Observe

Return == pc' = "idle" /\ op' = "none" /\ target' = Nil /\ new' = Nil /\ node' = Nil /\ level' = 0

\* The rest of delete_row and of the delete command.
Free ==
  /\ pc = "free"
  /\ count' = count - 1
  /\ Return
  /\ UNCHANGED <<next, curh, to, prev, head, tall, val, stamp, cycle, born, reader>>
  /\ Observe

\* Mutant: the list leads to the row before the row leads to the list.
InsertHead_HeadFirst ==
  /\ pc = "insert"
  /\ \E n \in InList :
       /\ Value(n) = new
       /\ to' = [to EXCEPT ![n] = target, ![target] = Nil]
       /\ prev' = [prev EXCEPT ![target] = n, ![to[n]] = target]
       /\ head' = [head EXCEPT ![target] = n]
       /\ born' = [born EXCEPT ![target] = cycle]
       /\ node' = n
  /\ pc' = "link"
  /\ UNCHANGED <<next, curh, tall, val, stamp, count, cycle, op, target, new, level, reader>>
  /\ Observe

\* jsw_sinsert_linked with a node of the value: all of ctable_ListInsertHead
\* but its last store.
InsertHead ==
  /\ pc = "insert"
  /\ \E n \in InList :
       /\ Value(n) = new
       /\ to' = [to EXCEPT ![target] = to[n]]
       /\ prev' = [prev EXCEPT ![target] = n, ![to[n]] = target]
       /\ head' = [head EXCEPT ![target] = n]
       /\ born' = [born EXCEPT ![target] = cycle]
       /\ node' = n
  /\ pc' = "link"
  /\ UNCHANGED <<next, curh, tall, val, stamp, count, cycle, op, target, new, level, reader>>
  /\ Observe

Link ==
  /\ pc = "link"
  /\ to' = [to EXCEPT ![node] = target]
  /\ Return
  /\ UNCHANGED <<next, curh, prev, head, tall, val, stamp, count, cycle, born, reader>>
  /\ Observe

\* Without one: a new node, of a random height that raises curh by at most one.
NewNode ==
  /\ pc = "insert" /\ \A n \in InList : Value(n) # new
  /\ \E n \in Nodes \ (InList \cup seenNodes), h \in 1 .. MaxHeight :
       LET raised == IF h > curh THEN curh + 1 ELSE h IN
       /\ next' = [next EXCEPT ![n] = [i \in Levels |-> Nil]]
       /\ curh' = IF h > curh THEN curh + 1 ELSE curh
       /\ to' = [to EXCEPT ![n] = target, ![target] = Nil]
       /\ prev' = [prev EXCEPT ![target] = n]
       /\ head' = [head EXCEPT ![target] = n]
       /\ tall' = [tall EXCEPT ![n] = raised]
       /\ born' = [born EXCEPT ![target] = cycle]
       /\ node' = n /\ level' = raised - 1
  /\ pc' = "publish"
  /\ UNCHANGED <<val, stamp, count, cycle, op, target, new, reader>>
  /\ Observe

\* Mutant: the link of the level is read after it was set.
Publish_Swapped ==
  /\ pc = "publish"
  /\ \E p \in Places :
       /\ Fix(p, level, new)
       /\ next' = [next EXCEPT ![p][level] = node, ![node][level] = node]
  /\ IF level > 0
     THEN level' = level - 1 /\ UNCHANGED <<pc, op, target, new, node>>
     ELSE Return
  /\ UNCHANGED <<curh, to, prev, head, tall, val, stamp, count, cycle, born, reader>>
  /\ Observe

\* Its links are built from the top.  A reader cannot tell the two stores
\* of a level apart: one that is on the node did not come along this level.
Publish ==
  /\ pc = "publish"
  /\ \E p \in Places :
       /\ Fix(p, level, new)
       /\ next' = [next EXCEPT ![node][level] = next[p][level], ![p][level] = node]
  /\ IF level > 0
     THEN level' = level - 1 /\ UNCHANGED <<pc, op, target, new, node>>
     ELSE Return
  /\ UNCHANGED <<curh, to, prev, head, tall, val, stamp, count, cycle, born, reader>>
  /\ Observe

Master ==
  \/ \E r \in Rows, v \in Values : Add(r, v) \/ Set(r, v) \/ Incr(r, v)
  \/ \E r \in Rows : Delete(r)
  \/ Unlink \/ PutBack \/ EraseLevel \/ LowerHeight \/ Clear \/ Store \/ Free
  \/ InsertHead \/ Link \/ NewNode \/ Publish

-----------------------------------------------------------------------------
(* The reader.                                                             *)

Unobserved == seen' = {} /\ seenNodes' = {} /\ stay' = {} /\ met' = {}

Nowhere ==
  /\ at' = Top /\ lev' = 0 /\ cand' = Nil /\ curl' = Nil /\ row' = Nil /\ walk' = Nil
  /\ steps' = 0 /\ matches' = <<>>

Open(s) ==
  /\ rpc = "idle"
  /\ rpc' = "lock" /\ search' = s
  /\ UNCHANGED <<shared, command, history, restarts, size, since,
                 at, lev, cand, curl, row, walk, steps, matches>>

\* Mutant: the reader's own count is not brought up to date.
ReadLock_OldCount ==
  /\ rpc = "lock"
  /\ rpc' = IF count = 0 THEN "done" ELSE "enter"
  /\ seen' = Listed /\ seenNodes' = InList /\ met' = Doing
  /\ stay' = {r \in (Listed \cap Others) \ {target} : Matching(val[r], search)}
  /\ UNCHANGED <<shared, command, search, restarts, size, since,
                 at, lev, cand, curl, row, walk, steps, matches>>

\* read_lock, and the count of rows, for which the table of matches has room.
ReadLock ==
  /\ rpc = "lock"
  /\ size' = count
  /\ rpc' = IF count = 0 THEN "done" ELSE "enter"
  /\ seen' = Listed /\ seenNodes' = InList /\ met' = Doing
  /\ stay' = {r \in (Listed \cap Others) \ {target} : Matching(val[r], search)}
  /\ UNCHANGED <<shared, command, search, restarts, since,
                 at, lev, cand, curl, row, walk, steps, matches>>

\* main_cycle
Enter ==
  /\ rpc = "enter"
  /\ rpc' = "start" /\ since' = cycle
  /\ met' = met \cup (IF op = "add" THEN {"early"} ELSE {})
  /\ UNCHANGED <<shared, command, seen, seenNodes, stay,
                 search, restarts, size, at, lev, cand, curl, row, walk, steps, matches>>

\* jsw_sreset, or the start of locate.
Start ==
  /\ rpc = "start"
  /\ IF FromReset(search)
     THEN rpc' = "fetch" /\ curl' = next[Top][0] /\ UNCHANGED <<at, lev>>
     ELSE rpc' = "locate" /\ at' = Top /\ lev' = curh /\ UNCHANGED curl
  /\ UNCHANGED <<shared, command, history, search, restarts, size, since, cand, row, walk, steps, matches>>

\* One level down, or out of locate.
Descend ==
  IF lev = 0 THEN rpc' = "arrive" /\ UNCHANGED lev
             ELSE rpc' = "locate" /\ lev' = lev - 1

Locate ==
  /\ rpc = "locate"
  /\ IF next[at][lev] = Nil
     THEN Descend /\ cand' = Nil
     ELSE rpc' = "compare" /\ cand' = next[at][lev] /\ UNCHANGED lev
  /\ UNCHANGED <<shared, command, history, search, restarts, size, since, at, curl, row, walk, steps, matches>>

\* The row of a node is used: the compare functions do not expect a null pointer.
Crash == rpc' = "crashed"

\* Mutant: rows that are equal are passed.
Compare_Past ==
  /\ rpc = "compare"
  /\ CASE to[cand] = Nil -> Crash /\ UNCHANGED <<at, lev>>
       [] to[cand] # Nil /\ Value(cand) <= search.row1 ->
            rpc' = "locate" /\ at' = cand /\ UNCHANGED lev
       [] OTHER -> Descend /\ UNCHANGED at
  /\ cand' = Nil
  /\ UNCHANGED <<shared, command, history, search, restarts, size, since, curl, row, walk, steps, matches>>

Compare ==
  /\ rpc = "compare"
  /\ CASE to[cand] = Nil -> Crash /\ UNCHANGED <<at, lev>>
       [] to[cand] # Nil /\ Value(cand) < search.row1 ->
            rpc' = "locate" /\ at' = cand /\ UNCHANGED lev
       [] OTHER -> Descend /\ UNCHANGED at
  /\ cand' = Nil
  /\ UNCHANGED <<shared, command, history, search, restarts, size, since, curl, row, walk, steps, matches>>

\* locate (skip, row)->next[0]
Arrive ==
  /\ rpc = "arrive"
  /\ curl' = next[at][0]
  /\ rpc' = IF next[at][0] = Nil THEN "fetch" ELSE "skip"
  /\ at' = Top
  /\ UNCHANGED <<shared, command, history, search, restarts, size, since, lev, cand, row, walk, steps, matches>>

\* The rest of jsw_sfind and of jsw_sfind_equal_or_greater.
Skip ==
  /\ rpc = "skip"
  /\ CASE curl = Nil -> rpc' = "fetch" /\ UNCHANGED curl
       [] curl # Nil /\ to[curl] = Nil -> Crash /\ UNCHANGED curl
       [] OTHER ->
            IF Value(curl) < search.row1 /\ search.op # "eq"
            THEN curl' = next[curl][0] /\ UNCHANGED rpc
            ELSE rpc' = (IF search.op = "gt" THEN "pass" ELSE "fetch") /\ UNCHANGED curl
  /\ UNCHANGED <<shared, command, history, search, restarts, size, since, at, lev, cand, row, walk, steps, matches>>

\* SKIP_START_GT_ROW1: past the rows that are equal.
Pass ==
  /\ rpc = "pass"
  /\ CASE curl = Nil \/ to[curl] = Nil -> rpc' = "done" /\ UNCHANGED curl
       [] curl # Nil /\ to[curl] # Nil /\ Value(curl) > search.row1 -> rpc' = "fetch" /\ UNCHANGED curl
       [] OTHER -> curl' = next[curl][0] /\ UNCHANGED rpc
  /\ UNCHANGED <<shared, command, history, search, restarts, size, since, at, lev, cand, row, walk, steps, matches>>

Restart ==
  /\ restarts' = restarts + 1
  /\ rpc' = IF restarts' > MaxRestarts THEN "exhausted" ELSE "lock"
  /\ Nowhere /\ Unobserved

\* The head of the loop: "infinite search loop", or the row of the node.
Fetch ==
  /\ rpc = "fetch"
  /\ CASE steps > size -> rpc' = "endless" /\ UNCHANGED row
       [] steps <= size /\ (curl = Nil \/ to[curl] = Nil) -> rpc' = "done" /\ UNCHANGED row
       [] OTHER -> rpc' = "check" /\ row' = to[curl]
  /\ UNCHANGED <<shared, command, history, search, restarts, size, since,
                 at, lev, cand, curl, walk, steps, matches>>

\* main_restart
Check ==
  /\ rpc = "check"
  /\ IF stamp[row] > since /\ SearchRestartNeeded(val[row], search)
     THEN Restart
     ELSE /\ rpc' = "ended"
          /\ UNCHANGED <<history, restarts, at, lev, cand, curl, row, walk, steps, matches>>
  /\ UNCHANGED <<shared, command, search, size, since>>

\* skipEnd
Ended ==
  /\ rpc = "ended"
  /\ IF PastEnd(val[row], search)
     THEN rpc' = "done" /\ UNCHANGED walk
     ELSE rpc' = "walk" /\ walk' = row
  /\ UNCHANGED <<shared, command, history, search, restarts, size, since,
                 at, lev, cand, curl, row, steps, matches>>

\* loop_restart, which compares with itself the row the list began with.
LoopRestartNeeded(r) == stamp[r] > since /\ val[r] # val[row]

\* ctable_SearchCompareRow with a reader's deferred action, and on to the next row.
Walk ==
  /\ rpc = "walk" /\ walk # Nil
  /\ IF LoopRestartNeeded(row)
     THEN Restart
     ELSE /\ IF walk \in Others /\ Len(matches) = size
             THEN rpc' = "overflow" /\ UNCHANGED <<walk, matches>>
             ELSE /\ matches' = IF walk \in Others THEN Append(matches, walk) ELSE matches
                  /\ walk' = to[walk]
                  /\ UNCHANGED rpc
          /\ UNCHANGED <<history, restarts, at, lev, cand, curl, row, steps>>
  /\ UNCHANGED <<shared, command, search, size, since>>

\* jsw_snext
NextNode ==
  /\ rpc = "walk" /\ walk = Nil
  /\ curl' = next[curl][0] /\ row' = Nil
  /\ steps' = steps + 1
  /\ rpc' = "fetch"
  /\ UNCHANGED <<shared, command, history, search, restarts, size, since, at, lev, cand, walk, matches>>

\* The search returns, or its process is gone and another one comes.
Close ==
  /\ rpc \in Outcomes
  /\ rpc' = "idle" /\ search' = NoSearch /\ restarts' = 0 /\ size' = 0 /\ since' = 0
  /\ Nowhere /\ Unobserved
  /\ UNCHANGED <<shared, command>>

Reader ==
  \/ \E s \in Searches : Open(s)
  \/ ReadLock \/ Enter \/ Start \/ Locate \/ Compare \/ Arrive \/ Skip \/ Pass
  \/ Fetch \/ Check \/ Ended \/ Walk \/ NextNode \/ Close

Next == Master \/ Reader
Spec == Init /\ [][Next]_vars

-----------------------------------------------------------------------------
(* Properties.                                                             *)

\* A walk over the cells of C along f, from the cell start, comes by c: no set
\* of cells that holds start and what its cells lead to is without c.
ComesBy(c, start, f, C) ==
  \A S \in SUBSET C : start \in S /\ (\A d \in S : f[d] \in S \cup {Nil}) => c \in S

\* A walk along f never comes back: each set of cells has one that leads out of it.
Ends(f, C) == \A S \in (SUBSET C) \ {{}} : \E d \in S : f[d] \notin S

Link0 == [n \in Nodes |-> next[n][0]]

\* Whatever the master is doing, a walk along the lowest level and the lists
\* that begins now and is not overtaken finds every row but the one the
\* command is about: ch08.html, "an order such that the client will never
\* step into a partially modified structure".
IndexIsWhole ==
  \A r \in Listed \ {target} :
    /\ next[Top][0] # Nil /\ ComesBy(head[r], next[Top][0], Link0, Nodes)
    /\ to[head[r]] # Nil /\ ComesBy(r, to[head[r]], to, Rows)

\* From any row or node a walk may be on, even one that is out of the index
\* by now, the pointers lead to an end: a walk ends when the master pauses.
WalksEnd == Ends(to, Rows) /\ Ends(Link0, Nodes)

\* What a search reports were rows of the index at some time while it ran.
ReportsRows == \A i \in 1 .. Len(matches) : matches[i] \in seen

\* A search during which the master did no more than delete rows that share
\* their value, and add rows to lists or in nodes of one level, finds each
\* row that stays once, and nothing but rows that match, in order.
QuietSearch ==
  rpc = "done" /\ met \subseteq {"add"} =>
    /\ \A r \in stay : \E i \in 1 .. Len(matches) : matches[i] = r
    /\ \A i, j \in 1 .. Len(matches) : i < j => matches[i] # matches[j]
    /\ \A i \in 1 .. Len(matches) : Matching(val[matches[i]], search)
    /\ \A i, j \in 1 .. Len(matches) : i < j => val[matches[i]] <= val[matches[j]]

CrashNeedsErase == rpc = "crashed" => "erase" \in met

\* A search only fails for what the master did: it meets a null row if a node
\* has lost its last row meanwhile, and has too many rows or nodes if rows
\* were added or moved.
FailsForAReason ==
  /\ CrashNeedsErase
  /\ rpc \in {"overflow", "endless"} => met \cap {"add", "move"} # {}

\* ch08.html:23: "The server makes sure to update pointers within shared
\* memory in an order such that the client will never step into a partially
\* modified structure."
NeverPartial == rpc # "crashed"
=============================================================================
