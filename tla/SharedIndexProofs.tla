------------------------- MODULE SharedIndexProofs -------------------------
(***************************************************************************)
(* Proofs about SharedIndex, for any rows, nodes, values, heights and      *)
(* bounds: its types, that what a search reports were rows of the index    *)
(* while it ran, that it meets a null row only if a node was emptied, that *)
(* at every store the index is whole and all walks end, that a search is   *)
(* exact in a quiet time, and that it fails only for a reason.             *)
(*                                                                         *)
(* A reader that stands on a row or a node that has left the index follows *)
(* pointers nobody looks after any more.  The invariant is therefore about *)
(* all that has been in the index since the search began (Sighted): it is  *)
(* closed under the pointers.  It stays closed because what is in the      *)
(* index only leads to what is in the index, and that needs the master's   *)
(* own invariants: that an unlinked row is not pointed to (Lists), that a  *)
(* node is without rows when it goes (Lists and Ranks), and that nothing   *)
(* leads to it on any level (Chains).  What a search finds is about where  *)
(* it is in the order of the rows it has seen (MarchInv).                  *)
(***************************************************************************)
EXTENDS SharedIndex, Induction, FiniteSetTheorems

\* What a command knows where it is.
Stage ==
  /\ pc = "idle" => op = "none" /\ target = Nil /\ node = Nil
  /\ pc # "idle" => op # "none" /\ target \in Rows
  /\ pc \in {"unlink", "empty", "erase", "clear"} => op \in {"delete"} \cup Changes
  /\ op \in {"add"} \cup Changes => new \in Values
  /\ pc = "unlink" => prev[target] # Nil
  /\ pc \in {"empty", "erase", "clear", "store", "insert", "free"} => prev[target] = Nil
  /\ pc = "empty" => head[target] \in InList /\ to[head[target]] = Nil /\ to[target] = Nil
  /\ pc \in {"erase", "clear"} =>
       node \in InList /\ head[target] = node /\ to[node] = target /\ to[target] = Nil
  /\ pc = "clear" => level >= tall[node]
  /\ pc \in {"store", "insert", "link", "publish"} => op \in {"add"} \cup Changes
  /\ pc = "free" => op = "delete"
  /\ pc \in {"insert", "link", "publish"} => val[target] = new
  /\ pc \in {"link", "publish"} =>
       node \in InList /\ head[target] = node /\ prev[target] = node /\ born[target] = cycle
  /\ pc = "link" => to[target] = to[node] /\ to[node] # Nil
  /\ pc = "publish" => to[node] = target /\ to[target] = Nil /\ level < tall[node]

\* The rows that are in a list, and the cells of the index.
Linked == {r \in Rows : prev[r] # Nil}
Live   == InList \cup Linked

\* The pointers of the lists, and what the rows of a list share.
Lists ==
  /\ \A r \in Linked :
       /\ prev[r] \in Live
       /\ to[prev[r]] = r \/ (pc = "link" /\ r = target)
       /\ head[r] \in InList
       /\ prev[r] \in Rows => head[prev[r]] = head[r] /\ val[prev[r]] = val[r]
       /\ prev[r] \in Nodes => prev[r] = head[r]
  /\ \A c \in Live : to[c] # Nil =>
       \/ prev[to[c]] = c
       \/ pc = "link" /\ c = node
       \/ pc \in {"erase", "clear"} /\ c = node
  /\ \A n \in InList : to[n] = Nil => pc = "empty" /\ n = head[target]

\* A list is in the order its rows were put into it, the last one first, and
\* so a node that has lost its first row and has no other one has no rows.
Ranks ==
  /\ \A r \in Rows : born[r] <= cycle
  /\ pc \in {"unlink", "empty", "erase", "clear", "store", "insert"} =>
       \A r \in Rows : born[r] < cycle
  /\ \A r, s \in Linked : born[r] = born[s] => r = s
  /\ \A r \in Linked : prev[r] \in Rows => born[r] < born[prev[r]]
  /\ \A r, s \in Linked :
       head[r] = head[s] /\ born[s] < born[r] => to[r] # Nil /\ born[s] <= born[to[r]]
  /\ \A s \in Linked :
       /\ to[head[s]] # Nil
       /\ born[s] <= born[to[head[s]]] \/ (pc = "link" /\ s = target)
  /\ pc \in {"empty", "erase", "clear"} => \A s \in Linked : head[s] # head[target]

\* A level of a skip list: from the header, each node leads to the next one.
Before(L, p, q) == q # Top /\ (p # Top => L[p] < L[q])

Sorted(C, f, L) ==
  /\ \A p \in C : f[p] = Nil \/ (f[p] \in C /\ Before(L, p, f[p]))
  /\ \A p, q \in C : Before(L, p, q) => f[p] # Nil /\ ~ Before(L, q, f[p])
  /\ \A q \in C : q # Top => \E p \in C : f[p] = q

\* The value a node stands for.
Label == [n \in Nodes |-> IF to[n] # Nil THEN val[to[n]] ELSE val[target]]

Level(i) == [p \in Places |-> next[p][i]]

\* The nodes that are linked on a level.
Chain(i) ==
  {p \in OnLevel(i) : ~ (/\ p = node
                         /\ \/ pc = "publish" /\ i <= level
                            \/ pc \in {"erase", "clear"} /\ i < level)}

Chains ==
  /\ \A n, m \in InList : Label[n] = Label[m] => n = m
  /\ \A n \in InList : tall[n] <= curh \/ (pc = "clear" /\ n = node)
  /\ \A i \in Levels : Sorted(Chain(i), Level(i), Label)
  /\ \A n \in InList, i \in Levels : next[n][i] \in InList \cup {Nil}
  /\ \A n \in InList, i \in Levels : i >= tall[n] => next[n][i] = Nil
  /\ pc = "publish" => \A i \in 0 .. level : next[node][i] = Nil

\* What a search has seen: all of the index, and all that it leads to.
Covered ==
  /\ Listed \subseteq seen /\ InList \subseteq seenNodes /\ Doing \subseteq met
  /\ \A r \in seen : to[r] \in seen \cup {Nil}
  /\ \A n \in seenNodes : to[n] \in seen \cup {Nil} /\ (to[n] = Nil => "erase" \in met)
  /\ \A n \in seenNodes, i \in Levels : next[n][i] \in seenNodes \cup {Nil}

\* Where it is.
Here ==
  /\ rpc = "crashed" => "erase" \in met
  /\ at \in seenNodes \cup {Top}
  /\ cand \in seenNodes \cup {Nil} /\ curl \in seenNodes \cup {Nil}
  /\ row \in seen \cup {Nil} /\ walk \in seen \cup {Nil}
  /\ ReportsRows
  /\ rpc = "compare" => cand # Nil
  /\ rpc \in {"check", "ended", "walk"} => row # Nil /\ curl # Nil

Sighted ==
  /\ Observing => Covered
  /\ ~ Observing => seen = {} /\ seenNodes = {}
  /\ Here

IInv == TypeOK /\ Stage /\ Lists /\ Ranks /\ Chains /\ Sighted

-----------------------------------------------------------------------------
(* A level.                                                                *)

\* A node that is put behind the last one before it.
LEMMA SortedIn ==
  ASSUME NEW C, NEW f, NEW g, NEW L, NEW x, NEW p \in C,
         Sorted(C, f, L), Top \in C, Nil \notin C, x \notin C, x # Nil, x # Top,
         \A n \in C \cup {x} : n # Top => L[n] \in Int,
         \A n \in C : n # Top => L[n] # L[x],
         \A n, m \in C : n # Top /\ m # Top /\ L[n] = L[m] => n = m,
         Before(L, p, x), f[p] = Nil \/ ~ Before(L, f[p], x),
         g[p] = x, g[x] = f[p], \A n \in C \ {p} : g[n] = f[n]
  PROVE  Sorted(C \cup {x}, g, L)
<1> DEFINE D == C \cup {x}
<1>1. f[p] # Nil => f[p] \in C /\ f[p] # Top /\ L[x] < L[f[p]]
  BY DEF Sorted, Before
<1>2. ASSUME NEW q \in D
      PROVE  g[q] = Nil \/ (g[q] \in D /\ Before(L, q, g[q]))
  BY <1>1 DEF Sorted, Before
<1>3. ASSUME NEW r \in D, NEW q \in D, Before(L, r, q)
      PROVE  g[r] # Nil /\ ~ Before(L, q, g[r])
  <2>1. CASE r = p
    <3>1. CASE q = x
      BY <2>1, <3>1 DEF Before
    <3>2. CASE q # x
      BY <1>1, <1>3, <2>1, <3>2 DEF Sorted, Before
    <3> QED BY <3>1, <3>2
  <2>2. CASE r = x
    BY <1>1, <1>3, <2>2 DEF Sorted, Before
  <2>3. CASE r # p /\ r # x /\ q # x
    BY <1>3, <2>3 DEF Sorted
  <2>4. CASE r # p /\ r # x /\ q = x
    <3>1. CASE Before(L, r, p)
      <4>1. f[r] # Nil /\ f[r] \in C /\ f[r] # Top /\ ~ Before(L, p, f[r])
        BY <2>4, <3>1 DEF Sorted, Before
      <4>2. p # Top /\ L[f[r]] <= L[p] /\ L[p] < L[x]
        BY <3>1, <4>1 DEF Before
      <4> QED BY <2>4, <4>1, <4>2 DEF Before
    <3>2. CASE ~ Before(L, r, p)
      <4>1. r # Top /\ Before(L, p, r)
        BY <2>4, <3>2 DEF Before
      <4>2. f[p] # Nil /\ ~ Before(L, r, f[p])
        BY <2>4, <4>1 DEF Sorted
      <4> QED BY <1>1, <1>3, <2>4, <4>1, <4>2 DEF Before
    <3> QED BY <3>1, <3>2
  <2> QED BY <2>1, <2>2, <2>3, <2>4
<1>4. ASSUME NEW q \in D, q # Top
      PROVE  \E r \in D : g[r] = q
  <2>1. CASE q = x
    BY <2>1
  <2>2. CASE q # x
    <3>1. PICK r \in C : f[r] = q
      BY <1>4, <2>2 DEF Sorted
    <3> QED BY <3>1
  <2> QED BY <2>1, <2>2
<1> QED BY <1>2, <1>3, <1>4 DEF Sorted

\* A node that is passed by the one before it.
LEMMA SortedOut ==
  ASSUME NEW C, NEW f, NEW g, NEW L, NEW x \in C, NEW p \in C,
         Sorted(C, f, L), Top \in C, Nil \notin C, x # Top,
         \A n \in C : n # Top => L[n] \in Int,
         \A n, m \in C : n # Top /\ m # Top /\ L[n] = L[m] => n = m,
         f[p] = x, g[p] = f[x], \A n \in C \ {p} : g[n] = f[n]
  PROVE  Sorted(C \ {x}, g, L)
<1> DEFINE D == C \ {x}
<1>1. p # x /\ Before(L, p, x)
  BY DEF Sorted, Before
<1>2. f[x] # Nil => f[x] \in D /\ Before(L, x, f[x])
  BY DEF Sorted, Before
<1>3. ASSUME NEW r \in C, f[r] = x
      PROVE  r = p
  <2>1. Before(L, r, x)
    BY <1>3 DEF Sorted, Before
  <2>2. ~ Before(L, p, r) /\ ~ Before(L, r, p)
    BY <1>1, <1>3, <2>1 DEF Sorted
  <2> QED BY <2>2 DEF Before
<1>4. ASSUME NEW q \in D
      PROVE  g[q] = Nil \/ (g[q] \in D /\ Before(L, q, g[q]))
  <2>1. CASE q = p
    BY <1>1, <1>2, <2>1 DEF Before
  <2>2. CASE q # p
    BY <1>3, <2>2 DEF Sorted
  <2> QED BY <2>1, <2>2
<1>5. ASSUME NEW r \in D, NEW q \in D, Before(L, r, q)
      PROVE  g[r] # Nil /\ ~ Before(L, q, g[r])
  <2>1. CASE r = p
    <3>1. ~ Before(L, q, x)
      BY <1>5, <2>1 DEF Sorted
    <3>2. Before(L, x, q)
      BY <1>5, <3>1 DEF Before
    <3> QED BY <2>1, <3>2 DEF Sorted
  <2>2. CASE r # p
    BY <1>5, <2>2 DEF Sorted
  <2> QED BY <2>1, <2>2
<1>6. ASSUME NEW q \in D, q # Top
      PROVE  \E r \in D : g[r] = q
  <2>1. PICK r \in C : f[r] = q
    BY <1>6 DEF Sorted
  <2>2. CASE r = x
    BY <1>1, <2>1, <2>2
  <2>3. CASE r # x
    BY <1>1, <2>1, <2>3
  <2> QED BY <2>2, <2>3
<1> QED BY <1>4, <1>5, <1>6 DEF Sorted

-----------------------------------------------------------------------------
(* Types.                                                                  *)

LEMMA ObserveType ==
  ASSUME HistoryType, Observe, SharedType', CommandType', Stage'
  PROVE  HistoryType'
<1>1. Listed' \subseteq Rows
  BY DEF Listed, CommandType, Stage
<1>2. InList' \subseteq Nodes
  BY DEF InList
<1>3. Doing' \subseteq {"add", "early", "move", "erase", "tall"}
  BY DEF Doing
<1> QED BY <1>1, <1>2, <1>3 DEF HistoryType, Observe, history

LEMMA MasterType ==
  ASSUME SharedType, CommandType, Stage, Master
  PROVE  SharedType' /\ CommandType'
<1> USE SizesAssumption
<1> USE DEF SharedType, CommandType
<1>1. ASSUME NEW r \in Rows, NEW v \in Values, Add(r, v) \/ Set(r, v) \/ Incr(r, v)
      PROVE  SharedType' /\ CommandType'
  BY <1>1 DEF Add, Set, Incr, Begin, Changes
<1>2. ASSUME NEW r \in Rows, Delete(r)
      PROVE  SharedType' /\ CommandType'
  BY <1>2 DEF Delete, Begin
<1>3. CASE Unlink
  <2>1. target \in Rows /\ target \in Cells
    BY <1>3 DEF Unlink, Stage, Cells
  <2>2. to' \in [Cells -> Rows \cup {Nil}]
    BY <1>3, <2>1 DEF Unlink
  <2>3. prev' \in [Rows -> Cells \cup {Nil}]
    BY <1>3, <2>1 DEF Unlink
  <2> QED BY <1>3, <2>2, <2>3 DEF Unlink, Removed
<1>4. CASE PutBack
  <2>1. target \in Rows /\ head[target] \in Nodes
    BY <1>4 DEF PutBack, Stage, InList
  <2>2. to' \in [Cells -> Rows \cup {Nil}]
    BY <1>4, <2>1 DEF PutBack
  <2> QED BY <1>4, <2>1, <2>2 DEF PutBack, Levels
<1>5. CASE EraseLevel
  <2>1. PICK p \in Places : next' = [next EXCEPT ![p][level] = next[node][level]]
    BY <1>5 DEF EraseLevel
  <2>2. level' \in Levels
    BY <1>5 DEF EraseLevel, Leads, Levels
  <2>3. node \in Places
    BY <1>5 DEF EraseLevel, Stage, InList, Places
  <2>4. next' \in [Places -> [Levels -> Nodes \cup {Nil}]]
    BY <2>1, <2>3
  <2> QED BY <1>5, <2>2, <2>4 DEF EraseLevel
<1>6. CASE LowerHeight
  BY <1>6 DEF LowerHeight, Levels
<1>7. CASE Clear
  <2>1. to' \in [Cells -> Rows \cup {Nil}]
    BY <1>7 DEF Clear
  <2>2. 0 \in Levels
    BY DEF Levels
  <2>3. tall' \in [Nodes -> Levels]
    BY <1>7, <2>2 DEF Clear
  <2> QED BY <1>7, <2>1, <2>2, <2>3 DEF Clear, Removed
<1>8. CASE Store
  BY <1>8 DEF Stage, Store
<1>9. CASE Free
  BY <1>9 DEF Free, Return, Levels
<1>10. CASE InsertHead
  <2>1. PICK n \in InList :
          /\ to' = [to EXCEPT ![target] = to[n]]
          /\ prev' = [prev EXCEPT ![target] = n, ![to[n]] = target]
          /\ head' = [head EXCEPT ![target] = n]
          /\ node' = n
    BY <1>10 DEF InsertHead
  <2>2. n \in Nodes /\ n \in Cells
    BY DEF InList, Cells
  <2>3. target \in Rows /\ target \in Cells
    BY <1>10 DEF InsertHead, Stage, Cells
  <2>4. to' \in [Cells -> Rows \cup {Nil}] /\ head' \in [Rows -> Nodes \cup {Nil}]
    BY <2>1, <2>2
  <2>5. prev' \in [Rows -> Cells \cup {Nil}]
    BY <2>1, <2>2, <2>3
  <2> QED BY <1>10, <2>1, <2>2, <2>4, <2>5 DEF InsertHead
<1>11. CASE Link
  <2>1. target \in Rows
    BY <1>11 DEF Link, Stage
  <2>2. to' \in [Cells -> Rows \cup {Nil}]
    BY <1>11, <2>1 DEF Link
  <2> QED BY <1>11, <2>2 DEF Link, Return, Levels
<1>12. CASE NewNode
  <2>1. PICK n \in Nodes \ (InList \cup seenNodes), h \in 1 .. MaxHeight :
          LET raised == IF h > curh THEN curh + 1 ELSE h IN
          /\ next' = [next EXCEPT ![n] = [i \in Levels |-> Nil]]
          /\ curh' = IF h > curh THEN curh + 1 ELSE curh
          /\ to' = [to EXCEPT ![n] = target, ![target] = Nil]
          /\ prev' = [prev EXCEPT ![target] = n]
          /\ head' = [head EXCEPT ![target] = n]
          /\ tall' = [tall EXCEPT ![n] = raised]
          /\ node' = n /\ level' = raised - 1
    BY <1>12 DEF NewNode
  <2>2. target \in Rows
    BY <1>12 DEF NewNode, Stage
  <2>3. curh' \in Levels /\ level' \in Levels /\ tall' \in [Nodes -> Levels]
    BY <2>1 DEF Levels
  <2>4. next' \in [Places -> [Levels -> Nodes \cup {Nil}]]
    BY <2>1 DEF Places
  <2>5. to' \in [Cells -> Rows \cup {Nil}] /\ prev' \in [Rows -> Cells \cup {Nil}]
    BY <2>1, <2>2 DEF Cells
  <2> QED BY <1>12, <2>1, <2>2, <2>3, <2>4, <2>5 DEF NewNode
<1>13. CASE Publish
  <2>1. PICK p \in Places :
          next' = [next EXCEPT ![node][level] = next[p][level], ![p][level] = node]
    BY <1>13 DEF Publish
  <2>2. node \in Nodes /\ node \in Places
    BY <1>13 DEF Publish, Stage, InList, Places
  <2>3. next' \in [Places -> [Levels -> Nodes \cup {Nil}]]
    <3> DEFINE half == [next EXCEPT ![node][level] = next[p][level]]
    <3>1. level \in Levels /\ next[p][level] \in Nodes \cup {Nil}
      BY DEF Levels
    <3>2. half \in [Places -> [Levels -> Nodes \cup {Nil}]]
      BY <2>2, <3>1
    <3>3. next' = [half EXCEPT ![p][level] = node]
      BY <2>1
    <3> HIDE DEF half
    <3> QED BY <2>2, <3>1, <3>2, <3>3
  <2>5. level \in Levels /\ 0 \in Levels
    BY DEF Levels
  <2>6. level' \in {level - 1, 0} /\ (level' = level - 1 => level > 0)
    BY <1>13, <2>5 DEF Publish, Return, Levels
  <2>4. level' \in Levels
    BY <2>5, <2>6 DEF Levels
  <2>7. UNCHANGED <<curh, to, prev, head, tall, val, stamp, count, cycle>>
    BY <1>13 DEF Publish
  <2>8. CASE level > 0
    BY <1>13, <2>3, <2>4, <2>7, <2>8 DEF Publish
  <2>9. CASE ~ (level > 0)
    BY <1>13, <2>3, <2>4, <2>7, <2>9 DEF Publish, Return
  <2> QED BY <2>8, <2>9
<1> QED
  BY <1>1, <1>2, <1>3, <1>4, <1>5, <1>6, <1>7, <1>8, <1>9, <1>10, <1>11, <1>12, <1>13 DEF Master

LEMMA SearchType ==
  ASSUME SharedType, CommandType, Stage, ReaderType, HistoryType, Sighted, Reader
  PROVE  ReaderType' /\ HistoryType'
<1> USE SizesAssumption
<1> USE DEF SharedType, ReaderType, HistoryType, history, Walking, Outcomes
<1>0. ASSUME Nowhere
      PROVE  /\ at' \in Places /\ lev' \in Levels
             /\ cand' \in Nodes \cup {Nil} /\ curl' \in Nodes \cup {Nil}
             /\ row' \in Rows \cup {Nil} /\ walk' \in Rows \cup {Nil}
             /\ steps' \in Nat /\ matches' \in Seq(Rows)
  BY <1>0 DEF Nowhere, Places, Levels
<1>1. ASSUME NEW s \in Searches, Open(s)
      PROVE  ReaderType' /\ HistoryType'
  BY <1>1 DEF Open
<1>2. CASE ReadLock
  BY <1>2 DEF ReadLock, Listed, InList, Doing, CommandType, Stage
<1>3. CASE Enter
  BY <1>3 DEF Enter
<1>15. CASE Start
  BY <1>15 DEF Start, Places, Levels
<1>4. CASE Locate
  BY <1>4 DEF Locate, Descend, Levels
<1>5. CASE Compare
  <2>1. UNCHANGED <<history, search, restarts, size, since, curl, row, walk, steps, matches>>
    BY <1>5 DEF Compare
  <2>2. cand \in Places /\ cand' = Nil
    BY <1>5 DEF Compare, Sighted, Here, Places
  <2>3. at' \in Places
    BY <1>5, <2>2 DEF Compare
  <2>4. lev' \in {lev, lev - 1} /\ (lev' = lev - 1 => lev # 0)
    BY <1>5 DEF Compare, Descend, Levels
  <2>5. lev' \in Levels
    BY <2>4 DEF Levels
  <2>6. rpc' \in {"crashed", "locate", "arrive"}
    BY <1>5 DEF Compare, Descend, Crash
  <2> QED BY <2>1, <2>2, <2>3, <2>5, <2>6
<1>6. CASE Arrive
  BY <1>6 DEF Arrive, Levels, Places
<1>7. CASE Skip
  <2>3. rpc' \in {"fetch", "pass", "skip", "crashed"}
    BY <1>7 DEF Skip, Crash
  <2>4. curl' \in {curl, next[curl][0]} /\ (curl' # curl => curl \in Places)
    BY <1>7 DEF Skip, Places
  <2>5. 0 \in Levels
    BY DEF Levels
  <2>1. curl' \in Nodes \cup {Nil} /\ rpc' \in {"fetch", "pass", "skip", "crashed"}
    BY <2>3, <2>4, <2>5
  <2>2. UNCHANGED <<history, search, restarts, size, since, at, lev, cand, row, walk, steps, matches>>
    BY <1>7 DEF Skip
  <2> QED BY <2>1, <2>2
<1>8. CASE Pass
  <2>1. rpc' \in {"done", "fetch", "pass"}
    BY <1>8 DEF Pass
  <2>2. curl' \in {curl, next[curl][0]} /\ (curl' # curl => curl \in Places)
    BY <1>8 DEF Pass, Places
  <2>3. 0 \in Levels
    BY DEF Levels
  <2>4. curl' \in Nodes \cup {Nil}
    BY <2>2, <2>3
  <2>5. UNCHANGED <<history, search, restarts, size, since, at, lev, cand, row, walk, steps, matches>>
    BY <1>8 DEF Pass
  <2> QED BY <2>1, <2>4, <2>5
<1>9. CASE Fetch
  BY <1>9 DEF Fetch, Cells
<1>10. CASE Check
  <2>1. CASE Restart
    BY <1>10, <1>0, <2>1 DEF Check, Restart, Unobserved
  <2>2. CASE ~ Restart
    BY <1>10, <2>2 DEF Check
  <2> QED BY <2>1, <2>2
<1>11. CASE Ended
  BY <1>11 DEF Ended
<1>12. CASE Walk
  <2>1. CASE LoopRestartNeeded(row)
    BY <1>12, <1>0, <2>1 DEF Walk, Restart, Unobserved
  <2>2. CASE ~ LoopRestartNeeded(row)
    <3>1. walk \in Rows /\ to[walk] \in Rows \cup {Nil}
      BY <1>12 DEF Walk, Cells
    <3>2. Append(matches, walk) \in Seq(Rows)
      BY <3>1
    <3>3. matches' \in {matches, Append(matches, walk)} /\ walk' \in {walk, to[walk]}
      BY <1>12, <2>2 DEF Walk
    <3> QED BY <1>12, <2>2, <3>1, <3>2, <3>3 DEF Walk
  <2> QED BY <2>1, <2>2
<1>13. CASE NextNode
  BY <1>13 DEF NextNode, Sighted, Here, Levels, Places
<1>14. CASE Close
  BY <1>14, <1>0 DEF Close, Unobserved
<1> QED
  BY <1>1, <1>2, <1>3, <1>4, <1>5, <1>6, <1>7, <1>8, <1>9, <1>10, <1>11, <1>12, <1>13, <1>14,
     <1>15
     DEF Reader

-----------------------------------------------------------------------------
(* The steps of the master.                                                *)

IndexInv == SharedType /\ CommandType /\ Stage /\ Lists /\ Ranks /\ Chains

LEMMA StageKept ==
  ASSUME IndexInv, Master
  PROVE  Stage'
<1> USE PointersAssumption
<1> USE DEF IndexInv, SharedType, CommandType, Cells
<1>1. ASSUME NEW r \in Rows, NEW v \in Values, Add(r, v) \/ Set(r, v) \/ Incr(r, v)
      PROVE  Stage'
  BY <1>1 DEF Add, Set, Incr, Begin, Stage, Changes, Listed
<1>2. ASSUME NEW r \in Rows, Delete(r)
      PROVE  Stage'
  BY <1>2 DEF Delete, Begin, Stage, Changes, Listed
<1>3. CASE Unlink
  BY <1>3 DEF Unlink, Removed, Stage, Lists, Ranks, Live, Linked, InList, Changes
<1>4. CASE PutBack
  BY <1>4 DEF PutBack, Stage, InList, Changes
<1>5. CASE EraseLevel
  BY <1>5 DEF EraseLevel, Stage, InList, Changes
<1>6. CASE LowerHeight
  <2>1. node \in Nodes /\ tall[node] \in Nat /\ level \in Nat /\ curh \in Nat
    BY <1>6 DEF LowerHeight, Stage, InList, Levels
  <2>2. SUFFICES ASSUME level < tall[node]
                 PROVE  FALSE
    BY <1>6, <2>1 DEF LowerHeight, Stage, InList, Changes
  <2>3. level < curh
    BY <1>6, <2>1, <2>2 DEF LowerHeight, Stage, Chains
  <2>4. node \in Chain(level) /\ Sorted(Chain(level), Level(level), Label)
    BY <1>6, <2>1, <2>2 DEF LowerHeight, Stage, Chains, Chain, OnLevel
  <2>5. PICK p \in Chain(level) : Level(level)[p] = node
    BY <2>1, <2>4 DEF Sorted
  <2>6. Before(Label, p, node)
    BY <2>1, <2>4, <2>5 DEF Sorted
  <2>7. p \in OnLevel(level) /\ p \in Places /\ next[p][level] = node
    BY <2>5 DEF Chain, OnLevel, InList, Places, Level
  <2>8. to[node] = target /\ target \in Rows
    BY <1>6 DEF LowerHeight, Stage
  <2>9. Value(node) = Label[node] /\ Value(node) = val[target]
    BY <2>1, <2>8 DEF Value, Label
  <2>10. p # Top => p \in InList /\ to[p] # Nil /\ Value(p) = Label[p]
    BY <1>6, <2>7 DEF LowerHeight, OnLevel, Lists, InList, Value, Label
  <2>11. Fix(p, level, val[target])
    <3>1. p # Top => Value(p) < val[target]
      BY <2>6, <2>9, <2>10 DEF Before
    <3>2. val[target] \in Nat /\ Value(next[p][level]) = val[target]
      BY <2>7, <2>8, <2>9, DataAssumption
    <3>3. Value(next[p][level]) >= val[target]
      BY <3>2
    <3> QED BY <2>7, <3>1, <3>3 DEF Fix
  <2>12. Leads(p)
    BY <2>3, <2>7, <2>11 DEF Leads
  <2> QED BY <1>6, <2>7, <2>12 DEF LowerHeight
<1>7. CASE Clear
  BY <1>7 DEF Clear, Removed, Stage, InList, Changes
<1>8. CASE Store
  BY <1>8 DEF Store, Stage, InList, Changes
<1>9. CASE Free
  BY <1>9 DEF Free, Return, Stage, InList, Changes
<1>10. CASE InsertHead
  BY <1>10 DEF InsertHead, Stage, Lists, InList, Changes
<1>11. CASE Link
  BY <1>11 DEF Link, Return, Stage, InList, Changes
<1>12. CASE NewNode
  <2>1. PICK n \in Nodes \ InList, h \in 1 .. MaxHeight :
          LET raised == IF h > curh THEN curh + 1 ELSE h IN
          /\ to' = [to EXCEPT ![n] = target, ![target] = Nil]
          /\ prev' = [prev EXCEPT ![target] = n]
          /\ head' = [head EXCEPT ![target] = n]
          /\ tall' = [tall EXCEPT ![n] = raised]
          /\ born' = [born EXCEPT ![target] = cycle]
          /\ node' = n /\ level' = raised - 1
    BY <1>12 DEF NewNode
  <2>2. tall'[n] \in Nat \ {0} /\ level' < tall'[n]
    BY <2>1 DEF Levels
  <2>3. n # target /\ target \in Rows
    BY <1>12 DEF NewNode, Stage
  <2>4. to'[n] = target /\ to'[target] = Nil
    BY <2>1, <2>3
  <2> QED BY <1>12, <2>1, <2>2, <2>3, <2>4 DEF NewNode, Stage, InList, Changes
<1>13. CASE Publish
  <2>1. CASE level > 0
    BY <1>13, <2>1 DEF Publish, Stage, InList, Changes, Levels
  <2>2. CASE ~ level > 0
    BY <1>13, <2>2 DEF Publish, Return, Stage, Changes
  <2> QED BY <2>1, <2>2
<1> QED
  BY <1>1, <1>2, <1>3, <1>4, <1>5, <1>6, <1>7, <1>8, <1>9, <1>10, <1>11, <1>12, <1>13 DEF Master

LEMMA ListsKept ==
  ASSUME IndexInv, Master
  PROVE  Lists'
<1> USE PointersAssumption
<1> USE DEF IndexInv, SharedType, CommandType, Cells, Live, Linked, InList
<1>1. ASSUME NEW r \in Rows, NEW v \in Values, Add(r, v) \/ Set(r, v) \/ Incr(r, v)
      PROVE  Lists'
  BY <1>1 DEF Add, Set, Incr, Begin, Stage, Lists, Listed
<1>2. ASSUME NEW r \in Rows, Delete(r)
      PROVE  Lists'
  BY <1>2 DEF Delete, Begin, Lists
<1>3. CASE Unlink
  BY <1>3 DEF Unlink, Removed, Stage, Lists, Ranks
<1>4. CASE PutBack
  BY <1>4 DEF PutBack, Stage, Lists
<1>5. CASE EraseLevel
  BY <1>5 DEF EraseLevel, Stage, Lists
<1>6. CASE LowerHeight
  BY <1>6 DEF LowerHeight, Stage, Lists
<1>7. CASE Clear
  BY <1>7 DEF Clear, Removed, Stage, Lists, Ranks
<1>8. CASE Store
  BY <1>8 DEF Store, Stage, Lists
<1>9. CASE Free
  BY <1>9 DEF Free, Return, Stage, Lists
<1>10. CASE InsertHead
  <2>1. PICK n \in InList :
          /\ Value(n) = new
          /\ to' = [to EXCEPT ![target] = to[n]]
          /\ prev' = [prev EXCEPT ![target] = n, ![to[n]] = target]
          /\ head' = [head EXCEPT ![target] = n]
          /\ node' = n
    BY <1>10 DEF InsertHead
  <2>2. target \in Rows /\ prev[target] = Nil /\ val[target] = new
    BY <1>10 DEF InsertHead, Stage
  <2>3. to[n] \in Linked /\ prev[to[n]] = n /\ head[to[n]] = n /\ val[to[n]] = new
    BY <1>10, <2>1, <2>2 DEF InsertHead, Lists, Value
  <2>4. /\ to'[target] = to[n] /\ \A c \in Cells \ {target} : to'[c] = to[c]
        /\ prev'[target] = n /\ prev'[to[n]] = target
        /\ \A r \in Rows \ {target, to[n]} : prev'[r] = prev[r]
        /\ head'[target] = n /\ \A r \in Rows \ {target} : head'[r] = head[r]
    BY <2>1, <2>2, <2>3
  <2>5. Linked' = Linked \cup {target} /\ InList' = InList /\ val' = val
    BY <1>10, <2>2, <2>3, <2>4 DEF InsertHead
  <2>6. Linked' = Linked \cup {target} /\ Live' = Live \cup {target}
    BY <2>5
  <2> HIDE DEF Linked, Live, InList
  <2>7. ASSUME NEW r \in Linked'
        PROVE  /\ prev'[r] \in Live'
               /\ to'[prev'[r]] = r \/ (pc' = "link" /\ r = target')
               /\ head'[r] \in InList'
               /\ prev'[r] \in Rows => head'[prev'[r]] = head'[r] /\ val'[prev'[r]] = val'[r]
               /\ prev'[r] \in Nodes => prev'[r] = head'[r]
    BY <1>10, <2>1, <2>2, <2>3, <2>4, <2>5, <2>6 DEF InsertHead, Lists, Live, Linked, InList
  <2>8. ASSUME NEW c \in Live', to'[c] # Nil
        PROVE  \/ prev'[to'[c]] = c
               \/ pc' = "link" /\ c = node'
               \/ pc' \in {"erase", "clear"} /\ c = node'
    BY <1>10, <2>1, <2>2, <2>3, <2>4, <2>5, <2>6, <2>8 DEF InsertHead, Lists, Live, Linked, InList
  <2>9. \A m \in InList' : to'[m] # Nil
    BY <1>10, <2>2, <2>4, <2>5 DEF InsertHead, Lists, InList
  <2> QED BY <2>7, <2>8, <2>9 DEF Lists
<1>11. CASE Link
  BY <1>11 DEF Link, Return, Stage, Lists
<1>12. CASE NewNode
  <2>1. PICK n \in Nodes \ InList, h \in 1 .. MaxHeight :
          LET raised == IF h > curh THEN curh + 1 ELSE h IN
          /\ to' = [to EXCEPT ![n] = target, ![target] = Nil]
          /\ prev' = [prev EXCEPT ![target] = n]
          /\ head' = [head EXCEPT ![target] = n]
          /\ tall' = [tall EXCEPT ![n] = raised]
          /\ node' = n
    BY <1>12 DEF NewNode
  <2>2. target \in Rows /\ prev[target] = Nil
    BY <1>12 DEF NewNode, Stage
  <2>3. InList' = InList \cup {n} /\ Linked' = Linked \cup {target}
    BY <2>1, <2>2 DEF Levels
  <2>4. /\ to'[target] = Nil /\ to'[n] = target
        /\ \A c \in Cells \ {n, target} : to'[c] = to[c]
    BY <2>1, <2>2
  <2> QED BY <1>12, <2>1, <2>2, <2>3, <2>4 DEF NewNode, Lists
<1>13. CASE Publish
  BY <1>13 DEF Publish, Return, Stage, Lists
<1> QED
  BY <1>1, <1>2, <1>3, <1>4, <1>5, <1>6, <1>7, <1>8, <1>9, <1>10, <1>11, <1>12, <1>13 DEF Master

LEMMA RanksKept ==
  ASSUME IndexInv, Master
  PROVE  Ranks'
<1> USE PointersAssumption
<1> USE DEF IndexInv, SharedType, CommandType, Cells, Live, Linked, InList
<1>1. ASSUME NEW r \in Rows, NEW v \in Values, Add(r, v) \/ Set(r, v) \/ Incr(r, v)
      PROVE  Ranks'
  BY <1>1 DEF Add, Set, Incr, Begin, Stage, Ranks
<1>2. ASSUME NEW r \in Rows, Delete(r)
      PROVE  Ranks'
  BY <1>2 DEF Delete, Begin, Stage, Ranks
<1>3. CASE Unlink
  BY <1>3 DEF Unlink, Removed, Stage, Lists, Ranks
<1>4. CASE PutBack
  BY <1>4 DEF PutBack, Stage, Lists, Ranks
<1>5. CASE EraseLevel
  BY <1>5 DEF EraseLevel, Stage, Ranks
<1>6. CASE LowerHeight
  BY <1>6 DEF LowerHeight, Stage, Ranks
<1>7. CASE Clear
  BY <1>7 DEF Clear, Removed, Stage, Lists, Ranks
<1>8. CASE Store
  BY <1>8 DEF Store, Stage, Lists, Ranks
<1>9. CASE Free
  BY <1>9 DEF Free, Return, Stage, Lists, Ranks
<1>10. CASE InsertHead
  BY <1>10 DEF InsertHead, Stage, Lists, Ranks
<1>11. CASE Link
  BY <1>11 DEF Link, Return, Stage, Lists, Ranks
<1>12. CASE NewNode
  BY <1>12 DEF NewNode, Stage, Lists, Ranks
<1>13. CASE Publish
  BY <1>13 DEF Publish, Return, Stage, Lists, Ranks
<1> QED
  BY <1>1, <1>2, <1>3, <1>4, <1>5, <1>6, <1>7, <1>8, <1>9, <1>10, <1>11, <1>12, <1>13 DEF Master

LEMMA SortedSame ==
  ASSUME NEW C, NEW f, NEW g, NEW L, NEW M, Sorted(C, f, L),
         \A p \in C : g[p] = f[p], \A p \in C : p # Top => M[p] = L[p]
  PROVE  Sorted(C, g, M)
BY DEF Sorted, Before

\* What the levels have in common.
LEMMA ChainFacts ==
  ASSUME IndexInv, NEW i \in Levels
  PROVE  /\ Top \in Chain(i) /\ Nil \notin Chain(i)
         /\ Chain(i) \subseteq InList \cup {Top} /\ InList \subseteq Nodes
         /\ \A n \in InList : n # Top /\ n # Nil /\ Label[n] \in Nat
         /\ \A n, m \in Chain(i) : n # Top /\ m # Top /\ Label[n] = Label[m] => n = m
<1> USE PointersAssumption DEF Cells
<1>1. Top \in Chain(i) /\ Chain(i) \subseteq InList \cup {Top} /\ InList \subseteq Nodes
  <2>1. node # Top
    BY DEF IndexInv, CommandType
  <2> QED BY <2>1 DEF Chain, OnLevel, InList
<1>2. ASSUME NEW n \in InList
      PROVE  n # Top /\ n # Nil /\ Label[n] \in Nat
  <2>1. to[n] = Nil => target \in Rows
    BY DEF IndexInv, Lists, Stage
  <2>2. n \in Nodes /\ (to[n] # Nil => to[n] \in Rows)
    BY DEF InList, IndexInv, SharedType
  <2> QED BY <2>1, <2>2, DataAssumption DEF Label, IndexInv, SharedType
<1> QED BY <1>1, <1>2 DEF IndexInv, Chains

\* A step that leaves the skip list alone, and what its nodes stand for.
LEMMA ChainsSame ==
  ASSUME IndexInv, next' = next, curh' = curh, tall' = tall,
         \A n \in InList : Label'[n] = Label[n],
         pc' \notin {"publish", "erase", "clear"} \/ (pc' = "erase" /\ level' = 0),
         pc \notin {"publish", "erase", "clear"}
  PROVE  Chains'
<1>1. InList' = InList /\ \A i \in Levels : Level(i)' = Level(i) /\ OnLevel(i)' = OnLevel(i)
  BY DEF InList, Level, OnLevel
<1>2. ASSUME NEW i \in Levels
      PROVE  Chain(i)' = Chain(i)
  BY <1>1 DEF Chain, Levels
<1>3. ASSUME NEW i \in Levels
      PROVE  Sorted(Chain(i)', Level(i)', Label')
  <2>1. Sorted(Chain(i), Level(i), Label)
    BY DEF IndexInv, Chains
  <2>2. \A p \in Chain(i) : p # Top => Label'[p] = Label[p]
    BY ChainFacts
  <2>3. Sorted(Chain(i), Level(i), Label')
    BY <2>1, <2>2, SortedSame
  <2> QED BY <1>1, <1>2, <2>3
<1> QED BY <1>1, <1>3 DEF IndexInv, Chains

LEMMA ChainsKept ==
  ASSUME IndexInv, Master
  PROVE  Chains'
<1> USE PointersAssumption, SizesAssumption
<1> USE DEF IndexInv, SharedType, CommandType, Cells
<1>1. ASSUME NEW r \in Rows, NEW v \in Values, Add(r, v) \/ Set(r, v) \/ Incr(r, v)
      PROVE  Chains'
  <2>1. \A n \in InList : Label'[n] = Label[n]
    BY <1>1 DEF Add, Set, Incr, Begin, Lists, Live, Linked, Listed, InList, Label
  <2> QED BY <1>1, <2>1, ChainsSame DEF Add, Set, Incr, Begin
<1>2. ASSUME NEW r \in Rows, Delete(r)
      PROVE  Chains'
  <2>1. \A n \in InList : Label'[n] = Label[n]
    BY <1>2 DEF Delete, Begin, Lists, InList, Label
  <2> QED BY <1>2, <2>1, ChainsSame DEF Delete, Begin
<1>3. CASE Unlink
  <2>1. \A n \in InList : Label'[n] = Label[n]
    BY <1>3 DEF Unlink, Stage, Lists, Live, Linked, InList, Label
  <2> QED BY <1>3, <2>1, ChainsSame DEF Unlink, Removed
<1>4. CASE PutBack
  <2>1. \A n \in InList : Label'[n] = Label[n]
    BY <1>4 DEF PutBack, Stage, Lists, InList, Label
  <2> QED BY <1>4, <2>1, ChainsSame DEF PutBack
<1>5. CASE EraseLevel
  <2>1. PICK l \in Levels, p \in Places :
          l = level /\ Leads(p) /\ next' = [next EXCEPT ![p][l] = next[node][l]]
    BY <1>5 DEF EraseLevel
  <2>2. /\ node \in InList /\ node \in Nodes /\ to[node] = target /\ target \in Rows
        /\ p \in OnLevel(l) /\ next[p][l] = node
        /\ p # Top => Value(p) < val[target]
        /\ pc = "erase" /\ pc' = "erase" /\ level' = l + 1 /\ node' = node
    BY <1>5, <2>1 DEF EraseLevel, Stage, InList, Leads, Fix
  <2>3. p # node
    <3>1. Value(node) = val[target] /\ val[target] \in Nat
      BY <2>2, DataAssumption DEF Value
    <3> QED BY <2>2, <3>1
  <2>4. p \in Chain(l)
    BY <2>2, <2>3 DEF Chain
  <2>5. node \in Chain(l) /\ Level(l)[p] = node
    <3>1. Level(l)[p] = node /\ node # Nil
      BY <2>2 DEF Level
    <3> QED BY <2>4, <3>1 DEF Chains, Sorted
  <2>6. \A q \in Places, i \in Levels :
          next'[q][i] = IF q = p /\ i = l THEN next[node][l] ELSE next[q][i]
    BY <2>1
  <2>7. /\ InList' = InList /\ Label' = Label
        /\ \A i \in Levels : OnLevel(i)' = OnLevel(i)
    BY <1>5 DEF EraseLevel, InList, OnLevel, Label
  <2>8. ASSUME NEW i \in Levels
        PROVE  Chain(i)' = IF i = l THEN Chain(i) \ {node} ELSE Chain(i)
    <3>1. i < l + 1 <=> i < l \/ i = l
      BY DEF Levels
    <3> QED BY <2>1, <2>2, <2>7, <3>1 DEF Chain
  <2>9. \A q \in Places, i \in Levels :
          Level(i)'[q] = IF q = p /\ i = l THEN Level(l)[node] ELSE Level(i)[q]
    BY <2>2, <2>6 DEF Level, Places
  <2>10. ASSUME NEW i \in Levels
         PROVE  Sorted(Chain(i)', Level(i)', Label')
    <3> HIDE DEF IndexInv
    <3>1. Sorted(Chain(i), Level(i), Label)
      BY DEF IndexInv, Chains
    <3>2. /\ Chain(i) \subseteq Places /\ node # Top
          /\ Top \in Chain(i) /\ Nil \notin Chain(i)
          /\ \A n \in Chain(i) : n # Top => Label[n] \in Int
          /\ \A n, m \in Chain(i) : n # Top /\ m # Top /\ Label[n] = Label[m] => n = m
      BY <2>2, ChainFacts DEF Places
    <3>3. CASE i # l
      <4>1. \A q \in Chain(i) : Level(i)'[q] = Level(i)[q]
        BY <2>9, <3>2, <3>3
      <4> QED BY <2>7, <2>8, <3>1, <3>3, <4>1, SortedSame
    <3>4. CASE i = l
      <4>1. Level(i)'[p] = Level(i)[node] /\ \A q \in Chain(i) \ {p} : Level(i)'[q] = Level(i)[q]
        BY <2>9, <3>2, <3>4
      <4>2. Sorted(Chain(i) \ {node}, Level(i)', Label)
        BY <2>4, <2>5, <3>1, <3>2, <3>4, <4>1, SortedOut
      <4> QED BY <2>7, <2>8, <3>4, <4>2
    <3> QED BY <3>3, <3>4
  <2>11. ASSUME NEW n \in InList, NEW i \in Levels
         PROVE  next'[n][i] \in InList \cup {Nil} /\ (i >= tall[n] => next'[n][i] = Nil)
    <3>1. CASE n = p /\ i = l
      <4>1. next'[n][i] = next[node][l] /\ ~ i >= tall[n]
        BY <2>2, <2>6, <3>1 DEF OnLevel, InList, Levels
      <4> QED BY <2>2, <4>1 DEF Chains
    <3>2. CASE ~ (n = p /\ i = l)
      <4>1. next'[n][i] = next[n][i]
        BY <2>6, <3>2 DEF InList, Places
      <4> QED BY <4>1 DEF Chains
    <3> QED BY <3>1, <3>2
  <2> QED BY <1>5, <2>2, <2>7, <2>10, <2>11 DEF EraseLevel, Chains
<1>6. CASE LowerHeight
  <2>1. /\ InList' = InList /\ Label' = Label
        /\ \A i \in Levels : OnLevel(i)' = OnLevel(i) /\ Level(i)' = Level(i)
    BY <1>6 DEF LowerHeight, InList, OnLevel, Label, Level
  <2>2. \A i \in Levels : Chain(i)' = Chain(i)
    BY <1>6, <2>1 DEF LowerHeight, Chain
  <2>3. ASSUME NEW n \in InList, n # node, ~ tall[n] <= curh'
        PROVE  FALSE
    <3> DEFINE i == tall[n] - 1
    <3>1. n \in Nodes /\ curh' \in Nat /\ tall[n] \in Nat /\ tall[n] <= curh
      BY <1>6, <2>3 DEF LowerHeight, InList, Chains, Levels
    <3>2. i \in Nat /\ tall[n] > i /\ curh' <= i /\ i < curh
      BY <2>3, <3>1, <1>6 DEF LowerHeight, Levels
    <3>3. i \in Levels /\ i \in curh' .. curh - 1 /\ n \in OnLevel(i)
      BY <2>3, <3>1, <3>2 DEF Levels, OnLevel
    <3>4. n \in Chain(i) /\ Top \in Chain(i) /\ n # Top
      BY <2>3, <3>2, <3>3, ChainFacts DEF Chain
    <3>5. next[Top][i] = Nil
      BY <1>6, <3>3 DEF LowerHeight
    <3>6. Level(i)[Top] # Nil
      BY <3>3, <3>4 DEF Chains, Sorted, Before
    <3> QED BY <3>3, <3>5, <3>6 DEF Level, Places
  <2> QED BY <1>6, <2>1, <2>2, <2>3 DEF LowerHeight, Chains
<1>7. CASE Clear
  <2>1. /\ node \in InList /\ node \in Nodes /\ node # Top /\ level >= tall[node]
        /\ tall' = [tall EXCEPT ![node] = 0] /\ to' = [to EXCEPT ![node] = Nil]
    BY <1>7 DEF Clear, Stage, InList
  <2>2. InList' = InList \ {node} /\ \A n \in InList' : tall'[n] = tall[n] /\ to'[n] = to[n]
    BY <2>1 DEF InList, Levels
  <2>3. ASSUME NEW i \in Levels
        PROVE  node \notin Chain(i) /\ Chain(i)' = Chain(i) /\ Level(i)' = Level(i)
    <3>1. node \notin Chain(i)
      BY <1>7, <2>1 DEF Clear, Chain, OnLevel, InList, Levels
    <3>2. OnLevel(i)' = OnLevel(i) \ {node}
      BY <2>1, <2>2 DEF OnLevel
    <3>3. Chain(i)' = Chain(i)
      BY <1>7, <2>1, <3>1, <3>2 DEF Clear, Removed, Chain
    <3> QED BY <1>7, <3>1, <3>3 DEF Clear, Level
  <2>4. \A n \in InList' : Label'[n] = Label[n] /\ n \in InList
    BY <1>7, <2>2 DEF Clear, Label, InList
  <2>5. ASSUME NEW i \in Levels
        PROVE  Sorted(Chain(i)', Level(i)', Label')
    <3>1. \A n \in Chain(i) : n # Top => Label'[n] = Label[n]
      BY <2>2, <2>3, <2>4, ChainFacts
    <3>2. Sorted(Chain(i), Level(i), Label)
      BY DEF Chains
    <3>3. Sorted(Chain(i), Level(i), Label')
      BY <3>1, <3>2, SortedSame
    <3> QED BY <2>3, <3>3
  <2>6. ASSUME NEW n \in InList', NEW i \in Levels
        PROVE  next[n][i] \in InList' \cup {Nil} /\ (i >= tall[n] => next[n][i] = Nil)
    <3>1. n \in InList /\ n \in Nodes /\ n # node
      BY <2>2 DEF InList
    <3>2. CASE i >= tall[n]
      BY <3>1, <3>2 DEF Chains
    <3>3. CASE ~ i >= tall[n]
      <4>1. n \in Chain(i)
        BY <3>1, <3>3 DEF Chain, OnLevel, Levels
      <4>2. next[n][i] = Nil \/ next[n][i] \in Chain(i)
        BY <3>1, <4>1 DEF Chains, Sorted, Level, Places
      <4>3. next[n][i] # Top
        BY <3>1 DEF Places
      <4> QED BY <2>2, <2>3, <3>3, <4>2, <4>3, ChainFacts
    <3> QED BY <3>2, <3>3
  <2>7. \A n, m \in InList' : Label'[n] = Label'[m] => n = m
    BY <2>4 DEF Chains
  <2>8. \A n \in InList' : tall'[n] <= curh'
    BY <1>7, <2>2, <2>4 DEF Clear, Chains
  <2> QED BY <1>7, <2>2, <2>5, <2>6, <2>7, <2>8 DEF Clear, Removed, Chains
<1>8. CASE Store
  <2>1. \A n \in InList : Label'[n] = Label[n]
    BY <1>8 DEF Store, Stage, Lists, Live, Linked, InList, Label
  <2> QED BY <1>8, <2>1, ChainsSame DEF Store
<1>9. CASE Free
  <2>1. \A n \in InList : Label'[n] = Label[n]
    BY <1>9 DEF Free, Return, Stage, Lists, InList, Label
  <2> QED BY <1>9, <2>1, ChainsSame DEF Free, Return
<1>10. CASE InsertHead
  <2>1. \A n \in InList : Label'[n] = Label[n]
    BY <1>10 DEF InsertHead, Stage, Lists, InList, Label
  <2> QED BY <1>10, <2>1, ChainsSame DEF InsertHead
<1>11. CASE Link
  <2>1. target \in Rows /\ to[target] = to[node] /\ to[target] \in Linked /\ prev[to[target]] = target
    BY <1>11 DEF Link, Stage, Lists, Live, Linked, InList
  <2>2. val[to[target]] = val[target]
    BY <2>1 DEF Lists
  <2>3. \A n \in InList : Label'[n] = Label[n]
    BY <1>11, <2>1, <2>2 DEF Link, Stage, Lists, InList, Label
  <2> QED BY <1>11, <2>3, ChainsSame DEF Link, Return
<1>12. CASE NewNode
  <2>1. PICK n \in Nodes \ InList, h \in 1 .. MaxHeight :
          LET raised == IF h > curh THEN curh + 1 ELSE h IN
          /\ next' = [next EXCEPT ![n] = [i \in Levels |-> Nil]]
          /\ curh' = IF h > curh THEN curh + 1 ELSE curh
          /\ to' = [to EXCEPT ![n] = target, ![target] = Nil]
          /\ tall' = [tall EXCEPT ![n] = raised]
          /\ node' = n /\ level' = raised - 1
    BY <1>12 DEF NewNode
  <2>2. /\ target \in Rows /\ target' = target /\ val' = val /\ val[target] = new
        /\ pc = "insert" /\ pc' = "publish" /\ prev[target] = Nil
        /\ \A m \in InList : Value(m) # new
    BY <1>12 DEF NewNode, Stage
  <2>3. /\ tall'[n] = level' + 1 /\ level' \in Levels /\ tall'[n] <= curh' /\ curh <= curh'
        /\ curh' \in Nat
    BY <2>1 DEF Levels
  <2>4. /\ InList' = InList \cup {n} /\ n # Top /\ n \in Nodes
        /\ \A m \in InList : m # n /\ tall'[m] = tall[m] /\ next'[m] = next[m]
        /\ next'[n] = [i \in Levels |-> Nil] /\ next'[Top] = next[Top]
    BY <2>1, <2>3 DEF InList, Levels, Places
  <2>5. \A m \in InList : to'[m] = to[m] /\ to[m] # Nil /\ to[m] # target
    BY <2>1, <2>2 DEF Lists, Live, Linked, InList
  <2>6. \A m \in InList : Label'[m] = Label[m] /\ Label[m] = Value(m)
    BY <2>2, <2>5 DEF Label, Value, InList
  <2>7. Label'[n] = new
    BY <2>1, <2>2 DEF Label
  <2>8. ASSUME NEW i \in Levels
        PROVE  Chain(i)' = Chain(i) /\ \A p \in Chain(i) : Level(i)'[p] = Level(i)[p]
    <3>1. OnLevel(i)' \ {n} = OnLevel(i) /\ (n \in OnLevel(i)' <=> i <= level')
      BY <2>3, <2>4 DEF OnLevel, InList, Levels
    <3>2. Chain(i)' = Chain(i)
      BY <2>1, <2>2, <3>1 DEF Chain
    <3> QED BY <2>4, <3>2, ChainFacts DEF Level, Places
  <2>9. ASSUME NEW i \in Levels
        PROVE  Sorted(Chain(i)', Level(i)', Label')
    <3>1. \A p \in Chain(i) : p # Top => Label'[p] = Label[p]
      BY <2>6, ChainFacts
    <3>2. Sorted(Chain(i), Level(i), Label)
      BY DEF Chains
    <3>3. Sorted(Chain(i), Level(i)', Label')
      BY <2>8, <3>1, <3>2, SortedSame
    <3> QED BY <2>8, <3>3
  <2>10. \A m, k \in InList' : Label'[m] = Label'[k] => m = k
    BY <2>2, <2>4, <2>6, <2>7 DEF Chains
  <2>11. \A m \in InList' : tall'[m] <= curh'
    <3>1. ASSUME NEW m \in InList
          PROVE  tall[m] <= curh /\ tall[m] \in Nat /\ curh \in Nat
      BY <2>2 DEF Chains, InList, Levels
    <3> QED BY <2>3, <2>4, <3>1
  <2>12. \A m \in InList', i \in Levels :
           next'[m][i] \in InList' \cup {Nil} /\ (i >= tall'[m] => next'[m][i] = Nil)
    BY <2>4 DEF Chains
  <2>13. \A i \in 0 .. level' : next'[node'][i] = Nil
    BY <2>1, <2>3, <2>4 DEF Levels
  <2> QED BY <2>9, <2>10, <2>11, <2>12, <2>13 DEF Chains
<1>13. CASE Publish
  <2>1. PICK l \in Levels, p \in Places :
          /\ l = level /\ Fix(p, l, new)
          /\ next' = [next EXCEPT ![node][l] = next[p][l], ![p][l] = node]
    BY <1>13 DEF Publish
  <2>2. /\ pc = "publish" /\ node \in InList /\ node \in Nodes /\ target \in Rows
        /\ to[node] = target /\ val[target] = new /\ l < tall[node]
        /\ tall' = tall /\ curh' = curh /\ to' = to /\ val' = val
    BY <1>13, <2>1 DEF Publish, Stage, InList
  <2>3. \/ l > 0 /\ pc' = "publish" /\ level' = l - 1 /\ node' = node
        \/ l = 0 /\ pc' = "idle" /\ node' = Nil
    BY <1>13, <2>1 DEF Publish, Return, Levels
  <2>4. \A m \in InList : to[m] # Nil /\ Label'[m] = Label[m] /\ Label[m] = Value(m)
    BY <2>2 DEF Lists, Label, Value, InList
  <2>5. Label[node] = new /\ Value(node) = new /\ new \in Nat
    <3>1. val[target] \in Nat
      BY <2>2, DataAssumption
    <3> QED BY <2>2, <2>4, <3>1 DEF Value
  <2>6. /\ p \in OnLevel(l) /\ p # node
        /\ p # Top => Value(p) < new
        /\ next[p][l] # Nil => Value(next[p][l]) >= new
    BY <2>1, <2>2, <2>5 DEF Fix
  <2>7. p \in Chain(l) /\ node \notin Chain(l) /\ node \in OnLevel(l)
    BY <2>1, <2>2, <2>6 DEF Chain, OnLevel, Levels
  <2>8. \A q \in Places, i \in Levels :
          next'[q][i] = IF q = p /\ i = l THEN node
                        ELSE IF q = node /\ i = l THEN next[p][l] ELSE next[q][i]
    <3>1. node \in Places
      BY <2>2 DEF Places
    <3> QED BY <2>1, <2>6, <3>1
  <2>9. InList' = InList /\ \A i \in Levels : OnLevel(i)' = OnLevel(i)
    BY <2>2 DEF InList, OnLevel
  <2>10. ASSUME NEW i \in Levels
         PROVE  Chain(i)' = IF i = l THEN Chain(i) \cup {node} ELSE Chain(i)
    <3>1. (i <= l <=> i <= l - 1 \/ i = l) /\ ~ l <= l - 1 /\ (l = 0 => (i <= l <=> i = l))
      BY DEF Levels
    <3>2. CASE l > 0
      BY <2>1, <2>2, <2>3, <2>7, <2>9, <3>1, <3>2 DEF Chain
    <3>3. CASE l = 0
      BY <2>1, <2>2, <2>3, <2>7, <2>9, <3>1, <3>3 DEF Chain
    <3> QED BY <2>3, <3>2, <3>3
  <2>11. \A q \in Places, i \in Levels :
           Level(i)'[q] = IF q = p /\ i = l THEN node
                          ELSE IF q = node /\ i = l THEN Level(l)[p] ELSE Level(i)[q]
    BY <2>1, <2>2, <2>8 DEF Level
  <2>12. ASSUME NEW i \in Levels
         PROVE  Sorted(Chain(i)', Level(i)', Label')
    <3> HIDE DEF IndexInv
    <3>1. Sorted(Chain(i), Level(i), Label)
      BY DEF IndexInv, Chains
    <3>2. /\ Chain(i) \subseteq Places /\ Chain(i) \subseteq InList \cup {Top}
          /\ node # Top /\ node # Nil /\ node \in Places
          /\ Top \in Chain(i) /\ Nil \notin Chain(i)
          /\ \A n \in Chain(i) \cup {node} : n # Top => Label[n] \in Int
          /\ \A n, m \in Chain(i) : n # Top /\ m # Top /\ Label[n] = Label[m] => n = m
      BY <2>2, ChainFacts DEF Places
    <3>3. CASE i # l
      <4>1. \A q \in Chain(i) : Level(i)'[q] = Level(i)[q]
        BY <2>11, <3>2, <3>3
      <4>2. \A q \in Chain(i) : q # Top => Label'[q] = Label[q]
        BY <2>4, <3>2
      <4> QED BY <2>10, <3>1, <3>3, <4>1, <4>2, SortedSame
    <3>4. CASE i = l
      <4>1. /\ Level(i)'[p] = node /\ Level(i)'[node] = Level(i)[p]
            /\ \A q \in Chain(i) \ {p} : Level(i)'[q] = Level(i)[q]
        BY <2>6, <2>7, <2>11, <3>2, <3>4
      <4>2. Before(Label, p, node)
        BY <2>4, <2>5, <2>6, <2>7, <3>2, <3>4 DEF Before
      <4>3. Level(i)[p] = Nil \/ ~ Before(Label, Level(i)[p], node)
        <5>1. Level(i)[p] = next[p][l]
          BY <3>4 DEF Level
        <5>2. Level(i)[p] = Nil \/ Level(i)[p] \in Chain(i)
          BY <2>7, <3>1, <3>4 DEF Sorted
        <5>3. CASE Level(i)[p] \in Chain(i) /\ Level(i)[p] # Top
          <6>1. Label[Level(i)[p]] >= new
            BY <2>4, <2>6, <3>2, <5>1, <5>3
          <6> QED BY <2>5, <3>2, <5>3, <6>1 DEF Before
        <5>4. Level(i)[p] # Top
          <6>1. next[p][l] \in Nodes \cup {Nil}
            BY DEF IndexInv, SharedType
          <6> QED BY <5>1, <6>1
        <5> QED BY <5>2, <5>3, <5>4
      <4>4. \A n \in Chain(i) : n # Top => Label[n] # Label[node]
        BY <2>2, <2>7, <3>2, <3>4 DEF IndexInv, Chains
      <4>5. Sorted(Chain(i) \cup {node}, Level(i)', Label)
        BY <2>7, <3>1, <3>2, <3>4, <4>1, <4>2, <4>3, <4>4, SortedIn
      <4>6. \A q \in Chain(i) \cup {node} : q # Top => Label'[q] = Label[q]
        BY <2>2, <2>4, <3>2
      <4>7. Sorted(Chain(i) \cup {node}, Level(i)', Label')
        BY <4>5, <4>6, SortedSame
      <4> QED BY <2>10, <3>4, <4>7
    <3> QED BY <3>3, <3>4
  <2>13. ASSUME NEW n \in InList, NEW i \in Levels
         PROVE  next'[n][i] \in InList \cup {Nil} /\ (i >= tall[n] => next'[n][i] = Nil)
    <3>1. n \in Places /\ n # Top /\ tall[n] \in Nat
      BY DEF InList, Places, Levels
    <3>2. CASE i = l /\ n = p
      <4>1. next'[n][i] = node /\ ~ i >= tall[n]
        BY <2>6, <2>8, <3>1, <3>2 DEF OnLevel, Levels
      <4> QED BY <2>2, <4>1
    <3>3. CASE i = l /\ n = node
      <4>1. next'[n][i] = next[p][l] /\ ~ i >= tall[n]
        BY <2>2, <2>6, <2>8, <3>1, <3>3 DEF Levels
      <4>2. Level(l)[p] = next[p][l] /\ next[p][l] # Top
        BY DEF Level
      <4>3. Level(l)[p] = Nil \/ Level(l)[p] \in Chain(l)
        BY <2>7 DEF Chains, Sorted
      <4> QED BY <4>1, <4>2, <4>3, ChainFacts
    <3>4. CASE i # l \/ n \notin {p, node}
      <4>1. next'[n][i] = next[n][i]
        BY <2>8, <3>1, <3>4
      <4> QED BY <4>1 DEF Chains
    <3> QED BY <3>2, <3>3, <3>4
  <2>14. pc' = "publish" => \A i \in 0 .. level' : next'[node'][i] = Nil
    <3>1. SUFFICES ASSUME l > 0, NEW i \in 0 .. l - 1
                   PROVE  next'[node][i] = Nil
      BY <2>3
    <3>2. i \in Levels /\ i # l /\ i \in 0 .. l
      BY <3>1 DEF Levels
    <3>3. next'[node][i] = next[node][i]
      BY <2>2, <2>8, <3>2 DEF Places
    <3> QED BY <2>1, <2>2, <3>2, <3>3 DEF Chains
  <2>15. \A n, m \in InList' : Label'[n] = Label'[m] => n = m
    BY <2>4, <2>9 DEF Chains
  <2>16. \A n \in InList' : tall'[n] <= curh'
    BY <2>2, <2>9 DEF Chains
  <2> QED BY <2>2, <2>9, <2>12, <2>13, <2>14, <2>15, <2>16 DEF Chains
<1> QED
  BY <1>1, <1>2, <1>3, <1>4, <1>5, <1>6, <1>7, <1>8, <1>9, <1>10, <1>11, <1>12, <1>13 DEF Master

LEMMA IndexInit ==
  ASSUME Init
  PROVE  IndexInv
<1> USE PointersAssumption, SizesAssumption, DataAssumption
<1>1. SharedType /\ CommandType
  BY DEF Init, SharedType, CommandType, Changes, Levels, Places, Cells
<1>2. Linked = {} /\ InList = {} /\ Live = {}
  BY DEF Init, Linked, InList, Live
<1>3. Stage
  BY DEF Init, Stage, Changes
<1>4. Lists
  BY <1>2 DEF Lists
<1>5. Ranks
  BY <1>2 DEF Init, Ranks
<1>6. ASSUME NEW i \in Levels
      PROVE  Sorted(Chain(i), Level(i), Label)
  <2>1. Chain(i) = {Top} /\ Level(i)[Top] = Nil
    BY <1>2 DEF Init, Chain, OnLevel, Level, Places
  <2> QED BY <2>1 DEF Sorted, Before
<1>7. Chains
  BY <1>2, <1>6 DEF Init, Chains
<1> QED BY <1>1, <1>3, <1>4, <1>5, <1>7 DEF IndexInv

\* The reader changes nothing of the index.
LEMMA IndexStep ==
  ASSUME IndexInv, [Next]_vars
  PROVE  IndexInv'
<1>1. CASE Master
  BY <1>1, MasterType, StageKept, ListsKept, RanksKept, ChainsKept DEF IndexInv
<1>2. CASE Reader \/ UNCHANGED vars
  <2>1. UNCHANGED <<shared, command>>
    BY <1>2 DEF Reader, Open, ReadLock, Enter, Start, Locate, Compare, Arrive, Skip, Pass, Fetch, Check,
                Ended, Walk, NextNode, Close, vars
  <2>2. SharedType' /\ CommandType' /\ Stage' /\ Lists' /\ Ranks'
    BY <2>1 DEF IndexInv, shared, command, SharedType, CommandType, Stage, Lists, Ranks,
                Live, Linked, InList
  <2>3. Chains'
    <3>1. /\ InList' = InList /\ Label' = Label
          /\ \A i \in Levels : Level(i)' = Level(i) /\ Chain(i)' = Chain(i)
      BY <2>1 DEF shared, command, InList, Label, Level, Chain, OnLevel
    <3> QED BY <2>1, <3>1 DEF shared, command, IndexInv, Chains
  <2> QED BY <2>2, <2>3 DEF IndexInv
<1> QED BY <1>1, <1>2 DEF Next

\* The index is closed: it leads to nothing that is not in it.
Closed ==
  /\ \A r \in Listed : to[r] \in Listed \cup {Nil}
  /\ \A n \in InList : to[n] \in Listed \cup {Nil}
  /\ \A n \in InList \cup {Top}, i \in Levels : next[n][i] \in InList \cup {Nil}
  /\ \A n \in InList : to[n] = Nil => "erase" \in Doing

LEMMA IndexClosed == IndexInv => Closed
<1> SUFFICES ASSUME IndexInv PROVE Closed
  OBVIOUS
<1> USE PointersAssumption
<1>1. \A r \in Listed : to[r] \in Listed \cup {Nil}
  BY DEF IndexInv, SharedType, CommandType, Stage, Lists, Live, Linked, Listed, InList, Cells
<1>2. \A n \in InList : to[n] \in Listed \cup {Nil}
  BY DEF IndexInv, SharedType, CommandType, Stage, Lists, Live, Linked, Listed, InList, Cells
<1>3. ASSUME NEW i \in Levels
      PROVE  next[Top][i] \in InList \cup {Nil}
  <2>1. Top \in Chain(i) /\ Sorted(Chain(i), Level(i), Label)
    BY ChainFacts DEF IndexInv, Chains
  <2>2. Level(i)[Top] = next[Top][i] /\ next[Top][i] # Top
    BY DEF IndexInv, SharedType, Level, Places, Cells
  <2> QED BY <2>1, <2>2, ChainFacts DEF Sorted
<1>4. \A n \in InList, i \in Levels : next[n][i] \in InList \cup {Nil}
  BY DEF IndexInv, Chains
<1>5. \A n \in InList : to[n] = Nil => "erase" \in Doing
  BY DEF IndexInv, Lists, Doing
<1> QED BY <1>1, <1>2, <1>3, <1>4, <1>5 DEF Closed

\* The master only changes what is in the index, or takes a node out of it.
LEMMA MasterMoves ==
  ASSUME IndexInv, Master
  PROVE  /\ \A c \in Cells : \/ to'[c] = to[c]
                             \/ c \in Listed' \cup InList'
                             \/ to'[c] = Nil /\ "erase" \in Doing
         /\ \A n \in Nodes, i \in Levels : next'[n][i] = next[n][i] \/ n \in InList'
         /\ UNCHANGED reader /\ Observe
<1> DEFINE P == /\ \A c \in Cells : \/ to'[c] = to[c]
                                    \/ c \in Listed' \cup InList'
                                    \/ to'[c] = Nil /\ "erase" \in Doing
                /\ \A n \in Nodes, i \in Levels : next'[n][i] = next[n][i] \/ n \in InList'
                /\ UNCHANGED reader /\ Observe
<1> USE PointersAssumption
<1> USE DEF IndexInv, SharedType, CommandType, Cells, Listed, InList
<1>1. ASSUME NEW r \in Rows, NEW v \in Values, Add(r, v) \/ Set(r, v) \/ Incr(r, v)
      PROVE  P
  BY <1>1 DEF Add, Set, Incr, Begin
<1>2. ASSUME NEW r \in Rows, Delete(r)
      PROVE  P
  BY <1>2 DEF Delete, Begin
<1>3. CASE Unlink
  BY <1>3 DEF Unlink, Removed, Stage, Lists, Ranks, Live, Linked
<1>4. CASE PutBack
  BY <1>4 DEF PutBack, Stage
<1>5. CASE EraseLevel
  BY <1>5 DEF EraseLevel, Leads, Fix, OnLevel
<1>6. CASE LowerHeight
  BY <1>6 DEF LowerHeight
<1>7. CASE Clear
  BY <1>7 DEF Clear, Doing
<1>8. CASE Store
  BY <1>8 DEF Store
<1>9. CASE Free
  BY <1>9 DEF Free
<1>10. CASE InsertHead
  BY <1>10 DEF InsertHead, Stage
<1>11. CASE Link
  BY <1>11 DEF Link, Stage
<1>12. CASE NewNode
  <2>1. PICK n \in Nodes \ InList, h \in 1 .. MaxHeight :
          LET raised == IF h > curh THEN curh + 1 ELSE h IN
          /\ next' = [next EXCEPT ![n] = [i \in Levels |-> Nil]]
          /\ to' = [to EXCEPT ![n] = target, ![target] = Nil]
          /\ prev' = [prev EXCEPT ![target] = n]
          /\ tall' = [tall EXCEPT ![n] = raised]
    BY <1>12 DEF NewNode
  <2>2. target \in Rows
    BY <1>12 DEF NewNode, Stage
  <2>3. n \in InList'
    BY <2>1, SizesAssumption DEF Levels
  <2>4. target \in Listed'
    BY <2>1, <2>2
  <2>5. /\ \A c \in Cells : c \in {n, target} \/ to'[c] = to[c]
        /\ \A m \in Nodes : m = n \/ next'[m] = next[m]
    BY <2>1, <2>2 DEF Places
  <2>6. UNCHANGED reader /\ Observe
    BY <1>12 DEF NewNode
  <2> QED BY <2>3, <2>4, <2>5, <2>6
<1>13. CASE Publish
  <2>1. PICK p \in Places :
          /\ p \in OnLevel(level)
          /\ next' = [next EXCEPT ![node][level] = next[p][level], ![p][level] = node]
    BY <1>13 DEF Publish, Fix
  <2>2. node \in InList' /\ (p # Top => p \in InList') /\ to' = to
    BY <1>13, <2>1 DEF Publish, Stage, OnLevel
  <2>3. \A m \in Nodes : m \in {node, p} \/ next'[m] = next[m]
    BY <2>1 DEF Places
  <2>4. UNCHANGED reader /\ Observe
    BY <1>13 DEF Publish
  <2> QED BY <2>2, <2>3, <2>4
<1>14. P
  BY <1>1, <1>2, <1>3, <1>4, <1>5, <1>6, <1>7, <1>8, <1>9, <1>10, <1>11, <1>12, <1>13 DEF Master
<1> QED BY <1>14

-----------------------------------------------------------------------------
(* The search.                                                             *)

SearchInv == ReaderType /\ HistoryType /\ Sighted

LEMMA SearchInit ==
  ASSUME Init
  PROVE  SearchInv
<1> USE PointersAssumption, SizesAssumption
<1>1. ReaderType /\ HistoryType
  BY DEF Init, ReaderType, HistoryType, Places, Levels
<1>2. Sighted
  BY DEF Init, Sighted, Here, Observing, Walking, Outcomes, ReportsRows
<1> QED BY <1>1, <1>2 DEF SearchInv

\* Whatever the master does, the search is still among what it has seen.
LEMMA SearchKept ==
  ASSUME IndexInv, IndexInv', Closed', SearchInv, Master
  PROVE  SearchInv'
<1>1. UNCHANGED reader /\ Observe
  BY MasterMoves
<1>2. ReaderType' /\ HistoryType' /\ Observing' = Observing
  BY <1>1, ObserveType DEF SearchInv, IndexInv, ReaderType, reader, Observing
<1>3. CASE ~ Observing
  <2>1. UNCHANGED history
    BY <1>1, <1>3 DEF Observe
  <2>2. Here'
    BY <1>1, <2>1 DEF SearchInv, Sighted, Here, reader, history, ReportsRows
  <2> QED BY <1>2, <1>3, <2>1, <2>2 DEF SearchInv, Sighted, history
<1>4. CASE Observing
  <2>1. /\ seen' = seen \cup Listed' /\ seenNodes' = seenNodes \cup InList'
        /\ met' = met \cup Doing' /\ Covered
    BY <1>1, <1>4 DEF Observe, SearchInv, Sighted
  <2>2. seen \subseteq Rows /\ seenNodes \subseteq Nodes
    BY DEF SearchInv, HistoryType
  <2>3. ASSUME NEW r \in seen'
        PROVE  to'[r] \in seen' \cup {Nil}
    <3>1. CASE r \in Listed'
      BY <2>1, <3>1 DEF Closed
    <3>2. CASE r \notin Listed'
      <4>1. r \in seen /\ r \in Cells /\ r \notin InList'
        BY <2>1, <2>2, <3>2, PointersAssumption DEF Cells, InList
      <4>2. to'[r] = to[r] \/ to'[r] = Nil
        BY <3>2, <4>1, MasterMoves
      <4> QED BY <2>1, <4>1, <4>2 DEF Covered
    <3> QED BY <3>1, <3>2
  <2>4. ASSUME NEW n \in seenNodes'
        PROVE  to'[n] \in seen' \cup {Nil} /\ (to'[n] = Nil => "erase" \in met')
    <3>1. CASE n \in InList'
      BY <2>1, <3>1 DEF Closed
    <3>2. CASE n \notin InList'
      <4>1. n \in seenNodes /\ n \in Cells /\ n \in Nodes
        BY <2>1, <2>2, <3>2 DEF Cells
      <4>2. n \notin Listed'
        BY <4>1, PointersAssumption DEF Listed, IndexInv, Stage
      <4>3. to'[n] = to[n] \/ (to'[n] = Nil /\ "erase" \in Doing)
        BY <3>2, <4>1, <4>2, MasterMoves
      <4> QED BY <2>1, <4>1, <4>3 DEF Covered
    <3> QED BY <3>1, <3>2
  <2>5. ASSUME NEW n \in seenNodes', NEW i \in Levels
        PROVE  next'[n][i] \in seenNodes' \cup {Nil}
    <3>1. CASE n \in InList'
      BY <2>1, <3>1 DEF Closed
    <3>2. CASE n \notin InList'
      <4>1. n \in seenNodes /\ n \in Nodes
        BY <2>1, <2>2, <3>2
      <4>2. next'[n][i] = next[n][i]
        BY <3>2, <4>1, MasterMoves
      <4> QED BY <2>1, <4>1, <4>2 DEF Covered
    <3> QED BY <3>1, <3>2
  <2>6. Covered'
    BY <2>1, <2>3, <2>4, <2>5 DEF Covered
  <2>7. Here'
    BY <1>1, <2>1 DEF SearchInv, Sighted, Here, reader, ReportsRows
  <2> QED BY <1>2, <1>4, <2>6, <2>7 DEF SearchInv, Sighted
<1> QED BY <1>3, <1>4

\* A step of the search leads to what it has seen.
LEMMA SearchStep ==
  ASSUME IndexInv, Closed, SearchInv, Reader
  PROVE  SearchInv'
<1> USE PointersAssumption, SizesAssumption
<1>1. ReaderType' /\ HistoryType'
  BY SearchType DEF IndexInv, SearchInv
<1>2. UNCHANGED <<shared, command>>
  BY DEF Reader, Open, ReadLock, Enter, Start, Locate, Compare, Arrive, Skip, Pass, Fetch, Check,
         Ended, Walk, NextNode, Close
<1>3. /\ next' = next /\ to' = to /\ Listed' = Listed /\ InList' = InList /\ Doing' = Doing
  BY <1>2 DEF shared, command, Listed, InList, Doing
<1>4. Here /\ (Observing => Covered) /\ (~ Observing => seen = {} /\ seenNodes = {})
  BY DEF SearchInv, Sighted
<1>5. Observing => /\ \A i \in Levels : next[at][i] \in seenNodes \cup {Nil}
                   /\ \A i \in Levels : next[Top][i] \in seenNodes \cup {Nil}
  BY <1>4 DEF Here, Covered, Closed
<1>6. lev \in Levels /\ 0 \in Levels
  BY DEF SearchInv, ReaderType, Levels
<1> SUFFICES Sighted'
  BY <1>1 DEF SearchInv
\* Most steps add nothing to what was seen.
<1>7. ASSUME UNCHANGED history, Observing, Observing', Here'
      PROVE  Sighted'
  <2>1. Covered'
    BY <1>3, <1>4, <1>7 DEF Covered, history
  <2> QED BY <1>7, <2>1 DEF Sighted
\* Some forget it.
<1>8. ASSUME Nowhere, Unobserved, ~ Observing', rpc' \in {"idle", "lock", "exhausted"}
      PROVE  Sighted'
  <2>1. Here'
    BY <1>8 DEF Nowhere, Unobserved, Here, ReportsRows
  <2> QED BY <1>8, <2>1 DEF Unobserved, Sighted
<1> USE DEF Observing, Walking, Outcomes
<1>9. ASSUME NEW s \in Searches, Open(s)
      PROVE  Sighted'
  <2>1. Here'
    BY <1>4, <1>9 DEF Open, Here, ReportsRows, history
  <2> QED BY <1>4, <1>9, <2>1 DEF Open, Sighted, history
<1>10. CASE ReadLock
  <2>1. /\ seen = {} /\ seenNodes = {} /\ rpc' \in {"done", "enter"}
        /\ seen' = Listed /\ seenNodes' = InList /\ met' = Doing
    BY <1>4, <1>10 DEF ReadLock
  <2>2. Covered'
    BY <1>3, <2>1 DEF Covered, Closed
  <2>3. Here'
    BY <1>4, <1>10, <2>1 DEF ReadLock, Here, ReportsRows
  <2> QED BY <2>1, <2>2, <2>3 DEF Sighted
<1>11. CASE Enter
  <2>1. Observing /\ Observing' /\ seen' = seen /\ seenNodes' = seenNodes /\ met \subseteq met'
    BY <1>11 DEF Enter
  <2>2. Covered'
    BY <1>3, <1>4, <2>1 DEF Covered
  <2>3. Here'
    BY <1>4, <1>11, <2>1 DEF Enter, Here, ReportsRows
  <2> QED BY <2>1, <2>2, <2>3 DEF Sighted
<1>23. CASE Start
  <2>1. Here'
    BY <1>4, <1>5, <1>6, <1>23 DEF Start, Here, ReportsRows, history
  <2> QED BY <1>7, <1>23, <2>1 DEF Start
<1>12. CASE Locate
  <2>1. Here'
    BY <1>4, <1>5, <1>6, <1>12 DEF Locate, Descend, Here, ReportsRows, history
  <2> QED BY <1>7, <1>12, <2>1 DEF Locate, Descend
<1>13. CASE Compare
  <2>1. Here'
    BY <1>4, <1>13 DEF Compare, Descend, Crash, Here, Covered, ReportsRows, history
  <2> QED BY <1>7, <1>13, <2>1 DEF Compare, Descend, Crash
<1>14. CASE Arrive
  <2>1. Here'
    BY <1>4, <1>5, <1>6, <1>14 DEF Arrive, Here, ReportsRows, history
  <2> QED BY <1>7, <1>14, <2>1 DEF Arrive
<1>15. CASE Skip
  <2>1. Here'
    BY <1>4, <1>6, <1>15 DEF Skip, Crash, Here, Covered, ReportsRows, history
  <2> QED BY <1>7, <1>15, <2>1 DEF Skip, Crash
<1>16. CASE Pass
  <2>1. Here'
    BY <1>4, <1>6, <1>16 DEF Pass, Here, Covered, ReportsRows, history
  <2> QED BY <1>7, <1>16, <2>1 DEF Pass
<1>17. CASE Fetch
  <2>1. Here'
    <3>1. CASE rpc' = "check"
      <4>1. curl # Nil /\ to[curl] # Nil /\ row' = to[curl] /\ UNCHANGED history
        BY <1>17, <3>1 DEF Fetch, SearchInv, ReaderType
      <4> QED BY <1>4, <1>17, <3>1, <4>1 DEF Fetch, Here, Covered, ReportsRows, history
    <3>2. CASE rpc' # "check"
      BY <1>4, <1>17, <3>2 DEF Fetch, Here, ReportsRows, history
    <3> QED BY <3>1, <3>2
  <2> QED BY <1>7, <1>17, <2>1 DEF Fetch
<1>18. CASE Check
  <2>1. CASE Restart
    BY <1>8, <2>1 DEF Restart
  <2>2. CASE ~ Restart
    <3>1. Here'
      BY <1>4, <1>18, <2>2 DEF Check, Here, ReportsRows, history
    <3> QED BY <1>7, <1>18, <2>2, <3>1 DEF Check
  <2> QED BY <2>1, <2>2
<1>19. CASE Ended
  <2>1. Here'
    BY <1>4, <1>19 DEF Ended, Here, ReportsRows, history
  <2> QED BY <1>7, <1>19, <2>1 DEF Ended
<1>20. CASE Walk
  <2>1. CASE Restart
    BY <1>8, <2>1 DEF Restart
  <2>2. CASE ~ Restart
    <3>1. /\ UNCHANGED <<history, at, cand, curl, row>> /\ walk \in seen
          /\ matches' \in {matches, Append(matches, walk)} /\ walk' \in {walk, to[walk]}
          /\ rpc' \in {"overflow", "walk"} /\ rpc = "walk"
      BY <1>4, <1>20, <2>2 DEF Walk, Here
    <3>2. ReportsRows'
      <4>1. matches \in Seq(Rows)
        BY DEF SearchInv, ReaderType
      <4> QED BY <1>4, <3>1, <4>1 DEF Here, ReportsRows, history
    <3>3. Here'
      BY <1>4, <3>1, <3>2 DEF Here, Covered, history
    <3> QED BY <1>7, <3>1, <3>3
  <2> QED BY <2>1, <2>2
<1>21. CASE NextNode
  <2>1. Here'
    BY <1>4, <1>6, <1>21 DEF NextNode, Here, Covered, ReportsRows, history
  <2> QED BY <1>7, <1>21, <2>1 DEF NextNode
<1>22. CASE Close
  BY <1>8, <1>22 DEF Close
<1> QED
  BY <1>9, <1>10, <1>11, <1>12, <1>13, <1>14, <1>15, <1>16, <1>17, <1>18, <1>19, <1>20,
     <1>21, <1>22, <1>23
     DEF Reader

-----------------------------------------------------------------------------
(* Where the pointers lead.                                                *)

\* A walk still ends if cells that led to x pass it by.
LEMMA EndsOut ==
  ASSUME NEW C, NEW f, NEW g, NEW x \in C, Ends(f, C),
         \A c \in C : g[c] = f[c] \/ (f[c] = x /\ g[c] = f[x])
  PROVE  Ends(g, C)
<1> SUFFICES ASSUME NEW S \in (SUBSET C) \ {{}}, \A d \in S : g[d] \in S
             PROVE  FALSE
  BY DEF Ends
<1>1. CASE \A d \in S : g[d] = f[d]
  BY <1>1 DEF Ends
<1>2. CASE \E d \in S : f[d] = x /\ f[x] \in S
  <2>1. \A d \in S \cup {x} : f[d] \in S \cup {x}
    BY <1>2
  <2>2. S \cup {x} \in (SUBSET C) \ {{}}
    OBVIOUS
  <2> QED BY <2>1, <2>2 DEF Ends
<1> QED BY <1>1, <1>2

\* Or if x is put before what they led to, from where no walk leads to x.
LEMMA EndsIn ==
  ASSUME NEW C, NEW f, NEW g, NEW x, NEW D \in SUBSET C, Ends(f, C), Nil \notin C,
         x \notin D, \A d \in D : f[d] \in D \cup {Nil}, g[x] \in D \cup {Nil},
         \A c \in C \ {x} : g[c] = f[c] \/ (g[c] = x /\ f[c] = g[x])
  PROVE  Ends(g, C)
<1> SUFFICES ASSUME NEW S \in (SUBSET C) \ {{}}, \A d \in S : g[d] \in S
             PROVE  FALSE
  BY DEF Ends
<1>1. CASE x \in S
  <2>1. g[x] \in S \cap D
    BY <1>1
  <2>2. \A d \in S \cap D : f[d] \in S \cap D
    <3> SUFFICES ASSUME NEW d \in S \cap D PROVE f[d] \in S \cap D
      OBVIOUS
    <3>1. d # x /\ d \in C /\ f[d] \in D \cup {Nil}
      OBVIOUS
    <3>2. f[d] \in S
      BY <2>1, <3>1
    <3> QED BY <3>1, <3>2
  <2>3. S \cap D \in (SUBSET C) \ {{}}
    BY <2>1
  <2> QED BY <2>2, <2>3 DEF Ends
<1>2. CASE x \notin S
  <2>1. \A d \in S : f[d] = g[d]
    BY <1>2
  <2> QED BY <2>1 DEF Ends
<1> QED BY <1>1, <1>2

LEMMA RowsEnd ==
  ASSUME IndexInv, Ends(to, Rows), Master
  PROVE  Ends(to, Rows)'
<1> USE PointersAssumption
<1> USE DEF IndexInv, SharedType, CommandType, Cells
<1>1. CASE Unlink
  <2>1. target \in Rows /\ prev[target] \in Cells /\ to[prev[target]] = target
    BY <1>1 DEF Unlink, Stage, Lists, Linked
  <2>2. \A c \in Rows : to'[c] = to[c] \/ (to[c] = target /\ to'[c] = to[target])
    BY <1>1, <2>1 DEF Unlink
  <2> HIDE DEF IndexInv
  <2>3. Ends(to', Rows)
    BY <2>1, <2>2, EndsOut
  <2> QED BY <2>3 DEF Ends
<1>2. CASE InsertHead
  <2>1. PICK n \in InList : to' = [to EXCEPT ![target] = to[n]]
    BY <1>2 DEF InsertHead
  <2>2. target \in Rows /\ target \notin Linked /\ Linked \subseteq Rows /\ n \in Nodes
    BY <1>2 DEF InsertHead, Stage, Linked, InList
  <2>3. \A c \in Live : to[c] \in Linked \cup {Nil}
    BY <1>2 DEF InsertHead, Lists, Linked, Live, InList
  <2>4. to'[target] \in Linked \cup {Nil} /\ \A c \in Rows \ {target} : to'[c] = to[c]
    BY <2>1, <2>2, <2>3 DEF Live
  <2>5. \A d \in Linked : to[d] \in Linked \cup {Nil}
    BY <2>3 DEF Live
  <2> HIDE DEF IndexInv
  <2>6. Ends(to', Rows)
    BY <2>2, <2>4, <2>5, EndsIn
  <2> QED BY <2>6 DEF Ends
<1>3. CASE NewNode
  <2>1. target \in Rows /\ to'[target] = Nil /\ \A c \in Rows \ {target} : to'[c] = to[c]
    BY <1>3 DEF NewNode, Stage
  <2>2. Ends(to', Rows)
    BY <2>1, EndsIn
  <2> QED BY <2>2 DEF Ends
<1>4. CASE ~ (Unlink \/ InsertHead \/ NewNode)
  <2>1. \A c \in Rows : to'[c] = to[c]
    BY <1>4 DEF Master, Add, Set, Incr, Delete, Begin, PutBack, EraseLevel, LowerHeight, Clear,
                Store, Free, Link, Publish, Stage, InList
  <2> QED BY <2>1 DEF Ends
<1> QED BY <1>1, <1>2, <1>3, <1>4

LEMMA NodesEnd ==
  ASSUME IndexInv, Ends(Link0, Nodes), Master
  PROVE  Ends(Link0, Nodes)'
<1> USE PointersAssumption
<1> USE DEF IndexInv, SharedType, CommandType, Cells
<1>1. 0 \in Levels
  BY SizesAssumption DEF Levels
<1>2. \A n \in Nodes : Link0[n] = next[n][0] /\ Link0'[n] = next'[n][0]
  BY DEF Link0
<1>3. CASE EraseLevel
  <2>1. PICK p \in Places : next[p][level] = node /\ next' = [next EXCEPT ![p][level] = next[node][level]]
    BY <1>3 DEF EraseLevel, Leads
  <2>2. node \in Nodes
    BY <1>3 DEF EraseLevel, Stage, InList
  <2>3. \A n \in Nodes : \/ next'[n][0] = next[n][0]
                         \/ next[n][0] = node /\ next'[n][0] = next[node][0]
    BY <1>1, <2>1, <2>2 DEF Places
  <2>4. \A n \in Nodes : Link0'[n] = Link0[n] \/ (Link0[n] = node /\ Link0'[n] = Link0[node])
    BY <1>2, <2>2, <2>3
  <2>5. Ends(Link0', Nodes)
    BY <2>2, <2>4, EndsOut
  <2> QED BY <2>5 DEF Ends
<1>4. CASE NewNode
  <2>1. PICK n \in Nodes : next' = [next EXCEPT ![n] = [i \in Levels |-> Nil]]
    BY <1>4 DEF NewNode
  <2>2. Link0'[n] = Nil /\ \A m \in Nodes \ {n} : Link0'[m] = Link0[m]
    BY <1>1, <1>2, <2>1 DEF Places
  <2>3. Ends(Link0', Nodes)
    BY <2>2, EndsIn
  <2> QED BY <2>3 DEF Ends
<1>5. CASE Publish
  <2>1. PICK p \in Places : p \in OnLevel(level) /\ Fix(p, level, new)
                            /\ next' = [next EXCEPT ![node][level] = next[p][level], ![p][level] = node]
    BY <1>5 DEF Publish, Fix
  <2>2. node \in Nodes /\ node \in InList /\ target \in Rows
    BY <1>5 DEF Publish, Stage, InList
  <2>3. CASE level # 0
    <3>1. \A n \in Nodes : Link0'[n] = Link0[n]
      BY <1>1, <1>2, <2>1, <2>2, <2>3 DEF Places
    <3> QED BY <3>1 DEF Ends
  <2>4. CASE level = 0
    <3> DEFINE D == Chain(0) \ {Top}
    <3>1. p # node
      <4>1. Value(node) = new /\ val[target] = new /\ new \in Nat
        BY <1>5, <2>2, DataAssumption DEF Publish, Stage, Value
      <4> QED BY <2>1, <2>2, <4>1 DEF Fix
    <3>2. p \in Chain(0) /\ node \notin D
      BY <1>5, <2>1, <2>4, <3>1 DEF Publish, Chain
    <3>3. D \in SUBSET Nodes
      BY <1>1, ChainFacts
    <3>4. \A q \in Chain(0) : next[q][0] \in D \cup {Nil}
      <4> SUFFICES ASSUME NEW q \in Chain(0) PROVE next[q][0] \in D \cup {Nil}
        OBVIOUS
      <4>1. q \in Places
        BY <1>1, ChainFacts DEF Places
      <4>2. Level(0)[q] \in Chain(0) \cup {Nil}
        BY <1>1 DEF Chains, Sorted
      <4>3. next[q][0] \in Nodes \cup {Nil}
        BY <1>1, <4>1
      <4> QED BY <4>1, <4>2, <4>3 DEF Level
    <3>5. \A n \in Nodes \ {node} : \/ next'[n][0] = next[n][0]
                                    \/ next'[n][0] = node /\ next[n][0] = next'[node][0]
      BY <1>1, <2>1, <2>2, <2>4, <3>1 DEF Places
    <3>6. next'[node][0] = next[p][0]
      BY <1>1, <2>1, <2>2, <2>4, <3>1 DEF Places
    <3>7. Link0'[node] \in D \cup {Nil} /\ \A d \in D : Link0[d] \in D \cup {Nil}
      BY <1>2, <2>2, <3>2, <3>3, <3>4, <3>6
    <3>8. \A n \in Nodes \ {node} : \/ Link0'[n] = Link0[n]
                                    \/ Link0'[n] = node /\ Link0[n] = Link0'[node]
      BY <1>2, <2>2, <3>5
    <3> HIDE DEF D
    <3>9. Ends(Link0', Nodes)
      BY <3>2, <3>3, <3>7, <3>8, EndsIn
    <3> QED BY <3>9 DEF Ends
  <2> QED BY <2>3, <2>4
<1>6. CASE ~ (EraseLevel \/ NewNode \/ Publish)
  <2>1. next' = next
    BY <1>6 DEF Master, Add, Set, Incr, Delete, Begin, Unlink, PutBack, LowerHeight, Clear, Store,
                Free, InsertHead, Link
  <2> QED BY <2>1 DEF Link0, Ends
<1> QED BY <1>3, <1>4, <1>5, <1>6

\* A walk along a level comes by each of its nodes.
LEMMA LevelReaches ==
  ASSUME NEW C, NEW f, NEW L, NEW S, Sorted(C, f, L), Nil \notin C,
         \A n \in C : n # Top => L[n] \in Nat,
         f[Top] \in S, \A d \in S : f[d] \in S \cup {Nil}
  PROVE  C \ {Top} \subseteq S
<1> DEFINE B == (C \ {Top}) \ S
<1> SUFFICES ASSUME B # {}
             PROVE  FALSE
  OBVIOUS
<1>1. \A b \in B : L[b] \in Nat
  OBVIOUS
<1>2. PICK q \in B : \A b \in B : L[q] <= L[b]
  <2> HIDE DEF B
  <2> QED BY <1>1, LeastElement
<1>3. q \in C /\ q # Top /\ q \notin S /\ q # Nil
  OBVIOUS
<1>4. PICK p \in C : f[p] = q
  BY <1>3 DEF Sorted
<1>5. p # Top
  BY <1>3, <1>4
<1>6. L[p] < L[q]
  BY <1>3, <1>4, <1>5 DEF Sorted, Before
<1>7. p \in S
  BY <1>2, <1>3, <1>5, <1>6
<1> QED BY <1>3, <1>4, <1>7

\* A walk along the list of a node comes by each of its rows.
LEMMA ListReaches ==
  ASSUME IndexInv, NEW r \in Linked, ~ (pc = "link" /\ r = target), NEW S \in SUBSET Rows,
         to[head[r]] \in S, \A d \in S : to[d] \in S \cup {Nil}
  PROVE  r \in S
<1> USE PointersAssumption
<1> DEFINE B == {s \in Linked : head[s] = head[r] /\ s \notin S /\ ~ (pc = "link" /\ s = target)}
           age == [s \in Rows |-> cycle - born[s]]
<1> SUFFICES ASSUME B # {}
             PROVE  FALSE
  OBVIOUS
<1>1. \A b \in B : age[b] \in Nat
  BY DEF IndexInv, SharedType, CommandType, Ranks, Linked
<1>2. PICK s \in B : \A b \in B : age[s] <= age[b]
  <2> HIDE DEF B, age
  <2> QED BY <1>1, LeastElement
<1>3. /\ s \in Linked /\ s \in Rows /\ head[s] = head[r] /\ s \notin S /\ s # Nil
      /\ prev[s] \in Live /\ to[prev[s]] = s
  BY DEF IndexInv, Lists, Linked, Cells
<1>4. prev[s] # head[r]
  BY <1>3
<1>5. /\ prev[s] \in Linked /\ prev[s] \in Rows /\ head[prev[s]] = head[r]
      /\ born[s] < born[prev[s]]
  BY <1>3, <1>4 DEF IndexInv, Lists, Ranks, Live, Linked, InList
<1>6. prev[s] \notin S
  BY <1>3
<1>7. age[prev[s]] < age[s]
  BY <1>3, <1>5 DEF IndexInv, SharedType, CommandType
<1>8. prev[s] \notin B
  BY <1>1, <1>2, <1>7
<1>9. pc = "link" /\ prev[s] = target
  BY <1>5, <1>6, <1>8
<1>10. to[target] = to[node] /\ head[target] = node
  BY <1>9 DEF IndexInv, Stage
<1> QED BY <1>3, <1>5, <1>9, <1>10

LEMMA WholeIndex == IndexInv => IndexIsWhole
<1> SUFFICES ASSUME IndexInv, NEW r \in Listed \ {target}
             PROVE  /\ next[Top][0] # Nil /\ ComesBy(head[r], next[Top][0], Link0, Nodes)
                    /\ to[head[r]] # Nil /\ ComesBy(r, to[head[r]], to, Rows)
  BY DEF IndexIsWhole
<1> USE PointersAssumption
<1>1. r \in Linked /\ r \in Rows /\ head[r] \in InList /\ head[r] \in Nodes
  BY DEF IndexInv, Lists, Linked, Listed, InList
<1>2. to[head[r]] # Nil
  BY <1>1 DEF IndexInv, Ranks
<1>3. pc = "publish" => head[r] # node
  <2> SUFFICES ASSUME pc = "publish", head[r] = node
               PROVE  FALSE
    OBVIOUS
  <2>1. /\ target \in Rows /\ prev[target] = node /\ head[target] = node
        /\ to[node] = target /\ to[target] = Nil
    BY DEF IndexInv, Stage
  <2>2. node # Nil /\ target \in Linked
    BY <1>1, <2>1 DEF Linked, Cells
  <2>3. born[r] \in Nat /\ born[target] \in Nat /\ born[r] <= born[target] /\ born[r] # born[target]
    BY <1>1, <2>1, <2>2 DEF IndexInv, CommandType, Ranks
  <2> QED BY <1>1, <2>1, <2>2, <2>3 DEF IndexInv, Ranks
<1>4. pc \in {"erase", "clear"} => head[r] # node
  BY <1>1 DEF IndexInv, Stage, Ranks
<1>5. 0 \in Levels
  BY SizesAssumption DEF Levels
<1>6. head[r] \in Chain(0) /\ head[r] # Top
  <2>1. tall[head[r]] > 0
    BY <1>1 DEF InList
  <2> QED BY <1>1, <1>3, <1>4, <2>1 DEF Chain, OnLevel, Cells
<1>7. Sorted(Chain(0), Level(0), Label)
  BY <1>5 DEF IndexInv, Chains
<1>8. next[Top][0] # Nil
  BY <1>5, <1>6, <1>7, ChainFacts DEF Sorted, Before, Level, Places
<1>9. ASSUME NEW S \in SUBSET Nodes, next[Top][0] \in S, \A d \in S : Link0[d] \in S \cup {Nil}
      PROVE  head[r] \in S
  <2>1. Level(0)[Top] \in S /\ \A d \in S : Level(0)[d] \in S \cup {Nil}
    BY <1>9 DEF Link0, Level, Places
  <2>2. Nil \notin Chain(0) /\ \A n \in Chain(0) : n # Top => Label[n] \in Nat
    BY <1>5, ChainFacts
  <2>3. Chain(0) \ {Top} \subseteq S
    BY <1>7, <2>1, <2>2, LevelReaches
  <2> QED BY <1>6, <2>3
<1>10. ASSUME NEW S \in SUBSET Rows, to[head[r]] \in S, \A d \in S : to[d] \in S \cup {Nil}
       PROVE  r \in S
  BY <1>1, <1>10, ListReaches
<1> QED BY <1>2, <1>8, <1>9, <1>10 DEF ComesBy

-----------------------------------------------------------------------------
(* What a search finds while no row is moved.                              *)

\* The rows of the table: those in the index, and the one in hand.
InTable == Linked \cup ({target} \ {Nil})
Counted == IsFiniteSet(InTable) /\ Cardinality(InTable) = count

\* Only a change stores a value, and a node that is erased still leads on.
Onward ==
  /\ pc = "store" => op \in Changes
  /\ pc \in {"erase", "clear"} /\ next[node][0] # Nil => Label[node] < Label[next[node][0]]

\* No row was moved since the search began, none was added either, or there were only
\* deletions of rows that share their value and additions on one level.
Calm  == Observing /\ "move" \notin met
Still == Observing /\ met \cap {"add", "move"} = {}
Quiet == Observing /\ met \subseteq {"add"}

\* The rows seen, and the one that will be put back.
Known == seen \cup (IF pc = "empty" THEN {target} ELSE {})

\* The rows listed, and the one that will be put back.
Held == Listed \cup (IF pc = "empty" THEN {target} ELSE {})

\* Rows have the node and the value they had when they were first seen, and the
\* pointers lead on in the order of the nodes, and in a list to older rows.
Placed ==
  /\ \A r \in Known : head[r] \in seenNodes
  /\ \A r, q \in Known : head[r] = head[q] => val[r] = val[q]
  /\ \A r \in Known : to[r] # Nil => head[to[r]] = head[r] /\ born[to[r]] < born[r]
  /\ \A n \in seenNodes : to[n] # Nil => head[to[n]] = n
  /\ \A r, q \in Known : next[head[r]][0] = head[q] => val[r] < val[q]
  /\ op = "add" /\ pc = "insert" => target \notin seen

\* The rows that stay are in their lists, and unlinked rows too lead to them.
Stays ==
  /\ stay \subseteq (Linked \cap Others \cap seen) \ {target}
  /\ \A r \in stay : Matching(val[r], search)
  /\ \A r \in stay, w \in Known : head[r] = head[w] /\ born[r] < born[w] =>
       to[w] # Nil /\ born[r] <= born[to[w]]

\* Before the first node nothing is found.
Starting ==
  rpc \in {"idle", "lock", "enter", "start", "locate", "compare", "arrive", "skip", "pass"} =>
    matches = <<>> /\ steps = 0

\* The search has come to where it is in the order of the rows.
Found  == {matches[i] : i \in 1 .. Len(matches)}
Rising ==
  /\ \A i, j \in 1 .. Len(matches) : i < j =>
       matches[i] # matches[j] /\ val[matches[i]] <= val[matches[j]]
  /\ rpc = "fetch" => \A m \in Found, q \in Known : head[q] = curl => val[m] < val[q]
  /\ rpc \in {"check", "ended", "walk"} => head[row] = curl
  /\ rpc \in {"check", "ended"} => \A m \in Found : val[m] < val[row]
  /\ rpc = "walk" =>
       /\ walk # Nil => head[walk] = curl
       /\ \A m \in Found : \/ val[m] < val[row]
                           \/ val[m] = val[row] /\ (walk # Nil => born[walk] < born[m])

\* The rows of the nodes it has passed: at least as many as nodes.
Passed == {r \in seen : \A q \in Known : head[q] = curl => val[r] < val[q]}
Lower  == {r \in seen : val[r] < val[row]}
Enough ==
  /\ IsFiniteSet(seen \cup InTable) /\ Cardinality(seen \cup InTable) <= size
  /\ rpc = "fetch" => steps <= Cardinality(Passed)
  /\ rpc \in {"check", "ended", "walk"} => steps <= Cardinality(Lower)

\* The rows it still has to find are ahead of it, and none before it matches.
Ahead(n) == \A r \in stay \ Found : n # Nil /\ Value(n) <= val[r]
Begun(n) ==
  n # Nil =>
    /\ search.op \in {"ge", "range"} => Value(n) >= search.row1
    /\ search.op = "gt" => Value(n) > search.row1
    /\ search.op = "eq" =>
         Value(n) >= search.row1 \/ \A q \in Linked : head[q] = n => stamp[q] > since
Below(q, n) == n # Top /\ val[q] <= Value(n)

Exact ==
  /\ seenNodes \subseteq InList /\ \A r, q \in seen : born[r] = born[q] => r = q
  /\ \A n \in {at, cand, curl} \cap Nodes : ~ (pc = "publish" /\ n = node)
  /\ op = "add" /\ rpc \in Walking \ {"enter"} => stamp[target] > since
  /\ \A m \in Found : Matching(val[m], search)
  /\ rpc \in {"locate", "compare", "arrive"} =>
       ~ FromReset(search) /\ (at # Top => Value(at) < search.row1)
  /\ rpc = "compare" /\ lev = 0 =>
       \A q \in Linked : Below(q, at) \/ val[q] >= Value(cand) \/ stamp[q] > since
  /\ rpc = "arrive" =>
       \A q \in Linked : Below(q, at) \/ val[q] >= search.row1 \/ stamp[q] > since
  /\ rpc \in {"skip", "pass", "fetch"} => Ahead(curl)
  /\ rpc = "skip" => ~ FromReset(search) /\ (search.op = "eq" => Begun(curl))
  /\ rpc = "pass" => search.op = "gt"
  /\ rpc = "fetch" => Begun(curl)
  /\ rpc \in {"check", "ended"} => \A r \in stay \ Found :
       val[row] <= val[r] /\ (head[r] = curl => born[r] <= born[row])
  /\ rpc = "check" => PastEnd(val[row], search) \/ Matching(val[row], search) \/ stamp[row] > since
  /\ rpc \in {"ended", "walk"} => PastEnd(val[row], search) \/ Matching(val[row], search)
  /\ rpc = "walk" => Matching(val[row], search) /\ \A r \in stay \ Found :
       val[row] < val[r] \/ (head[r] = curl /\ walk # Nil /\ born[r] <= born[walk])
  /\ rpc = "done" => stay \subseteq Found

MarchInv ==
  /\ Counted /\ Onward /\ Starting /\ since <= cycle
  /\ Calm => Placed /\ Stays /\ Rising
  /\ Still => Enough
  /\ Quiet => Exact
  /\ FailsForAReason

\* The count is that of the rows of the table.
LEMMA CountedKept ==
  ASSUME IndexInv, IndexInv', Counted, Master
  PROVE  Counted' /\ cycle <= cycle'
<1> USE PointersAssumption
<1> USE DEF IndexInv, SharedType, CommandType, Cells
<1>1. ASSUME InTable' = InTable, count' = count, cycle <= cycle'
      PROVE  Counted' /\ cycle <= cycle'
  BY <1>1 DEF Counted
<1>2. ASSUME NEW r \in Rows, NEW v \in Values, Add(r, v)
      PROVE  Counted' /\ cycle <= cycle'
  <2>1. r \notin InTable /\ InTable' = InTable \cup {r} /\ count' = count + 1 /\ cycle <= cycle'
    BY <1>2 DEF Add, Begin, InTable, Linked, Listed, Stage
  <2>2. Cardinality(InTable \cup {r}) = Cardinality(InTable) + 1 /\ IsFiniteSet(InTable \cup {r})
    BY <2>1, FS_AddElement DEF Counted
  <2> QED BY <2>1, <2>2 DEF Counted
<1>3. ASSUME NEW r \in Rows, NEW v \in Values, Set(r, v) \/ Incr(r, v)
      PROVE  Counted' /\ cycle <= cycle'
  BY <1>1, <1>3 DEF Set, Incr, Begin, InTable, Linked, Listed, Stage
<1>4. ASSUME NEW r \in Rows, Delete(r)
      PROVE  Counted' /\ cycle <= cycle'
  BY <1>1, <1>4 DEF Delete, Begin, InTable, Linked, Listed, Stage
<1>5. CASE Unlink
  <2>1. prev[target] # Nil /\ target \in Rows
    BY <1>5 DEF Unlink, Removed, Stage
  <2>2. InTable' = InTable
    BY <1>5, <2>1 DEF Unlink, Stage, InTable, Linked, Lists, Live
  <2> QED BY <1>1, <1>5, <2>1, <2>2 DEF Unlink
<1>6. CASE PutBack \/ EraseLevel \/ LowerHeight \/ Clear \/ Store
  <2>1. InTable' = InTable
    BY <1>6 DEF PutBack, EraseLevel, LowerHeight, Clear, Store, InTable, Linked
  <2>2. count' = count /\ cycle' = cycle
    BY <1>6 DEF PutBack, EraseLevel, LowerHeight, Clear, Store
  <2> QED BY <1>1, <2>1, <2>2
<1>7. CASE Free
  <2>1. target \in InTable /\ InTable' = InTable \ {target} /\ count' = count - 1 /\ cycle <= cycle'
    BY <1>7 DEF Free, Return, InTable, Linked, Stage
  <2>2. Cardinality(InTable \ {target}) = Cardinality(InTable) - 1 /\ IsFiniteSet(InTable \ {target})
    BY <2>1, FS_RemoveElement DEF Counted
  <2> QED BY <2>1, <2>2 DEF Counted
<1>8. CASE InsertHead
  <2>1. target \in Rows /\ target # Nil
    BY <1>8 DEF InsertHead, Stage
  <2>2. InTable' = InTable
    <3>1. PICK n \in InList : to[n] # Nil /\ prev' = [prev EXCEPT ![target] = n, ![to[n]] = target]
      BY <1>8 DEF InsertHead, Lists
    <3>2. n \in Nodes /\ to[n] \in Linked /\ target' = target
      BY <1>8, <3>1 DEF InsertHead, InList, Lists, Live, Linked, Stage
    <3> QED BY <2>1, <3>1, <3>2 DEF InTable, Linked
  <2> QED BY <1>1, <1>8, <2>2 DEF InsertHead
<1>9. CASE NewNode
  <2>1. target \in Rows /\ target # Nil
    BY <1>9 DEF NewNode, Stage
  <2>2. PICK n \in Nodes : prev' = [prev EXCEPT ![target] = n]
    BY <1>9 DEF NewNode
  <2>3. InTable' = InTable
    BY <1>9, <2>1, <2>2 DEF NewNode, InTable, Linked
  <2> QED BY <1>1, <1>9, <2>3 DEF NewNode
<1>10. CASE Link \/ Publish
  <2>1. target \in Rows /\ target \in Linked /\ prev' = prev /\ target' \in {target, Nil}
    BY <1>10 DEF Link, Publish, Return, Stage, Linked, InList
  <2>2. InTable' = InTable
    BY <2>1 DEF InTable, Linked
  <2> QED BY <1>1, <1>10, <2>2 DEF Link, Publish, Return
<1> QED BY <1>2, <1>3, <1>4, <1>5, <1>6, <1>7, <1>8, <1>9, <1>10 DEF Master

\* A step of the master by which no row is moved: what was seen stays as it was.
LEMMA CalmStep ==
  ASSUME IndexInv, IndexInv', SearchInv, SearchInv', Onward, Calm => Placed, Master, Calm'
  PROVE  /\ Calm /\ Placed /\ Covered /\ Covered' /\ Observing
         /\ op \notin Changes /\ op' \notin Changes /\ pc # "store"
         /\ UNCHANGED reader /\ seen' = seen \cup Listed' /\ seenNodes' = seenNodes \cup InList'
         /\ stay' = stay \ {target'} /\ met' = met \cup Doing' /\ Doing \subseteq met
         /\ Known \subseteq Rows /\ Known \subseteq Known' /\ Known' \subseteq Rows
         /\ Known' \subseteq Known \cup (IF pc = "insert" THEN {target} ELSE {})
         /\ \A r \in Known : val'[r] = val[r] /\ head'[r] = head[r] /\ born'[r] = born[r] /\ stamp'[r] = stamp[r]
<1> USE PointersAssumption
<1>1. UNCHANGED reader /\ Observe
  BY MasterMoves
<1>2. Observing /\ Observing'
  BY <1>1 DEF Calm, Observing, reader
<1>3. /\ seen' = seen \cup Listed' /\ seenNodes' = seenNodes \cup InList'
      /\ stay' = stay \ {target'} /\ met' = met \cup Doing'
  BY <1>1, <1>2 DEF Observe
<1>4. Covered /\ Covered'
  BY <1>2 DEF SearchInv, Sighted
<1>5. op \notin Changes /\ op' \notin Changes /\ Calm /\ Doing \subseteq met
  BY <1>2, <1>3, <1>4 DEF Calm, Covered, Doing
<1>6. pc # "store" /\ Placed
  BY <1>5 DEF Onward
<1>7. seen \subseteq Rows /\ seen' \subseteq Rows /\ (pc = "empty" => target \in Rows) /\ (pc' = "empty" => target' \in Rows)
  BY DEF SearchInv, HistoryType, IndexInv, Stage
<1> DEFINE P == /\ Known \subseteq Known'
                /\ Known' \subseteq Known \cup (IF pc = "insert" THEN {target} ELSE {})
                /\ \A r \in Known : val'[r] = val[r] /\ head'[r] = head[r] /\ born'[r] = born[r] /\ stamp'[r] = stamp[r]
<1>15. Known \subseteq Rows /\ Known' \subseteq Rows
  BY <1>7 DEF Known
<1> SUFFICES P
  BY <1>2, <1>1, <1>3, <1>4, <1>5, <1>6, <1>15
<1>16. ASSUME UNCHANGED <<head, val, born, stamp>>, Known' = Known
      PROVE  P
  BY <1>16
<1> USE DEF IndexInv, SharedType, CommandType
<1>8. ASSUME NEW r \in Rows, NEW v \in Values, Add(r, v) \/ Set(r, v) \/ Incr(r, v)
      PROVE  P
  <2>1. Add(r, v)
    BY <1>5, <1>8 DEF Set, Incr, Begin, Changes
  <2>2. Listed' = Listed /\ r \notin seen /\ pc = "idle"
    BY <2>1 DEF Add, Begin, Listed
  <2> QED BY <1>3, <1>4, <1>7, <2>1, <2>2 DEF Add, Begin, Covered, Known
<1>9. ASSUME NEW r \in Rows, Delete(r)
      PROVE  P
  BY <1>3, <1>4, <1>9 DEF Delete, Begin, Covered, Listed, Known
<1>10. CASE Unlink
  <2>1. Listed' \subseteq Listed /\ target \in Listed
    BY <1>10 DEF Unlink, Removed, Stage, Lists, Live, Linked, Listed, Cells
  <2>2. UNCHANGED <<head, val, born, stamp>> /\ pc = "unlink" /\ target' = target
    BY <1>10 DEF Unlink
  <2>3. seen' = seen /\ target \in seen
    BY <1>3, <1>4, <2>1 DEF Covered
  <2>4. Known = seen
    BY <2>2 DEF Known
  <2>5. Known' = seen
    BY <2>2, <2>3 DEF Known
  <2> QED BY <1>16, <2>2, <2>4, <2>5
<1>11. CASE PutBack
  <2>1. UNCHANGED <<head, val, born, stamp>> /\ pc = "empty" /\ pc' = "erase" /\ Listed' = Listed \cup {target}
    BY <1>11 DEF PutBack, Listed
  <2>2. seen' = seen \cup {target}
    BY <1>3, <1>4, <2>1 DEF Covered
  <2>3. Known' = Known
    BY <2>1, <2>2 DEF Known
  <2> QED BY <1>16, <2>1, <2>3
<1>12. CASE EraseLevel \/ LowerHeight \/ Clear \/ Free \/ Link \/ Publish
  <2>1. UNCHANGED <<head, val, born, stamp>> /\ pc # "empty" /\ pc' # "empty" /\ Listed' \subseteq Listed
    BY <1>12 DEF EraseLevel, LowerHeight, Clear, Removed, Free, Return, Link, Publish, Listed
  <2>2. seen' = seen
    BY <1>3, <1>4, <2>1 DEF Covered
  <2>3. Known' = Known
    BY <2>1, <2>2 DEF Known
  <2> QED BY <1>16, <2>1, <2>3
<1>13. CASE InsertHead \/ NewNode
  <2>1. op = "add" /\ pc = "insert" /\ target \notin seen /\ target \in Rows
    BY <1>5, <1>6, <1>13 DEF InsertHead, NewNode, Stage, Placed
  <2>2. /\ \A r \in Rows : r # target => head'[r] = head[r] /\ born'[r] = born[r]
        /\ val' = val /\ stamp' = stamp /\ pc' # "empty"
    BY <1>13 DEF InsertHead, NewNode
  <2>3. Listed' \subseteq Listed \cup {target}
    <3>1. \A r \in Rows : prev'[r] # Nil => prev[r] # Nil \/ r = target
      <4>1. CASE NewNode
        BY <4>1 DEF NewNode
      <4>2. CASE InsertHead
        <5>1. PICK n \in InList : to[n] # Nil /\ prev' = [prev EXCEPT ![target] = n, ![to[n]] = target]
          BY <4>2 DEF InsertHead, Lists
        <5>2. n \in Nodes /\ prev[to[n]] # Nil
          BY <4>2, <5>1 DEF InsertHead, InList, Lists, Live, Stage, Cells
        <5> QED BY <5>1, <5>2
      <4> QED BY <1>13, <4>1, <4>2
    <3> QED BY <1>13, <3>1 DEF InsertHead, NewNode, Listed
  <2>4. seen' \subseteq seen \cup {target} /\ seen \subseteq seen'
    BY <1>3, <1>4, <2>3 DEF Covered
  <2>5. \A r \in seen : r \in Rows /\ r # target
    BY <1>7, <2>1
  <2>6. Known = seen /\ Known' = seen'
    BY <2>1, <2>2 DEF Known
  <2> HIDE DEF IndexInv, SharedType, CommandType
  <2>7. \A r \in Known : val'[r] = val[r] /\ head'[r] = head[r] /\ born'[r] = born[r] /\ stamp'[r] = stamp[r]
    BY <2>2, <2>5, <2>6
  <2> QED BY <2>1, <2>4, <2>6, <2>7
<1>14. CASE Store
  BY <1>6, <1>14 DEF Store
<1> QED BY <1>8, <1>9, <1>10, <1>11, <1>12, <1>13, <1>14 DEF Master

\* A node that is not yet published is not led to on the lowest level.
LEMMA NotLed ==
  ASSUME IndexInv, pc = "publish", NEW p \in InList \cup {Top}
  PROVE  next[p][0] # node
<1> USE PointersAssumption, SizesAssumption DEF Cells
<1>1. 0 \in Levels /\ node \in InList /\ 0 <= level /\ level \in Levels /\ node # Nil /\ node # Top
  BY DEF IndexInv, CommandType, Stage, Levels, InList
<1>2. CASE p = node
  BY <1>1, <1>2 DEF IndexInv, Chains
<1>3. CASE p # node
  <2>1. p \in OnLevel(0) /\ p \in Places
    BY DEF OnLevel, InList, Places
  <2>2. p \in Chain(0) /\ node \notin Chain(0)
    BY <1>1, <1>3, <2>1 DEF Chain
  <2>3. Sorted(Chain(0), Level(0), Label)
    BY <1>1 DEF IndexInv, Chains
  <2>4. next[p][0] = Nil \/ (next[p][0] \in Chain(0) /\ next[p][0] # Top)
    BY <2>1, <2>2, <2>3 DEF Sorted, Before, Level
  <2> QED BY <1>1, <2>2, <2>4
<1> QED BY <1>2, <1>3

\* A node that leads on in the chain leads to one of a greater value.
LEMMA ChainRises ==
  ASSUME IndexInv, NEW n \in InList, n \in Chain(0), next[n][0] # Nil
  PROVE  next[n][0] \in InList /\ next[n][0] \in Chain(0) /\ Label[n] < Label[next[n][0]]
<1> USE PointersAssumption, SizesAssumption
<1>1. 0 \in Levels
  BY DEF Levels
<1>2. n \in Places /\ n # Top
  BY DEF InList, Places, Cells
<1>3. Sorted(Chain(0), Level(0), Label)
  BY <1>1 DEF IndexInv, Chains
<1>4. next[n][0] \in Chain(0) /\ next[n][0] # Top /\ Label[n] < Label[next[n][0]]
  BY <1>2, <1>3 DEF Sorted, Before, Level
<1> QED BY <1>1, <1>4, ChainFacts

LEMMA OnwardKept ==
  ASSUME IndexInv, IndexInv', Onward, Master
  PROVE  Onward'
<1> USE PointersAssumption, SizesAssumption
<1>1. pc' = "store" => op' \in Changes
  <2> USE DEF Onward
  <2>1. CASE \E r \in Rows, v \in Values : Add(r, v) \/ Set(r, v) \/ Incr(r, v) \/ Delete(r)
    BY <2>1 DEF Add, Set, Incr, Delete, Begin
  <2>2. CASE Unlink \/ PutBack \/ EraseLevel \/ LowerHeight \/ Clear \/ Store
    BY <2>2 DEF Unlink, PutBack, EraseLevel, LowerHeight, Clear, Store, Removed, IndexInv, Stage
  <2>3. CASE Free \/ InsertHead \/ Link \/ NewNode \/ Publish
    BY <2>3 DEF Free, InsertHead, Link, NewNode, Publish, Return, IndexInv, Stage
  <2> QED BY <2>1, <2>2, <2>3, DataAssumption DEF Master
<1>2. SUFFICES ASSUME pc' \in {"erase", "clear"}, next'[node'][0] # Nil
               PROVE  Label'[node'] < Label'[next'[node'][0]]
  BY <1>1 DEF Onward
<1>3. PutBack \/ EraseLevel \/ LowerHeight
  <2>1. ~ \E r \in Rows, v \in Values : Add(r, v) \/ Set(r, v) \/ Incr(r, v) \/ Delete(r)
    BY <1>2 DEF Add, Set, Incr, Delete, Begin
  <2>2. ~ (Unlink \/ Clear \/ Store)
    BY <1>2 DEF Unlink, Clear, Store, Removed
  <2>3. ~ (Free \/ InsertHead \/ Link \/ NewNode \/ Publish)
    BY <1>2 DEF Free, InsertHead, Link, NewNode, Publish, Return, IndexInv, Stage
  <2> QED BY <2>1, <2>2, <2>3, DataAssumption DEF Master
\* It stays what it leads to, and no node stands for another value.
<1>4. InList' = InList
  BY <1>3 DEF PutBack, EraseLevel, LowerHeight, InList
<1>5. \A n \in InList : Label'[n] = Label[n]
  BY <1>3 DEF PutBack, EraseLevel, LowerHeight, Label, InList, IndexInv, SharedType, Stage, Cells
<1>6. /\ pc \in {"empty", "erase"} /\ node' \in InList
      /\ pc = "empty" => node' = head[target] /\ next' = next
      /\ pc = "erase" => node' = node
  BY <1>3, <1>2 DEF PutBack, EraseLevel, LowerHeight, IndexInv, Stage
<1>7. next'[node'][0] = next[node'][0]
  <2>1. CASE PutBack \/ LowerHeight
    BY <2>1 DEF PutBack, LowerHeight
  <2>2. CASE EraseLevel
    <3>1. PICK p \in Places : Leads(p) /\ next' = [next EXCEPT ![p][level] = next[node][level]]
      BY <2>2 DEF EraseLevel
    <3>2. p # node
      <4>1. Sorted(Chain(level), Level(level), Label) /\ p \in OnLevel(level) /\ level \in Levels
        BY <3>1 DEF Leads, Fix, IndexInv, CommandType, Chains
      <4>2. p \in Chain(level) /\ Level(level)[p] = node /\ node # Nil /\ node \in InList
        BY <2>2, <3>1, <4>1 DEF Chain, Level, Leads, EraseLevel, IndexInv, CommandType, Levels, Stage, InList, Cells
      <4> QED BY <4>1, <4>2, ChainFacts DEF Sorted, Before
    <3> QED BY <1>6, <2>2, <3>1, <3>2 DEF EraseLevel, InList, IndexInv, SharedType, Places
  <2> QED BY <1>3, <2>1, <2>2
<1>8. Label[node'] < Label[next[node'][0]] /\ next[node'][0] \in InList
  <2>1. next[node'][0] # Nil /\ 0 \in Levels /\ level \in Nat
    BY <1>2, <1>7 DEF Levels, IndexInv, CommandType
  <2>2. next[node'][0] \in InList
    BY <1>6, <2>1 DEF IndexInv, Chains
  <2>3. CASE pc = "empty" \/ level = 0
    <3>1. node' \in Chain(0)
      BY <1>6, <2>1, <2>3 DEF Chain, OnLevel, InList
    <3> QED BY <1>6, <2>1, <3>1, ChainRises
  <2>4. CASE pc = "erase" /\ level # 0
    BY <1>6, <2>1, <2>2, <2>4 DEF Onward
  <2> QED BY <1>6, <2>2, <2>3, <2>4
<1> QED BY <1>4, <1>5, <1>6, <1>7, <1>8

\* A node stands for the value of all its rows.
LEMMA LabelIs ==
  ASSUME IndexInv, NEW r, r \in Linked \/ (pc \in {"empty", "erase", "clear"} /\ r = target)
  PROVE  r \in Rows /\ head[r] \in InList /\ head[r] \in Nodes /\ val[r] = Label[head[r]]
<1> USE PointersAssumption DEF Cells
<1>1. CASE pc \in {"empty", "erase", "clear"} /\ r = target
  BY <1>1 DEF IndexInv, Stage, Label, InList
<1>2. CASE r \in Linked
  <2>1. \A s \in Linked : s \in Rows /\ head[s] \in InList /\ head[s] \in Nodes
    BY DEF IndexInv, Lists, Linked, InList
  <2> DEFINE B == {s \in Linked : val[s] # Label[head[s]]}
             age == [s \in Rows |-> cycle - born[s]]
  <2>2. SUFFICES ASSUME B # {} PROVE FALSE
    BY <1>2, <2>1
  <2>3. \A b \in B : age[b] \in Nat
    BY DEF IndexInv, SharedType, CommandType, Ranks, Linked
  <2>4. PICK s \in B : \A b \in B : age[s] <= age[b]
    <3> HIDE DEF B, age
    <3> QED BY <2>2, <2>3, LeastElement
  <2>5. /\ s \in Linked /\ s \in Rows /\ prev[s] \in Live
        /\ to[prev[s]] = s \/ (pc = "link" /\ s = target)
    BY DEF IndexInv, Lists, Linked
  <2>6. CASE prev[s] \in Rows
    <3>1. prev[s] \in Linked /\ head[prev[s]] = head[s] /\ val[prev[s]] = val[s] /\ born[s] < born[prev[s]]
      BY <2>5, <2>6 DEF IndexInv, Lists, Ranks, Live, InList
    <3>2. age[prev[s]] < age[s]
      BY <2>5, <3>1 DEF IndexInv, SharedType, CommandType, Linked
    <3>3. prev[s] \in B
      BY <3>1, <2>4
    <3> QED BY <2>3, <2>4, <3>2, <3>3
  <2>7. CASE prev[s] \notin Rows
    <3>1. prev[s] = head[s] /\ prev[s] \in InList
      BY <2>5, <2>7 DEF IndexInv, Lists, Live, Linked, InList
    <3>2. CASE to[prev[s]] = s
      BY <2>4, <2>5, <3>1, <3>2 DEF Label, InList
    <3>3. CASE pc = "link" /\ s = target
      <4>1. head[s] = node /\ to[s] = to[node] /\ to[node] # Nil /\ node \in InList /\ s # node
        BY <2>5, <3>3 DEF IndexInv, Stage, InList
      <4>2. prev[to[s]] = s /\ to[s] \in Rows
        BY <2>5, <3>3, <4>1 DEF IndexInv, SharedType, Lists, Live, Linked, InList
      <4>3. val[s] = val[to[s]]
        BY <2>5, <4>2 DEF IndexInv, Lists, Linked
      <4> QED BY <2>4, <4>1, <4>3 DEF Label, InList
    <3> QED BY <2>5, <3>2, <3>3
  <2> QED BY <2>6, <2>7
<1> QED BY <1>1, <1>2

\* A node leads to one of a greater value.
LEMMA NextIsHigher ==
  ASSUME IndexInv, Onward, NEW n \in InList, next[n][0] # Nil
  PROVE  next[n][0] \in InList /\ Label[n] < Label[next[n][0]]
<1> USE PointersAssumption, SizesAssumption
<1>1. 0 \in Levels /\ level \in Nat
  BY DEF Levels, IndexInv, CommandType
<1>2. next[n][0] \in InList
  BY <1>1 DEF IndexInv, Chains
<1>3. CASE n \in Chain(0)
  BY <1>3, ChainRises
<1>4. CASE n \notin Chain(0)
  <2>1. n = node /\ pc \in {"publish", "erase", "clear"}
    BY <1>1, <1>4 DEF Chain, OnLevel, InList
  <2>2. pc # "publish"
    BY <1>1, <2>1 DEF IndexInv, Chains
  <2> QED BY <1>2, <2>1, <2>2 DEF Onward
<1> QED BY <1>2, <1>3, <1>4

\* The index has its rows in place, and the row that will be put back too.
LEMMA IndexPlaced ==
  ASSUME IndexInv, Onward
  PROVE  /\ \A r \in Held : head[r] \in InList
         /\ \A r, q \in Held : head[r] = head[q] => val[r] = val[q]
         /\ \A r \in Held : to[r] # Nil => head[to[r]] = head[r] /\ born[to[r]] < born[r]
         /\ \A n \in InList : to[n] # Nil => head[to[n]] = n
         /\ \A r, q \in Held : next[head[r]][0] = head[q] => val[r] < val[q]
         /\ \A r \in Held : r \in Linked \/ (pc \in {"empty", "erase", "clear"} /\ r = target)
<1> USE PointersAssumption DEF Cells
<1>1. \A r \in Held : r \in Linked \/ (pc \in {"empty", "erase", "clear"} /\ r = target)
  BY DEF Held, Listed, Linked
<1>2. \A r \in Held : r \in Rows /\ head[r] \in InList /\ head[r] \in Nodes /\ val[r] = Label[head[r]]
  BY <1>1, LabelIs
<1>3. ASSUME NEW r \in Held, to[r] # Nil PROVE head[to[r]] = head[r] /\ born[to[r]] < born[r]
  <2>1. r \in Linked /\ r \in Rows /\ r \notin Nodes
    BY <1>1, <1>2, <1>3 DEF IndexInv, Stage
  <2>2. to[r] \in Rows /\ prev[to[r]] = r
    BY <1>3, <2>1 DEF IndexInv, SharedType, Lists, Live, Stage, InList
  <2>3. to[r] \in Linked
    BY <2>1, <2>2 DEF Linked
  <2> QED BY <2>1, <2>2, <2>3 DEF IndexInv, Lists, Ranks
<1>4. ASSUME NEW n \in InList, to[n] # Nil PROVE head[to[n]] = n
  <2>1. n \in Nodes /\ to[n] \in Rows /\ n # Nil
    BY <1>4 DEF IndexInv, SharedType, InList
  <2>2. CASE prev[to[n]] = n
    BY <2>1, <2>2 DEF IndexInv, Lists, Linked
  <2>3. CASE pc \in {"erase", "clear"} /\ n = node
    BY <2>3 DEF IndexInv, Stage
  <2>4. CASE pc = "link" /\ n = node
    <3>1. to[target] = to[node] /\ target \in Rows /\ target \in Linked /\ head[target] = node
      BY <2>1, <2>4 DEF IndexInv, Stage, Linked
    <3>2. prev[to[target]] = target
      BY <1>4, <2>1, <2>4, <3>1 DEF IndexInv, Lists, Live, InList
    <3> QED BY <2>1, <2>4, <3>1, <3>2 DEF IndexInv, Lists, Linked
  <2> QED BY <1>4, <2>2, <2>3, <2>4 DEF IndexInv, Lists, Live
<1>5. ASSUME NEW r \in Held, NEW q \in Held, next[head[r]][0] = head[q] PROVE val[r] < val[q]
  <2>1. next[head[r]][0] # Nil
    BY <1>2, <1>5
  <2> QED BY <1>2, <1>5, <2>1, NextIsHigher
<1> QED BY <1>1, <1>2, <1>3, <1>4, <1>5

\* A row that is put into a list is as its other rows.
LEMMA Inserted ==
  ASSUME IndexInv, IndexInv', NEW n \in InList, pc = "insert", Value(n) = new, InsertHead, head'[target] = n
  PROVE  /\ n \in Nodes /\ to[n] \in Rows /\ to[n] \in Linked /\ target \in Rows /\ target # Nil /\ to[n] # target
         /\ val[target] = val[to[n]] /\ head[to[n]] = n
         /\ to' = [to EXCEPT ![target] = to[n]] /\ born' = [born EXCEPT ![target] = cycle]
         /\ head' = [head EXCEPT ![target] = n] /\ val' = val /\ next' = next
         /\ born[to[n]] < cycle
<1> USE PointersAssumption DEF Cells
<1>1. n \in Nodes /\ to[n] \in Rows /\ target \in Rows /\ target # Nil /\ prev[target] = Nil
  BY DEF IndexInv, SharedType, Lists, Stage, InList
<1>2. prev[to[n]] = n /\ n # Nil
  BY <1>1 DEF IndexInv, Lists, Live
<1>3. to[n] \in Linked /\ head[to[n]] = n /\ to[n] # target
  BY <1>1, <1>2 DEF IndexInv, Lists, Linked
<1>4. PICK m \in InList :
        /\ Value(m) = new
        /\ to' = [to EXCEPT ![target] = to[m]]
        /\ head' = [head EXCEPT ![target] = m]
        /\ born' = [born EXCEPT ![target] = cycle]
  BY DEF InsertHead
<1>5. m = n
  BY <1>1, <1>4 DEF IndexInv, SharedType
<1>6. val[target] = new /\ born[to[n]] < cycle
  BY <1>1 DEF IndexInv, Stage, Ranks
<1> QED BY <1>1, <1>2, <1>3, <1>4, <1>5, <1>6 DEF InsertHead, Value

\* What was seen stays in place.
LEMMA PlacedKept ==
  ASSUME IndexInv, IndexInv', SearchInv, SearchInv', Onward, Calm => Placed, Master, Calm'
  PROVE  Placed'
<1> USE PointersAssumption DEF Cells
<1>1. /\ Calm /\ Placed /\ Covered /\ Covered' /\ op \notin Changes /\ op' \notin Changes /\ pc # "store"
      /\ seen' = seen \cup Listed' /\ seenNodes' = seenNodes \cup InList'
      /\ Known \subseteq Rows /\ Known \subseteq Known' /\ Known' \subseteq Rows
      /\ Known' \subseteq Known \cup (IF pc = "insert" THEN {target} ELSE {})
      /\ \A r \in Known : val'[r] = val[r] /\ head'[r] = head[r] /\ born'[r] = born[r] /\ stamp'[r] = stamp[r]
  BY CalmStep
<1>2. seenNodes \subseteq Nodes /\ seenNodes' \subseteq Nodes /\ seen \subseteq Known
  BY DEF SearchInv, HistoryType, Known
<1>3. /\ \A r \in Known : to[r] \in seen \cup {Nil}
      /\ \A n \in seenNodes : to[n] \in seen \cup {Nil} /\ next[n][0] \in seenNodes \cup {Nil}
  <2>1. 0 \in Levels
    BY SizesAssumption DEF Levels
  <2> QED BY <1>1, <2>1 DEF Covered, Known, IndexInv, Stage
\* A step that leaves the pointers as they are.
<1>4. ASSUME UNCHANGED <<to, next>>, Known' = Known, seenNodes' = seenNodes,
             op' = "add" /\ pc' = "insert" => target' \notin seen'
      PROVE  Placed'
  BY <1>1, <1>2, <1>3, <1>4 DEF Placed
<1>5. ASSUME NEW r \in Rows, NEW v \in Values, Add(r, v) \/ Set(r, v) \/ Incr(r, v)
      PROVE  Placed'
  <2>1. Add(r, v)
    BY <1>1, <1>5 DEF Set, Incr, Begin, Changes
  <2>2. UNCHANGED <<to, next, tall>> /\ Listed' = Listed /\ pc = "idle" /\ pc' = "insert" /\ target' = r /\ r \notin seen
    BY <2>1 DEF Add, Begin, Listed
  <2>3. seen' = seen /\ seenNodes' = seenNodes
    BY <1>1, <2>2 DEF Covered, InList
  <2> QED BY <1>4, <2>2, <2>3 DEF Known
<1>6. ASSUME NEW r \in Rows, Delete(r)
      PROVE  Placed'
  <2>1. UNCHANGED <<to, next, tall>> /\ Listed' = Listed /\ pc = "idle" /\ pc' = "unlink"
    BY <1>6 DEF Delete, Begin, Listed
  <2>2. seen' = seen /\ seenNodes' = seenNodes
    BY <1>1, <2>1 DEF Covered, InList
  <2> QED BY <1>4, <2>1, <2>2 DEF Known
<1>7. CASE Unlink
  <2>1. /\ to' = [to EXCEPT ![prev[target]] = to[target]] /\ next' = next /\ tall' = tall
        /\ pc = "unlink" /\ pc' \in {"empty", "free"} /\ target' = target
    BY <1>1, <1>7 DEF Unlink, Removed, IndexInv, Stage
  <2>2. /\ target \in Linked /\ target \in Rows /\ prev[target] \in Live /\ prev[target] \in Cells
        /\ to[prev[target]] = target
    BY <1>7 DEF Unlink, IndexInv, CommandType, Stage, Lists, Linked, Live, InList
  <2>8. to'[prev[target]] = to[target] /\ target \in Known
    BY <1>1, <1>2, <2>1, <2>2 DEF IndexInv, SharedType, Covered, Linked, Listed
  <2>3. seenNodes' = seenNodes /\ Linked \subseteq seen /\ Linked \subseteq Listed
    BY <1>1, <2>1 DEF Covered, InList, Linked, Listed
  <2>4. Known' = Known
    BY <1>1, <2>1
  <2>5. ASSUME NEW r \in Known', to'[r] # Nil PROVE head'[to'[r]] = head'[r] /\ born'[to'[r]] < born'[r]
    <3>1. CASE r # prev[target]
      <4>1. to'[r] = to[r]
        BY <2>1, <3>1
      <4> QED BY <1>1, <1>2, <1>3, <2>4, <2>5, <4>1 DEF Placed
    <3>2. CASE r = prev[target]
      <4>1. to[r] = target /\ to'[r] = to[target] /\ target \in Known /\ r \in Known /\ r \in Rows
        BY <1>1, <2>2, <2>4, <2>5, <2>8, <3>2
      <4>2. /\ head[target] = head[r] /\ born[target] < born[r]
            /\ head[to[target]] = head[target] /\ born[to[target]] < born[target] /\ to[target] \in Known
        BY <1>1, <1>2, <1>3, <2>2, <2>5, <4>1 DEF Placed
      <4>3. born[target] \in Nat /\ born[r] \in Nat /\ born[to[target]] \in Nat
        BY <1>1, <2>2, <4>1, <4>2 DEF IndexInv, CommandType
      <4> QED BY <1>1, <4>1, <4>2, <4>3
    <3> QED BY <3>1, <3>2
  <2>6. ASSUME NEW n \in seenNodes, to'[n] # Nil PROVE head'[to'[n]] = n
    <3>1. CASE n # prev[target]
      <4>1. to'[n] = to[n]
        BY <2>1, <3>1
      <4> QED BY <1>1, <1>2, <1>3, <2>6, <4>1 DEF Placed
    <3>2. CASE n = prev[target]
      <4>1. to[n] = target /\ to'[n] = to[target] /\ target \in Known /\ n \in Nodes
        BY <1>2, <2>2, <2>6, <2>8, <3>2
      <4>2. head[target] = n /\ head[to[target]] = head[target] /\ to[target] \in Known
        BY <1>1, <1>2, <1>3, <2>2, <2>6, <4>1 DEF Placed
      <4> QED BY <1>1, <4>1, <4>2
    <3> QED BY <3>1, <3>2
  <2>7. op' = "add" /\ pc' = "insert" => target' \notin seen'
    BY <2>1
  <2> QED BY <1>1, <2>1, <2>3, <2>4, <2>5, <2>6, <2>7 DEF Placed
<1>8. CASE PutBack
  <2>1. /\ to' = [to EXCEPT ![head[target]] = target] /\ next' = next /\ tall' = tall /\ pc' = "erase"
        /\ pc = "empty" /\ target \in Rows /\ head[target] \in InList /\ head[target] \in Nodes
    BY <1>8 DEF PutBack, IndexInv, Stage, InList
  <2>2. seenNodes' = seenNodes /\ target \in Known
    BY <1>1, <2>1 DEF Covered, InList, Known
  <2>3. Known' = Known
    BY <1>1, <2>1
  <2>4. /\ \A r \in Known : to'[r] = to[r]
        /\ \A n \in seenNodes : to'[n] = to[n] \/ (n = head[target] /\ to'[n] = target)
    BY <1>1, <1>2, <2>1
  <2> QED BY <1>1, <1>2, <1>3, <2>1, <2>2, <2>3, <2>4 DEF Placed
<1>9. CASE LowerHeight \/ Free \/ Link
  <2>1. /\ \A r \in Rows : to'[r] = to[r]
        /\ \A n \in Nodes : \/ to'[n] = to[n]
                            \/ to'[n] = target /\ target \in Rows /\ head[target] = n /\ target \in Linked
        /\ next' = next /\ tall' = tall /\ pc # "empty" /\ pc' # "empty" /\ pc' # "insert" /\ Listed' \subseteq Listed
    <3>1. CASE LowerHeight \/ Free
      BY <3>1 DEF LowerHeight, Free, Return, Listed
    <3>2. CASE Link
      <4>1. to' = [to EXCEPT ![node] = target] /\ pc = "link"
        BY <3>2 DEF Link
      <4>2. node \in Nodes /\ node \notin Rows /\ head[target] = node /\ target \in Linked /\ target \in Rows
        BY <4>1 DEF IndexInv, Stage, InList, Linked
      <4>3. UNCHANGED <<next, tall>> /\ pc' = "idle" /\ Listed' = Listed
        BY <3>2 DEF Link, Return, Listed
      <4> QED BY <4>1, <4>2, <4>3 DEF IndexInv, SharedType
    <3> QED BY <1>9, <3>1, <3>2
  <2>2. seenNodes' = seenNodes /\ seen' = seen /\ Linked \subseteq seen
    BY <1>1, <2>1 DEF Covered, InList, Linked, Listed
  <2>3. Known' = Known /\ Known = seen
    BY <2>1, <2>2 DEF Known
  <2> QED BY <1>1, <1>2, <1>3, <2>1, <2>2, <2>3 DEF Placed
<1>10. CASE Clear
  <2>1. /\ to' = [to EXCEPT ![node] = Nil] /\ next' = next /\ node \in Nodes /\ pc' \notin {"empty", "insert"}
        /\ Listed' \subseteq Listed /\ InList' \subseteq InList /\ pc # "empty"
    BY <1>10 DEF Clear, Removed, IndexInv, Stage, Listed, InList
  <2>2. seenNodes' = seenNodes /\ seen' = seen /\ Known = seen /\ Known' = seen
    BY <1>1, <2>1 DEF Covered, Known
  <2>3. /\ \A r \in Known : to'[r] = to[r]
        /\ \A n \in seenNodes : to'[n] = to[n] \/ to'[n] = Nil
    BY <1>1, <1>2, <2>1
  <2> QED BY <1>1, <1>2, <1>3, <2>1, <2>2, <2>3 DEF Placed
<1>11. CASE EraseLevel
  <2>1. PICK p \in Places : Leads(p) /\ next' = [next EXCEPT ![p][level] = next[node][level]]
    BY <1>11 DEF EraseLevel
  <2>2. /\ to' = to /\ tall' = tall /\ pc = "erase" /\ pc' = "erase" /\ Listed' = Listed
        /\ target \in Listed /\ head[target] = node /\ next[p][level] = node
    BY <1>11, <2>1 DEF EraseLevel, Listed, Leads, IndexInv, Stage
  <2>3. seenNodes' = seenNodes /\ seen' = seen /\ Known = seen /\ Known' = seen /\ target \in seen
    BY <1>1, <2>2 DEF Covered, InList, Known
  <2>4. ASSUME NEW r \in Known, NEW q \in Known, next'[head[r]][0] = head[q] PROVE val[r] < val[q]
    <3>1. head[r] \in Nodes
      BY <1>1, <1>2 DEF Placed
    <3>2. CASE head[r] = p /\ level = 0
      <4>1. next'[p][0] = next[node][0]
        BY <2>1, <3>2, SizesAssumption DEF IndexInv, SharedType, CommandType, Levels
      <4>2. val[r] < val[target] /\ val[target] < val[q]
        BY <1>1, <2>2, <2>3, <2>4, <3>2, <4>1 DEF Placed
      <4>3. val[r] \in Nat /\ val[q] \in Nat /\ val[target] \in Nat
        BY <1>1, <2>3, DataAssumption DEF IndexInv, SharedType
      <4> QED BY <4>2, <4>3
    <3>3. CASE ~ (head[r] = p /\ level = 0)
      <4>1. next'[head[r]][0] = next[head[r]][0]
        BY <2>1, <3>1, <3>3, SizesAssumption DEF IndexInv, SharedType, CommandType, Levels, Places
      <4> QED BY <1>1, <2>4, <4>1 DEF Placed
    <3> QED BY <3>2, <3>3
  <2> QED BY <1>1, <1>2, <1>3, <2>2, <2>3, <2>4 DEF Placed
<1>12. CASE Publish
  <2>1. PICK p \in Places :
          Fix(p, level, new) /\ next' = [next EXCEPT ![node][level] = next[p][level], ![p][level] = node]
    BY <1>12 DEF Publish
  <2>2. /\ to' = to /\ tall' = tall /\ pc = "publish" /\ pc' \in {"publish", "idle"} /\ Listed' = Listed
        /\ node \in InList /\ node \in Nodes /\ target \in Listed /\ head[target] = node
        /\ to[node] = target /\ val[target] = new /\ target # Nil
    BY <1>12 DEF Publish, Return, Listed, IndexInv, Stage, InList
  <2>3. seenNodes' = seenNodes /\ seen' = seen /\ Known = seen /\ Known' = seen /\ target \in seen
    BY <1>1, <2>2 DEF Covered, InList, Known
  <2>4. /\ p # node /\ p \in InList \cup {Top} /\ (p # Top => Value(p) < new)
        /\ next[p][level] # Nil => Value(next[p][level]) >= new
    <3>1. p # Top => Value(p) < new
      BY <2>1 DEF Fix
    <3>2. Value(node) = new /\ new \in Nat /\ node # Top
      BY <2>2, DataAssumption DEF Value, IndexInv, SharedType, Listed, Stage
    <3> QED BY <2>1, <3>1, <3>2 DEF Fix, OnLevel
  <2>5. \A m \in InList : /\ \A r \in Known : head[r] = m => val[r] = Value(m) /\ val[r] = Label[m]
                        /\ m \in seenNodes
    <3> SUFFICES ASSUME NEW m \in InList
                 PROVE  (\A r \in Known : head[r] = m => val[r] = Value(m) /\ val[r] = Label[m]) /\ m \in seenNodes
      OBVIOUS
    <3>1. to[m] # Nil /\ m \in seenNodes /\ m \in Nodes
      BY <1>1, <2>2 DEF IndexInv, Lists, Covered, InList
    <3>2. to[m] \in seen /\ head[to[m]] = m
      BY <1>1, <1>3, <3>1 DEF Placed
    <3> QED BY <1>1, <2>3, <3>1, <3>2 DEF Placed, Value, Label
  <2>6. \A r \in Known : val[r] \in Nat /\ head[r] \in Nodes
    BY <1>1, <1>2, DataAssumption DEF IndexInv, SharedType, Placed
  <2>7. ASSUME NEW r \in Known, NEW q \in Known, next'[head[r]][0] = head[q] PROVE val[r] < val[q]
    <3>1. CASE level = 0 /\ head[r] = node
      <4>1. next'[node][0] = next[p][0]
        BY <2>1, <2>2, <2>4, <3>1, SizesAssumption DEF IndexInv, SharedType, CommandType, Levels, Places
      <4>2. next[p][0] # node /\ next[p][0] # Nil /\ next[p][0] = head[q]
        BY <2>2, <2>4, <2>6, <2>7, <3>1, <4>1, NotLed
      <4>3. head[q] \in InList
        <5>1. 0 \in Levels
          BY SizesAssumption DEF Levels
        <5> QED BY <2>4, <4>2, <5>1, IndexClosed DEF Closed
      <4>4. val[q] = Value(head[q]) /\ val[q] = Label[head[q]] /\ val[r] = new /\ Label[node] = new
        BY <1>1, <2>2, <2>3, <2>5, <2>7, <3>1, <4>3 DEF Placed, Label
      <4>5. val[q] >= new /\ val[q] # new
        BY <2>2, <2>4, <3>1, <4>2, <4>3, <4>4 DEF IndexInv, Chains
      <4> QED BY <2>6, <4>4, <4>5
    <3>2. CASE level = 0 /\ head[r] = p
      <4>1. next'[p][0] = node
        BY <2>1, <2>2, <2>4, <3>2, SizesAssumption DEF IndexInv, SharedType, CommandType, Levels, Places
      <4>2. p \in InList
        BY <2>4, <2>6, <3>2
      <4>3. val[r] = Value(p) /\ Value(p) < new
        BY <2>4, <2>5, <3>2, <4>2, <2>6
      <4>4. val[q] = new
        BY <1>1, <2>2, <2>3, <2>7, <3>2, <4>1 DEF Placed
      <4> QED BY <4>3, <4>4
    <3>3. CASE ~ (level = 0 /\ head[r] \in {node, p})
      <4>1. next'[head[r]][0] = next[head[r]][0]
        <5>1. head[r] \in Places /\ 0 \in Levels /\ level \in Levels /\ node \in Places /\ node # Nil
          BY <2>2, <2>6, SizesAssumption DEF IndexInv, CommandType, Levels, Places
        <5>2. CASE level # 0
          BY <2>1, <5>1, <5>2 DEF IndexInv, SharedType
        <5>3. CASE head[r] \notin {node, p}
          BY <2>1, <5>1, <5>3 DEF IndexInv, SharedType
        <5> QED BY <3>3, <5>2, <5>3
      <4> QED BY <1>1, <2>7, <4>1 DEF Placed
    <3> QED BY <3>1, <3>2, <3>3
  <2> QED BY <1>1, <1>2, <1>3, <2>2, <2>3, <2>7 DEF Placed
<1>13. CASE InsertHead
  <2>1. PICK n \in InList : Value(n) = new /\ head' = [head EXCEPT ![target] = n] /\ pc = "insert"
    BY <1>13 DEF InsertHead
  <2>2. target \in Rows
    BY <2>1 DEF IndexInv, Stage
  <2>3. head'[target] = n
    BY <2>1, <2>2 DEF IndexInv, SharedType
  <2>4. /\ n \in Nodes /\ to[n] \in Rows /\ val[target] = val[to[n]] /\ head[to[n]] = n /\ to[n] # target
        /\ to' = [to EXCEPT ![target] = to[n]] /\ born' = [born EXCEPT ![target] = cycle]
        /\ val' = val /\ next' = next /\ born[to[n]] < cycle /\ target # Nil
    BY <1>13, <2>1, <2>3, Inserted
  <2>5. n \in seenNodes /\ to[n] \in Known /\ seenNodes' = seenNodes /\ pc' = "link"
    <3>1. tall' = tall /\ pc' = "link"
      BY <1>13 DEF InsertHead
    <3> QED BY <1>1, <1>2, <1>3, <2>4, <3>1 DEF Covered, InList
  <2>6. target \notin Known
    BY <1>1, <2>1 DEF Known, Placed, IndexInv, Stage
  <2>7. \A r \in Known : to'[r] = to[r] /\ r # target
    BY <1>1, <2>4, <2>6
  <2>8. to'[target] = to[n] /\ born'[target] = cycle /\ head'[target] = n /\ val'[target] = val[to[n]]
    BY <2>2, <2>3, <2>4 DEF IndexInv, SharedType, CommandType
  <2>9. \A r \in Known' : \E q \in Known : head'[r] = head[q] /\ val'[r] = val[q]
    BY <1>1, <2>1, <2>4, <2>5, <2>8
  <2>10. \A m \in seenNodes : to'[m] = to[m]
    BY <1>2, <2>2, <2>4
  <2>11. \A r \in Known' : to'[r] # Nil => head'[to'[r]] = head'[r] /\ born'[to'[r]] < born'[r]
    <3>1. SUFFICES ASSUME NEW r \in Known', to'[r] # Nil PROVE head'[to'[r]] = head'[r] /\ born'[to'[r]] < born'[r]
      OBVIOUS
    <3>2. CASE r = target
      BY <1>1, <2>4, <2>5, <2>8, <3>2
    <3>3. CASE r \in Known
      <4>1. to'[r] = to[r] /\ to[r] \in Known
        BY <1>2, <1>3, <2>7, <3>1, <3>3
      <4> QED BY <1>1, <3>1, <3>3, <4>1 DEF Placed
    <3> QED BY <1>1, <2>1, <3>2, <3>3
  <2>12. \A m \in seenNodes' : to'[m] # Nil => head'[to'[m]] = m
    BY <1>1, <1>2, <1>3, <2>5, <2>10 DEF Placed
  <2>15. op' = "add" /\ pc' = "insert" => target' \notin seen'
    BY <2>5
  <2>13. \A r \in Known' : head'[r] \in seenNodes'
    BY <1>1, <2>5, <2>9 DEF Placed
  <2>14. \A r, q \in Known' : head'[r] = head'[q] => val'[r] = val'[q]
    BY <1>1, <2>4, <2>9 DEF Placed
  <2>16. \A r, q \in Known' : next'[head'[r]][0] = head'[q] => val'[r] < val'[q]
    BY <1>1, <2>4, <2>9 DEF Placed
  <2> QED BY <2>11, <2>12, <2>13, <2>14, <2>15, <2>16 DEF Placed
<1>14. CASE NewNode
  <2>1. PICK n \in Nodes \ (InList \cup seenNodes) :
          /\ next' = [next EXCEPT ![n] = [i \in Levels |-> Nil]]
          /\ to' = [to EXCEPT ![n] = target, ![target] = Nil]
          /\ head' = [head EXCEPT ![target] = n]
    BY <1>14 DEF NewNode
  <2>2. target \in Rows /\ target # Nil /\ pc = "insert" /\ target \notin Nodes /\ node' = n
    BY <1>14, <2>1 DEF NewNode, IndexInv, SharedType, Stage
  <2>3. target \notin Known
    BY <1>1, <2>2 DEF Known, Placed, IndexInv, Stage
  <2>4. /\ \A r \in Known : to'[r] = to[r] /\ r # target /\ head[r] \in seenNodes /\ head[r] # n
        /\ \A m \in seenNodes : to'[m] = to[m] /\ next'[m] = next[m] /\ m # n
    BY <1>1, <1>2, <2>1, <2>2, <2>3 DEF Placed, Places, IndexInv, SharedType
  <2>5. to'[target] = Nil /\ to'[n] = target /\ head'[target] = n /\ next'[n][0] = Nil
    BY <2>1, <2>2, SizesAssumption DEF Places, Levels, IndexInv, SharedType
  <2>6. pc' = "publish"
    BY <1>14 DEF NewNode
  <2>7. n \in seenNodes' /\ \A m \in seenNodes' : m \in seenNodes \/ m = n
    <3>1. \A m \in InList' : m \in InList \/ m = n
      <4>1. PICK k \in Nodes, h \in 1 .. MaxHeight :
              /\ tall' = [tall EXCEPT ![k] = IF h > curh THEN curh + 1 ELSE h]
              /\ node' = k
        BY <1>14 DEF NewNode
      <4> QED BY <2>2, <4>1 DEF InList, IndexInv, SharedType
    <3>2. n \in InList'
      BY <2>2, <2>6 DEF IndexInv, Stage
    <3> QED BY <1>1, <3>1, <3>2 DEF Covered
  <2>8. \A r \in Known' : head'[r] \in seenNodes'
    BY <1>1, <2>2, <2>4, <2>5, <2>7
  <2>9. \A r, q \in Known' : head'[r] = head'[q] => val'[r] = val'[q]
    BY <1>1, <2>2, <2>4, <2>5 DEF Placed
  <2>10. \A r \in Known' : to'[r] # Nil => head'[to'[r]] = head'[r] /\ born'[to'[r]] < born'[r]
    BY <1>1, <1>2, <1>3, <2>2, <2>4, <2>5 DEF Placed
  <2>11. \A m \in seenNodes' : to'[m] # Nil => head'[to'[m]] = m
    BY <1>1, <1>2, <1>3, <2>4, <2>5, <2>7 DEF Placed
  <2>12. \A r, q \in Known' : next'[head'[r]][0] = head'[q] => val'[r] < val'[q]
    <3>1. SUFFICES ASSUME NEW r \in Known', NEW q \in Known', next'[head'[r]][0] = head'[q] PROVE val'[r] < val'[q]
      OBVIOUS
    <3>2. head'[q] # Nil
      BY <1>2, <2>8
    <3>3. r # target
      BY <2>5, <3>1, <3>2
    <3>4. r \in Known /\ head'[r] = head[r] /\ next'[head[r]] = next[head[r]]
      BY <1>1, <2>2, <2>4, <3>3
    <3>5. next[head[r]][0] \in seenNodes
      BY <1>3, <2>4, <3>1, <3>2, <3>4
    <3>6. q \in Known
      BY <1>1, <2>2, <2>4, <2>5, <3>1, <3>4, <3>5
    <3> QED BY <1>1, <3>1, <3>4, <3>6 DEF Placed
  <2> QED BY <2>6, <2>8, <2>9, <2>10, <2>11, <2>12 DEF Placed
<1>15. CASE Store
  BY <1>1, <1>15 DEF Store
<1> QED BY <1>5, <1>6, <1>7, <1>8, <1>9, <1>10, <1>11, <1>12, <1>13, <1>14, <1>15 DEF Master

\* The rows that stay are led to as long as they stay.
LEMMA StaysKept ==
  ASSUME IndexInv, IndexInv', SearchInv, SearchInv', Onward, Calm => Placed /\ Stays, Master, Calm'
  PROVE  Stays'
<1> USE PointersAssumption DEF Cells
<1>1. /\ Calm /\ Placed /\ Covered /\ Covered' /\ op \notin Changes /\ op' \notin Changes /\ pc # "store"
      /\ UNCHANGED reader /\ seen' = seen \cup Listed' /\ seenNodes' = seenNodes \cup InList'
      /\ stay' = stay \ {target'}
      /\ Known \subseteq Rows /\ Known \subseteq Known' /\ Known' \subseteq Rows
      /\ Known' \subseteq Known \cup (IF pc = "insert" THEN {target} ELSE {})
      /\ \A r \in Known : val'[r] = val[r] /\ head'[r] = head[r] /\ born'[r] = born[r] /\ stamp'[r] = stamp[r]
  BY CalmStep
<1>2. Stays /\ seen \subseteq Known
  BY <1>1 DEF Known
<1>3. \A r \in stay : /\ r \in Known /\ r \in Linked /\ r \in Others /\ r \in seen /\ r # target
                      /\ val'[r] = val[r] /\ head'[r] = head[r] /\ born'[r] = born[r] /\ Matching(val[r], search)
  BY <1>1, <1>2 DEF Stays
<1>4. \A r \in stay' : Matching(val'[r], search')
  BY <1>1, <1>3 DEF reader
<1>5. SUFFICES /\ \A r \in Linked : r # target => r \in Linked'
               /\ \A r \in stay, w \in Known' : head'[r] = head'[w] /\ born'[r] < born'[w] =>
                    to'[w] # Nil /\ born'[r] <= born'[to'[w]]
  <2>1. stay' \subseteq (Linked' \cap Others \cap seen') \ {target'}
    BY <1>1, <1>3, <1>5
  <2> QED BY <1>1, <1>4, <1>5, <2>1 DEF Stays
<1> DEFINE P == /\ \A r \in Linked : r # target => r \in Linked'
                /\ \A r \in stay, w \in Known' : head'[r] = head'[w] /\ born'[r] < born'[w] =>
                     to'[w] # Nil /\ born'[r] <= born'[to'[w]]
<1>6. \A w \in Known : to[w] \in Known \cup {Nil}
  BY <1>1 DEF Covered, Known, IndexInv, Stage
<1>7. ASSUME \A w \in Known : to'[w] = to[w], Known' = Known, \A r \in Linked : r # target => r \in Linked'
      PROVE  P
  BY <1>1, <1>2, <1>3, <1>6, <1>7 DEF Stays
<1>8. ASSUME NEW r \in Rows, NEW v \in Values, Add(r, v) \/ Set(r, v) \/ Incr(r, v) \/ Delete(r)
      PROVE  P
  <2>1. to' = to /\ prev' = prev /\ pc = "idle"
    BY <1>8 DEF Add, Set, Incr, Delete, Begin
  <2>2. Known' = Known
    BY <1>1, <2>1
  <2> QED BY <1>7, <2>1, <2>2 DEF Linked
<1>9. ASSUME Unlink PROVE P
  <2>1. /\ to' = [to EXCEPT ![prev[target]] = to[target]] /\ pc = "unlink"
        /\ prev' = [r \in Rows |-> CASE r = target     -> Nil
                                     [] r = to[target] -> prev[target]
                                     [] OTHER          -> prev[r]]
    BY <1>9 DEF Unlink
  <2>2. /\ target \in Linked /\ target \in Rows /\ prev[target] # Nil /\ to[prev[target]] = target
        /\ prev[target] \in Rows => head[prev[target]] = head[target] /\ born[target] < born[prev[target]]
    BY <2>1 DEF IndexInv, Stage, Lists, Linked, Ranks
  <2>3. Known' = Known /\ target \in Known
    BY <1>1, <1>2, <2>1, <2>2 DEF Covered, Listed, Linked
  <2>4. \A r \in Linked : r # target => r \in Linked'
    BY <2>1, <2>2 DEF Linked
  <2>5. ASSUME NEW r \in stay, NEW w \in Known, head'[r] = head'[w], born'[r] < born'[w]
        PROVE  to'[w] # Nil /\ born'[r] <= born'[to'[w]]
    <3>1. head[r] = head[w] /\ born[r] < born[w]
      BY <1>1, <1>3, <2>5
    <3>2. CASE w # prev[target]
      BY <1>1, <1>2, <1>3, <1>6, <2>1, <2>5, <3>1, <3>2 DEF Stays, IndexInv, SharedType
    <3>3. CASE w = prev[target]
      <4>1. head[target] = head[w] /\ born[target] < born[w] /\ to[w] = target /\ to'[w] = to[target]
        BY <1>1, <2>1, <2>2, <3>3 DEF IndexInv, SharedType
      <4>2. born[r] <= born[target] /\ born[r] # born[target]
        BY <1>2, <1>3, <2>2, <3>1, <4>1 DEF Stays, IndexInv, Ranks
      <4>3. born[r] < born[target]
        BY <1>1, <1>3, <2>2, <4>2 DEF IndexInv, CommandType
      <4>4. to[target] # Nil /\ born[r] <= born[to[target]]
        BY <1>2, <2>3, <3>1, <4>1, <4>3 DEF Stays
      <4> QED BY <1>1, <1>3, <1>6, <2>3, <4>1, <4>4
    <3> QED BY <3>2, <3>3
  <2> QED BY <2>3, <2>4, <2>5
<1>10. ASSUME PutBack \/ EraseLevel \/ LowerHeight \/ Clear \/ Free \/ Link \/ Publish PROVE P
  <2>1. \A w \in Rows : to'[w] = to[w]
    BY <1>10 DEF PutBack, EraseLevel, LowerHeight, Clear, Free, Link, Publish, IndexInv, SharedType, Stage, InList
  <2>2. prev' = prev /\ pc # "insert"
    BY <1>10 DEF PutBack, EraseLevel, LowerHeight, Clear, Free, Link, Publish
  <2>3. Known' = Known
    BY <1>1, <2>2
  <2> QED BY <1>1, <1>7, <2>1, <2>2, <2>3 DEF Linked
<1>11. ASSUME InsertHead PROVE P
  <2>1. PICK n \in InList : /\ Value(n) = new /\ head' = [head EXCEPT ![target] = n] /\ pc = "insert"
                            /\ prev' = [prev EXCEPT ![target] = n, ![to[n]] = target]
    BY <1>11 DEF InsertHead
  <2>2. target \in Rows
    BY <2>1 DEF IndexInv, Stage
  <2>3. head'[target] = n
    BY <2>1, <2>2 DEF IndexInv, SharedType
  <2>4. /\ n \in Nodes /\ to[n] \in Rows /\ to[n] \in Linked /\ head[to[n]] = n /\ to[n] # target
        /\ to' = [to EXCEPT ![target] = to[n]] /\ born[to[n]] < cycle /\ target # Nil
    BY <1>11, <2>1, <2>3, Inserted
  <2>5. target \notin Known
    BY <1>1, <2>1 DEF Known, Placed, IndexInv, Stage
  <2>6. \A r \in Linked : r # target => r \in Linked'
    BY <2>1, <2>2, <2>4 DEF Linked, IndexInv, SharedType
  <2>7. ASSUME NEW r \in stay, NEW w \in Known', head'[r] = head'[w], born'[r] < born'[w]
        PROVE  to'[w] # Nil /\ born'[r] <= born'[to'[w]]
    <3>1. CASE w \in Known
      <4>1. to'[w] = to[w] /\ head[r] = head[w] /\ born[r] < born[w]
        BY <1>1, <1>3, <2>4, <2>5, <2>7, <3>1
      <4> QED BY <1>1, <1>2, <1>3, <1>6, <3>1, <4>1 DEF Stays
    <3>2. CASE w = target
      <4>1. head[r] = n /\ to'[w] = to[n] /\ to[n] \in Known
        BY <1>1, <1>2, <1>3, <2>2, <2>3, <2>4, <2>7, <3>2 DEF IndexInv, SharedType, Covered, Linked, Listed
      <4>2. born[r] <= born[to[n]]
        BY <1>3, <2>1, <4>1 DEF IndexInv, Ranks
      <4> QED BY <1>1, <1>3, <2>4, <4>1, <4>2
    <3> QED BY <1>1, <2>1, <3>1, <3>2
  <2> QED BY <2>6, <2>7
<1>12. ASSUME NewNode PROVE P
  <2>1. PICK n \in Nodes \ (InList \cup seenNodes) :
          /\ to' = [to EXCEPT ![n] = target, ![target] = Nil]
          /\ head' = [head EXCEPT ![target] = n] /\ prev' = [prev EXCEPT ![target] = n]
    BY <1>12 DEF NewNode
  <2>2. target \in Rows /\ target # Nil /\ pc = "insert"
    BY <1>12 DEF NewNode, IndexInv, Stage
  <2>3. target \notin Known
    BY <1>1, <2>2 DEF Known, Placed, IndexInv, Stage
  <2>4. \A r \in Linked : r # target => r \in Linked'
    BY <2>1, <2>2 DEF Linked, IndexInv, SharedType
  <2>5. head'[target] = n /\ \A r \in stay : head[r] # n
    BY <1>1, <1>3, <2>1, <2>2 DEF Placed, IndexInv, SharedType
  <2>6. ASSUME NEW r \in stay, NEW w \in Known', head'[r] = head'[w], born'[r] < born'[w]
        PROVE  to'[w] # Nil /\ born'[r] <= born'[to'[w]]
    <3>1. w \in Known
      BY <1>1, <1>3, <2>2, <2>5, <2>6
    <3>2. head[r] = head[w] /\ born[r] < born[w]
      BY <1>1, <1>3, <2>6, <3>1
    <3>3. to'[w] = to[w]
      <4>1. w \in Rows /\ w # target /\ w \notin Nodes
        BY <1>1, <2>3, <3>1
      <4> QED BY <2>1, <4>1 DEF IndexInv, SharedType
    <3> QED BY <1>1, <1>2, <1>3, <1>6, <3>1, <3>2, <3>3 DEF Stays
  <2> QED BY <2>4, <2>6
<1>13. ASSUME Store PROVE P
  BY <1>1, <1>13 DEF Store
<1> QED BY <1>8, <1>9, <1>10, <1>11, <1>12, <1>13, DataAssumption DEF Master

\* The rows that are there when a search begins are led to.
LEMMA IndexStays ==
  ASSUME IndexInv, NEW r \in Linked, NEW w, w \in Linked \/ (pc \in {"empty", "erase", "clear"} /\ w = target),
         head[r] = head[w], born[r] < born[w]
  PROVE  to[w] # Nil /\ born[r] <= born[to[w]]
BY DEF IndexInv, Ranks

\* A row that comes into a node that was seen is as those seen there.
LEMMA KnownGrows ==
  ASSUME IndexInv, IndexInv', SearchInv, SearchInv', Onward, Calm => Placed, Master, Calm',
         NEW q \in Known', head'[q] \in seenNodes
  PROVE  \E p \in Known : head[p] = head'[q] /\ val[p] = val'[q]
<1> USE PointersAssumption DEF Cells
<1>1. /\ Calm /\ Placed /\ Covered
      /\ Known' \subseteq Known \cup (IF pc = "insert" THEN {target} ELSE {})
      /\ \A r \in Known : val'[r] = val[r] /\ head'[r] = head[r]
  BY CalmStep
<1>2. CASE q \in Known
  BY <1>1, <1>2
<1>3. CASE q \notin Known
  <2>1. pc = "insert" /\ q = target /\ target \in Rows
    BY <1>1, <1>3 DEF IndexInv, Stage
  <2>2. InsertHead \/ NewNode
    BY <2>1, DataAssumption DEF Master, Add, Set, Incr, Delete, Begin, Unlink, PutBack, EraseLevel, LowerHeight,
       Clear, Store, Free, Link, Publish
  <2>3. CASE NewNode
    <3>1. PICK n \in Nodes \ (InList \cup seenNodes) : head' = [head EXCEPT ![target] = n]
      BY <2>3 DEF NewNode
    <3> QED BY <2>1, <3>1 DEF IndexInv, SharedType
  <2>4. CASE InsertHead
    <3>1. PICK n \in InList : Value(n) = new /\ head' = [head EXCEPT ![target] = n]
      BY <2>4 DEF InsertHead
    <3>2. head'[target] = n
      BY <2>1, <3>1 DEF IndexInv, SharedType
    <3>3. /\ n \in Nodes /\ to[n] \in Rows /\ val[target] = val[to[n]] /\ head[to[n]] = n /\ to[n] \in Linked
          /\ val' = val
      BY <2>1, <2>4, <3>1, <3>2, Inserted
    <3>4. to[n] \in Known
      BY <1>1, <3>3 DEF Covered, Linked, Listed, Known
    <3> QED BY <2>1, <3>2, <3>3, <3>4
  <2> QED BY <2>2, <2>3, <2>4
<1> QED BY <1>2, <1>3

\* What the master does leaves the search where it is in the order.
LEMMA RisingKept ==
  ASSUME IndexInv, IndexInv', SearchInv, SearchInv', Onward, Calm => Placed /\ Rising, Master, Calm'
  PROVE  Rising'
<1> USE PointersAssumption DEF Cells
<1>1. /\ Calm /\ Placed /\ Covered /\ UNCHANGED reader /\ seen \subseteq Known
      /\ \A r \in Known : val'[r] = val[r] /\ head'[r] = head[r] /\ born'[r] = born[r]
  BY CalmStep DEF Known
<1>2. Rising /\ Here /\ Found' = Found /\ ReportsRows
  BY <1>1 DEF SearchInv, Sighted, Found, reader, Here
<1>3. /\ \A i \in 1 .. Len(matches) : matches[i] \in Known /\ val'[matches[i]] = val[matches[i]]
      /\ \A m \in Found : m \in Known /\ val'[m] = val[m] /\ born'[m] = born[m]
  BY <1>1, <1>2 DEF Found, ReportsRows
<1>4. /\ rpc \in {"check", "ended", "walk"} => row \in Known
      /\ rpc = "walk" /\ walk # Nil => walk \in Known
  BY <1>1, <1>2 DEF Here
<1>5. rpc = "fetch" => \A m \in Found, q \in Known' : head'[q] = curl => val'[m] < val'[q]
  <2> SUFFICES ASSUME rpc = "fetch", NEW m \in Found, NEW q \in Known', head'[q] = curl PROVE val'[m] < val'[q]
    OBVIOUS
  <2>1. head'[q] \in seenNodes' /\ seenNodes' \subseteq Nodes
    BY <1>1, PlacedKept DEF Placed, SearchInv, HistoryType
  <2>2. head'[q] \in seenNodes
    BY <1>2, <2>1 DEF Here
  <2>3. PICK p \in Known : head[p] = head'[q] /\ val[p] = val'[q]
    BY <1>1, <2>2, KnownGrows
  <2> QED BY <1>2, <1>3, <2>3 DEF Rising
<1>6. /\ rpc' = rpc /\ matches' = matches /\ steps' = steps /\ row' = row /\ curl' = curl /\ walk' = walk
  BY <1>1 DEF reader
<1>7. \A i, j \in 1 .. Len(matches) : i < j => matches[i] # matches[j] /\ val'[matches[i]] <= val'[matches[j]]
  BY <1>2, <1>3 DEF Rising
<1>8. /\ rpc \in {"check", "ended", "walk"} => head'[row] = curl
      /\ rpc \in {"check", "ended"} => \A m \in Found : val'[m] < val'[row]
      /\ rpc = "walk" =>
           /\ walk # Nil => head'[walk] = curl
           /\ \A m \in Found : \/ val'[m] < val'[row]
                               \/ val'[m] = val'[row] /\ (walk # Nil => born'[walk] < born'[m])
  BY <1>1, <1>2, <1>3, <1>4 DEF Rising
<1> QED BY <1>2, <1>5, <1>6, <1>7, <1>8 DEF Rising

\* What a step of the search leaves alone.
LEMMA ReaderKeeps ==
  ASSUME Reader, Observing'
  PROVE  /\ UNCHANGED <<shared, command>> /\ Known' = seen' \cup (IF pc = "empty" THEN {target} ELSE {})
         /\ Linked' = Linked /\ Listed' = Listed /\ InList' = InList /\ InTable' = InTable
         /\ \/ ReadLock
            \/ /\ ~ ReadLock /\ Observing /\ UNCHANGED <<seen, seenNodes, stay, search, size>>
               /\ met \subseteq met' /\ Known' = Known /\ (rpc = "enter" \/ (since' = since /\ met' = met))
<1>1. UNCHANGED <<shared, command>>
  BY DEF Reader, Open, ReadLock, Enter, Start, Locate, Compare, Arrive, Skip, Pass, Fetch, Check,
         Ended, Walk, NextNode, Close
<1>2. /\ Linked' = Linked /\ Listed' = Listed /\ InList' = InList /\ InTable' = InTable
      /\ pc' = pc /\ target' = target
  BY <1>1 DEF shared, command, Linked, Listed, InList, InTable
<1>3. ~ \E s \in Searches : Open(s)
  BY DEF Open, Observing, Walking, Outcomes
<1>4. ~ Close /\ ~ Restart
  BY DEF Close, Restart, Observing, Walking, Outcomes
<1>5. ASSUME ~ ReadLock
      PROVE  /\ Observing /\ UNCHANGED <<seen, seenNodes, stay, search, size>>
             /\ met \subseteq met' /\ (rpc = "enter" \/ (since' = since /\ met' = met))
  <2>1. CASE Enter
    <3>1. rpc = "enter" /\ seen' = seen /\ seenNodes' = seenNodes /\ stay' = stay /\ search' = search /\ size' = size
      BY <2>1 DEF Enter
    <3>2. met \subseteq met'
      BY <2>1 DEF Enter
    <3>3. Observing
      BY <3>1 DEF Observing, Walking
    <3> QED BY <3>1, <3>2, <3>3
  <2>2. CASE Start \/ Locate \/ Compare \/ Arrive \/ Skip \/ Pass \/ Fetch \/ Ended \/ NextNode
    BY <2>2 DEF Start, Locate, Compare, Arrive, Skip, Pass, Fetch, Ended, NextNode, history, Observing, Walking
  <2>3. CASE Check \/ Walk
    BY <1>4, <2>3 DEF Check, Walk, history, Observing, Walking
  <2> QED BY <1>3, <1>4, <1>5, <2>1, <2>2, <2>3 DEF Reader
<1> QED BY <1>1, <1>2, <1>5 DEF Known

\* What has been seen is in place for a search that begins, and stays so.
LEMMA PlacedRead ==
  ASSUME IndexInv, SearchInv, SearchInv', Onward, Calm => Placed /\ Stays, Reader, Calm'
  PROVE  Placed' /\ Stays'
<1>1. /\ Observing'
      /\ UNCHANGED <<shared, command>> /\ Known' = seen' \cup (IF pc = "empty" THEN {target} ELSE {})
      /\ Linked' = Linked /\ Listed' = Listed /\ InList' = InList
  BY ReaderKeeps DEF Calm
<1>2. CASE ReadLock
  <2>1. /\ seen' = Listed /\ seenNodes' = InList /\ search' = search
        /\ stay' = {r \in (Listed \cap Others) \ {target} : Matching(val[r], search)}
    BY <1>2 DEF ReadLock
  <2>2. Known' = Held
    BY <1>1, <2>1 DEF Held
  <2>3. pc = "insert" => target \notin Listed
    BY DEF IndexInv, Stage, Listed
  <2>4. Placed'
    <3>1. /\ head' = head /\ val' = val /\ to' = to /\ born' = born /\ next' = next
          /\ op' = op /\ pc' = pc /\ target' = target
      BY <1>1 DEF shared, command
    <3>2. /\ \A r \in Known' : head[r] \in InList
          /\ \A r, q \in Known' : head[r] = head[q] => val[r] = val[q]
          /\ \A r \in Known' : to[r] # Nil => head[to[r]] = head[r] /\ born[to[r]] < born[r]
          /\ \A n \in InList : to[n] # Nil => head[to[n]] = n
          /\ \A r, q \in Known' : next[head[r]][0] = head[q] => val[r] < val[q]
      BY <2>2, IndexPlaced
    <3> QED BY <2>1, <2>3, <3>1, <3>2 DEF Placed
  <2>5. stay' \subseteq (Linked' \cap Others \cap seen') \ {target'}
    BY <1>1, <2>1 DEF Listed, Linked, command
  <2>6. \A r \in stay' : Matching(val'[r], search')
    BY <1>1, <2>1 DEF shared
  <2>7. \A w \in Known' : w \in Linked \/ (pc \in {"empty", "erase", "clear"} /\ w = target)
    BY <2>2, IndexPlaced
  <2>8. \A r \in stay', w \in Known' : head[r] = head[w] /\ born[r] < born[w] => to[w] # Nil /\ born[r] <= born[to[w]]
    BY <1>1, <2>5, <2>7, IndexStays
  <2> QED BY <1>1, <2>4, <2>5, <2>6, <2>8 DEF Stays, shared, command
<1>3. CASE ~ ReadLock
  <2>1. /\ Observing /\ UNCHANGED <<seen, seenNodes, stay, search>> /\ met \subseteq met' /\ Known' = Known
    BY <1>1, <1>3, ReaderKeeps
  <2>2. Placed /\ Stays
    BY <2>1 DEF Calm
  <2>3. Placed'
    BY <1>1, <2>1, <2>2 DEF Placed, shared, command
  <2>4. Stays'
    BY <1>1, <2>1, <2>2 DEF Stays, shared, command
  <2> QED BY <2>3, <2>4
<1> QED BY <1>2, <1>3

LEMMA StartingRead ==
  ASSUME Starting, Reader
  PROVE  Starting'
<1>1. ASSUME Nowhere PROVE Starting'
  BY <1>1 DEF Nowhere, Starting
<1>2. CASE ReadLock \/ Enter \/ Start \/ Locate \/ Compare \/ Arrive \/ Skip \/ Pass \/ \E s \in Searches : Open(s)
  BY <1>2 DEF ReadLock, Enter, Start, Locate, Descend, Crash, Compare, Arrive, Skip, Pass, Open, Starting
<1>3. CASE Fetch \/ Ended \/ NextNode
  BY <1>3 DEF Fetch, Ended, NextNode, Starting
<1>4. CASE Check \/ Walk
  BY <1>1, <1>4 DEF Check, Walk, Restart, Starting
<1>5. CASE Close
  BY <1>1, <1>5 DEF Close
<1> QED BY <1>2, <1>3, <1>4, <1>5 DEF Reader

\* A step of the search goes on in the order.
LEMMA RisingRead ==
  ASSUME IndexInv, SearchInv, SearchInv', Onward, Starting, Starting', Calm => Placed /\ Stays /\ Rising, Reader, Calm'
  PROVE  Rising'
<1> USE PointersAssumption DEF Cells
<1>1. /\ UNCHANGED <<shared, command>> /\ Known' = seen' \cup (IF pc = "empty" THEN {target} ELSE {})
  BY ReaderKeeps DEF Calm
<1>2. matches \in Seq(Rows) /\ matches' \in Seq(Rows)
  BY DEF SearchInv, ReaderType
\* Nothing has been found before the first node.
<1>3. ASSUME matches' = <<>>, rpc' \notin {"check", "ended", "walk"}
      PROVE  Rising'
  <2>1. Found' = {}
    BY <1>3 DEF Found
  <2> QED BY <1>3, <2>1 DEF Rising
<1>4. CASE rpc \in {"idle", "lock", "enter", "start", "locate", "compare", "arrive", "skip", "pass"}
  <2>1. matches = <<>>
    BY <1>4 DEF Starting
  <2>2. matches' = matches /\ rpc' \notin {"check", "ended", "walk"}
    BY <1>4, <2>1 DEF Reader, Open, ReadLock, Enter, Start, Locate, Compare, Descend, Crash, Arrive, Skip, Pass, Fetch, Check,
         Ended, Walk, NextNode, Close, Outcomes
  <2> QED BY <1>3, <2>1, <2>2
<1>5. CASE rpc \notin {"idle", "lock", "enter", "start", "locate", "compare", "arrive", "skip", "pass"}
  <2>1. ~ ReadLock
    BY <1>5 DEF ReadLock
  <2>2. Observing /\ seen' = seen /\ met' = met /\ Known' = Known /\ seenNodes' = seenNodes
    BY <1>5, <2>1, ReaderKeeps DEF Calm
  <2>3. Placed /\ Rising /\ Covered /\ Here
    BY <2>2 DEF Calm, SearchInv, Sighted
  <2>4. Fetch \/ Check \/ Ended \/ Walk \/ NextNode
    BY <1>5 DEF Reader, Open, ReadLock, Enter, Start, Locate, Compare, Arrive, Skip, Pass, Close, Calm, Observing,
       Walking, Outcomes
  <2>5. Found \subseteq seen /\ seen \subseteq Known /\ seen \subseteq Rows
    BY <2>3 DEF Here, ReportsRows, Found, Known, SearchInv, HistoryType
  <2>6. val' = val /\ head' = head /\ born' = born /\ next' = next /\ to' = to
    BY <1>1 DEF shared, command
  <2>7. CASE Fetch
    <3>1. matches' = matches /\ Found' = Found /\ curl' = curl
      BY <2>7 DEF Fetch, Found
    <3>2. CASE rpc' = "check"
      <4>1. curl # Nil /\ to[curl] # Nil /\ row' = to[curl] /\ rpc = "fetch"
        BY <2>7, <3>2 DEF Fetch, SearchInv, ReaderType
      <4>2. row' \in seen /\ head[row'] = curl
        BY <2>3, <4>1 DEF Here, Covered, Placed
      <4>3. \A m \in Found : val[m] < val[row']
        BY <2>3, <2>5, <4>1, <4>2 DEF Rising
      <4> QED BY <2>3, <2>6, <3>1, <3>2, <4>2, <4>3 DEF Rising
    <3>3. CASE rpc' # "check"
      <4>1. rpc' \notin {"fetch", "ended", "walk"}
        BY <2>7, <3>3 DEF Fetch
      <4> QED BY <2>3, <2>6, <3>1, <3>3, <4>1 DEF Rising
    <3> QED BY <3>2, <3>3
  <2>8. CASE Check
    <3>1. rpc = "check" /\ rpc' = "ended" /\ matches' = matches /\ Found' = Found /\ row' = row /\ curl' = curl
      BY <2>8 DEF Check, Restart, Calm, Observing, Walking, Outcomes, Found
    <3> QED BY <2>3, <2>6, <3>1 DEF Rising
  <2>9. CASE Ended
    <3>1. /\ rpc = "ended" /\ matches' = matches /\ Found' = Found /\ row' = row /\ curl' = curl
          /\ rpc' = "done" \/ (rpc' = "walk" /\ walk' = row)
      BY <2>9 DEF Ended, Found
    <3> QED BY <2>3, <2>6, <3>1 DEF Rising
  <2>10. CASE Walk
    <3>1. /\ rpc = "walk" /\ walk # Nil /\ rpc' \in {"walk", "overflow"} /\ row' = row /\ curl' = curl
          /\ rpc' = "overflow" => matches' = matches
          /\ rpc' = "walk" => walk' = to[walk]
          /\ matches' = matches \/ (walk \in Others /\ matches' = Append(matches, walk))
      BY <2>10 DEF Walk, Restart, Calm, Observing, Walking, Outcomes
    <3>2. /\ walk \in seen /\ row \in seen /\ head[walk] = curl /\ head[row] = curl /\ val[walk] = val[row]
      BY <2>3, <2>5, <3>1 DEF Here, Rising, Placed
    <3>3. \A m \in Found : m \in seen /\ (val[m] < val[row] \/ (val[m] = val[row] /\ born[walk] < born[m]))
      BY <2>3, <2>5, <3>1 DEF Rising
    <3>4. Found' \subseteq Found \cup {walk}
      BY <1>2, <3>1 DEF Found
    <3>5. \A i, j \in 1 .. Len(matches') : i < j =>
            matches'[i] # matches'[j] /\ val[matches'[i]] <= val[matches'[j]]
      <4>1. CASE matches' = matches
        BY <2>3, <4>1 DEF Rising
      <4>2. CASE matches' = Append(matches, walk)
        <5>1. Len(matches) \in Nat /\ Len(matches') = Len(matches) + 1 /\ matches'[Len(matches) + 1] = walk
          BY <1>2, <4>2
        <5>2. \A i \in 1 .. Len(matches) : matches'[i] = matches[i] /\ matches[i] \in Found
          BY <1>2, <4>2 DEF Found
        <5>3. \A m \in Found : m # walk /\ val[m] <= val[walk]
          <6> SUFFICES ASSUME NEW m \in Found PROVE m # walk /\ val[m] <= val[walk]
            OBVIOUS
          <6>1. m \in Rows /\ walk \in Rows
            BY <2>5, <3>2
          <6>2. val[m] \in Nat /\ val[walk] \in Nat /\ born[m] \in Nat /\ born[walk] \in Nat
            BY <6>1, DataAssumption DEF IndexInv, SharedType, CommandType
          <6>3. val[m] < val[walk] \/ (val[m] = val[walk] /\ born[walk] < born[m])
            BY <3>2, <3>3
          <6> QED BY <6>2, <6>3
        <5>4. SUFFICES ASSUME NEW i \in 1 .. Len(matches'), NEW j \in 1 .. Len(matches'), i < j
                       PROVE  matches'[i] # matches'[j] /\ val[matches'[i]] <= val[matches'[j]]
          OBVIOUS
        <5>5. i \in 1 .. Len(matches) /\ (j \in 1 .. Len(matches) \/ j = Len(matches) + 1)
          BY <5>1, <5>4
        <5>6. CASE j \in 1 .. Len(matches)
          BY <2>3, <5>2, <5>4, <5>5, <5>6 DEF Rising
        <5>7. CASE j = Len(matches) + 1
          BY <5>1, <5>2, <5>3, <5>5, <5>7
        <5> QED BY <5>5, <5>6, <5>7
      <4> QED BY <3>1, <4>1, <4>2
    <3>6. rpc' = "walk" =>
            /\ walk' # Nil => head[walk'] = curl
            /\ \A m \in Found' : val[m] < val[row] \/ (val[m] = val[row] /\ (walk' # Nil => born[walk'] < born[m]))
      <4>1. SUFFICES ASSUME rpc' = "walk"
                     PROVE  /\ walk' # Nil => head[walk'] = curl
                            /\ \A m \in Found' : val[m] < val[row] \/ (val[m] = val[row] /\ (walk' # Nil => born[walk'] < born[m]))
        OBVIOUS
      <4>2. walk' = to[walk] /\ (to[walk] # Nil => head[to[walk]] = curl /\ born[to[walk]] < born[walk] /\ to[walk] \in seen)
        BY <2>3, <2>5, <3>1, <3>2, <4>1 DEF Placed, Covered
      <4>3. \A m \in Found' : m \in seen /\ born[m] \in Nat
        BY <2>5, <3>2, <3>3, <3>4 DEF IndexInv, CommandType
      <4>4. born[walk] \in Nat /\ (to[walk] # Nil => born[to[walk]] \in Nat)
        BY <2>5, <3>2, <4>2 DEF IndexInv, CommandType
      <4>5. ASSUME NEW m \in Found'
            PROVE  val[m] < val[row] \/ (val[m] = val[row] /\ (walk' # Nil => born[walk'] < born[m]))
        BY <3>2, <3>3, <3>4, <4>2, <4>3, <4>4
      <4> QED BY <4>2, <4>5
    <3> QED BY <2>6, <3>1, <3>2, <3>5, <3>6 DEF Rising
  <2>11. CASE NextNode
    <3>1. /\ rpc = "walk" /\ rpc' = "fetch" /\ matches' = matches /\ Found' = Found /\ curl' = next[curl][0]
          /\ row # Nil /\ row \in seen /\ head[row] = curl
      BY <2>3, <2>11 DEF NextNode, Found, Here, Rising
    <3>2. ASSUME NEW m \in Found, NEW q \in Known, head[q] = curl' PROVE val[m] < val[q]
      <4>1. val[m] \in Nat /\ val[row] \in Nat /\ val[q] \in Nat
        BY <2>5, <3>1, DataAssumption DEF IndexInv, SharedType, Known, Stage
      <4>2. val[row] < val[q]
        BY <2>3, <2>5, <3>1, <3>2 DEF Placed
      <4>3. val[m] < val[row] \/ val[m] = val[row]
        BY <2>3, <3>1 DEF Rising
      <4> QED BY <4>1, <4>2, <4>3
    <3> QED BY <2>2, <2>3, <2>6, <3>1, <3>2 DEF Rising
  <2> QED BY <2>4, <2>7, <2>8, <2>9, <2>10, <2>11
<1> QED BY <1>4, <1>5

LEMMA SinceKept ==
  ASSUME IndexInv, since <= cycle, Reader
  PROVE  since' <= cycle'
<1>1. cycle' = cycle /\ cycle \in Nat
  BY DEF Reader, Open, ReadLock, Enter, Start, Locate, Compare, Arrive, Skip, Pass, Fetch, Check,
         Ended, Walk, NextNode, Close, shared, IndexInv, SharedType
<1>2. since' \in {since, cycle, 0}
  BY DEF Reader, Open, ReadLock, Enter, Start, Locate, Compare, Arrive, Skip, Pass, Fetch, Check,
         Ended, Walk, NextNode, Close
<1> QED BY <1>1, <1>2

\* A step of the master that neither adds a row nor moves one.
LEMMA StillStep ==
  ASSUME IndexInv, IndexInv', SearchInv, SearchInv', Onward, Calm => Placed, Master, Still'
  PROVE  /\ Still /\ UNCHANGED reader /\ InTable' \subseteq InTable /\ Known' = Known
         /\ seen' \cup InTable' \subseteq seen \cup InTable
<1> USE PointersAssumption DEF Cells
<1>1. Calm'
  BY DEF Still, Calm
<1>2. /\ UNCHANGED reader /\ Observing /\ Covered /\ Covered' /\ met' = met \cup Doing' /\ Doing \subseteq met
      /\ seen' = seen \cup Listed' /\ Known \subseteq Known'
      /\ Known' \subseteq Known \cup (IF pc = "insert" THEN {target} ELSE {})
  BY <1>1, CalmStep
<1>3. Still /\ op \notin {"add"} \cup Changes /\ op' \notin {"add"} \cup Changes
  BY <1>2 DEF Still, Covered, Doing
<1>4. pc \notin {"store", "insert", "link", "publish"}
  BY <1>3 DEF IndexInv, Stage
<1>5. \/ \E r \in Rows : Delete(r)
      \/ Unlink \/ PutBack \/ EraseLevel \/ LowerHeight \/ Clear \/ Free
  BY <1>3, <1>4 DEF Master, Add, Set, Incr, Begin, Changes, Store, InsertHead, Link, NewNode, Publish
<1>6. InTable' \subseteq InTable
  <2>1. CASE \E r \in Rows : Delete(r)
    BY <2>1 DEF Delete, Begin, InTable, Linked, Listed
  <2>2. CASE Unlink
    <3>1. prev[target] # Nil /\ target \in Rows
      BY <2>2 DEF Unlink, IndexInv, Stage
    <3> QED BY <2>2, <3>1 DEF Unlink, IndexInv, Stage, InTable, Linked, Lists, Live
  <2>3. CASE PutBack \/ EraseLevel \/ LowerHeight \/ Clear
    BY <2>3 DEF PutBack, EraseLevel, LowerHeight, Clear, InTable, Linked
  <2>4. CASE Free
    BY <2>4 DEF Free, Return, InTable, Linked
  <2> QED BY <1>5, <2>1, <2>2, <2>3, <2>4
<1>7. Listed' \subseteq InTable'
  BY DEF Listed, InTable, Linked, IndexInv, Stage
<1> QED BY <1>2, <1>3, <1>4, <1>6, <1>7

\* There are as many rows before the search as nodes it has passed.
LEMMA EnoughKept ==
  ASSUME IndexInv, IndexInv', SearchInv, SearchInv', Onward, Calm => Placed, Still => Enough, Master, Still'
  PROVE  Enough'
<1>1. Calm'
  BY DEF Still, Calm
<1>2. /\ Still /\ UNCHANGED reader /\ Known' = Known /\ seen' \cup InTable' \subseteq seen \cup InTable
  BY StillStep
<1>3. /\ seen' = seen \cup Listed' /\ Placed /\ Covered /\ Observing /\ seen \subseteq Known
      /\ \A r \in Known : val'[r] = val[r] /\ head'[r] = head[r]
  BY <1>1, CalmStep DEF Known
<1>4. Enough /\ Here
  BY <1>2, <1>3 DEF SearchInv, Sighted
<1> DEFINE T == seen \cup InTable
<1>5. IsFiniteSet(T) /\ Cardinality(T) \in Nat /\ Cardinality(T) <= size
  BY <1>4, FS_CardinalityType DEF Enough
<1>6. IsFiniteSet(T') /\ Cardinality(T') <= Cardinality(T) /\ Cardinality(T') \in Nat
  <2>1. T' \in SUBSET T
    BY <1>2
  <2> HIDE DEF T
  <2> QED BY <1>5, <2>1, FS_Subset, FS_CardinalityType
<1>7. ASSUME NEW A, NEW B, A \subseteq B, B \subseteq seen', steps <= Cardinality(A)
      PROVE  steps <= Cardinality(B)
  <2>1. B \in SUBSET T' /\ A \in SUBSET B
    BY <1>7
  <2>2. IsFiniteSet(B) /\ Cardinality(A) <= Cardinality(B)
    <3> HIDE DEF T
    <3> QED BY <1>6, <2>1, FS_Subset
  <2>3. IsFiniteSet(A) /\ Cardinality(A) \in Nat /\ Cardinality(B) \in Nat
    BY <2>1, <2>2, FS_Subset, FS_CardinalityType
  <2>4. steps \in Nat
    BY DEF SearchInv, ReaderType
  <2> QED BY <1>7, <2>2, <2>3, <2>4
<1>8. size' = size /\ steps' = steps /\ rpc' = rpc /\ curl' = curl /\ row' = row /\ size \in Int
  BY <1>2 DEF reader, SearchInv, ReaderType
<1>9. rpc = "fetch" => steps <= Cardinality(Passed')
  <2>1. Passed \subseteq Passed' /\ Passed' \subseteq seen'
    BY <1>2, <1>3, <1>8 DEF Passed
  <2> QED BY <1>4, <1>7, <2>1 DEF Enough
<1>10. rpc \in {"check", "ended", "walk"} => steps <= Cardinality(Lower')
  <2>1. ASSUME rpc \in {"check", "ended", "walk"}
        PROVE  Lower \subseteq Lower' /\ Lower' \subseteq seen'
    BY <1>3, <1>4, <1>8, <2>1 DEF Lower, Here
  <2> QED BY <1>4, <1>7, <2>1 DEF Enough
<1>11. Cardinality(T') <= size'
  BY <1>5, <1>6, <1>8
<1> QED BY <1>6, <1>8, <1>9, <1>10, <1>11 DEF Enough

LEMMA EnoughRead ==
  ASSUME IndexInv, SearchInv, SearchInv', Onward, Counted, Starting, Starting', Calm => Placed /\ Rising,
         Still => Enough, Reader, Still'
  PROVE  Enough'
<1> USE PointersAssumption DEF Cells
<1>1. Observing' /\ Calm'
  BY DEF Still, Calm
<1>2. UNCHANGED <<shared, command>> /\ Listed' = Listed /\ InTable' = InTable
  BY <1>1, ReaderKeeps
<1>3. /\ val' = val /\ head' = head /\ next' = next /\ to' = to
  BY <1>2 DEF shared
<1>4. CASE ReadLock
  <2>1. size' = count /\ seen' = Listed /\ rpc' \in {"done", "enter"}
    BY <1>4 DEF ReadLock
  <2>2. Listed \subseteq InTable
    BY DEF Listed, InTable, Linked, IndexInv, Stage
  <2>3. seen' \cup InTable' = InTable
    BY <1>2, <2>1, <2>2
  <2>4. count \in Int
    BY DEF IndexInv, SharedType
  <2> QED BY <2>1, <2>3, <2>4 DEF Enough, Counted
<1>5. CASE ~ ReadLock
  <2>1. /\ Observing /\ seen' = seen /\ size' = size /\ Known' = Known /\ met \subseteq met' /\ seen \subseteq Known
    BY <1>1, <1>5, ReaderKeeps DEF Known
  <2>2. Still /\ Calm /\ Enough /\ Placed /\ Rising /\ Here /\ Covered
    BY <2>1 DEF Still, Calm, SearchInv, Sighted
  <2>3. /\ IsFiniteSet(seen \cup InTable) /\ seen' \cup InTable' = seen \cup InTable
        /\ Cardinality(seen' \cup InTable') <= size'
    BY <1>2, <2>1, <2>2 DEF Enough
  <2>4. IsFiniteSet(seen) /\ \A A : A \subseteq seen => IsFiniteSet(A) /\ Cardinality(A) \in Nat
    <3>1. seen \in SUBSET (seen \cup InTable)
      OBVIOUS
    <3>2. IsFiniteSet(seen)
      BY <2>3, <3>1, FS_Subset
    <3>3. ASSUME NEW A, A \subseteq seen PROVE IsFiniteSet(A)
      BY <3>2, <3>3, FS_Subset
    <3> QED BY <3>2, <3>3, FS_CardinalityType
  <2>5. ASSUME NEW A, NEW B, A \subseteq B, B \subseteq seen PROVE Cardinality(A) <= Cardinality(B)
    BY <2>4, <2>5, FS_Subset
  <2>6. Passed \subseteq seen /\ Lower \subseteq seen /\ Passed' \subseteq seen /\ Lower' \subseteq seen
    BY <2>1 DEF Passed, Lower
  <2>7. steps \in Nat /\ steps' \in Nat
    BY DEF SearchInv, ReaderType
  <2>8. CASE rpc' = "fetch"
    <3>1. CASE rpc \in {"start", "locate", "compare", "arrive", "skip", "pass"}
      <4>1. steps' = 0
        BY <2>8, <3>1 DEF Starting, Reader, Open, ReadLock, Enter, Start, Locate, Compare, Arrive, Skip, Pass, Fetch,
             Check, Ended, Walk, NextNode, Close
      <4>2. Cardinality(Passed') \in Nat
        BY <2>4, <2>6
      <4> QED BY <2>3, <2>8, <4>1, <4>2 DEF Enough
    <3>2. CASE rpc \notin {"start", "locate", "compare", "arrive", "skip", "pass"}
      <4>1. NextNode
        BY <2>8, <3>2 DEF Reader, Open, ReadLock, Enter, Start, Locate, Compare, Arrive, Skip, Pass, Fetch,
             Check, Ended, Walk, Close, Restart
      <4>2. rpc = "walk" /\ steps' = steps + 1 /\ curl' = next[curl][0]
        BY <4>1 DEF NextNode
      <4>3. row # Nil /\ row \in seen /\ head[row] = curl /\ val[row] \in Nat
        BY <2>2, <4>2, DataAssumption DEF Here, Rising, SearchInv, HistoryType, IndexInv, SharedType
      <4>4. \A r \in seen : val[r] \in Nat
        BY DataAssumption DEF SearchInv, HistoryType, IndexInv, SharedType
      <4>5. \A q \in Known : q \in Rows /\ val[q] \in Nat
        BY DataAssumption DEF Known, SearchInv, HistoryType, IndexInv, SharedType, Stage
      <4>6. \A q \in Known : head[q] = curl' => val[row] < val[q]
        BY <2>1, <2>2, <4>2, <4>3 DEF Placed
      <4>7. Lower \cup {row} \subseteq Passed'
        <5>1. \A r \in Lower \cup {row} : r \in seen /\ (val[r] < val[row] \/ r = row)
          BY <4>3 DEF Lower
        <5>2. ASSUME NEW r \in Lower \cup {row}, NEW q \in Known, head[q] = curl' PROVE val[r] < val[q]
          BY <4>3, <4>4, <4>5, <4>6, <5>1, <5>2
        <5> QED BY <1>3, <2>1, <5>1, <5>2 DEF Passed
      <4>8. row \notin Lower
        BY <4>3 DEF Lower
      <4>9. Cardinality(Lower \cup {row}) = Cardinality(Lower) + 1
        BY <2>4, <2>6, <4>8, FS_AddElement
      <4>10. Cardinality(Lower) + 1 <= Cardinality(Passed')
        BY <2>5, <2>6, <4>7, <4>9
      <4>11. steps <= Cardinality(Lower)
        BY <2>2, <4>2 DEF Enough
      <4>12. Cardinality(Lower) \in Nat /\ Cardinality(Passed') \in Nat
        BY <2>4, <2>6
      <4>13. steps' <= Cardinality(Passed')
        BY <2>7, <4>2, <4>10, <4>11, <4>12
      <4> QED BY <2>3, <2>8, <4>13 DEF Enough
    <3> QED BY <3>1, <3>2
  <2>9. CASE rpc' \in {"check", "ended", "walk"}
    <3>1. CASE rpc = "fetch"
      <4>1. Fetch
        BY <2>9, <3>1 DEF Reader, Open, ReadLock, Enter, Start, Locate, Compare, Arrive, Skip, Pass,
             Check, Ended, Walk, NextNode, Close
      <4>2. curl # Nil /\ to[curl] # Nil /\ row' = to[curl] /\ steps' = steps
        BY <2>7, <2>9, <4>1 DEF Fetch, SearchInv, ReaderType
      <4>3. row' \in seen /\ head[row'] = curl
        BY <2>2, <4>2 DEF Here, Covered, Placed
      <4>4. Passed \subseteq Lower'
        BY <1>3, <2>1, <4>3 DEF Passed, Lower
      <4>5. Cardinality(Passed) <= Cardinality(Lower')
        BY <2>5, <2>6, <4>4
      <4>6. steps <= Cardinality(Passed)
        BY <2>2, <3>1 DEF Enough
      <4>7. Cardinality(Passed) \in Nat /\ Cardinality(Lower') \in Nat
        BY <2>4, <2>6
      <4>8. steps' <= Cardinality(Lower')
        BY <2>7, <4>2, <4>5, <4>6, <4>7
      <4> QED BY <2>3, <2>9, <4>8 DEF Enough
    <3>2. CASE rpc # "fetch"
      <4>1. Check \/ Ended \/ Walk
        BY <2>9, <3>2 DEF Reader, Open, ReadLock, Enter, Start, Locate, Descend, Crash, Compare, Arrive, Skip, Pass, Fetch,
             NextNode, Close
      <4>2. rpc \in {"check", "ended", "walk"} /\ row' = row /\ steps' = steps
        BY <2>9, <4>1 DEF Check, Ended, Walk, Restart
      <4>3. Lower' = Lower
        BY <1>3, <2>1, <4>2 DEF Lower
      <4> QED BY <2>2, <2>3, <2>9, <4>2, <4>3 DEF Enough
    <3> QED BY <3>1, <3>2
  <2> QED BY <2>3, <2>8, <2>9 DEF Enough
<1> QED BY <1>4, <1>5

\* Rows that differ, and one more, are not more than those of a set they are in.
LEMMA RoomForOne ==
  ASSUME NEW A, NEW s \in Seq(A), NEW x, NEW T, IsFiniteSet(T), x \in T,
         \A i \in 1 .. Len(s) : s[i] \in T /\ s[i] # x,
         \A i, j \in 1 .. Len(s) : i < j => s[i] # s[j]
  PROVE  Len(s) + 1 <= Cardinality(T)
<1> DEFINE n == Len(s) + 1
           f == [i \in 1 .. n |-> IF i = n THEN x ELSE s[i]]
<1>1. n \in Nat /\ \A i \in 1 .. n : i = n \/ i \in 1 .. Len(s)
  OBVIOUS
<1>2. f \in [1 .. n -> T]
  BY <1>1
<1>3. ASSUME NEW i \in 1 .. n, NEW j \in 1 .. n, f[i] = f[j]
      PROVE  i = j
  <2>1. SUFFICES ASSUME i < j PROVE FALSE
    <3>1. ASSUME NEW k \in 1 .. n, NEW l \in 1 .. n, f[k] = f[l] PROVE ~ (k < l)
      <4>1. SUFFICES ASSUME k < l PROVE FALSE
        OBVIOUS
      <4>2. k \in 1 .. Len(s) /\ f[k] = s[k]
        BY <4>1
      <4>3. CASE l = n
        BY <3>1, <4>2, <4>3
      <4>4. CASE l # n
        BY <3>1, <4>1, <4>2, <4>4
      <4> QED BY <4>3, <4>4
    <3> QED BY <1>3, <3>1
  <2>2. i \in 1 .. Len(s) /\ f[i] = s[i]
    BY <2>1
  <2>3. CASE j = n
    BY <1>3, <2>2, <2>3
  <2>4. CASE j # n
    BY <1>3, <2>1, <2>2, <2>4
  <2> QED BY <2>3, <2>4
<1>4. f \in Injection(1 .. n, T)
  BY <1>2, <1>3 DEF Injection, IsInjective
<1>5. Cardinality(1 .. n) <= Cardinality(T)
  BY <1>4, FS_Injection
<1>6. Cardinality(1 .. n) = n
  <2>1. 1 \in Int /\ n \in Int
    BY <1>1
  <2>2. Cardinality(1 .. n) = IF 1 > n THEN 0 ELSE n - 1 + 1
    BY <2>1, FS_Interval
  <2> QED BY <1>1, <2>2
<1> QED BY <1>5, <1>6

\* A search that fails has met a reason.
LEMMA FailsRead ==
  ASSUME IndexInv, SearchInv, SearchInv', Calm => Placed /\ Rising, Still => Enough, FailsForAReason, Reader
  PROVE  FailsForAReason'
<1>1. CrashNeedsErase'
  BY DEF SearchInv, Sighted, Here, CrashNeedsErase
<1>2. SUFFICES ASSUME rpc' \in {"overflow", "endless"}, met' \cap {"add", "move"} = {}
               PROVE  FALSE
  BY <1>1 DEF FailsForAReason
<1>3. (Fetch /\ rpc' = "endless") \/ (Walk /\ rpc' = "overflow")
  BY <1>2 DEF Reader, Open, ReadLock, Enter, Start, Locate, Descend, Crash, Compare, Arrive, Skip, Pass, Fetch, Restart,
       Check, Ended, Walk, NextNode, Close
<1>4. met' = met /\ rpc \in {"fetch", "walk"}
  BY <1>2, <1>3 DEF Fetch, Walk, Restart, history
<1>5. Still /\ Calm
  BY <1>2, <1>4 DEF Still, Calm, Observing, Walking
<1>6. Placed /\ Enough /\ Rising /\ Here /\ matches \in Seq(Rows) /\ steps \in Nat /\ size \in Int
  BY <1>5 DEF SearchInv, Sighted, ReaderType
<1> DEFINE T == seen \cup InTable
<1>7. /\ IsFiniteSet(T) /\ Cardinality(T) <= size /\ Cardinality(T) \in Nat
  BY <1>6, FS_CardinalityType DEF Enough
<1>8. CASE Fetch /\ rpc' = "endless"
  <2>1. rpc = "fetch" /\ steps > size
    BY <1>8 DEF Fetch
  <2>2. Passed \in SUBSET T
    BY DEF Passed
  <2>3. IsFiniteSet(Passed) /\ Cardinality(Passed) <= Cardinality(T) /\ Cardinality(Passed) \in Nat
    <3> HIDE DEF T
    <3> QED BY <1>7, <2>2, FS_Subset, FS_CardinalityType
  <2>4. steps <= Cardinality(Passed)
    BY <1>6, <2>1 DEF Enough
  <2> QED BY <1>6, <1>7, <2>1, <2>3, <2>4
<1>9. CASE Walk /\ rpc' = "overflow"
  <2>1. rpc = "walk" /\ walk # Nil /\ Len(matches) = size
    BY <1>9 DEF Walk, Restart
  <2>2. walk \in T /\ \A i \in 1 .. Len(matches) : matches[i] \in T
    BY <1>6, <2>1 DEF Here, ReportsRows
  <2>3. \A i \in 1 .. Len(matches) : matches[i] # walk
    <3>1. SUFFICES ASSUME NEW i \in 1 .. Len(matches), matches[i] = walk PROVE FALSE
      OBVIOUS
    <3>2. walk \in Found /\ walk \in Rows
      BY <1>6, <3>1 DEF Found
    <3>3. row \in Known /\ walk \in Known /\ head[walk] = head[row]
      BY <1>6, <2>1 DEF Here, Rising, Known
    <3>4. val[walk] = val[row] /\ val[walk] \in Nat /\ born[walk] \in Nat
      BY <1>6, <3>2, <3>3, DataAssumption DEF Placed, IndexInv, SharedType, CommandType
    <3>5. val[walk] < val[row] \/ born[walk] < born[walk]
      BY <1>6, <2>1, <3>2 DEF Rising
    <3> QED BY <3>4, <3>5
  <2>4. Len(matches) + 1 <= Cardinality(T)
    <3> HIDE DEF T
    <3> QED BY <1>6, <1>7, <2>2, <2>3, RoomForOne DEF Rising
  <2> QED BY <1>6, <1>7, <2>1, <2>4
<1> QED BY <1>3, <1>8, <1>9

\* What is met is not forgotten.
LEMMA FailsKept ==
  ASSUME IndexInv, IndexInv', SearchInv, SearchInv', FailsForAReason, Master
  PROVE  FailsForAReason'
<1>1. CrashNeedsErase'
  BY DEF SearchInv, Sighted, Here, CrashNeedsErase
<1>2. UNCHANGED reader /\ Observe
  BY MasterMoves
<1>3. rpc' = rpc /\ (rpc \in {"overflow", "endless"} => met \subseteq met')
  BY <1>2 DEF reader, Observe, Observing, Outcomes, Walking
<1> QED BY <1>1, <1>3 DEF FailsForAReason

\* While nothing was moved or erased, what was seen is the index, and each node has rows.
LEMMA QuietIs ==
  ASSUME IndexInv, SearchInv, Calm => Placed, Quiet
  PROVE  /\ Covered /\ Here /\ Placed /\ Calm /\ Known = seen /\ Listed = Linked /\ Linked \subseteq seen
         /\ pc \notin {"empty", "erase", "clear"} /\ op \notin Changes
         /\ pc = "publish" => tall[node] = 1 /\ level = 0 /\ op = "add" /\ node \in InList
         /\ InList \subseteq seenNodes
         /\ \A n \in InList : /\ to[n] # Nil /\ to[n] \in seen /\ head[to[n]] = n /\ n \in Nodes /\ n # Top
                              /\ Value(n) = Label[n] /\ Value(n) \in Nat
                              /\ \A q \in seen : head[q] = n => val[q] = Value(n)
         /\ \A r \in seen : r \in Rows /\ val[r] \in Nat /\ born[r] \in Nat /\ stamp[r] \in Nat
         /\ since \in Nat /\ search.row1 \in Nat /\ search.row2 \in Nat
<1> USE PointersAssumption DEF Cells
<1>1. Calm /\ Placed /\ Covered /\ Here /\ "erase" \notin met /\ "tall" \notin met
  BY DEF Quiet, Calm, SearchInv, Sighted
<1>2. pc \notin {"empty", "erase", "clear"} /\ op \notin Changes
  BY <1>1 DEF Calm, Covered, Doing
<1>3. Known = seen /\ Listed = Linked /\ Linked \subseteq seen /\ InList \subseteq seenNodes
  BY <1>1, <1>2 DEF Known, Listed, Linked, Covered
<1>4. ASSUME pc = "publish" PROVE tall[node] = 1 /\ level = 0 /\ op = "add" /\ node \in InList
  <2>1. ~ (tall[node] > 1)
    BY <1>1, <1>4 DEF Covered, Doing
  <2>2. tall[node] \in Nat /\ tall[node] > 0 /\ level \in Nat /\ level < tall[node] /\ node \in InList
    BY <1>4 DEF IndexInv, SharedType, CommandType, Stage, Levels, InList
  <2>3. op = "add"
    BY <1>2, <1>4 DEF IndexInv, Stage
  <2> QED BY <2>1, <2>2, <2>3
<1>5. \A r \in seen : r \in Rows /\ val[r] \in Nat /\ born[r] \in Nat /\ stamp[r] \in Nat
  BY DataAssumption DEF SearchInv, HistoryType, IndexInv, SharedType, CommandType
<1>6. ASSUME NEW n \in InList
      PROVE  /\ to[n] # Nil /\ to[n] \in seen /\ head[to[n]] = n /\ n \in Nodes /\ n # Top
             /\ Value(n) = Label[n] /\ Value(n) \in Nat
             /\ \A q \in seen : head[q] = n => val[q] = Value(n)
  <2>1. n \in Nodes /\ to[n] # Nil /\ to[n] \in seen
    BY <1>1, <1>3 DEF Covered, InList
  <2>2. head[to[n]] = n
    BY <1>1, <1>3, <2>1 DEF Placed
  <2> QED BY <1>1, <1>3, <1>5, <2>1, <2>2 DEF Placed, Value, Label
<1>7. since \in Nat /\ search.row1 \in Nat /\ search.row2 \in Nat
  <2>1. since \in Nat /\ search \in Searches \cup {NoSearch}
    BY DEF SearchInv, ReaderType
  <2>2. \A s \in Searches : s.row1 \in Nat /\ s.row2 \in Nat
    BY DataAssumption
  <2>3. NoSearch.row1 = 0 /\ NoSearch.row2 = 0
    BY DEF NoSearch
  <2> QED BY <2>1, <2>2, <2>3
<1> QED BY <1>1, <1>2, <1>3, <1>4, <1>5, <1>6, <1>7

\* What comes next after a node is not behind a row of a greater value.
LEMMA Successor ==
  ASSUME IndexInv, SearchInv, Calm => Placed, Quiet,
         NEW n \in InList \cup {Top}, ~ (pc = "publish" /\ n = node),
         NEW r \in Linked, ~ (pc = "publish" /\ r = target), n # Top => Value(n) < val[r]
  PROVE  next[n][0] # Nil /\ next[n][0] \in InList /\ Value(next[n][0]) <= val[r]
<1> USE PointersAssumption, SizesAssumption DEF Cells
<1>1. 0 \in Levels /\ pc \notin {"erase", "clear"}
  BY QuietIs DEF Levels
<1>2. r \in Rows /\ head[r] \in InList /\ head[r] \in Nodes /\ val[r] = Label[head[r]]
  BY LabelIs
<1>3. ~ (pc = "publish" /\ head[r] = node)
  <2>1. SUFFICES ASSUME pc = "publish", head[r] = node PROVE FALSE
    OBVIOUS
  <2>2. /\ born[target] = cycle /\ prev[target] = node /\ head[target] = node /\ target \in Rows
        /\ to[node] = target /\ to[target] = Nil /\ node \in Nodes
    BY <2>1 DEF IndexInv, Stage, InList
  <2>3. node # Nil /\ target \in Linked /\ r # target
    BY <2>1, <2>2 DEF Linked
  <2>4. born[r] \in Nat /\ born[target] \in Nat /\ born[r] <= born[target] /\ born[r] # born[target]
    BY <1>2, <2>2, <2>3 DEF IndexInv, CommandType, Ranks
  <2> QED BY <2>1, <2>2, <2>3, <2>4 DEF IndexInv, Ranks
<1>4. n \in Chain(0) /\ head[r] \in Chain(0) /\ n \in Places
  BY <1>1, <1>2, <1>3 DEF Chain, OnLevel, InList, Places
<1>5. Before(Label, n, head[r])
  <2>1. head[r] # Top
    BY <1>2
  <2>2. n # Top => Label[n] < Label[head[r]]
    BY <1>2, QuietIs
  <2> QED BY <2>1, <2>2 DEF Before
<1>6. Sorted(Chain(0), Level(0), Label)
  BY <1>1 DEF IndexInv, Chains
<1>7. /\ next[n][0] # Nil /\ next[n][0] \in Chain(0) /\ next[n][0] # Top
      /\ ~ Before(Label, head[r], next[n][0])
  BY <1>4, <1>5, <1>6 DEF Sorted, Before, Level
<1>8. next[n][0] \in InList
  BY <1>1, <1>7, ChainFacts
<1>9. Value(next[n][0]) = Label[next[n][0]] /\ Value(next[n][0]) \in Nat
  BY <1>8, QuietIs
<1>10. Label[head[r]] \in Nat
  BY <1>2, QuietIs
<1> QED BY <1>2, <1>7, <1>8, <1>9, <1>10 DEF Before

\* What leads on leads to a greater value, and not to a node that is not published.
LEMMA QuietLeads ==
  ASSUME IndexInv, SearchInv, Calm => Placed, Onward, Quiet, NEW n \in InList \cup {Top}, NEW i \in Levels
  PROVE  /\ next[n][i] \in InList \cup {Nil} /\ ~ (pc = "publish" /\ next[n][i] = node)
         /\ n # Top /\ next[n][0] # Nil => Value(n) < Value(next[n][0])
<1> USE PointersAssumption, SizesAssumption DEF Cells
<1>1. next[n][i] \in InList \cup {Nil}
  BY IndexClosed DEF Closed
<1>2. ASSUME pc = "publish" PROVE next[n][i] # node
  <2>1. tall[node] = 1 /\ level = 0 /\ node \in InList
    BY <1>2, QuietIs
  <2>2. CASE i = 0
    BY <1>2, <2>2, NotLed
  <2>3. CASE i # 0
    <3>1. i \in Nat /\ i >= 1
      BY <2>3 DEF Levels
    <3>2. CASE n \in OnLevel(i)
      <4>1. n \in Chain(i) /\ n \in Places
        BY <1>2, <2>1, <3>1, <3>2 DEF Chain, OnLevel, InList, Places
      <4>2. Sorted(Chain(i), Level(i), Label)
        BY DEF IndexInv, Chains
      <4>3. next[n][i] = Nil \/ (next[n][i] \in Chain(i) /\ next[n][i] # Top)
        BY <4>1, <4>2 DEF Sorted, Before, Level
      <4>4. node \notin OnLevel(i) \/ node = Top
        BY <2>1, <3>1 DEF OnLevel
      <4> QED BY <2>1, <4>3, <4>4 DEF Chain, InList
    <3>3. CASE n \notin OnLevel(i)
      <4>1. n \in InList /\ i >= tall[n]
        BY <3>1, <3>3 DEF OnLevel, InList, IndexInv, SharedType, Levels
      <4> QED BY <2>1, <4>1 DEF IndexInv, Chains, InList
    <3> QED BY <3>2, <3>3
  <2> QED BY <2>2, <2>3
<1>3. ASSUME n # Top, next[n][0] # Nil PROVE Value(n) < Value(next[n][0])
  BY <1>3, NextIsHigher, QuietIs
<1> QED BY <1>1, <1>2, <1>3

\* What the master does in a quiet time changes nothing that was seen; what
\* it adds is newer than the search.
LEMMA QuietStep ==
  ASSUME IndexInv, IndexInv', SearchInv, SearchInv', Onward, Calm => Placed, since <= cycle, Quiet => Exact,
         Master, Quiet'
  PROVE  /\ Quiet /\ Exact /\ UNCHANGED reader /\ Found' = Found
         /\ seenNodes' \subseteq InList' /\ seenNodes \subseteq InList'
         /\ pc' = "publish" => node' \notin seenNodes
         /\ op' = "add" /\ rpc \in Walking \ {"enter"} => stamp'[target'] > since
         /\ \A r, q \in seen' : born'[r] = born'[q] => r = q
         /\ \A r \in seen : /\ r \in seen' /\ val'[r] = val[r] /\ head'[r] = head[r]
                            /\ born'[r] = born[r] /\ stamp'[r] = stamp[r]
         /\ \A r \in Linked' : r \in seen \/ (r = target' /\ op' = "add")
         /\ \A n \in seenNodes : Value(n)' = Value(n)
<1> USE PointersAssumption DEF Cells
<1>1. Calm'
  BY DEF Quiet, Calm
<1>2. /\ Calm /\ Placed /\ Observing /\ UNCHANGED reader /\ seen' = seen \cup Listed' /\ seenNodes' = seenNodes \cup InList'
      /\ met' = met \cup Doing' /\ op' \notin Changes
      /\ Known' \subseteq Known \cup (IF pc = "insert" THEN {target} ELSE {})
      /\ \A r \in Known : val'[r] = val[r] /\ head'[r] = head[r] /\ born'[r] = born[r] /\ stamp'[r] = stamp[r]
  BY <1>1, CalmStep
<1>3. Quiet /\ Exact
  BY <1>2 DEF Quiet
<1>4. /\ Covered /\ Here /\ Known = seen /\ Listed = Linked /\ Linked \subseteq seen
      /\ pc \notin {"empty", "erase", "clear"} /\ op \notin Changes /\ pc # "store"
      /\ pc = "publish" => level = 0 /\ op = "add"
      /\ seenNodes = InList
      /\ \A n \in InList : to[n] # Nil /\ to[n] \in seen /\ head[to[n]] = n /\ n \in Nodes
      /\ since \in Nat
  BY <1>3, QuietIs DEF Exact, Onward
<1>5. Placed'
  BY PlacedKept, <1>1
<1>6. /\ Known' = seen' /\ Listed' = Linked' /\ Linked' \subseteq seen' /\ pc' \notin {"empty", "erase", "clear"}
  <2>1. Covered' /\ "erase" \notin met'
    BY <1>1, CalmStep DEF Quiet
  <2>2. pc' \notin {"empty", "erase", "clear"}
    BY <2>1 DEF Covered, Doing
  <2> QED BY <2>1, <2>2 DEF Known, Listed, Linked, Covered
<1>7. \/ \E r \in Rows, v \in Values : Add(r, v)
      \/ \E r \in Rows : Delete(r)
      \/ Unlink \/ Free \/ InsertHead \/ Link \/ NewNode \/ Publish
  BY <1>2, <1>4 DEF Master, Set, Incr, Begin, PutBack, EraseLevel, LowerHeight, Clear, Store, Changes
<1>8. InList \subseteq InList'
  <2>1. CASE tall' = tall
    BY <2>1 DEF InList
  <2>2. CASE NewNode
    <3>1. PICK n \in Nodes \ (InList \cup seenNodes), h \in 1 .. MaxHeight :
            tall' = [tall EXCEPT ![n] = IF h > curh THEN curh + 1 ELSE h]
      BY <2>2 DEF NewNode
    <3> QED BY <3>1 DEF InList, IndexInv, SharedType
  <2> QED BY <1>7, <2>1, <2>2 DEF Add, Delete, Begin, Unlink, Free, InsertHead, Link, Publish
<1>9. pc' = "publish" => node' \notin seenNodes
  <2>1. CASE NewNode
    BY <2>1 DEF NewNode
  <2>2. CASE Publish
    BY <1>4, <2>2 DEF Publish, Return
  <2> QED BY <1>7, <2>1, <2>2 DEF Add, Delete, Begin, Unlink, Removed, Free, Return, InsertHead, Link
<1>10. rpc \in Walking \ {"enter"} /\ op' = "add" => stamp'[target'] > since
  <2>1. SUFFICES ASSUME rpc \in Walking \ {"enter"}, op' = "add" PROVE stamp'[target'] > since
    OBVIOUS
  <2>2. CASE \E r \in Rows, v \in Values : Add(r, v)
    <3>1. PICK r \in Rows : stamp' = [stamp EXCEPT ![r] = cycle'] /\ target' = r /\ cycle' = cycle + 1
      BY <2>2 DEF Add, Begin
    <3>2. stamp'[r] = cycle + 1 /\ cycle \in Nat
      BY <3>1 DEF IndexInv, SharedType
    <3> QED BY <1>4, <3>1, <3>2
  <2>3. CASE Unlink \/ InsertHead \/ NewNode \/ Link \/ Publish \/ Free \/ \E r \in Rows : Delete(r)
    <3>1. op = "add" /\ target' = target /\ stamp' = stamp
      BY <2>1, <2>3 DEF Unlink, InsertHead, NewNode, Link, Publish, Free, Return, Delete, Begin
    <3> QED BY <1>3, <2>1, <3>1 DEF Exact
  <2> QED BY <1>7, <2>2, <2>3
<1>11. \A r \in seen' : r \in seen \/ (r = target /\ pc = "insert" /\ (InsertHead \/ NewNode))
  <2>1. \A r \in seen' : r \in seen \/ (r = target /\ pc = "insert")
    BY <1>2, <1>4, <1>6
  <2>2. pc = "insert" => InsertHead \/ NewNode
    BY <1>7 DEF Add, Delete, Begin, Unlink, Free, Link, Publish
  <2> QED BY <2>1, <2>2
<1>12. \A r \in Linked' : r \in seen \/ (r = target' /\ op' = "add")
  <2>1. InsertHead \/ NewNode => target' = target /\ op' = op
    BY DEF InsertHead, NewNode
  <2>2. pc = "insert" => op = "add"
    BY <1>4 DEF IndexInv, Stage
  <2> QED BY <1>6, <1>11, <2>1, <2>2
<1>13. \A r, q \in seen' : born'[r] = born'[q] => r = q
  <2>1. ASSUME NEW r \in seen, pc = "insert", InsertHead \/ NewNode PROVE born'[target] # born'[r]
    <3>1. target \in Rows /\ r \in Rows /\ born[r] < cycle /\ born[r] \in Nat /\ cycle \in Nat
      BY <2>1 DEF IndexInv, Stage, Ranks, SharedType, CommandType, SearchInv, HistoryType
    <3>2. born'[target] = cycle
      BY <2>1, <3>1 DEF InsertHead, NewNode, IndexInv, CommandType
    <3> QED BY <1>2, <1>4, <3>1, <3>2
  <2>2. ASSUME NEW r \in seen, NEW q \in seen, born'[r] = born'[q] PROVE r = q
    BY <1>2, <1>3, <1>4, <2>2 DEF Exact
  <2> QED BY <1>11, <2>1, <2>2
<1>14. ASSUME NEW n \in seenNodes PROVE Value(n)' = Value(n)
  <2>1. /\ to[n] \in seen /\ head[to[n]] = n /\ to[n] \in Known'
        /\ val'[to[n]] = val[to[n]] /\ head'[to[n]] = n /\ n \in Nodes
    BY <1>2, <1>4, <1>6
  <2>2. n \in InList' /\ n \in seenNodes'
    BY <1>2, <1>4, <1>8
  <2>3. Calm' => Placed'
    BY <1>5
  <2>4. to'[n] # Nil /\ to'[n] \in seen' /\ head'[to'[n]] = n
    <3>1. Covered' /\ "erase" \notin met' /\ n # Nil
      BY <1>1, <2>1, CalmStep DEF Quiet
    <3>2. to'[n] # Nil /\ to'[n] \in seen'
      BY <2>2, <3>1 DEF Covered
    <3> QED BY <1>5, <2>2, <3>2 DEF Placed
  <2>5. val'[to[n]] = val'[to'[n]]
    BY <1>5, <1>6, <2>1, <2>4 DEF Placed
  <2> QED BY <2>1, <2>5 DEF Value
<1>15. Found' = Found
  BY <1>2 DEF Found, reader
<1>16. seenNodes' \subseteq InList' /\ seenNodes \subseteq InList'
  BY <1>2, <1>4, <1>8
<1>17. \A r \in seen : /\ r \in seen' /\ val'[r] = val[r] /\ head'[r] = head[r]
                       /\ born'[r] = born[r] /\ stamp'[r] = stamp[r]
  BY <1>2, <1>4
<1> QED BY <1>2, <1>3, <1>9, <1>10, <1>12, <1>13, <1>14, <1>15, <1>16, <1>17

LEMMA ExactKept ==
  ASSUME IndexInv, IndexInv', SearchInv, SearchInv', Onward, Calm => Placed /\ Stays /\ Rising, since <= cycle,
         Quiet => Exact, Master, Quiet'
  PROVE  Exact'
<1> USE PointersAssumption DEF Cells
<1>1. /\ Quiet /\ Exact /\ Found' = Found
      /\ seenNodes' \subseteq InList' /\ seenNodes \subseteq InList'
      /\ pc' = "publish" => node' \notin seenNodes
      /\ op' = "add" /\ rpc \in Walking \ {"enter"} => stamp'[target'] > since
      /\ \A r, q \in seen' : born'[r] = born'[q] => r = q
      /\ \A r \in seen : /\ r \in seen' /\ val'[r] = val[r] /\ head'[r] = head[r]
                         /\ born'[r] = born[r] /\ stamp'[r] = stamp[r]
      /\ \A r \in Linked' : r \in seen \/ (r = target' /\ op' = "add")
      /\ \A n \in seenNodes : Value(n)' = Value(n)
  BY QuietStep
<1>2. /\ rpc' = rpc /\ search' = search /\ since' = since /\ at' = at /\ lev' = lev /\ cand' = cand
      /\ curl' = curl /\ row' = row /\ walk' = walk /\ matches' = matches
  BY QuietStep DEF reader
<1>3. Calm /\ Placed /\ Stays /\ Rising /\ Here /\ Covered
  BY <1>1, QuietIs
<1>4. /\ \A n \in {at, cand, curl} \cap Nodes : n \in seenNodes
      /\ \A m \in Found : m \in seen
      /\ stay' \subseteq stay /\ stay \subseteq seen
  <2>1. \A n \in {at, cand, curl} \cap Nodes : n \in seenNodes
    BY <1>3 DEF Here
  <2>2. \A m \in Found : m \in seen
    BY <1>3 DEF Here, ReportsRows, Found
  <2>3. stay' \subseteq stay
    <3>1. Calm'
      BY DEF Quiet, Calm
    <3> QED BY <1>3, <3>1, CalmStep
  <2> QED BY <1>3, <2>1, <2>2, <2>3 DEF Stays
\* The rows linked since are newer than the search, or were linked before.
<1>5. ASSUME NEW q \in Linked', rpc \in Walking \ {"enter"}
      PROVE  (q \in Linked /\ q \in seen) \/ stamp'[q] > since
  <2>1. CASE q = target' /\ op' = "add"
    BY <1>1, <1>5, <2>1
  <2>2. CASE q \in seen /\ ~ (q = target' /\ op' = "add")
    <3>1. q \in Linked
      <4>1. prev[q] = Nil /\ q \in Rows => q = target' /\ op' = "add"
        <5>1. SUFFICES ASSUME prev[q] = Nil, q \in Rows PROVE q = target' /\ op' = "add"
          OBVIOUS
        <5>2. pc \notin {"empty", "erase", "clear", "store"} /\ op \notin Changes /\ op' \notin Changes /\ prev'[q] # Nil
          <6>1. Calm'
            BY DEF Quiet, Calm
          <6>2. op \notin Changes /\ op' \notin Changes /\ pc # "store"
            BY <1>3, <6>1, CalmStep
          <6> QED BY <1>1, <6>2, QuietIs DEF Linked
        <5>3. InsertHead \/ NewNode \/ Unlink
          BY <5>1, <5>2 DEF Master, Add, Set, Incr, Delete, Begin, PutBack, EraseLevel, LowerHeight, Clear, Store, Free,
             Link, Publish
        <5>4. CASE InsertHead
          <6>1. PICK n \in InList : prev' = [prev EXCEPT ![target] = n, ![to[n]] = target] /\ to[n] # Nil
            BY <5>2, <5>4 DEF InsertHead, IndexInv, Lists
          <6>2. prev[to[n]] = n /\ n \in Nodes /\ target' = target /\ op' = op /\ op = "add"
            BY <5>2, <5>4, <6>1 DEF InsertHead, IndexInv, Lists, Stage, Live, InList
          <6> QED BY <5>1, <5>2, <6>1, <6>2 DEF IndexInv, SharedType
        <5>5. CASE NewNode
          BY <5>1, <5>2, <5>5 DEF NewNode, IndexInv, SharedType, Stage
        <5>6. CASE Unlink
          <6>1. to[target] # Nil => prev[to[target]] = target
            BY <5>6 DEF Unlink, IndexInv, Lists, Live, Stage, Linked
          <6> QED BY <5>1, <5>2, <5>6, <6>1 DEF Unlink, IndexInv, Stage
        <5> QED BY <5>3, <5>4, <5>5, <5>6
      <4> QED BY <2>2, <4>1 DEF Linked
    <3> QED BY <2>2, <3>1
  <2> QED BY <1>1, <2>1, <2>2
<1>6. \A n \in {at, cand, curl} \cap Nodes : Value(n)' = Value(n) /\ ~ (pc' = "publish" /\ n = node')
  BY <1>1, <1>4
<1>7. \A m \in Found' : Matching(val'[m], search')
  BY <1>1, <1>2, <1>4 DEF Exact
<1>8. at # Top => at \in Nodes /\ at \in {at, cand, curl} \cap Nodes
  BY <1>3 DEF Here, SearchInv, HistoryType
<1>9. curl # Nil => curl \in {at, cand, curl} \cap Nodes
  BY <1>3 DEF Here, SearchInv, HistoryType
<1>10. /\ at # Top => Value(at)' = Value(at)
       /\ cand # Nil => Value(cand)' = Value(cand)
       /\ curl # Nil => Value(curl)' = Value(curl)
  <2>1. cand # Nil => cand \in {at, cand, curl} \cap Nodes
    BY <1>3 DEF Here, SearchInv, HistoryType
  <2>2. \A n \in {at, cand, curl} \cap Nodes : val'[to'[n]] = val[to[n]]
    BY <1>6 DEF Value
  <2> QED BY <1>2, <1>8, <1>9, <2>1, <2>2 DEF Value
<1>11. rpc \in {"locate", "compare", "arrive"} => ~ FromReset(search) /\ (at # Top => Value(at)' < search.row1)
  BY <1>1, <1>10 DEF Exact
<1>12. rpc = "compare" /\ lev = 0 =>
         \A q \in Linked' : (at # Top /\ val'[q] <= Value(at)') \/ val'[q] >= Value(cand)' \/ stamp'[q] > since
  <2>1. SUFFICES ASSUME rpc = "compare", lev = 0, NEW q \in Linked', q \in Linked, q \in seen
                 PROVE  (at # Top /\ val'[q] <= Value(at)') \/ val'[q] >= Value(cand)' \/ stamp'[q] > since
    BY <1>5 DEF Walking
  <2>2. cand \in {at, cand, curl} \cap Nodes
    BY <1>3, <2>1 DEF Here, SearchInv, HistoryType
  <2> QED BY <1>1, <1>10, <2>1, <2>2 DEF Exact, Below
<1>13. rpc = "arrive" =>
         \A q \in Linked' : (at # Top /\ val'[q] <= Value(at)') \/ val'[q] >= search.row1 \/ stamp'[q] > since
  <2>1. SUFFICES ASSUME rpc = "arrive", NEW q \in Linked', q \in Linked, q \in seen
                 PROVE  (at # Top /\ val'[q] <= Value(at)') \/ val'[q] >= search.row1 \/ stamp'[q] > since
    BY <1>5 DEF Walking
  <2> QED BY <1>1, <1>10, <2>1 DEF Exact, Below
<1>14. rpc \in {"skip", "pass", "fetch"} => \A r \in stay' \ Found' : curl # Nil /\ Value(curl)' <= val'[r]
  BY <1>1, <1>4, <1>10 DEF Exact, Ahead
<1>15. rpc \in {"skip", "fetch"} /\ Begun(curl) => Begun(curl)'
  <2>1. SUFFICES ASSUME rpc \in {"skip", "fetch"}, Begun(curl), curl # Nil PROVE Begun(curl)'
    BY <1>2 DEF Begun
  <2>2. Value(curl)' = Value(curl)
    BY <1>10, <2>1
  <2>3. \A q \in Linked' : head'[q] = curl => stamp'[q] > since \/ (q \in Linked /\ head[q] = curl /\ stamp'[q] = stamp[q])
    BY <1>1, <1>5, <2>1 DEF Walking
  <2> QED BY <1>2, <2>1, <2>2, <2>3 DEF Begun
<1>16. rpc \in {"check", "ended", "walk"} =>
         row \in seen /\ val'[row] = val[row] /\ born'[row] = born[row] /\ stamp'[row] = stamp[row]
  BY <1>1, <1>3 DEF Here
<1>17. rpc = "walk" /\ walk # Nil => born'[walk] = born[walk]
  BY <1>1, <1>3 DEF Here
<1>18. \A r \in stay' \ Found' : r \in stay \ Found /\ val'[r] = val[r] /\ head'[r] = head[r] /\ born'[r] = born[r]
  BY <1>1, <1>4
<1>19. rpc \in {"check", "ended"} => \A r \in stay' \ Found' :
         val'[row] <= val'[r] /\ (head'[r] = curl => born'[r] <= born'[row])
  BY <1>1, <1>16, <1>18 DEF Exact
<1>20. /\ rpc = "check" => PastEnd(val'[row], search) \/ Matching(val'[row], search) \/ stamp'[row] > since
       /\ rpc \in {"ended", "walk"} => PastEnd(val'[row], search) \/ Matching(val'[row], search)
  BY <1>1, <1>16 DEF Exact
<1>21. rpc = "walk" => Matching(val'[row], search) /\ \A r \in stay' \ Found' :
         val'[row] < val'[r] \/ (head'[r] = curl /\ walk # Nil /\ born'[r] <= born'[walk])
  BY <1>1, <1>16, <1>17, <1>18 DEF Exact
<1>22. rpc = "done" => stay' \subseteq Found'
  BY <1>1, <1>4 DEF Exact
<1>23. /\ rpc = "skip" => ~ FromReset(search) /\ (search.op = "eq" => Begun(curl)')
       /\ rpc = "pass" => search.op = "gt"
       /\ rpc = "fetch" => Begun(curl)'
  BY <1>1, <1>15 DEF Exact
<1> HIDE DEF Matching, PastEnd, FromReset, Begun, Found, Linked
<1> QED BY <1>1, <1>2, <1>6, <1>7, <1>11, <1>12, <1>13, <1>14, <1>19, <1>20, <1>21, <1>22, <1>23 DEF Exact, Below, Ahead

\* What a search that has begun in a quiet time can rely on at its next step.
LEMMA QuietRead ==
  ASSUME IndexInv, SearchInv, SearchInv', Onward, Calm => Placed /\ Stays /\ Rising, Quiet => Exact,
         Reader, ~ ReadLock, Quiet'
  PROVE  /\ Quiet /\ Exact /\ Rising /\ Here
         /\ val' = val /\ head' = head /\ born' = born /\ stamp' = stamp /\ to' = to /\ next' = next
         /\ pc' = pc /\ op' = op /\ target' = target /\ node' = node
         /\ Linked' = Linked /\ InList' = InList
         /\ seen' = seen /\ seenNodes' = seenNodes /\ stay' = stay /\ search' = search
         /\ rpc # "enter" => since' = since
         /\ \A n \in {at, cand, curl} : n \in InList \cup {Top, Nil} /\ ~ (pc = "publish" /\ n = node)
         /\ at # Nil /\ cand # Top /\ curl # Top
         /\ \A r \in stay : r \in Linked /\ r \in Others /\ r \in seen /\ r # target /\ Matching(val[r], search)
         /\ \A n \in InList \cup {Top}, r \in stay :
              ~ (pc = "publish" /\ n = node) /\ (n # Top => Value(n) < val[r]) =>
                next[n][0] # Nil /\ Value(next[n][0]) <= val[r]
         /\ rpc \in Walking \ {"enter"} => \A n \in InList \cup {Top}, q \in Linked :
              ~ (pc = "publish" /\ n = node) =>
                Below(q, n) \/ (next[n][0] # Nil /\ Value(next[n][0]) <= val[q]) \/ stamp[q] > since
         /\ \A n \in InList \cup {Top} : next[n][0] \in InList \cup {Nil} /\ ~ (pc = "publish" /\ next[n][0] = node)
<1> USE PointersAssumption DEF Cells
<1>1. Observing' /\ ~ ReadLock
  BY DEF Quiet
<1>2. /\ UNCHANGED <<shared, command>> /\ Observing /\ UNCHANGED <<seen, seenNodes, stay, search, size>>
      /\ met \subseteq met' /\ (rpc = "enter" \/ (since' = since /\ met' = met))
      /\ Linked' = Linked /\ InList' = InList
  BY <1>1, ReaderKeeps
<1>3. Quiet /\ Exact
  BY <1>2 DEF Quiet
<1>4. /\ Rising /\ Here /\ Stays /\ seenNodes \subseteq InList
      /\ pc = "publish" => node \in InList /\ op = "add"
      /\ \A n \in InList : n \in Nodes /\ n # Top /\ Value(n) \in Nat
      /\ \A r \in seen : val[r] \in Nat
      /\ Linked \subseteq seen
  BY <1>3, QuietIs DEF Exact
<1>5. /\ val' = val /\ head' = head /\ born' = born /\ stamp' = stamp /\ to' = to /\ next' = next
      /\ pc' = pc /\ op' = op /\ target' = target /\ node' = node
  BY <1>2 DEF shared, command
<1>6. /\ \A n \in {at, cand, curl} : n \in InList \cup {Top, Nil} /\ ~ (pc = "publish" /\ n = node)
      /\ at # Nil /\ cand # Top /\ curl # Top
  <2>1. at \in InList \cup {Top} /\ cand \in InList \cup {Nil} /\ curl \in InList \cup {Nil}
    BY <1>4 DEF Here
  <2>2. \A n \in {at, cand, curl} \cap Nodes : ~ (pc = "publish" /\ n = node)
    BY <1>3 DEF Exact
  <2>3. Nil \notin InList /\ Top \notin InList /\ Nil # Top
    BY <1>4
  <2> QED BY <1>4, <2>1, <2>2, <2>3
<1>7. \A r \in stay : r \in Linked /\ r \in Others /\ r \in seen /\ r # target /\ Matching(val[r], search)
  BY <1>4 DEF Stays
<1>8. ASSUME NEW n \in InList \cup {Top}, NEW r \in Linked, ~ (pc = "publish" /\ n = node),
             ~ (pc = "publish" /\ r = target), n # Top => Value(n) < val[r]
      PROVE  next[n][0] # Nil /\ Value(next[n][0]) <= val[r]
  BY <1>3, <1>8, Successor
<1>9. ASSUME NEW n \in InList \cup {Top}, NEW q \in Linked, rpc \in Walking \ {"enter"}, ~ (pc = "publish" /\ n = node)
      PROVE  Below(q, n) \/ (next[n][0] # Nil /\ Value(next[n][0]) <= val[q]) \/ stamp[q] > since
  <2>1. CASE pc = "publish" /\ q = target
    BY <1>3, <1>4, <1>9, <2>1 DEF Exact
  <2>2. CASE ~ (pc = "publish" /\ q = target)
    <3>1. n # Top => Value(n) \in Nat
      BY <1>4
    <3>2. val[q] \in Nat
      BY <1>4
    <3>3. Below(q, n) \/ (n # Top => Value(n) < val[q])
      BY <3>1, <3>2 DEF Below
    <3> QED BY <1>8, <1>9, <2>2, <3>3
  <2> QED BY <2>1, <2>2
<1>10. ASSUME NEW n \in InList \cup {Top}
       PROVE  next[n][0] \in InList \cup {Nil} /\ ~ (pc = "publish" /\ next[n][0] = node)
  <2>1. 0 \in Levels
    BY SizesAssumption DEF Levels
  <2> QED BY <1>3, <2>1, QuietLeads
<1>11. \A n \in InList \cup {Top}, r \in stay :
         ~ (pc = "publish" /\ n = node) /\ (n # Top => Value(n) < val[r]) =>
           next[n][0] # Nil /\ Value(next[n][0]) <= val[r]
  BY <1>7, <1>8
<1> QED BY <1>2, <1>3, <1>4, <1>5, <1>6, <1>7, <1>9, <1>10, <1>11

\* A search begins with what is in the index, and with no row newer than itself.
LEMMA ExactBegins ==
  ASSUME IndexInv, SearchInv, SearchInv', Onward, Counted, Starting, Calm => Placed /\ Stays /\ Rising, Quiet => Exact,
         ReadLock \/ Enter, Quiet'
  PROVE  Exact'
<1> USE PointersAssumption DEF Cells
<1>1. UNCHANGED <<shared, command>>
  BY DEF ReadLock, Enter
<1>2. /\ born' = born /\ pc' = pc /\ op' = op /\ target' = target /\ node' = node /\ val' = val
      /\ Linked' = Linked /\ InList' = InList
  BY <1>1 DEF shared, command, Linked, InList
<1>3. matches' = <<>> /\ at' = at /\ cand' = cand /\ curl' = curl
  BY DEF ReadLock, Enter, Starting
<1>4. Found' = {}
  BY <1>3 DEF Found
<1>5. CASE ReadLock
  <2>1. rpc = "lock" /\ seen' = Listed /\ seenNodes' = InList /\ met' = Doing /\ rpc' = IF count = 0 THEN "done" ELSE "enter"
    BY <1>5 DEF ReadLock
  <2>2. seenNodes = {}
    BY <2>1 DEF SearchInv, Sighted, Observing, Walking, Outcomes
  <2>3. {at, cand, curl} \cap Nodes = {}
    BY <2>2 DEF SearchInv, Sighted, Here
  <2>4. Listed = Linked
    BY <2>1 DEF Quiet, Doing, Listed, Linked
  <2>5. \A r, q \in seen' : born'[r] = born'[q] => r = q
    BY <1>2, <2>1, <2>4 DEF IndexInv, Ranks
  <2>6. CASE count = 0
    <3>1. InTable = {}
      BY <2>6, FS_EmptySet DEF Counted
    <3>2. stay' = {}
      BY <1>5, <2>4, <3>1 DEF ReadLock, InTable
    <3> QED BY <1>2, <1>3, <1>4, <2>1, <2>3, <2>5, <2>6, <3>2 DEF Exact, Walking
  <2>7. CASE count # 0
    BY <1>2, <1>3, <1>4, <2>1, <2>3, <2>5, <2>7 DEF Exact, Walking
  <2> QED BY <2>6, <2>7
<1>6. CASE Enter
  <2>1. /\ rpc = "enter" /\ rpc' = "start" /\ seen' = seen /\ seenNodes' = seenNodes
        /\ met' = met \cup (IF op = "add" THEN {"early"} ELSE {})
    BY <1>6 DEF Enter
  <2>2. op # "add"
    BY <2>1 DEF Quiet
  <2>3. Exact
    BY <2>1 DEF Quiet, Observing, Walking
  <2> QED BY <1>2, <1>3, <1>4, <2>1, <2>2, <2>3 DEF Exact, Walking
<1> QED BY <1>5, <1>6

\* It comes to the first node that may match, and passes no row that stays.
LEMMA ExactSeeks ==
  ASSUME IndexInv, SearchInv, SearchInv', Onward, Starting, Calm => Placed /\ Stays /\ Rising, Quiet => Exact,
         Reader, Start \/ Locate \/ Compare \/ Arrive \/ Skip \/ Pass, Quiet'
  PROVE  Exact'
<1> USE PointersAssumption DEF Cells
<1>1. /\ Quiet /\ Exact /\ Here
      /\ val' = val /\ head' = head /\ born' = born /\ stamp' = stamp /\ to' = to /\ next' = next
      /\ pc' = pc /\ op' = op /\ target' = target /\ node' = node
      /\ Linked' = Linked /\ InList' = InList
      /\ seen' = seen /\ seenNodes' = seenNodes /\ stay' = stay /\ search' = search
      /\ rpc # "enter" => since' = since
      /\ \A n \in {at, cand, curl} : n \in InList \cup {Top, Nil} /\ ~ (pc = "publish" /\ n = node)
      /\ at # Nil /\ cand # Top /\ curl # Top
      /\ \A r \in stay : r \in Linked /\ r \in Others /\ r \in seen /\ r # target /\ Matching(val[r], search)
      /\ \A n \in InList \cup {Top}, r \in stay :
           ~ (pc = "publish" /\ n = node) /\ (n # Top => Value(n) < val[r]) =>
             next[n][0] # Nil /\ Value(next[n][0]) <= val[r]
      /\ rpc \in Walking \ {"enter"} => \A n \in InList \cup {Top}, q \in Linked :
           ~ (pc = "publish" /\ n = node) =>
             Below(q, n) \/ (next[n][0] # Nil /\ Value(next[n][0]) <= val[q]) \/ stamp[q] > since
      /\ \A n \in InList \cup {Top} : next[n][0] \in InList \cup {Nil} /\ ~ (pc = "publish" /\ next[n][0] = node)
  <2>1. ~ ReadLock
    BY DEF ReadLock, Start, Locate, Compare, Arrive, Skip, Pass
  <2> QED BY <2>1, QuietRead
<1>2. /\ rpc \in {"start", "locate", "compare", "arrive", "skip", "pass"} /\ since' = since
      /\ matches = <<>> /\ matches' = matches
  BY <1>1 DEF Starting, Start, Locate, Compare, Arrive, Skip, Pass
<1>3. Found' = {} /\ Found = {}
  BY <1>2 DEF Found
<1>4. /\ \A n \in InList : /\ to[n] # Nil /\ head[to[n]] = n /\ n \in Nodes /\ n # Top /\ Value(n) \in Nat
                           /\ \A q \in seen : head[q] = n => val[q] = Value(n)
      /\ \A r \in seen : val[r] \in Nat
      /\ Linked \subseteq seen
      /\ search.row1 \in Nat /\ search.row2 \in Nat
  BY <1>1, QuietIs
<1>5. \A n \in InList \cup {Top} : n # Top /\ next[n][0] # Nil => Value(n) < Value(next[n][0])
  <2>1. 0 \in Levels
    BY SizesAssumption DEF Levels
  <2> QED BY <1>1, <2>1, QuietLeads
<1>6. /\ \A n \in Nodes : val'[to'[n]] = val[to[n]]
      /\ seenNodes' \subseteq InList' /\ \A r, q \in seen' : born'[r] = born'[q] => r = q
      /\ op' = "add" => stamp'[target'] > since
  BY <1>1, <1>2 DEF Exact, Walking
\* What stays has a value the search comes to.
<1>7. ASSUME NEW r \in stay, ~ FromReset(search) PROVE val[r] >= search.row1
  <2>1. val[r] \in Nat /\ Matching(val[r], search)
    BY <1>1, <1>4
  <2>2. search \in Searches \cup {NoSearch}
    BY DEF SearchInv, ReaderType
  <2>3. CASE search \in Searches
    <3>1. search.op \in Ops
      BY <2>3, DataAssumption
    <3> QED BY <1>4, <1>7, <2>1, <3>1 DEF Matching, BeforeStart, FromReset, Ops
  <2>4. CASE search = NoSearch
    BY <2>1, <2>4 DEF NoSearch
  <2> QED BY <2>2, <2>3, <2>4
<1>8. CASE Start
  <2>1. CASE FromReset(search)
    <3>1. rpc' = "fetch" /\ curl' = next[Top][0] /\ at' = at /\ cand' = cand
      BY <1>8, <2>1 DEF Start
    <3>2. \A r \in stay : curl' # Nil /\ Value(next[Top][0]) <= val[r]
      <4>1. Top \in InList \cup {Top} /\ ~ (pc = "publish" /\ Top = node)
        BY <1>1, <1>4, QuietIs
      <4> QED BY <1>1, <3>1, <4>1
    <3>3. Ahead(curl)'
      BY <1>1, <3>1, <3>2 DEF Ahead, Value
    <3>4. Begun(curl)'
      BY <1>1, <2>1 DEF Begun, FromReset
    <3>5. \A n \in {at', cand', curl'} \cap Nodes : ~ (pc' = "publish" /\ n = node')
      BY <1>1, <3>1
    <3> QED BY <1>3, <1>6, <3>1, <3>3, <3>4, <3>5, <1>2 DEF Exact
  <2>2. CASE ~ FromReset(search)
    <3>1. rpc' = "locate" /\ curl' = curl /\ at' = Top /\ cand' = cand
      BY <1>8, <2>2 DEF Start
    <3>2. \A n \in {at', cand', curl'} \cap Nodes : ~ (pc' = "publish" /\ n = node')
      BY <1>1, <3>1
    <3> QED BY <1>1, <1>2, <1>3, <1>6, <2>2, <3>1, <3>2 DEF Exact
  <2> QED BY <2>1, <2>2
<1>9. CASE Locate
  <2>1. /\ rpc = "locate" /\ at' = at /\ curl' = curl /\ ~ FromReset(search) /\ (at # Top => Value(at) < search.row1)
        /\ at \in InList \cup {Top} /\ lev \in Levels /\ ~ (pc = "publish" /\ at = node)
    BY <1>1, <1>9 DEF Locate, Exact, SearchInv, ReaderType
  <2>2. ~ FromReset(search') /\ (at' # Top => Value(at)' < search'.row1)
    BY <1>1, <2>1 DEF Value
  <2>3. CASE next[at][lev] = Nil
    <3>1. cand' = Nil /\ (rpc' = "locate" \/ (rpc' = "arrive" /\ lev = 0))
      BY <1>9, <2>3 DEF Locate, Descend
    <3>2. \A n \in {at', cand', curl'} \cap Nodes : ~ (pc' = "publish" /\ n = node')
      BY <1>1, <2>1, <3>1
    <3>3. rpc' = "arrive" => \A q \in Linked : Below(q, at) \/ stamp[q] > since
      BY <1>1, <2>1, <2>3, <3>1 DEF Walking
    <3>4. rpc' = "arrive" => \A q \in Linked' : Below(q, at)' \/ stamp'[q] > since'
      BY <1>1, <1>2, <2>1, <3>3 DEF Below, Value
    <3> QED BY <1>2, <1>3, <1>6, <2>2, <3>1, <3>2, <3>4 DEF Exact
  <2>4. CASE next[at][lev] # Nil
    <3>1. cand' = next[at][lev] /\ rpc' = "compare" /\ lev' = lev
      BY <1>9, <2>4 DEF Locate
    <3>2. ~ (pc = "publish" /\ next[at][lev] = node)
      BY <1>1, <2>1, QuietLeads
    <3>3. \A n \in {at', cand', curl'} \cap Nodes : ~ (pc' = "publish" /\ n = node')
      BY <1>1, <2>1, <3>1, <3>2
    <3>4. lev = 0 => \A q \in Linked : Below(q, at) \/ Value(next[at][lev]) <= val[q] \/ stamp[q] > since
      BY <1>1, <2>1 DEF Walking
    <3>5. lev' = 0 => \A q \in Linked' : Below(q, at)' \/ val'[q] >= Value(cand)' \/ stamp'[q] > since'
      <4>1. SUFFICES ASSUME lev = 0, NEW q \in Linked
                     PROVE  Below(q, at)' \/ val'[q] >= Value(cand)' \/ stamp'[q] > since'
        BY <1>1, <3>1
      <4>2. CASE Below(q, at)
        BY <1>1, <2>1, <4>2 DEF Below, Value
      <4>3. CASE Value(next[at][lev]) <= val[q]
        <5>1. next[at][lev] \in InList
          BY <1>1, <2>1, <2>4, <4>1
        <5>2. Value(next[at][lev]) \in Nat /\ val[q] \in Nat
          BY <1>4, <5>1
        <5> QED BY <1>1, <3>1, <4>3, <5>2 DEF Value
      <4> QED BY <1>1, <1>2, <3>4, <4>1, <4>2, <4>3
    <3> QED BY <1>2, <1>3, <1>6, <2>2, <3>1, <3>3, <3>5 DEF Exact
  <2> QED BY <2>3, <2>4
<1>10. CASE Compare
  <2>1. /\ rpc = "compare" /\ cand' = Nil /\ curl' = curl /\ ~ FromReset(search) /\ (at # Top => Value(at) < search.row1)
        /\ cand \in InList /\ to[cand] # Nil
    BY <1>1, <1>4, <1>10 DEF Compare, Exact, Here
  <2>2. CASE Value(cand) < search.row1
    <3>1. rpc' = "locate" /\ at' = cand
      BY <1>10, <2>1, <2>2 DEF Compare
    <3>2. \A n \in {at', cand', curl'} \cap Nodes : ~ (pc' = "publish" /\ n = node')
      BY <1>1, <2>1, <3>1
    <3>3. ~ FromReset(search') /\ Value(at)' < search'.row1
      BY <1>1, <2>1, <2>2, <3>1 DEF Value
    <3> QED BY <1>2, <1>3, <1>6, <3>1, <3>2, <3>3 DEF Exact
  <2>3. CASE ~ (Value(cand) < search.row1)
    <3>1. at' = at /\ (rpc' = "locate" \/ (rpc' = "arrive" /\ lev = 0))
      BY <1>10, <2>1, <2>3 DEF Compare, Descend
    <3>2. \A n \in {at', cand', curl'} \cap Nodes : ~ (pc' = "publish" /\ n = node')
      BY <1>1, <2>1, <3>1
    <3>3. ~ FromReset(search') /\ (at' # Top => Value(at)' < search'.row1)
      BY <1>1, <2>1, <3>1 DEF Value
    <3>4. rpc' = "arrive" => \A q \in Linked : Below(q, at) \/ val[q] >= search.row1 \/ stamp[q] > since
      <4>1. SUFFICES ASSUME lev = 0, NEW q \in Linked
                     PROVE  Below(q, at) \/ val[q] >= search.row1 \/ stamp[q] > since
        BY <3>1
      <4>2. Below(q, at) \/ val[q] >= Value(cand) \/ stamp[q] > since
        BY <1>1, <2>1, <4>1 DEF Exact
      <4>3. val[q] \in Nat /\ Value(cand) \in Nat
        BY <1>4, <2>1
      <4> QED BY <1>4, <2>3, <4>2, <4>3
    <3>5. rpc' = "arrive" => \A q \in Linked' : Below(q, at)' \/ val'[q] >= search'.row1 \/ stamp'[q] > since'
      BY <1>1, <1>2, <3>1, <3>4 DEF Below, Value
    <3> QED BY <1>2, <1>3, <1>6, <3>1, <3>2, <3>3, <3>5 DEF Exact
  <2> QED BY <2>2, <2>3
<1>11. CASE Arrive
  <2>1. /\ rpc = "arrive" /\ cand' = cand /\ curl' = next[at][0] /\ at' = Top
        /\ ~ FromReset(search) /\ (at # Top => Value(at) < search.row1)
        /\ rpc' = IF next[at][0] = Nil THEN "fetch" ELSE "skip"
        /\ at \in InList \cup {Top} /\ ~ (pc = "publish" /\ at = node)
    BY <1>1, <1>11 DEF Arrive, Exact
  <2>2. \A n \in {at', cand', curl'} \cap Nodes : ~ (pc' = "publish" /\ n = node')
    BY <1>1, <2>1
  <2>3. \A r \in stay : next[at][0] # Nil /\ Value(next[at][0]) <= val[r]
    <3>1. ASSUME NEW r \in stay PROVE at # Top => Value(at) < val[r]
      <4>1. ASSUME at # Top PROVE Value(at) \in Nat /\ val[r] \in Nat
        BY <1>1, <1>4, <2>1, <4>1
      <4> QED BY <1>4, <1>7, <2>1, <4>1
    <3> QED BY <1>1, <2>1, <3>1
  <2>4. Ahead(curl)'
    BY <1>1, <2>1, <2>3 DEF Ahead, Value
  <2>5. Begun(next[at][0]) \/ next[at][0] = Nil \/ search.op # "eq"
    <3>1. SUFFICES ASSUME search.op = "eq", next[at][0] # Nil, ~ (Value(next[at][0]) >= search.row1),
                          NEW q \in Linked, head[q] = next[at][0]
                   PROVE  stamp[q] > since
      BY DEF Begun
    <3>2. next[at][0] \in InList /\ val[q] = Value(next[at][0]) /\ Value(next[at][0]) \in Nat
      BY <1>1, <1>4, <2>1, <3>1
    <3>3. ~ (val[q] >= search.row1)
      BY <3>1, <3>2
    <3>4. ~ Below(q, at)
      <4>1. at # Top => Value(at) < Value(next[at][0]) /\ Value(at) \in Nat
        BY <1>4, <1>5, <2>1, <3>1
      <4> QED BY <3>2, <4>1 DEF Below
    <3> QED BY <1>1, <2>1, <3>3, <3>4 DEF Exact
  <2>6. rpc' = "skip" => ~ FromReset(search') /\ (search'.op = "eq" => Begun(curl)')
    BY <1>1, <1>2, <2>1, <2>5 DEF Begun, Value
  <2>7. rpc' = "fetch" => Begun(curl)'
    BY <2>1 DEF Begun
  <2> QED BY <1>2, <1>3, <1>6, <2>1, <2>2, <2>4, <2>6, <2>7 DEF Exact
<1>12. CASE Skip
  <2>1. /\ rpc = "skip" /\ cand' = cand /\ at' = at /\ ~ FromReset(search)
        /\ Ahead(curl) /\ (search.op = "eq" => Begun(curl))
        /\ curl \in InList \cup {Nil} /\ ~ (pc = "publish" /\ curl = node)
        /\ (curl # Nil => to[curl] # Nil)
    BY <1>1, <1>4, <1>12 DEF Skip, Exact
  <2>2. CASE curl = Nil
    <3>1. rpc' = "fetch" /\ curl' = curl
      BY <1>12, <2>2 DEF Skip
    <3>2. \A n \in {at', cand', curl'} \cap Nodes : ~ (pc' = "publish" /\ n = node')
      BY <1>1, <2>1, <3>1
    <3>3. Ahead(curl)' /\ Begun(curl)'
      BY <1>1, <1>3, <2>1, <2>2, <3>1 DEF Ahead, Begun, Value
    <3> QED BY <1>2, <1>3, <1>6, <3>1, <3>2, <3>3 DEF Exact
  <2>3. CASE curl # Nil /\ Value(curl) < search.row1 /\ search.op # "eq"
    <3>1. rpc' = "skip" /\ curl' = next[curl][0]
      BY <1>12, <2>1, <2>3 DEF Skip
    <3>2. \A n \in {at', cand', curl'} \cap Nodes : ~ (pc' = "publish" /\ n = node')
      BY <1>1, <2>1, <2>3, <3>1
    <3>3. \A r \in stay : next[curl][0] # Nil /\ Value(next[curl][0]) <= val[r]
      <4>1. ASSUME NEW r \in stay PROVE Value(curl) < val[r]
        <5>1. Value(curl) \in Nat /\ val[r] \in Nat /\ val[r] >= search.row1
          BY <1>1, <1>4, <1>7, <2>1, <2>3
        <5> QED BY <1>4, <2>3, <5>1
      <4> QED BY <1>1, <2>1, <2>3, <4>1
    <3>4. Ahead(curl)'
      BY <1>1, <3>1, <3>3 DEF Ahead, Value
    <3> QED BY <1>1, <1>2, <1>3, <1>6, <2>1, <2>3, <3>1, <3>2, <3>4 DEF Exact
  <2>4. CASE curl # Nil /\ ~ (Value(curl) < search.row1 /\ search.op # "eq")
    <3>1. rpc' = (IF search.op = "gt" THEN "pass" ELSE "fetch") /\ curl' = curl
      BY <1>12, <2>1, <2>4 DEF Skip
    <3>2. \A n \in {at', cand', curl'} \cap Nodes : ~ (pc' = "publish" /\ n = node')
      BY <1>1, <2>1, <3>1
    <3>3. Ahead(curl)'
      BY <1>1, <1>3, <2>1, <2>4, <3>1 DEF Ahead, Value
    <3>4. search.op # "gt" => Begun(curl)
      <4>1. Value(curl) \in Nat
        BY <1>4, <2>1, <2>4
      <4> QED BY <1>4, <2>1, <2>4, <4>1 DEF Begun
    <3>5. search.op # "gt" => Begun(curl)'
      BY <1>1, <1>2, <3>1, <3>4, <2>4 DEF Begun, Value
    <3> QED BY <1>1, <1>2, <1>3, <1>6, <3>1, <3>2, <3>3, <3>5 DEF Exact
  <2> QED BY <2>2, <2>3, <2>4
<1>13. CASE Pass
  <2>1. /\ rpc = "pass" /\ cand' = cand /\ at' = at /\ search.op = "gt" /\ Ahead(curl)
        /\ curl \in InList \cup {Nil} /\ ~ (pc = "publish" /\ curl = node)
        /\ (curl # Nil => to[curl] # Nil)
    BY <1>1, <1>4, <1>13 DEF Pass, Exact
  <2>2. CASE curl = Nil
    <3>1. rpc' = "done" /\ curl' = curl
      BY <1>13, <2>2 DEF Pass
    <3>2. stay' = {}
      BY <1>1, <1>3, <2>1, <2>2 DEF Ahead
    <3>3. \A n \in {at', cand', curl'} \cap Nodes : ~ (pc' = "publish" /\ n = node')
      BY <1>1, <2>1, <3>1
    <3> QED BY <1>2, <1>3, <1>6, <3>1, <3>2, <3>3 DEF Exact
  <2>3. CASE curl # Nil /\ Value(curl) > search.row1
    <3>1. rpc' = "fetch" /\ curl' = curl
      BY <1>13, <2>1, <2>3 DEF Pass
    <3>2. \A n \in {at', cand', curl'} \cap Nodes : ~ (pc' = "publish" /\ n = node')
      BY <1>1, <2>1, <3>1
    <3>3. Ahead(curl)'
      BY <1>1, <1>3, <2>1, <2>3, <3>1 DEF Ahead, Value
    <3>4. Begun(curl)'
      BY <1>1, <2>1, <2>3, <3>1 DEF Begun, Value
    <3> QED BY <1>2, <1>3, <1>6, <3>1, <3>2, <3>3, <3>4 DEF Exact
  <2>4. CASE curl # Nil /\ ~ (Value(curl) > search.row1)
    <3>1. rpc' = "pass" /\ curl' = next[curl][0]
      BY <1>13, <2>1, <2>4 DEF Pass
    <3>2. \A n \in {at', cand', curl'} \cap Nodes : ~ (pc' = "publish" /\ n = node')
      BY <1>1, <2>1, <2>4, <3>1
    <3>3. \A r \in stay : next[curl][0] # Nil /\ Value(next[curl][0]) <= val[r]
      <4>1. ASSUME NEW r \in stay PROVE Value(curl) < val[r]
        <5>1. Value(curl) \in Nat /\ val[r] \in Nat /\ Matching(val[r], search)
          BY <1>1, <1>4, <2>1, <2>4
        <5>2. val[r] > search.row1
          BY <1>4, <2>1, <5>1 DEF Matching, BeforeStart
        <5> QED BY <1>4, <2>4, <5>1, <5>2
      <4> QED BY <1>1, <2>1, <2>4, <4>1
    <3>4. Ahead(curl)'
      BY <1>1, <3>1, <3>3 DEF Ahead, Value
    <3> QED BY <1>1, <1>2, <1>3, <1>6, <2>1, <3>1, <3>2, <3>4 DEF Exact
  <2> QED BY <2>2, <2>3, <2>4
<1> QED BY <1>8, <1>9, <1>10, <1>11, <1>12, <1>13

\* It reports the rows that stay, each in its turn.
LEMMA ExactWalks ==
  ASSUME IndexInv, SearchInv, SearchInv', Onward, Calm => Placed /\ Stays /\ Rising, Quiet => Exact,
         Reader, Fetch \/ Check \/ Ended \/ Walk \/ NextNode, Quiet'
  PROVE  Exact'
<1> USE PointersAssumption DEF Cells
<1>1. /\ Quiet /\ Exact /\ Rising /\ Here
      /\ val' = val /\ head' = head /\ born' = born /\ stamp' = stamp /\ to' = to /\ next' = next
      /\ pc' = pc /\ op' = op /\ target' = target /\ node' = node
      /\ Linked' = Linked /\ InList' = InList
      /\ seen' = seen /\ seenNodes' = seenNodes /\ stay' = stay /\ search' = search
      /\ rpc # "enter" => since' = since
      /\ \A n \in {at, cand, curl} : n \in InList \cup {Top, Nil} /\ ~ (pc = "publish" /\ n = node)
      /\ at # Nil /\ cand # Top /\ curl # Top
      /\ \A r \in stay : r \in Linked /\ r \in Others /\ r \in seen /\ r # target /\ Matching(val[r], search)
      /\ \A n \in InList \cup {Top}, r \in stay :
           ~ (pc = "publish" /\ n = node) /\ (n # Top => Value(n) < val[r]) =>
             next[n][0] # Nil /\ Value(next[n][0]) <= val[r]
      /\ \A n \in InList \cup {Top} : next[n][0] \in InList \cup {Nil} /\ ~ (pc = "publish" /\ next[n][0] = node)
  <2>1. ~ ReadLock
    BY DEF ReadLock, Fetch, Check, Ended, Walk, NextNode
  <2> QED BY <2>1, QuietRead
<1>2. rpc \in {"fetch", "check", "ended", "walk"} /\ since' = since /\ at' = at /\ cand' = cand
  <2>1. rpc \in {"fetch", "check", "ended", "walk"}
    BY DEF Fetch, Check, Ended, Walk, NextNode
  <2>2. ~ Restart
    BY DEF Restart, Quiet, Observing, Walking, Outcomes
  <2> QED BY <1>1, <2>1, <2>2 DEF Fetch, Check, Ended, Walk, NextNode
<1>3. /\ \A n \in InList : /\ to[n] # Nil /\ to[n] \in seen /\ head[to[n]] = n /\ n \in Nodes /\ n # Top
                           /\ Value(n) \in Nat /\ Value(n) = Label[n]
                           /\ \A q \in seen : head[q] = n => val[q] = Value(n)
      /\ \A r \in seen : r \in Rows /\ val[r] \in Nat /\ born[r] \in Nat /\ stamp[r] \in Nat
      /\ Linked \subseteq seen /\ Placed /\ Stays /\ Covered /\ Known = seen /\ Calm
      /\ search.row1 \in Nat /\ search.row2 \in Nat /\ since \in Nat
      /\ pc \notin {"empty", "erase", "clear"}
  BY <1>1, QuietIs DEF Calm
<1>4. \A n \in InList \cup {Top} : n # Top /\ next[n][0] # Nil => Value(n) < Value(next[n][0])
  <2>1. 0 \in Levels
    BY SizesAssumption DEF Levels
  <2> QED BY <1>1, <2>1, QuietLeads
<1>5. /\ \A n \in Nodes : val'[to'[n]] = val[to[n]]
      /\ seenNodes' \subseteq InList' /\ \A r, q \in seen' : born'[r] = born'[q] => r = q
      /\ op' = "add" => stamp'[target'] > since
  BY <1>1, <1>2 DEF Exact, Walking
<1>6. \A m \in Found : m \in seen /\ Matching(val[m], search)
  BY <1>1 DEF Exact, Here, ReportsRows, Found
<1>7. curl' = curl => \A n \in {at', cand', curl'} \cap Nodes : ~ (pc' = "publish" /\ n = node')
  BY <1>1, <1>2
<1>8. matches' = matches => Found' = Found /\ \A m \in Found' : Matching(val'[m], search')
  BY <1>1, <1>6 DEF Found
\* The row of the node it has come to.
<1>9. rpc \in {"check", "ended", "walk"} =>
        row \in seen /\ head[row] = curl /\ curl \in InList /\ val[row] = Value(curl) /\ val[row] = Label[curl]
  <2>1. SUFFICES ASSUME rpc \in {"check", "ended", "walk"}
                 PROVE  row \in seen /\ head[row] = curl /\ curl \in InList /\ val[row] = Value(curl) /\ val[row] = Label[curl]
    OBVIOUS
  <2>2. row \in seen /\ curl # Nil /\ head[row] = curl
    BY <1>1, <2>1 DEF Here, Rising
  <2>3. curl \in InList
    BY <1>1, <2>2
  <2> QED BY <1>3, <2>2, <2>3
<1>10. CASE Fetch
  <2>1. /\ rpc = "fetch" /\ curl' = curl /\ matches' = matches
        /\ Ahead(curl) /\ Begun(curl) /\ curl \in InList \cup {Nil} /\ ~ (pc = "publish" /\ curl = node)
    BY <1>1, <1>10 DEF Fetch, Exact
  <2>2. CASE rpc' = "endless"
    BY <1>2, <1>5, <1>7, <1>8, <2>1, <2>2 DEF Exact
  <2>3. CASE rpc' = "done"
    <3>1. curl = Nil
      BY <1>3, <1>10, <2>1, <2>3 DEF Fetch
    <3>2. stay \subseteq Found
      BY <2>1, <3>1 DEF Ahead
    <3> QED BY <1>1, <1>2, <1>5, <1>7, <1>8, <2>1, <2>3, <3>2 DEF Exact
  <2>4. CASE rpc' \notin {"endless", "done"}
    <3>1. rpc' = "check" /\ row' = to[curl] /\ curl # Nil
      BY <1>10, <2>4 DEF Fetch, SearchInv, ReaderType
    <3>2. curl \in InList /\ to[curl] \in seen /\ head[to[curl]] = curl /\ val[to[curl]] = Value(curl)
      BY <1>3, <2>1, <3>1 DEF Value
    <3>3. \A r \in stay \ Found : val[to[curl]] <= val[r] /\ (head[r] = curl => born[r] <= born[to[curl]])
      <4>1. SUFFICES ASSUME NEW r \in stay \ Found
                     PROVE  val[to[curl]] <= val[r] /\ (head[r] = curl => born[r] <= born[to[curl]])
        OBVIOUS
      <4>2. r \in Linked /\ r # target
        BY <1>1
      <4> QED BY <2>1, <3>2, <4>2 DEF Ahead, IndexInv, Ranks
    <3>4. to[curl] \in Linked
      <4>1. curl \in Live
        BY <3>2 DEF Live
      <4>2. \/ prev[to[curl]] = curl
            \/ pc = "link" /\ curl = node
        BY <1>3, <3>2, <4>1 DEF IndexInv, Lists
      <4>3. CASE prev[to[curl]] = curl
        BY <1>3, <3>1, <3>2, <4>3 DEF Linked
      <4>4. CASE pc = "link" /\ curl = node
        <5>1. to[target] = to[node] /\ to[node] # Nil /\ target \in Linked
          BY <1>3, <3>1, <4>4 DEF IndexInv, Stage, Linked
        <5>2. target \in Live /\ target # node
          BY <1>3, <3>2, <4>4, <5>1 DEF Live, Linked
        <5>3. prev[to[target]] = target
          BY <4>4, <5>1, <5>2 DEF IndexInv, Lists
        <5> QED BY <1>3, <3>2, <4>4, <5>1, <5>3 DEF Linked
      <4> QED BY <4>2, <4>3, <4>4
    <3>5. LET v == val[to[curl]] IN PastEnd(v, search) \/ Matching(v, search) \/ stamp[to[curl]] > since
      <4>1. val[to[curl]] \in Nat
        BY <1>3, <3>2
      <4>2. SUFFICES ASSUME BeforeStart(val[to[curl]], search), ~ PastEnd(val[to[curl]], search)
                     PROVE  stamp[to[curl]] > since
        BY DEF Matching
      <4>3. search.op = "eq" /\ ~ (Value(curl) >= search.row1)
        BY <1>3, <2>1, <3>1, <3>2, <4>1, <4>2 DEF Begun, BeforeStart, PastEnd
      <4> QED BY <2>1, <3>1, <3>2, <3>4, <4>3 DEF Begun
    <3>6. /\ \A r \in stay' \ Found' : val'[row'] <= val'[r] /\ (head'[r] = curl' => born'[r] <= born'[row'])
          /\ PastEnd(val'[row'], search') \/ Matching(val'[row'], search') \/ stamp'[row'] > since'
      BY <1>1, <1>2, <1>8, <2>1, <3>1, <3>3, <3>5
    <3> QED BY <1>2, <1>5, <1>7, <1>8, <2>1, <3>1, <3>6 DEF Exact
  <2> QED BY <2>2, <2>3, <2>4
<1>11. CASE Check
  <2>1. /\ rpc = "check" /\ curl' = curl /\ matches' = matches /\ row' = row /\ rpc' = "ended"
        /\ ~ (stamp[row] > since /\ SearchRestartNeeded(val[row], search))
    BY <1>11 DEF Check, Restart, Quiet, Observing, Walking, Outcomes
  <2>2. /\ \A r \in stay \ Found : val[row] <= val[r] /\ (head[r] = curl => born[r] <= born[row])
        /\ PastEnd(val[row], search) \/ Matching(val[row], search)
    BY <1>1, <2>1 DEF Exact, SearchRestartNeeded, Matching
  <2>3. /\ \A r \in stay' \ Found' : val'[row'] <= val'[r] /\ (head'[r] = curl' => born'[r] <= born'[row'])
        /\ PastEnd(val'[row'], search') \/ Matching(val'[row'], search')
    BY <1>1, <1>8, <2>1, <2>2
  <2> QED BY <1>2, <1>5, <1>7, <1>8, <2>1, <2>3 DEF Exact
<1>12. CASE Ended
  <2>1. /\ rpc = "ended" /\ curl' = curl /\ matches' = matches /\ row' = row
        /\ \A r \in stay \ Found : val[row] <= val[r] /\ (head[r] = curl => born[r] <= born[row])
        /\ PastEnd(val[row], search) \/ Matching(val[row], search)
    BY <1>1, <1>12 DEF Ended, Exact
  <2>2. CASE PastEnd(val[row], search)
    <3>1. rpc' = "done"
      BY <1>12, <2>2 DEF Ended
    <3>2. stay \subseteq Found
      <4>1. SUFFICES ASSUME NEW r \in stay, r \notin Found PROVE FALSE
        OBVIOUS
      <4>2. val[row] <= val[r] /\ val[row] \in Nat /\ val[r] \in Nat
        BY <1>1, <1>3, <1>9, <2>1, <4>1
      <4>3. PastEnd(val[r], search)
        BY <1>3, <2>2, <4>2 DEF PastEnd
      <4> QED BY <1>1, <4>3 DEF Matching
    <3> QED BY <1>1, <1>2, <1>5, <1>7, <1>8, <2>1, <3>1, <3>2 DEF Exact
  <2>3. CASE ~ PastEnd(val[row], search)
    <3>1. rpc' = "walk" /\ walk' = row /\ Matching(val[row], search) /\ row # Nil
      BY <1>1, <1>12, <2>1, <2>3 DEF Ended, Here
    <3>2. \A r \in stay \ Found : val[row] < val[r] \/ (head[r] = curl /\ born[r] <= born[row])
      <4>1. SUFFICES ASSUME NEW r \in stay \ Found, ~ (val[row] < val[r])
                     PROVE  head[r] = curl /\ born[r] <= born[row]
        OBVIOUS
      <4>2. val[r] = val[row]
        BY <1>1, <1>3, <1>9, <2>1, <4>1
      <4>3. head[r] \in InList /\ val[r] = Label[head[r]]
        BY <1>1, LabelIs
      <4>4. head[r] = curl
        BY <1>9, <2>1, <4>2, <4>3 DEF IndexInv, Chains
      <4> QED BY <2>1, <4>4
    <3>3. Matching(val'[row'], search') /\ \A r \in stay' \ Found' :
            val'[row'] < val'[r] \/ (head'[r] = curl' /\ walk' # Nil /\ born'[r] <= born'[walk'])
      BY <1>1, <1>8, <2>1, <3>1, <3>2
    <3> QED BY <1>2, <1>5, <1>7, <1>8, <2>1, <3>1, <3>3 DEF Exact
  <2> QED BY <2>2, <2>3
<1>13. CASE Walk
  <2>1. /\ rpc = "walk" /\ walk # Nil /\ rpc' \in {"walk", "overflow"} /\ row' = row /\ curl' = curl
        /\ rpc' = "overflow" => matches' = matches
        /\ rpc' = "walk" => walk' = to[walk] /\ matches' = IF walk \in Others THEN Append(matches, walk) ELSE matches
    BY <1>13 DEF Walk, Restart, Quiet, Observing, Walking, Outcomes
  <2>2. CASE rpc' = "overflow"
    BY <1>2, <1>5, <1>7, <1>8, <2>1, <2>2 DEF Exact
  <2>3. CASE rpc' = "walk"
    <3>1. walk \in seen /\ head[walk] = curl /\ Matching(val[row], search) /\ val[walk] = val[row]
      <4>1. walk \in seen /\ head[walk] = curl
        BY <1>1, <2>1 DEF Here, Rising
      <4> QED BY <1>1, <1>3, <1>9, <2>1, <4>1 DEF Exact
    <3>2. Found' = Found \cup (IF walk \in Others THEN {walk} ELSE {})
      <4>1. matches \in Seq(Rows) /\ walk \in Rows
        BY <1>3, <3>1 DEF SearchInv, ReaderType
      <4>2. CASE walk \in Others
        <5>1. matches' = Append(matches, walk) /\ Len(matches) \in Nat
          BY <2>1, <2>3, <4>1, <4>2
        <5>2. Len(matches') = Len(matches) + 1 /\ matches'[Len(matches) + 1] = walk
          BY <4>1, <5>1
        <5>3. \A i \in 1 .. Len(matches) : matches'[i] = matches[i]
          BY <4>1, <5>1
        <5>4. \A i \in 1 .. Len(matches') : i \in 1 .. Len(matches) \/ i = Len(matches) + 1
          BY <5>1, <5>2
        <5>5. Len(matches) + 1 \in 1 .. Len(matches') /\ 1 .. Len(matches) \subseteq 1 .. Len(matches')
          BY <5>1, <5>2
        <5> QED BY <4>2, <5>2, <5>3, <5>4, <5>5 DEF Found
      <4>3. CASE walk \notin Others
        BY <2>1, <2>3, <4>3 DEF Found
      <4> QED BY <4>2, <4>3
    <3>3. \A m \in Found' : Matching(val'[m], search')
      BY <1>1, <1>6, <3>1, <3>2
    <3>4. \A r \in stay \ Found' : val[row] < val[r] \/ (head[r] = curl /\ to[walk] # Nil /\ born[r] <= born[to[walk]])
      <4>1. SUFFICES ASSUME NEW r \in stay \ Found', ~ (val[row] < val[r])
                     PROVE  head[r] = curl /\ to[walk] # Nil /\ born[r] <= born[to[walk]]
        OBVIOUS
      <4>2. r \in stay \ Found /\ r # walk
        BY <1>1, <3>2
      <4>3. head[r] = curl /\ born[r] <= born[walk]
        BY <1>1, <2>1, <4>1, <4>2 DEF Exact
      <4>4. born[r] # born[walk] /\ born[r] \in Nat /\ born[walk] \in Nat
        BY <1>1, <1>3, <3>1, <4>2 DEF Exact
      <4>5. born[r] < born[walk]
        BY <4>3, <4>4
      <4> QED BY <1>3, <3>1, <4>2, <4>3, <4>5 DEF Stays
    <3>5. Matching(val'[row'], search') /\ \A r \in stay' \ Found' :
            val'[row'] < val'[r] \/ (head'[r] = curl' /\ walk' # Nil /\ born'[r] <= born'[walk'])
      BY <1>1, <2>1, <2>3, <3>1, <3>4
    <3> QED BY <1>2, <1>5, <1>7, <2>1, <2>3, <3>3, <3>5 DEF Exact
  <2> QED BY <2>1, <2>2, <2>3
<1>14. CASE NextNode
  <2>1. /\ rpc = "walk" /\ walk = Nil /\ rpc' = "fetch" /\ matches' = matches /\ curl' = next[curl][0]
        /\ Matching(val[row], search) /\ \A r \in stay \ Found : val[row] < val[r]
        /\ curl \in InList /\ ~ (pc = "publish" /\ curl = node)
    BY <1>1, <1>9, <1>14 DEF NextNode, Exact
  <2>2. \A n \in {at', cand', curl'} \cap Nodes : ~ (pc' = "publish" /\ n = node')
    BY <1>1, <1>2, <2>1
  <2>3. \A r \in stay \ Found : next[curl][0] # Nil /\ Value(next[curl][0]) <= val[r]
    BY <1>1, <1>9, <2>1
  <2>4. Ahead(curl)'
    BY <1>1, <1>8, <2>1, <2>3 DEF Ahead, Value
  <2>5. Begun(next[curl][0])
    <3>1. SUFFICES ASSUME next[curl][0] # Nil PROVE Begun(next[curl][0])
      BY DEF Begun
    <3>2. next[curl][0] \in InList /\ Value(curl) < Value(next[curl][0]) /\ Value(curl) = val[row]
      BY <1>1, <1>4, <1>9, <2>1, <3>1
    <3>3. Value(curl) \in Nat /\ Value(next[curl][0]) \in Nat /\ val[row] \in Nat
      BY <1>3, <1>9, <2>1, <3>2
    <3> QED BY <1>3, <2>1, <3>2, <3>3 DEF Begun, Matching, BeforeStart
  <2>6. Begun(curl)'
    BY <1>1, <1>2, <2>1, <2>5 DEF Begun, Value
  <2> QED BY <1>2, <1>5, <1>8, <2>1, <2>2, <2>4, <2>6 DEF Exact
<1> QED BY <1>10, <1>11, <1>12, <1>13, <1>14

LEMMA MarchInit == Init => MarchInv
<1> SUFFICES ASSUME Init PROVE MarchInv
  OBVIOUS
<1>1. ~ Observing
  BY DEF Init, Observing, Walking, Outcomes
<1>2. InTable = {}
  BY DEF Init, InTable, Linked
<1>3. Counted
  BY <1>2, FS_EmptySet DEF Counted, Init
<1>4. Onward /\ Starting /\ since <= cycle /\ FailsForAReason
  BY DEF Init, Onward, Starting, FailsForAReason, CrashNeedsErase
<1> QED BY <1>1, <1>3, <1>4 DEF MarchInv, Calm, Still, Quiet

LEMMA MarchStep ==
  ASSUME IndexInv, IndexInv', SearchInv, SearchInv', MarchInv, [Next]_vars
  PROVE  MarchInv'
<1> USE DEF MarchInv
<1>1. (Still' => Calm') /\ (Quiet' => Calm')
  BY DEF Still, Quiet, Calm
<1>2. CASE Master
  <2>1. Counted' /\ cycle <= cycle' /\ Onward'
    BY <1>2, CountedKept, OnwardKept
  <2>2. Starting' /\ since' <= cycle'
    <3>1. UNCHANGED reader
      BY <1>2, MasterMoves
    <3>2. since \in Nat /\ cycle \in Nat /\ cycle' \in Nat
      BY DEF SearchInv, ReaderType, IndexInv, SharedType
    <3> QED BY <2>1, <3>1, <3>2 DEF reader, Starting
  <2>3. Calm' => Placed' /\ Stays' /\ Rising'
    BY <1>2, PlacedKept, StaysKept, RisingKept
  <2>4. Still' => Enough'
    BY <1>2, EnoughKept
  <2>5. Quiet' => Exact'
    BY <1>2, ExactKept
  <2>6. FailsForAReason'
    BY <1>2, FailsKept
  <2> QED BY <2>1, <2>2, <2>3, <2>4, <2>5, <2>6
<1>3. CASE Reader
  <2>1. UNCHANGED <<shared, command>>
    BY <1>3 DEF Reader, Open, ReadLock, Enter, Start, Locate, Compare, Arrive, Skip, Pass, Fetch, Check,
         Ended, Walk, NextNode, Close
  <2>2. Counted' /\ Onward'
    BY <2>1 DEF Counted, InTable, Linked, Onward, Label, shared, command
  <2>3. Starting' /\ since' <= cycle'
    BY <1>3, StartingRead, SinceKept
  <2>4. Calm' => Placed' /\ Stays'
    BY <1>3, PlacedRead
  <2>5. Calm' => Rising'
    BY <1>3, <2>3, RisingRead
  <2>6. Still' => Enough'
    BY <1>3, <2>3, EnoughRead
  <2>7. Quiet' => Exact'
    <3>1. SUFFICES ASSUME Quiet' PROVE Exact'
      OBVIOUS
    <3>2. CASE ReadLock \/ Enter
      BY <3>1, <3>2, ExactBegins
    <3>3. CASE Start \/ Locate \/ Compare \/ Arrive \/ Skip \/ Pass
      BY <1>3, <3>1, <3>3, ExactSeeks
    <3>4. CASE Fetch \/ Check \/ Ended \/ Walk \/ NextNode
      BY <1>3, <3>1, <3>4, ExactWalks
    <3>5. ~ (Close \/ \E s \in Searches : Open(s))
      BY <3>1 DEF Close, Open, Quiet, Observing, Walking, Outcomes
    <3> QED BY <1>3, <3>2, <3>3, <3>4, <3>5 DEF Reader
  <2>8. FailsForAReason'
    BY <1>3, FailsRead
  <2> QED BY <2>2, <2>3, <2>4, <2>5, <2>6, <2>7, <2>8
<1>4. CASE UNCHANGED vars
  <2>1. UNCHANGED <<next, to, prev, head, tall, val, stamp, count, cycle, pc, op, target, new, node, level, born>>
    BY <1>4 DEF vars, shared, command
  <2>2. UNCHANGED <<rpc, search, restarts, size, since, at, lev, cand, curl, row, walk, steps, matches,
                    seen, seenNodes, stay, met>>
    BY <1>4 DEF vars, reader, history
  <2>3. Linked' = Linked /\ Found' = Found /\ InList' = InList /\ Listed' = Listed /\ Label' = Label
    BY <2>1, <2>2 DEF Linked, Found, InList, Listed, Label
  <2>4. InTable' = InTable /\ Known' = Known /\ Passed' = Passed /\ Lower' = Lower
    BY <2>1, <2>2, <2>3 DEF InTable, Known, Passed, Lower
  <2>5. Calm' = Calm /\ Still' = Still /\ Quiet' = Quiet
    BY <2>2 DEF Calm, Still, Quiet, Observing
  <2>6. Counted' /\ Onward' /\ Starting' /\ since' <= cycle' /\ FailsForAReason'
    BY <2>1, <2>2, <2>3, <2>4 DEF Counted, Onward, Starting, FailsForAReason, CrashNeedsErase
  <2>7. Calm' => Placed' /\ Stays' /\ Rising'
    BY <2>1, <2>2, <2>3, <2>4, <2>5 DEF Placed, Stays, Rising
  <2>8. Still' => Enough'
    BY <2>1, <2>2, <2>4, <2>5 DEF Enough
  <2>9. Exact => Exact'
    BY <2>1, <2>2, <2>3 DEF Exact, Ahead, Begun, Below, Value
  <2> QED BY <2>5, <2>6, <2>7, <2>8, <2>9
<1> QED BY <1>2, <1>3, <1>4 DEF Next

-----------------------------------------------------------------------------
(* Theorems.                                                               *)

LEMMA IndexInvariant == Spec => []IndexInv
<1>1. Init => IndexInv
  BY IndexInit
<1>2. IndexInv /\ [Next]_vars => IndexInv'
  BY IndexStep
<1> QED BY <1>1, <1>2, PTL DEF Spec

LEMMA SearchInvariant == Spec => []SearchInv
<1>1. Init => SearchInv
  BY SearchInit
<1>2. IndexInv /\ IndexInv' /\ Closed /\ Closed' /\ SearchInv /\ [Next]_vars => SearchInv'
  <2> SUFFICES ASSUME IndexInv, IndexInv', Closed, Closed', SearchInv, [Next]_vars
               PROVE  SearchInv'
    OBVIOUS
  <2>1. CASE Master
    BY <2>1, SearchKept
  <2>2. CASE Reader
    BY <2>2, SearchStep
  <2>3. CASE UNCHANGED vars
    BY <2>3 DEF vars, shared, command, reader, history, SearchInv, ReaderType, HistoryType,
                Sighted, Covered, Here, Observing, ReportsRows, Listed, InList, Doing
  <2> QED BY <2>1, <2>2, <2>3 DEF Next
<1>3. Spec => []IndexInv
  BY IndexInvariant
<1>4. IndexInv => Closed
  BY IndexClosed
<1> QED BY <1>1, <1>2, <1>3, <1>4, PTL DEF Spec

\* The inductive invariant.
THEOREM Invariant == Spec => []IInv
<1>1. IndexInv /\ SearchInv => IInv
  BY DEF IndexInv, SearchInv, IInv, TypeOK
<1> QED BY <1>1, IndexInvariant, SearchInvariant, PTL

\* The types of SharedIndex.
THEOREM TypeCorrect == Spec => []TypeOK
<1>1. IInv => TypeOK
  BY DEF IInv
<1> QED BY <1>1, Invariant, PTL

\* A search over an index that changes under it, restarted or not, reports
\* nothing that was not in the index at some time while it ran: neither the
\* pointers of a row that was unlinked nor those of a node that was erased
\* lead it anywhere else.
THEOREM OnlyRowsReported == Spec => []ReportsRows
<1>1. IInv => ReportsRows
  BY DEF IInv, Sighted, Here
<1> QED BY <1>1, Invariant, PTL

\* A search uses a null row only if the master emptied a node while it ran.
THEOREM CrashOnlyByErase == Spec => []CrashNeedsErase
<1>1. IInv => CrashNeedsErase
  BY DEF IInv, Sighted, Here, CrashNeedsErase
<1> QED BY <1>1, Invariant, PTL

\* Wherever the master is in a command, a walk that begins now and is not
\* overtaken finds every row of the index but the one the command is about:
\* the order of the stores of ctable_lists.c and jsw_slib.c.
THEOREM AlwaysWhole == Spec => []IndexIsWhole
<1> QED BY WholeIndex, IndexInvariant, PTL

\* The pointers of rows and nodes never lead in a circle, those of rows and
\* nodes that have left the index included: a walk ends when the master
\* pauses.
THEOREM AlwaysEnds == Spec => []WalksEnd
<1>1. Init => WalksEnd
  <2>1. (Init /\ Nil \notin Rows \cup Nodes) => \A c \in Rows : to[c] \notin Rows
    BY DEF Init, Cells
  <2>2. (Init /\ Nil \notin Rows \cup Nodes) => \A n \in Nodes : Link0[n] \notin Nodes
    BY SizesAssumption DEF Init, Link0, Places, Levels
  <2> QED BY <2>1, <2>2, PointersAssumption DEF WalksEnd, Ends, Cells
<1>2. IndexInv /\ WalksEnd /\ [Next]_vars => WalksEnd'
  <2> SUFFICES ASSUME IndexInv, WalksEnd, [Next]_vars
               PROVE  WalksEnd'
    OBVIOUS
  <2>1. CASE Master
    BY <2>1, RowsEnd, NodesEnd DEF WalksEnd
  <2>2. CASE Reader \/ UNCHANGED vars
    <3>1. UNCHANGED <<next, to>>
      BY <2>2 DEF Reader, Open, ReadLock, Enter, Start, Locate, Compare, Arrive, Skip, Pass, Fetch,
                  Check, Ended, Walk, NextNode, Close, vars, shared
    <3> QED BY <3>1 DEF WalksEnd, Ends, Link0
  <2> QED BY <2>1, <2>2 DEF Next
<1> QED BY <1>1, <1>2, IndexInvariant, PTL DEF Spec

\* Where a search is among the rows it has seen.
LEMMA MarchInvariant == Spec => []MarchInv
<1>1. IndexInv /\ IndexInv' /\ SearchInv /\ SearchInv' /\ MarchInv /\ [Next]_vars => MarchInv'
  BY MarchStep
<1> QED BY <1>1, MarchInit, IndexInvariant, SearchInvariant, PTL DEF Spec

\* A search that returns, and during which the master did no more than delete
\* rows that share their value and add rows to lists or in nodes of one level,
\* has found each row that stayed, once, and nothing but rows that match, in
\* the order of the field: no store of those commands hides a row from it.
THEOREM QuietIsExact == Spec => []QuietSearch
<1>1. SearchInv /\ MarchInv => QuietSearch
  <2>1. SUFFICES ASSUME SearchInv, MarchInv, rpc = "done", met \subseteq {"add"}
                 PROVE  /\ \A r \in stay : \E i \in 1 .. Len(matches) : matches[i] = r
                        /\ \A i, j \in 1 .. Len(matches) : i < j => matches[i] # matches[j]
                        /\ \A i \in 1 .. Len(matches) : Matching(val[matches[i]], search)
                        /\ \A i, j \in 1 .. Len(matches) : i < j => val[matches[i]] <= val[matches[j]]
    BY DEF QuietSearch
  <2>2. Quiet /\ Calm
    BY <2>1 DEF Quiet, Calm, Observing, Walking, Outcomes
  <2>3. Exact /\ Rising
    BY <2>1, <2>2 DEF MarchInv
  <2>4. stay \subseteq Found /\ \A m \in Found : Matching(val[m], search)
    BY <2>1, <2>3 DEF Exact
  <2> QED BY <2>3, <2>4 DEF Found, Rising
<1> QED BY <1>1, SearchInvariant, MarchInvariant, PTL

\* A search that gives up for too many rows or nodes met a row that was added
\* or moved while it ran, and one that uses a null row a node that was emptied:
\* if rows are only deleted, the room for as many matches as the table has
\* rows is enough, and it passes no more nodes than there are rows.
THEOREM FailuresHaveReasons == Spec => []FailsForAReason
<1>1. MarchInv => FailsForAReason
  BY DEF MarchInv
<1> QED BY <1>1, MarchInvariant, PTL

=============================================================================
