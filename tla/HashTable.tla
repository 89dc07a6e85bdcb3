------------------------------ MODULE HashTable ------------------------------
(***************************************************************************)
(* The hash table of the keys of a table (hash/speedtableHash.c), with the *)
(* commands that use it: find_or_create, reinsert_row, delete, reset, and  *)
(* foreach, whose script can run any of the others in between.  "set k id  *)
(* l" of a new row, which damages two chains, is left out.                 *)
(*                                                                         *)
(* The entries of a bucket are a list linked through the rows.  A table    *)
(* that is full gets Base times as many buckets, by one more digit of the  *)
(* hash.                                                                   *)
(***************************************************************************)
EXTENDS Integers, Sequences, FiniteSets, SequencesExt

CONSTANTS
  Keys,       \* the keys
  NoKey,      \* a row that is not in use, or nullKeyValue
  Entries,    \* the rows, each with its ctable_HashEntry
  Nil,        \* a null pointer
  Hash,       \* the hash of a key, multiplied: Digits digits to the base Base
  Base,       \* buckets split in so many (16)
  Digits,     \* those RANDOM_INDEX can select
  Multiplier  \* REBUILD_MULTIPLIER

\* Base to the power of n.
Power[n \in 0 .. Digits] == IF n = 0 THEN 1 ELSE Power[n - 1] * Base

ASSUME SizesAssumption ==
  /\ Base \in Nat \ {0, 1} /\ Digits \in Nat \ {0} /\ Multiplier \in Nat \ {0}
  /\ Hash \in [Keys -> 0 .. Power[Digits] - 1]
  /\ Nil \notin Entries /\ NoKey \notin Keys
  /\ IsFiniteSet(Entries) /\ Cardinality(Entries) < Multiplier * Power[Digits]

VARIABLES
  tab,  \* ctable_HashTable and the fields of the entries
  walk  \* the ctable_HashSearch of a foreach

vars == <<tab, walk>>

\* The slots of a table that has the first l digits for an index.
Slots(l) == 0 .. Power[l] - 1

\* ctable_HashTable: numEntries, the level, which numBuckets, rebuildSize, downShift and
\* mask follow from, the buckets; nextPtr, hash and key of the entries; and whether the
\* process has ended in Tcl_Panic.
IsTable(t) ==
  /\ t.level \in 1 .. Digits /\ t.numEntries \in 0 .. Cardinality(Entries)
  /\ t.buckets \in [Slots(t.level) -> Entries \cup {Nil}]
  /\ t.next \in [Entries -> Entries \cup {Nil}]
  /\ t.hash \in [Entries -> Slots(Digits)]
  /\ t.key \in [Entries -> Keys \cup {NoKey}]
  /\ t.panic \in BOOLEAN

\* ctable_HashSearch, and as history the keys that are in the table since the walk
\* began, those it has come to, whether it came to one twice, whether rows were moved
\* under way, and whether the next one was freed.
Walk ==
  [phase : {"no", "script", "over"}, nextIndex : 0 .. Power[Digits],
   nextEntry : Entries \cup {Nil}, stay : SUBSET Keys, seen : SUBSET Keys,
   twice : BOOLEAN, moved : BOOLEAN, stray : BOOLEAN]

TypeOK == IsTable(tab) /\ walk \in Walk

-----------------------------------------------------------------------------
(* The table.                                                              *)

\* Mutant: the digits are taken from the other end.
Index_Low(h, l) == h % Power[l]

\* RANDOM_INDEX
Index(h, l) == (h \div Power[Digits - l]) % Power[l]

\* The entries of a bucket, as far as one more than there are.
Chain(t, i) ==
  LET after == [e \in Entries \cup {Nil} |-> IF e = Nil THEN Nil ELSE t.next[e]]
      to[m \in 1 .. Cardinality(Entries) + 1] ==
        IF m = 1 THEN t.buckets[i] ELSE after[to[m - 1]]
  IN  SubSeq(to, 1, Cardinality({m \in DOMAIN to : to[m] # Nil}))

\* Mutant: equal hashes are taken for equal keys.
Matches_Hash(t, e, k) == t.hash[e] = Hash[k]

Matches(t, e, k) == t.hash[e] = Hash[k] /\ t.key[e] = k

\* ctable_FindHashEntry: the entry of the bucket that matches, which is the only one.
Find(t, k) ==
  LET found == {e \in ToSet(Chain(t, Index(Hash[k], t.level))) : Matches(t, e, k)}
  IN  IF found = {} THEN Nil ELSE CHOOSE e \in found : TRUE

RebuildSize(t) == Multiplier * Power[t.level]

\* The last of the entries of an old bucket before place m that go to the new bucket j.
Latest(t, s, j, m) ==
  LET before == {n \in DOMAIN s : n < m /\ Index(t.hash[s[n]], t.level + 1) = j}
  IN  IF before = {} THEN Nil ELSE s[Max(before)]

\* RebuildTable: each entry of the old buckets goes to the head of its new one.
Rebuilt(t) ==
  LET First(j) ==
        LET s == Chain(t, j \div Base) IN Latest(t, s, j, Len(s) + 1)
      After(e) ==
        LET j == Index(t.hash[e], t.level + 1)
            s == Chain(t, j \div Base)
            m == SelectInSeq(s, LAMBDA f : f = e)
        IN  IF m = 0 THEN t.next[e] ELSE Latest(t, s, j, m)
  IN  [t EXCEPT !.level = @ + 1,
                !.buckets = [j \in Slots(t.level + 1) |-> First(j)],
                !.next = [e \in Entries |-> After(e)]]

Full(t) == t.numEntries >= RebuildSize(t)

\* ctable_StoreHashEntry of a key that is not in the table.
Stored(t, e, k) ==
  LET i == Index(Hash[k], t.level)
      u == [t EXCEPT !.key[e] = k, !.hash[e] = Hash[k], !.next[e] = t.buckets[i],
                     !.buckets[i] = e, !.numEntries = @ + 1]
  IN  IF Full(u) THEN Rebuilt(u) ELSE u

\* ctable_DeleteHashEntry, by the hash in the entry: the key may be gone.
Deleted(t, e) ==
  LET i == Index(t.hash[e], t.level)
      s == Chain(t, i)
      before == {p \in ToSet(s) : t.next[p] = e}
      u == [t EXCEPT !.key[e] = NoKey, !.numEntries = @ - 1]
  IN  IF t.buckets[i] = e THEN [u EXCEPT !.buckets[i] = t.next[e]]
      ELSE IF before = {} THEN [t EXCEPT !.panic = TRUE]
      ELSE [u EXCEPT !.next[CHOOSE p \in before : TRUE] = t.next[e]]

Unused(t) == {e \in Entries : t.key[e] = NoKey}

\* ctable_InitHashTable.  The fields of rows that are not in use do not matter.
Empty ==
  [level |-> 1, numEntries |-> 0, buckets |-> [i \in Slots(1) |-> Nil],
   next |-> [e \in Entries |-> Nil], hash |-> [e \in Entries |-> 0],
   key |-> [e \in Entries |-> NoKey], panic |-> FALSE]

\* A row is freed: so are the fields of its entry.
Cleared(t, e) == [t EXCEPT !.next[e] = Nil, !.hash[e] = 0]

NoWalk ==
  [phase |-> "no", nextIndex |-> 0, nextEntry |-> Nil, stay |-> {}, seen |-> {},
   twice |-> FALSE, moved |-> FALSE, stray |-> FALSE]

Init == tab = Empty /\ walk = NoWalk

-----------------------------------------------------------------------------
(* The commands, between or in the scripts of a foreach.                   *)

Runs == ~tab.panic /\ walk.phase # "over"

\* What a command means to the walk that goes on: the rows it has moved, those it has
\* freed and the keys that are gone.
Walking(w, moves, freed, gone) ==
  IF w.phase = "no" THEN w
  ELSE [w EXCEPT !.stay = @ \ gone, !.seen = @ \ gone, !.moved = @ \/ moves,
                 !.stray = @ \/ w.nextEntry \in freed]

\* find_or_create: a row that is not in use, which may be that of an earlier call.
Store(k, e) ==
  /\ Runs /\ Find(tab, k) = Nil /\ e \in Unused(tab)
  /\ tab' = Stored(tab, e, k)
  /\ walk' = Walking(walk, tab'.level # tab.level, {}, {})

\* reinsert_row of a row of the table, unless there is one with the new key.
Rename(k, l) ==
  /\ Runs /\ Find(tab, k) # Nil /\ Find(tab, l) = Nil
  /\ LET e == Find(tab, k)
     IN  tab' = Stored(Deleted(tab, e), e, l)
  /\ walk' = Walking(walk, TRUE, {}, {k})

Delete(k) ==
  /\ Runs /\ Find(tab, k) # Nil
  /\ LET e == Find(tab, k)
     IN  /\ tab' = Cleared(Deleted(tab, e), e)
         /\ walk' = Walking(walk, FALSE, {e}, {k})

\* delete_all_rows, ctable_DeleteHashTable and ctable_InitHashTable
Reset ==
  /\ Runs /\ tab # Empty
  /\ tab' = Empty
  /\ walk' = Walking(walk, TRUE, Entries, Keys)

-----------------------------------------------------------------------------
(* foreach.                                                                *)

\* Mutant: the walk leaves the first slot out.
Ahead_Later(w) == {i \in Slots(tab.level) : i > w.nextIndex /\ tab.buckets[i] # Nil}

Ahead(w) == {i \in Slots(tab.level) : i >= w.nextIndex /\ tab.buckets[i] # Nil}

ComeTo(w, e) ==
  [w EXCEPT !.phase = "script", !.nextEntry = tab.next[e],
            !.seen = @ \cup {tab.key[e]}, !.twice = @ \/ tab.key[e] \in w.seen]

\* ctable_NextHashEntry
Advance(w) ==
  LET i == CHOOSE i \in Ahead(w) : \A j \in Ahead(w) : i <= j
  IN  IF w.nextEntry # Nil THEN ComeTo(w, w.nextEntry)
      ELSE IF Ahead(w) = {} THEN [w EXCEPT !.phase = "over"]
      ELSE ComeTo([w EXCEPT !.nextIndex = i + 1], tab.buckets[i])

Foreach ==
  /\ Runs /\ walk.phase = "no" /\ tab.numEntries > 0
  /\ walk' = Advance([NoWalk EXCEPT !.stay = {tab.key[e] : e \in Entries} \ {NoKey}])
  /\ UNCHANGED tab

\* The script returns.  Its next row must not have been freed: where the pointer then
\* leads is undefined.
NextRow ==
  /\ Runs /\ walk.phase = "script" /\ ~walk.stray
  /\ walk' = Advance(walk)
  /\ UNCHANGED tab

\* The script ends the foreach, or all rows have been visited.
Leave ==
  /\ walk.phase \in {"script", "over"}
  /\ walk' = NoWalk
  /\ UNCHANGED tab

-----------------------------------------------------------------------------
Next ==
  \/ \E k \in Keys :
       \/ \E e \in Entries : Store(k, e)
       \/ \E l \in Keys : Rename(k, l)
       \/ Delete(k)
  \/ Reset \/ Foreach \/ NextRow \/ Leave

Spec == Init /\ [][Next]_vars

-----------------------------------------------------------------------------
(* What makes it correct.                                                  *)

InUse == Entries \ Unused(tab)

\* Whatever was stored, renamed, deleted and rebuilt, each row is once in one chain, in
\* the bucket its hash selects among as many as there are now, and numEntries is their
\* number: no search in a bucket runs forever or into a freed row, and no deletion
\* finds a "malformed bucket chain".
ChainsAreWhole ==
  /\ TypeOK /\ ~tab.panic
  /\ \A i \in Slots(tab.level) :
       LET s == Chain(tab, i)
       IN  IsInjective(s) /\ ToSet(s) = {e \in InUse : Index(tab.hash[e], tab.level) = i}
  /\ \A e \in InUse : tab.hash[e] = Hash[tab.key[e]]
  /\ tab.numEntries = Cardinality(InUse)

\* It is a map from keys to rows: a lookup finds the row that was stored last under the
\* key, across rebuilds and among keys with the same hash, and no command changes what
\* is found for any other key.
Map == INSTANCE KeyMap WITH map <- [k \in Keys |-> Find(tab, k)]

ImplementsMap == Map!Spec

\* ctable_NextHashEntry returns "all of the entries in the table, one at a time": none
\* twice, and each that was there all the time, also if the script stores rows or
\* deletes others than the next one, as long as the table is not rebuilt and no row gets
\* another key under way.
EachOnce ==
  ~walk.moved => ~walk.twice /\ (walk.phase = "over" => walk.stay \subseteq walk.seen)
=============================================================================
