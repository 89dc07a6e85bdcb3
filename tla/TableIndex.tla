----------------------------- MODULE TableIndex -----------------------------
(***************************************************************************)
(* A table and its indexes: the functions gentable.tcl generates to find,  *)
(* create, set, incr and delete rows, the commands of command-body.c-subst *)
(* that call them, and the index functions of ctable_search.c.             *)
(*                                                                         *)
(* A row is in the hash table under its key, in the list of all rows, and, *)
(* for each field that has an index, in the skip list of that field: in    *)
(* the bucket of the value it was inserted with.  Setting a field takes    *)
(* the row out of the field's index and puts it back under the new value.  *)
(* A command that names several fields is one step per field: it may fail  *)
(* at each of them, and what it did until then stays done.                 *)
(*                                                                         *)
(* A skip list is the set of its entries, and the memory of rows and the   *)
(* order of the list are left out.                                         *)
(***************************************************************************)
EXTENDS Integers, FiniteSets

CONSTANTS
  Rows,       \* the structures of rows
  NoRow,      \* a null pointer to a row
  Keys,       \* the keys
  NoKey,      \* ctable->nullKeyValue
  NFields,    \* the fields, without the key field, are 1 .. NFields
  Values,     \* the values of a field
  Null,       \* the null value: an index holds it like any other
  Out,        \* not in the index: _ll_nodes[index].prev is NULL
  Default,    \* the values of a new row
  Unique,     \* fields defined "unique 1"
  NotNull,    \* fields defined "notnull 1"
  Chars,      \* fields of type char
  Repeats     \* may one command set a field twice?

Fields == 1 .. NFields
Cells  == Values \cup {Null}

ASSUME FieldsAssumption ==
  /\ NFields \in Nat /\ Values \subseteq Int
  /\ {Unique, NotNull, Chars} \subseteq SUBSET Fields
  /\ Default \in [Fields -> Cells]
  /\ \A f \in NotNull : Default[f] # Null
ASSUME NothingAssumption ==
  NoRow \notin Rows /\ NoKey \notin Keys /\ Null \notin Values /\ Out \notin Cells
ASSUME RepeatsAssumption == Repeats \in BOOLEAN

VARIABLES
  hash,      \* the row ctable_FindHashEntry finds for a key
  key,       \* row->hashEntry.key
  list,      \* the list of all rows, ctable->ll_head
  count,     \* ctable->count
  val,       \* the fields of a row
  indexed,   \* fields with ctable->skipLists[field] # NULL
  place,     \* the value under which a row is in the index of a field
  cmd,       \* the command that runs: its row, indexCtl and the fields it set
  failed,    \* history: rows with which a command has failed
  fate       \* what became of the process: see Panic and RenameNew

vars == <<hash, key, list, count, val, indexed, place, cmd, failed, fate>>

NoCmd == [op |-> "none", row |-> NoRow, ctl |-> "normal", named |-> {}]
Idle  == cmd = NoCmd /\ fate = "runs"
Runs(ops) == cmd.op \in ops /\ fate = "runs"

TypeOK ==
  /\ hash \in [Keys -> Rows \cup {NoRow}]
  /\ key \in [Rows -> Keys \cup {NoKey}]
  /\ list \subseteq Rows
  /\ count \in Int
  /\ val \in [Rows -> [Fields -> Cells]]
  /\ \A r \in Rows, f \in NotNull : val[r][f] # Null
  /\ indexed \subseteq Fields
  /\ place \in [Rows -> [Fields -> Cells \cup {Out}]]
  /\ cmd \in [op : {"none", "set", "incr", "null"}, row : Rows \cup {NoRow},
              ctl : {"normal", "new"}, named : SUBSET Fields]
  /\ failed \subseteq Rows
  /\ fate \in {"runs", "panic", "damaged"}

Nowhere == [f \in Fields |-> Out]

Init ==
  /\ hash = [k \in Keys |-> NoRow] /\ key = [r \in Rows |-> NoKey]
  /\ list = {} /\ count = 0
  /\ val = [r \in Rows |-> Default]
  /\ indexed = {} /\ place = [r \in Rows |-> Nowhere]
  /\ cmd = NoCmd /\ failed = {} /\ fate = "runs"

-----------------------------------------------------------------------------
(* How a command ends or goes on.                                          *)

Continue(f) ==
  /\ cmd' = [cmd EXCEPT !.named = @ \cup {f}]
  /\ UNCHANGED <<failed, fate>>

Return == cmd' = NoCmd /\ UNCHANGED <<failed, fate>>

\* The command returns TCL_ERROR.
Fail ==
  /\ cmd' = NoCmd
  /\ failed' = failed \cup {cmd.row}
  /\ UNCHANGED fate

\* Tcl_Panic: the process is gone.
Panic == fate' = "panic" /\ UNCHANGED <<cmd, failed>>

-----------------------------------------------------------------------------
(* Rows.                                                                   *)

\* find_or_create, at the start of set, store and incr (null finds its row): the
\* row is found, and its index entries move with its values, or it is new,
\* and in no index yet.
Find(op, k) ==
  /\ Idle /\ hash[k] # NoRow
  /\ cmd' = [op |-> op, row |-> hash[k], ctl |-> "normal", named |-> {}]
  /\ UNCHANGED <<hash, key, list, count, val, indexed, place, failed, fate>>

Create(op, k) ==
  /\ Idle /\ hash[k] = NoRow
  /\ \E r \in Rows \ list :
       /\ hash' = [hash EXCEPT ![k] = r]
       /\ key' = [key EXCEPT ![r] = k]
       /\ list' = list \cup {r}
       /\ val' = [val EXCEPT ![r] = Default]
       /\ place' = [place EXCEPT ![r] = Nowhere]
       /\ cmd' = [op |-> op, row |-> r, ctl |-> "new", named |-> {}]
  /\ count' = count + 1
  /\ UNCHANGED <<indexed, failed, fate>>

\* Mutant: a row is looked for under its own value only.
Clash_Never(r, f, v) == FALSE

\* jsw_sinsert_linked finds v in the index of a unique field.
Clash(r, f, v) == f \in Unique /\ \E q \in Rows \ {r} : place[q][f] = v

\* The place of r after ctable_RemoveFromIndex, which is for rows that were
\* there before the command.
Removed(r, f) == IF cmd.ctl = "normal" THEN Out ELSE place[r][f]

\* What setting a field has in common: out of the index, the new value, and
\* into the index (ctable_InsertIntoIndex), which may refuse.
Put(r, f, v) ==
  /\ val' = [val EXCEPT ![r][f] = v]
  /\ \/ /\ f \notin indexed
        /\ UNCHANGED place /\ Continue(f)
     \/ /\ f \in indexed /\ Removed(r, f) # Out
        /\ UNCHANGED place /\ Panic
     \/ /\ f \in indexed /\ Removed(r, f) = Out /\ Clash(r, f, v)
        /\ place' = [place EXCEPT ![r][f] = Out] /\ Fail
     \/ /\ f \in indexed /\ Removed(r, f) = Out /\ ~Clash(r, f, v)
        /\ place' = [place EXCEPT ![r][f] = v] /\ Continue(f)

Keep(f) == Continue(f) /\ UNCHANGED <<val, place>>

MayName(f) == Repeats \/ f \notin cmd.named

\* Does the set of field f to v do nothing?  charSetSource has the comparison
\* the wrong way round: it is a change that does nothing.
Skips(r, f, v) ==
  IF f \in Chars /\ v # Null /\ val[r][f] # Null
  THEN v # val[r][f] ELSE v = val[r][f]

\* Mutant: "notnull 1" is not looked at.
Takes_Null(f, v) == TRUE

\* A notnull field has no null flag, and set_null refuses it.
Takes(f, v) == f \in NotNull => v # Null

\* ${table}_set of a field.
SetField(f, v) ==
  /\ Runs({"set"}) /\ MayName(f) /\ Takes(f, v)
  /\ LET r == cmd.row IN IF Skips(r, f, v) THEN Keep(f) ELSE Put(r, f, v)
  /\ UNCHANGED <<hash, key, list, count, indexed>>

\* ${table}_incr, where a null counts as 0.
IncrField(f, d) ==
  /\ Runs({"incr"}) /\ MayName(f) /\ f \notin Chars
  /\ LET r == cmd.row
         v == IF val[r][f] = Null THEN d ELSE val[r][f] + d
     IN  v \in Values /\ Put(r, f, v)
  /\ UNCHANGED <<hash, key, list, count, indexed>>

\* ${table}_set_null
SetNull(f) ==
  /\ Runs({"null"}) /\ MayName(f) /\ Takes(f, Null)
  /\ LET r == cmd.row IN IF val[r][f] = Null THEN Keep(f) ELSE Put(r, f, Null)
  /\ UNCHANGED <<hash, key, list, count, indexed>>

\* An unknown field, a value that cannot be converted, a null for a field that
\* takes none: the command stops there.
BadField ==
  /\ Runs({"set", "incr", "null"})
  /\ Fail
  /\ UNCHANGED <<hash, key, list, count, val, indexed, place>>

\* Row r goes into the indexes of the fields "missing" one by one, until one
\* refuses.
InsertAll(r, missing) ==
  LET refused == {f \in missing : Clash(r, f, val[r][f])}
      done    == {f \in missing : \A g \in refused : f < g}
  IN  /\ place' = [place EXCEPT ![r] =
                     [f \in Fields |-> IF f \in done THEN val[r][f] ELSE place[r][f]]]
      /\ IF refused = {} THEN Return ELSE Fail

\* Mutant: index_defaults leaves out the fields that are still null.
Missing_NotNull(r) == {f \in indexed : place[r][f] = Out /\ val[r][f] # Null}

Missing(r) == {f \in indexed : place[r][f] = Out}

\* The end of the command: index_defaults for a new row.
Finish ==
  /\ Runs({"set", "incr", "null"})
  /\ IF cmd.ctl = "new" THEN InsertAll(cmd.row, Missing(cmd.row))
                        ELSE Return /\ UNCHANGED place
  /\ UNCHANGED <<hash, key, list, count, val, indexed>>

\* Mutant: reinsert_row does not look for duplicates.
Taken_Never(k) == FALSE

Taken(k) == hash[k] # NoRow

\* The key field is set to another key: reinsert_row.
Rename(k) ==
  /\ Runs({"set"}) /\ cmd.ctl = "normal" /\ k # key[cmd.row]
  /\ IF Taken(k)
     THEN Fail /\ UNCHANGED <<hash, key>>
     ELSE /\ hash' = [hash EXCEPT ![key[cmd.row]] = NoRow, ![k] = cmd.row]
          /\ key' = [key EXCEPT ![cmd.row] = k]
          /\ UNCHANGED <<cmd, failed, fate>>
  /\ UNCHANGED <<list, count, val, indexed, place>>

\* The same for a row that the command has just created under another key.  It
\* is stored again without being taken out of the hash table, so that the bucket
\* it was in leads into the one it is in now: that table is damaged, and the
\* model ends there.
RenameNew(k) ==
  /\ Runs({"set"}) /\ cmd.ctl = "new" /\ k # key[cmd.row]
  /\ IF Taken(k) THEN Fail ELSE fate' = "damaged" /\ UNCHANGED <<cmd, failed>>
  /\ UNCHANGED <<hash, key, list, count, val, indexed, place>>

\* Mutant: only the fields of unique indexes are taken out.
Leaves_Unique(r) == [f \in Fields |-> IF f \in Unique THEN Out ELSE place[r][f]]

\* RemoveFromAllIndexes.  What else the row is linked to goes with its memory.
Leaves(r) == Nowhere

\* The delete command, and the delete of each row of "search -delete".
Delete(k) ==
  /\ Idle /\ hash[k] # NoRow
  /\ LET r == hash[k]
     IN  /\ place' = [place EXCEPT ![r] = Leaves(r)]
         /\ key' = [key EXCEPT ![r] = NoKey]
         /\ list' = list \ {r}
         /\ failed' = failed \ {r}
  /\ hash' = [hash EXCEPT ![k] = NoRow]
  /\ count' = count - 1
  /\ UNCHANGED <<val, indexed, cmd, fate>>

\* reset: delete_all_rows, with the indexes.
Reset ==
  /\ Idle
  /\ hash' = [k \in Keys |-> NoRow] /\ key' = [r \in Rows |-> NoKey]
  /\ list' = {} /\ count' = 0
  /\ indexed' = {} /\ place' = [r \in Rows |-> Nowhere]
  /\ failed' = {}
  /\ UNCHANGED <<val, cmd, fate>>

-----------------------------------------------------------------------------
(* Indexes.                                                                *)

\* The rows "some" can be walked by ctable_CreateIndex without a refusal.
Distinct(some, f) ==
  f \in Unique => \A q, r \in some : val[q][f] = val[r][f] => q = r

Enter(some, f) ==
  place' = [r \in Rows |-> IF r \in some THEN [place[r] EXCEPT ![f] = val[r][f]]
                           ELSE place[r]]

\* index create: every row goes into the new index.
CreateIndex(f) ==
  /\ Idle /\ f \notin indexed
  /\ \A r \in list : place[r][f] = Out
  /\ Distinct(list, f)
  /\ indexed' = indexed \cup {f}
  /\ Enter(list, f)
  /\ UNCHANGED <<hash, key, list, count, val, cmd, failed, fate>>

\* Two rows have the same value in a unique field.  The skip list is deleted,
\* the links of the rows that were in it stay as they are.
CreateIndexFails(f) ==
  /\ Idle /\ f \notin indexed
  /\ \E some \in SUBSET list :
       /\ \A r \in some : place[r][f] = Out
       /\ Distinct(some, f)
       /\ \E r \in list \ some : ~Distinct(some \cup {r}, f) /\ place[r][f] = Out
       /\ Enter(some, f)
  /\ UNCHANGED <<hash, key, list, count, val, indexed, cmd, failed, fate>>

\* index create comes upon a row that still has such a link.
CreateIndexPanics(f) ==
  /\ Idle /\ f \notin indexed
  /\ \E r \in list : place[r][f] # Out
  /\ Panic
  /\ UNCHANGED <<hash, key, list, count, val, indexed, place>>

\* index drop
DropIndex(f) ==
  /\ Idle /\ f \in indexed
  /\ indexed' = indexed \ {f}
  /\ place' = [r \in Rows |-> IF r \in list THEN [place[r] EXCEPT ![f] = Out]
                           ELSE place[r]]
  /\ UNCHANGED <<hash, key, list, count, val, cmd, failed, fate>>

-----------------------------------------------------------------------------
Next ==
  \/ \E k \in Keys :
       \/ \E op \in {"set", "incr", "null"} : Find(op, k)
       \/ \E op \in {"set", "incr"} : Create(op, k)
       \/ Rename(k) \/ RenameNew(k) \/ Delete(k)
  \/ \E f \in Fields :
       \/ \E v \in Cells : SetField(f, v)
       \/ \E d \in Values : IncrField(f, d)
       \/ SetNull(f)
       \/ CreateIndex(f) \/ CreateIndexFails(f) \/ CreateIndexPanics(f) \/ DropIndex(f)
  \/ BadField \/ Finish \/ Reset

Spec == Init /\ [][Next]_vars

-----------------------------------------------------------------------------
(* What makes it correct.                                                  *)

\* The hash table and the list of all rows are the same rows: whatever was set,
\* renamed, refused or deleted, a row of the list is found under its key, two
\* rows never share one, and count is their number.
HashIsTable ==
  /\ \A r \in Rows : r \in list <=> key[r] # NoKey
  /\ \A k \in Keys, r \in Rows : hash[k] = r <=> key[r] = k
  /\ count = Cardinality(list)

\* What an index holds are rows of the table, under the values they have now:
\* the order a search relies on ("index hosed", jsw_dump_node).
IndexIsSound ==
  fate = "runs" => \A r \in Rows, f \in indexed :
    place[r][f] # Out => r \in list /\ place[r][f] = val[r][f]

\* A unique index has a value once, also after commands that failed half way.
UniqueIsUnique ==
  \A f \in indexed \cap Unique : \A q, r \in Rows :
    place[q][f] = place[r][f] /\ place[q][f] # Out => q = r

\* A search through an index finds the rows that a search through the whole
\* table finds, but for rows with which a command has failed.
IndexIsComplete ==
  Idle => \A f \in indexed : \A v \in Cells :
    {r \in list \ failed : val[r][f] = v} \subseteq {r \in Rows : place[r][f] = v}
=============================================================================
