-------------------------- MODULE TableIndexProofs --------------------------
(***************************************************************************)
(* The hash table, the list of rows and the indexes agree, for any rows,   *)
(* keys, fields and values, whatever commands fail.                        *)
(***************************************************************************)
EXTENDS TableIndex, FiniteSetTheorems, TLAPS

Running == Runs({"set", "incr", "null"})

\* A command runs on a row of the table.
RunsOnRow ==
  /\ cmd.op = "none" => cmd = NoCmd
  /\ Running => cmd.row \in list

\* A row that is not in the table has no link.
UnusedIsUnlinked == \A r \in Rows \ list : place[r] = Nowhere

\* A row that is in no index of a field is new or has failed.
MissingIsNew ==
  fate = "runs" => \A r \in list \ failed, f \in indexed :
    place[r][f] = Out => cmd.row = r /\ cmd.ctl = "new"

Table   == HashIsTable /\ IsFiniteSet(list)
Indexes == RunsOnRow /\ UnusedIsUnlinked /\ IndexIsSound /\ UniqueIsUnique /\ MissingIsNew

IInv == TypeOK /\ Table /\ Indexes

-----------------------------------------------------------------------------
(* The hash table and the list.                                            *)

LEMMA SameTable ==
  ASSUME Table, UNCHANGED <<hash, key, list, count>>
  PROVE  Table'
BY DEF Table, HashIsTable

LEMMA EmptyTable ==
  ASSUME hash = [k \in Keys |-> NoRow], key = [r \in Rows |-> NoKey],
         list = {}, count = 0
  PROVE  Table
<1>1. IsFiniteSet(list) /\ Cardinality(list) = 0
  BY FS_EmptySet
<1>2. \A r \in Rows : r \in list <=> key[r] # NoKey
  OBVIOUS
<1>3. \A k \in Keys, r \in Rows : hash[k] = r <=> key[r] = k
  BY NothingAssumption
<1> QED BY <1>1, <1>2, <1>3 DEF Table, HashIsTable

LEMMA ResetTable ==
  ASSUME Reset
  PROVE  Table'
<1>1. IsFiniteSet(list') /\ Cardinality(list') = 0
  BY FS_EmptySet DEF Reset
<1>2. \A r \in Rows : r \in list' <=> key'[r] # NoKey
  BY DEF Reset
<1>3. \A k \in Keys, r \in Rows : hash'[k] = r <=> key'[r] = k
  BY NothingAssumption DEF Reset
<1> QED BY <1>1, <1>2, <1>3 DEF Table, HashIsTable, Reset

LEMMA CreateTable ==
  ASSUME TypeOK, Table, NEW op, NEW k \in Keys, Create(op, k)
  PROVE  Table'
<1>1. PICK r \in Rows \ list :
        /\ hash' = [hash EXCEPT ![k] = r] /\ key' = [key EXCEPT ![r] = k]
        /\ list' = list \cup {r}
  BY DEF Create
<1>2. IsFiniteSet(list') /\ Cardinality(list') = Cardinality(list) + 1
  BY <1>1, FS_AddElement DEF Table
<1>3. count' = Cardinality(list')
  BY <1>2 DEF Create, Table, HashIsTable
<1>4. \A q \in Rows : q \in list' <=> key'[q] # NoKey
  BY <1>1, NothingAssumption DEF Table, HashIsTable, TypeOK
<1>5. \A j \in Keys, q \in Rows : hash'[j] = q <=> key'[q] = j
  BY <1>1, NothingAssumption DEF Table, HashIsTable, TypeOK, Create
<1> QED BY <1>2, <1>3, <1>4, <1>5 DEF Table, HashIsTable

LEMMA DeleteTable ==
  ASSUME TypeOK, Table, NEW k \in Keys, Delete(k)
  PROVE  Table'
<1> DEFINE r == hash[k]
<1>1. /\ r \in Rows
      /\ hash' = [hash EXCEPT ![k] = NoRow] /\ key' = [key EXCEPT ![r] = NoKey]
      /\ list' = list \ {r} /\ count' = count - 1
  BY DEF Delete, TypeOK
<1>2. key[r] = k /\ r \in list
  BY <1>1, NothingAssumption DEF Table, HashIsTable
<1>3. IsFiniteSet(list') /\ Cardinality(list') = Cardinality(list) - 1
  BY <1>1, <1>2, FS_RemoveElement DEF Table
<1>4. count' = Cardinality(list')
  BY <1>1, <1>3 DEF Table, HashIsTable
<1>5. \A q \in Rows : q \in list' <=> key'[q] # NoKey
  BY <1>1 DEF Table, HashIsTable, TypeOK
<1>6. \A j \in Keys, q \in Rows : hash'[j] = q <=> key'[q] = j
  BY <1>1, <1>2, NothingAssumption DEF Table, HashIsTable, TypeOK
<1> QED BY <1>3, <1>4, <1>5, <1>6 DEF Table, HashIsTable

LEMMA RenameTable ==
  ASSUME TypeOK, RunsOnRow, Table, NEW k \in Keys, Rename(k)
  PROVE  Table'
<1>1. CASE Taken(k)
  BY <1>1, SameTable DEF Rename
<1>2. CASE ~Taken(k)
  <2> DEFINE r == cmd.row
             old == key[r]
  <2>1. r \in list /\ hash[k] = NoRow /\ r \in Rows
    BY <1>2 DEF Rename, Taken, RunsOnRow, Running, Runs, TypeOK
  <2>2. old \in Keys /\ old # k /\ hash[old] = r
    BY <2>1 DEF TypeOK, Table, HashIsTable, Rename
  <2>3. hash' = [hash EXCEPT ![old] = NoRow, ![k] = r] /\ key' = [key EXCEPT ![r] = k]
    BY <1>2 DEF Rename
  <2>4. \A q \in Rows : q \in list <=> key'[q] # NoKey
    BY <2>1, <2>2, <2>3, NothingAssumption DEF Table, HashIsTable, TypeOK
  <2>5. \A j \in Keys, q \in Rows : hash'[j] = q <=> key'[q] = j
    BY <2>1, <2>2, <2>3, NothingAssumption DEF Table, HashIsTable, TypeOK
  <2> QED BY <2>4, <2>5 DEF Rename, Table, HashIsTable
<1> QED BY <1>1, <1>2

-----------------------------------------------------------------------------
(* The indexes.                                                            *)

\* What a command changes that leaves the rows and their indexes alone.
LEMMA SameIndexes ==
  ASSUME TypeOK, Indexes, UNCHANGED <<list, val, indexed, place>>,
         \/ fate = "runs" /\ UNCHANGED <<cmd, failed, fate>>
         \/ fate' # "runs" /\ cmd' = cmd
         \/ \E f \in Fields : Continue(f) /\ cmd.op # "none"
         \/ fate = "runs" /\ cmd.ctl = "normal" /\ Return
         \/ fate = "runs" /\ Fail
         \/ \E op \in {"set", "incr", "null"}, r \in list :
              /\ Idle /\ UNCHANGED <<failed, fate>>
              /\ cmd' = [op |-> op, row |-> r, ctl |-> "normal", named |-> {}]
  PROVE  Indexes'
<1>1. RunsOnRow'
  BY DEF TypeOK, Indexes, RunsOnRow, Running, Runs, Continue, Return, Fail, NoCmd, Idle
<1>2. UnusedIsUnlinked' /\ UniqueIsUnique'
  BY DEF Indexes, UnusedIsUnlinked, UniqueIsUnique
<1>3. fate' = "runs" => fate = "runs"
  BY DEF Continue, Return, Fail, Idle
<1>4. IndexIsSound'
  BY <1>3 DEF Indexes, IndexIsSound
<1>5. MissingIsNew'
  BY <1>3 DEF TypeOK, Indexes, MissingIsNew, Continue, Return, Fail, NoCmd, Idle
<1> QED BY <1>1, <1>2, <1>4, <1>5 DEF Indexes

LEMMA CreateIndexes ==
  ASSUME TypeOK, Indexes, NEW op \in {"set", "incr"}, NEW k \in Keys, Create(op, k)
  PROVE  Indexes'
<1>1. PICK r \in Rows \ list :
        /\ list' = list \cup {r} /\ val' = [val EXCEPT ![r] = Default]
        /\ place' = [place EXCEPT ![r] = Nowhere]
        /\ cmd' = [op |-> op, row |-> r, ctl |-> "new", named |-> {}]
  BY DEF Create
<1>2. place' = place
  BY <1>1 DEF Indexes, UnusedIsUnlinked, TypeOK
<1>3. RunsOnRow'
  BY <1>1 DEF RunsOnRow, Running, Runs
<1>4. UnusedIsUnlinked'
  BY <1>1, <1>2 DEF Indexes, UnusedIsUnlinked
<1>5. UniqueIsUnique'
  BY <1>2 DEF Indexes, UniqueIsUnique, Create
<1>6. IndexIsSound'
  <2> SUFFICES ASSUME fate' = "runs", NEW q \in Rows, NEW f \in indexed', place'[q][f] # Out
               PROVE  q \in list' /\ place'[q][f] = val'[q][f]
    BY DEF IndexIsSound
  <2>1. f \in Fields /\ indexed' = indexed /\ fate = "runs"
    BY DEF Create, TypeOK
  <2>2. q # r
    BY <1>1, <1>2, <2>1 DEF Indexes, UnusedIsUnlinked, Nowhere
  <2> QED BY <1>1, <1>2, <2>1, <2>2 DEF Indexes, IndexIsSound, TypeOK
<1>7. MissingIsNew'
  BY <1>1, <1>2 DEF Indexes, MissingIsNew, Create, Idle, NoCmd
<1> QED BY <1>3, <1>4, <1>5, <1>6, <1>7 DEF Indexes

LEMMA DeleteIndexes ==
  ASSUME TypeOK, Indexes, Table, NEW k \in Keys, Delete(k)
  PROVE  Indexes'
<1> DEFINE r == hash[k]
<1>1. /\ r \in Rows /\ list' = list \ {r}
      /\ place' = [place EXCEPT ![r] = Nowhere]
      /\ failed' = failed \ {r} /\ UNCHANGED <<val, indexed, cmd, fate>> /\ Idle
  BY DEF Delete, TypeOK, Leaves
<1>2. RunsOnRow'
  BY <1>1 DEF RunsOnRow, Running, Runs, Idle, NoCmd
<1>3. UnusedIsUnlinked'
  BY <1>1 DEF Indexes, UnusedIsUnlinked, TypeOK
<1>4. \A q \in Rows, f \in indexed : place'[q][f] # Out => q # r /\ place'[q][f] = place[q][f]
  BY <1>1 DEF Nowhere, TypeOK
<1>5. UniqueIsUnique'
  BY <1>1, <1>4 DEF Indexes, UniqueIsUnique, TypeOK
<1>6. IndexIsSound'
  BY <1>1, <1>4 DEF Indexes, IndexIsSound
<1>7. MissingIsNew'
  BY <1>1 DEF Indexes, MissingIsNew, TypeOK
<1> QED BY <1>2, <1>3, <1>5, <1>6, <1>7 DEF Indexes

LEMMA ResetIndexes ==
  ASSUME Indexes, list' = {}, indexed' = {}, place' = [r \in Rows |-> Nowhere],
         cmd' = NoCmd
  PROVE  Indexes'
BY DEF Indexes, RunsOnRow, UnusedIsUnlinked, IndexIsSound, UniqueIsUnique, MissingIsNew,
       Running, Runs, NoCmd

-----------------------------------------------------------------------------
(* The commands that set fields.                                           *)

\* One row gets one place: into the index where no other row has the value, or
\* out of it with the command having failed.
LEMMA PutIndexes ==
  ASSUME TypeOK, Indexes, Running, UNCHANGED <<list, indexed>>,
         NEW f \in Fields, NEW v \in Cells, Put(cmd.row, f, v)
  PROVE  Indexes'
<1> DEFINE r == cmd.row
<1>1. r \in list /\ r \in Rows /\ val' = [val EXCEPT ![r][f] = v] /\ fate = "runs"
  BY DEF TypeOK, Indexes, RunsOnRow, Put, Running, Runs
<1>2. cmd' = NoCmd \/ (cmd'.row = r /\ cmd'.op = cmd.op /\ cmd'.ctl = cmd.ctl)
  <2>1. cmd' = cmd \/ cmd' = NoCmd \/ cmd' = [cmd EXCEPT !.named = @ \cup {f}]
    BY DEF Put, Continue, Panic, Fail
  <2>2. LET c == [cmd EXCEPT !.named = @ \cup {f}]
        IN  c.row = cmd.row /\ c.op = cmd.op /\ c.ctl = cmd.ctl
    BY DEF TypeOK
  <2> QED BY <2>1, <2>2
<1>3. cmd.op # "none" /\ (cmd' # NoCmd => cmd'.op = cmd.op)
  BY <1>2 DEF Running, Runs
<1>4. RunsOnRow'
  BY <1>1, <1>2, <1>3 DEF RunsOnRow, Running, Runs, NoCmd
<1>5. ASSUME f \notin indexed, UNCHANGED place, Continue(f)
      PROVE  Indexes'
  <2>1. UnusedIsUnlinked' /\ UniqueIsUnique'
    BY <1>5 DEF Indexes, UnusedIsUnlinked, UniqueIsUnique
  <2>2. IndexIsSound'
    BY <1>1, <1>5 DEF Indexes, IndexIsSound, TypeOK, Continue
  <2>3. MissingIsNew'
    BY <1>5 DEF Indexes, MissingIsNew, Continue, TypeOK
  <2> QED BY <1>4, <2>1, <2>2, <2>3 DEF Indexes
<1>6. ASSUME UNCHANGED place, Panic
      PROVE  Indexes'
  <2>1. UnusedIsUnlinked' /\ UniqueIsUnique'
    BY <1>6 DEF Indexes, UnusedIsUnlinked, UniqueIsUnique
  <2>2. IndexIsSound' /\ MissingIsNew'
    BY <1>6 DEF IndexIsSound, MissingIsNew, Panic
  <2> QED BY <1>4, <2>1, <2>2 DEF Indexes
<1>7. ASSUME f \in indexed, Removed(r, f) = Out,
             place' = [place EXCEPT ![r][f] = Out], Fail
      PROVE  Indexes'
  <2>1. UnusedIsUnlinked'
    BY <1>1, <1>7 DEF Indexes, UnusedIsUnlinked, TypeOK
  <2>2. \A q \in Rows, g \in Fields : place'[q][g] # Out =>
          place'[q][g] = place[q][g] /\ <<q, g>> # <<r, f>>
    BY <1>1, <1>7 DEF TypeOK
  <2>3. UniqueIsUnique'
    BY <2>2 DEF Indexes, UniqueIsUnique, TypeOK
  <2>4. IndexIsSound'
    BY <1>1, <2>2 DEF Indexes, IndexIsSound, TypeOK
  <2>5. MissingIsNew'
    BY <1>1, <1>7 DEF Indexes, MissingIsNew, Fail, TypeOK
  <2> QED BY <1>4, <2>1, <2>3, <2>4, <2>5 DEF Indexes
<1>8. ASSUME f \in indexed, ~Clash(r, f, v),
             place' = [place EXCEPT ![r][f] = v], Continue(f)
      PROVE  Indexes'
  <2>1. UnusedIsUnlinked'
    BY <1>1, <1>8 DEF Indexes, UnusedIsUnlinked, TypeOK
  <2>2. UniqueIsUnique'
    BY <1>1, <1>8 DEF Indexes, UniqueIsUnique, Clash, TypeOK
  <2>3. IndexIsSound'
    BY <1>1, <1>8 DEF Indexes, IndexIsSound, TypeOK, Continue
  <2>4. v # Out
    BY NothingAssumption
  <2>5. MissingIsNew'
    BY <1>1, <1>8, <2>4 DEF Indexes, MissingIsNew, Continue, TypeOK
  <2> QED BY <1>4, <2>1, <2>2, <2>3, <2>5 DEF Indexes
<1> QED BY <1>5, <1>6, <1>7, <1>8 DEF Put

LEMMA FinishIndexes ==
  ASSUME TypeOK, Indexes, Finish
  PROVE  Indexes'
<1> DEFINE r == cmd.row
<1>1. r \in list /\ r \in Rows /\ fate = "runs" /\ fate' = "runs" /\ cmd' = NoCmd
  BY DEF TypeOK, Indexes, RunsOnRow, Finish, Running, Runs, InsertAll, Return, Fail
<1>2. CASE cmd.ctl # "new"
  <2>1. cmd.ctl = "normal"
    BY <1>2 DEF TypeOK
  <2> QED BY <1>1, <1>2, <2>1, SameIndexes DEF Finish
<1>3. CASE cmd.ctl = "new"
  <2> DEFINE missing == Missing(r)
             refused == {f \in missing : Clash(r, f, val[r][f])}
             done    == {f \in missing : \A g \in refused : f < g}
  <2>1. /\ place' = [place EXCEPT ![r] =
                      [f \in Fields |-> IF f \in done THEN val[r][f] ELSE place[r][f]]]
        /\ IF refused = {} THEN Return ELSE Fail
        /\ UNCHANGED <<list, val, indexed>>
    BY <1>3 DEF Finish, InsertAll
  <2>2. missing \subseteq indexed /\ missing \subseteq Fields
    BY DEF Missing, TypeOK
  <2>3. \A f \in done : ~Clash(r, f, val[r][f])
    <3>1. \A f \in missing : ~(f < f)
      BY <2>2, FieldsAssumption DEF Fields
    <3> HIDE DEF missing
    <3> QED BY <3>1
  <2>4. \A q \in Rows, f \in Fields :
          place'[q][f] = IF q = r /\ f \in done THEN val[r][f] ELSE place[q][f]
    BY <1>1, <2>1 DEF TypeOK
  <2>5. \A f \in Fields : val[r][f] # Out
    BY <1>1, NothingAssumption DEF TypeOK
  <2>6. RunsOnRow'
    BY <1>1 DEF RunsOnRow, Running, Runs, NoCmd
  <2>7. UnusedIsUnlinked'
    BY <1>1, <2>1 DEF Indexes, UnusedIsUnlinked, TypeOK
  <2>8. UniqueIsUnique'
    <3> SUFFICES ASSUME NEW f \in indexed \cap Unique, NEW p \in Rows, NEW q \in Rows,
                        place'[p][f] = place'[q][f], place'[p][f] # Out
                 PROVE  p = q
      BY <2>1 DEF UniqueIsUnique
    <3>1. f \in Fields
      BY DEF TypeOK
    <3>2. f \in done => \A w \in Rows \ {r} : place[w][f] # val[r][f]
      BY <2>3 DEF Clash
    <3> QED BY <3>1, <3>2, <2>4 DEF Indexes, UniqueIsUnique
  <2>9. IndexIsSound'
    BY <1>1, <2>1, <2>2, <2>4 DEF Indexes, IndexIsSound, TypeOK
  <2>10. MissingIsNew'
    <3>1. CASE refused = {}
      <4>1. done = missing
        BY <3>1
      <4>2. \A f \in indexed : f \in Fields /\ place'[r][f] # Out
        BY <1>1, <2>4, <2>5, <4>1 DEF Missing, TypeOK
      <4>3. \A q \in list \ failed, f \in indexed : place[q][f] = Out => q = r
        BY <1>1 DEF Indexes, MissingIsNew
      <4>4. failed' = failed
        BY <2>1, <3>1 DEF Return
      <4>5. \A q \in list \ failed, f \in indexed : place'[q][f] # Out
        BY <2>4, <4>2, <4>3 DEF TypeOK
      <4> QED BY <2>1, <4>4, <4>5 DEF MissingIsNew
    <3>2. CASE refused # {}
      <4>1. failed' = failed \cup {r}
        BY <2>1, <3>2 DEF Fail
      <4>2. \A q \in list \ failed', f \in indexed : f \in Fields /\ q # r /\ place'[q][f] = place[q][f]
        BY <2>4, <4>1 DEF TypeOK
      <4> QED BY <1>1, <2>1, <4>1, <4>2 DEF Indexes, MissingIsNew
    <3> QED BY <3>1, <3>2
  <2> QED BY <2>6, <2>7, <2>8, <2>9, <2>10 DEF Indexes
<1> QED BY <1>2, <1>3

-----------------------------------------------------------------------------
(* Creating and dropping indexes.                                          *)

LEMMA CreateIndexIndexes ==
  ASSUME TypeOK, Indexes, NEW f \in Fields, CreateIndex(f)
  PROVE  Indexes'
<1>1. /\ indexed' = indexed \cup {f} /\ UNCHANGED <<list, val, cmd, failed, fate>>
      /\ Idle /\ f \notin indexed /\ Distinct(list, f)
      /\ \A r \in Rows \ list : place[r][f] = Out
  BY DEF CreateIndex, Indexes, UnusedIsUnlinked, Nowhere
<1>2. \A r \in Rows, g \in Fields :
        place'[r][g] = IF r \in list /\ g = f THEN val[r][f] ELSE place[r][g]
  BY DEF CreateIndex, Enter, TypeOK
<1>3. \A r \in Rows \ list : place'[r] = place[r]
  BY DEF CreateIndex, Enter
<1>4. \A r \in list : val[r][f] # Out
  BY NothingAssumption DEF TypeOK
<1>5. RunsOnRow' /\ UnusedIsUnlinked'
  BY <1>1, <1>3 DEF Indexes, RunsOnRow, Running, Runs, UnusedIsUnlinked
<1>6. UniqueIsUnique'
  BY <1>1, <1>2 DEF Indexes, UniqueIsUnique, Distinct, TypeOK
<1>7. IndexIsSound'
  BY <1>1, <1>2 DEF Indexes, IndexIsSound, TypeOK
<1>8. MissingIsNew'
  BY <1>1, <1>2, <1>4 DEF Indexes, MissingIsNew, TypeOK
<1> QED BY <1>5, <1>6, <1>7, <1>8 DEF Indexes

LEMMA CreateIndexFailsIndexes ==
  ASSUME TypeOK, Indexes, NEW f \in Fields, CreateIndexFails(f)
  PROVE  Indexes'
<1>1. PICK some \in SUBSET list : Enter(some, f)
  BY DEF CreateIndexFails
<1>2. UNCHANGED <<list, val, indexed, cmd, failed, fate>> /\ f \notin indexed
  BY DEF CreateIndexFails
<1>3. \A r \in Rows, g \in indexed : place'[r][g] = place[r][g]
  BY <1>1, <1>2 DEF Enter, TypeOK
<1>4. \A r \in Rows \ list : place'[r] = place[r]
  BY <1>1 DEF Enter
<1> QED BY <1>2, <1>3, <1>4 DEF Indexes, RunsOnRow, Running, Runs, UnusedIsUnlinked, UniqueIsUnique,
                               IndexIsSound, MissingIsNew, TypeOK

LEMMA DropIndexIndexes ==
  ASSUME TypeOK, Indexes, NEW f \in Fields, DropIndex(f)
  PROVE  Indexes'
<1>1. UNCHANGED <<list, val, cmd, failed, fate>> /\ indexed' = indexed \ {f}
  BY DEF DropIndex
<1>2. \A r \in Rows, g \in indexed' : place'[r][g] = place[r][g]
  BY <1>1 DEF DropIndex, TypeOK
<1>3. \A r \in Rows \ list : place'[r] = place[r]
  BY DEF DropIndex
<1> QED BY <1>1, <1>2, <1>3 DEF Indexes, RunsOnRow, Running, Runs, UnusedIsUnlinked, UniqueIsUnique,
                               IndexIsSound, MissingIsNew, TypeOK

-----------------------------------------------------------------------------
(* Types.                                                                  *)

Commands == [op : {"none", "set", "incr", "null"}, row : Rows \cup {NoRow},
             ctl : {"normal", "new"}, named : SUBSET Fields]

Places == [Rows -> [Fields -> Cells \cup {Out}]]

LEMMA NoCmdType == NoCmd \in Commands
BY DEF NoCmd, Commands

LEMMA EndType ==
  ASSUME cmd \in Commands, failed \subseteq Rows, cmd.op # "none" => cmd.row \in Rows,
         fate \in {"runs", "panic", "damaged"},
         Return \/ Panic \/ (Fail /\ cmd.op # "none") \/ (\E f \in Fields : Continue(f))
  PROVE  cmd' \in Commands /\ failed' \subseteq Rows /\ fate' \in {"runs", "panic", "damaged"}
BY NoCmdType DEF Return, Panic, Fail, Continue, Commands

LEMMA PlaceType ==
  ASSUME place \in Places, NEW r \in Rows, NEW p \in [Fields -> Cells \cup {Out}]
  PROVE  [place EXCEPT ![r] = p] \in Places
BY DEF Places

LEMMA InitType == Init => TypeOK
BY NoCmdType, FieldsAssumption DEF Init, TypeOK, Nowhere, Commands

LEMMA BeginType ==
  ASSUME TypeOK, NEW op \in {"set", "incr", "null"}, NEW k \in Keys,
         Find(op, k) \/ (op # "null" /\ Create(op, k))
  PROVE  TypeOK'
<1>1. CASE Find(op, k)
  <2>1. hash[k] \in Rows
    BY <1>1 DEF Find, TypeOK
  <2> QED BY <1>1, <2>1 DEF Find, TypeOK
<1>2. CASE Create(op, k)
  <2>1. PICK r \in Rows \ list :
          /\ hash' = [hash EXCEPT ![k] = r] /\ key' = [key EXCEPT ![r] = k]
          /\ list' = list \cup {r} /\ val' = [val EXCEPT ![r] = Default]
          /\ place' = [place EXCEPT ![r] = Nowhere]
          /\ cmd' = [op |-> op, row |-> r, ctl |-> "new", named |-> {}]
    BY <1>2 DEF Create
  <2>2. cmd' \in Commands
    BY <2>1 DEF Commands
  <2>3. Default \in [Fields -> Cells] /\ Nowhere \in [Fields -> Cells \cup {Out}]
    BY FieldsAssumption DEF Nowhere
  <2>4. place' \in Places
    BY <2>1, <2>3, PlaceType DEF TypeOK, Places
  <2>5. val' \in [Rows -> [Fields -> Cells]] /\ \A q \in Rows, g \in NotNull : val'[q][g] # Null
    BY <2>1, <2>3, FieldsAssumption DEF TypeOK
  <2> QED BY <1>2, <2>1, <2>2, <2>3, <2>4, <2>5 DEF Create, TypeOK, Commands, Places
<1> QED BY <1>1, <1>2

\* The steps of a running command.
LEMMA RunsType ==
  ASSUME TypeOK, RunsOnRow, Running
  PROVE  cmd.row \in Rows /\ cmd.op # "none" /\ cmd \in Commands
BY DEF TypeOK, RunsOnRow, Running, Runs, Commands

LEMMA PutType ==
  ASSUME TypeOK, RunsOnRow, Running,
         UNCHANGED <<hash, key, list, count, indexed>>,
         NEW f \in Fields, NEW v \in Cells, Takes(f, v), Put(cmd.row, f, v) \/ Keep(f)
  PROVE  TypeOK'
<1> DEFINE r == cmd.row
<1>0. r \in Rows /\ cmd.op # "none" /\ cmd \in Commands
  BY RunsType
<1>1. val' \in [Rows -> [Fields -> Cells]] /\ \A q \in Rows, g \in NotNull : val'[q][g] # Null
  <2>1. val' = val \/ val' = [val EXCEPT ![r][f] = v]
    BY DEF Put, Keep
  <2>2. val \in [Rows -> [Fields -> Cells]] /\ r \in Rows
    BY <1>0 DEF TypeOK
  <2> HIDE DEF r
  <2>3. [val EXCEPT ![r][f] = v] \in [Rows -> [Fields -> Cells]]
    BY <2>2
  <2>4. \A q \in Rows, g \in NotNull : g \in Fields /\ val[q][g] # Null
    BY FieldsAssumption DEF TypeOK
  <2>5. \A q \in Rows, g \in NotNull : [val EXCEPT ![r][f] = v][q][g] # Null
    BY <2>2, <2>4 DEF Takes
  <2> QED BY <2>1, <2>2, <2>3, <2>4, <2>5
<1>2. place' \in Places
  <2>1. place' = place \/ (\E w \in Cells \cup {Out} : place' = [place EXCEPT ![r][f] = w])
    BY DEF Put, Keep
  <2>2. place \in [Rows -> [Fields -> Cells \cup {Out}]] /\ r \in Rows
    BY <1>0 DEF TypeOK
  <2> HIDE DEF r
  <2>3. \A w \in Cells \cup {Out} :
          [place EXCEPT ![r][f] = w] \in [Rows -> [Fields -> Cells \cup {Out}]]
    BY <2>2
  <2> QED BY <2>1, <2>2, <2>3 DEF Places
<1>3. Panic \/ Fail \/ Continue(f)
  BY DEF Put, Keep
<1>4. cmd' \in Commands /\ failed' \subseteq Rows /\ fate' \in {"runs", "panic", "damaged"}
  BY <1>0, <1>3, EndType DEF TypeOK
<1> QED BY <1>1, <1>2, <1>4 DEF TypeOK, Commands, Places

LEMMA FinishType ==
  ASSUME TypeOK, RunsOnRow, Finish
  PROVE  TypeOK'
<1>1. cmd.row \in Rows /\ cmd.op # "none" /\ cmd \in Commands
  BY RunsType DEF Finish, Running
<1>2. place' \in Places
  <2>1. CASE cmd.ctl # "new"
    BY <2>1 DEF Finish, TypeOK, Places
  <2>2. CASE cmd.ctl = "new"
    <3> DEFINE r == cmd.row
               refused == {f \in Missing(r) : Clash(r, f, val[r][f])}
               done == {f \in Missing(r) : \A g \in refused : f < g}
               p == [f \in Fields |-> IF f \in done THEN val[r][f] ELSE place[r][f]]
    <3>1. place' = [place EXCEPT ![r] = p]
      BY <2>2 DEF Finish, InsertAll
    <3>2. \A f \in Fields : val[r][f] \in Cells /\ place[r][f] \in Cells \cup {Out}
      BY <1>1 DEF TypeOK
    <3> HIDE DEF done
    <3>3. p \in [Fields -> Cells \cup {Out}]
      BY <3>2
    <3> QED BY <1>1, <3>1, <3>3, PlaceType DEF TypeOK, Places
  <2> QED BY <2>1, <2>2
<1>3. Return \/ Fail
  BY DEF Finish, InsertAll
<1>4. cmd' \in Commands /\ failed' \subseteq Rows /\ fate' \in {"runs", "panic", "damaged"}
  BY <1>1, <1>3, EndType DEF TypeOK
<1> QED BY <1>2, <1>4 DEF TypeOK, Commands, Places, Finish

LEMMA RenameType ==
  ASSUME TypeOK, RunsOnRow, NEW k \in Keys, Rename(k) \/ RenameNew(k) \/ BadField
  PROVE  TypeOK'
<1>1. cmd.row \in Rows /\ cmd.op # "none" /\ cmd \in Commands
  <2>1. Running
    BY DEF Rename, RenameNew, BadField, Running, Runs
  <2> QED BY <2>1, RunsType
<1>2. cmd' \in Commands /\ failed' \subseteq Rows /\ fate' \in {"runs", "panic", "damaged"}
  <2>1. Fail \/ UNCHANGED <<cmd, failed>>
    BY DEF Rename, RenameNew, BadField
  <2>2. Fail \/ fate' = "damaged" \/ fate' = fate
    BY DEF Rename, RenameNew, BadField
  <2> QED BY <1>1, <2>1, <2>2, EndType DEF TypeOK
<1>3. hash' \in [Keys -> Rows \cup {NoRow}] /\ key' \in [Rows -> Keys \cup {NoKey}]
  BY <1>1 DEF Rename, RenameNew, BadField, TypeOK
<1> QED BY <1>2, <1>3 DEF Rename, RenameNew, BadField, TypeOK, Commands

LEMMA DeleteType ==
  ASSUME TypeOK, NEW k \in Keys, Delete(k) \/ Reset
  PROVE  TypeOK'
<1>1. Nowhere \in [Fields -> Cells \cup {Out}]
  BY DEF Nowhere
<1>2. CASE Delete(k)
  <2>1. hash[k] \in Rows
    BY <1>2 DEF Delete, TypeOK
  <2>2. place' = [place EXCEPT ![hash[k]] = Nowhere]
    BY <1>2 DEF Delete, Leaves
  <2>3. place' \in Places
    BY <1>1, <2>1, <2>2, PlaceType DEF TypeOK, Places
  <2> QED BY <1>2, <2>1, <2>3 DEF Delete, TypeOK, Places
<1>3. CASE Reset
  BY <1>1, <1>3 DEF Reset, TypeOK
<1> QED BY <1>2, <1>3

LEMMA EnterType ==
  ASSUME TypeOK, NEW some \in SUBSET list, NEW f \in Fields, Enter(some, f)
  PROVE  place' \in Places
BY DEF TypeOK, Enter, Places

LEMMA IndexType ==
  ASSUME TypeOK, NEW f \in Fields,
         CreateIndex(f) \/ CreateIndexFails(f) \/ CreateIndexPanics(f) \/ DropIndex(f)
  PROVE  TypeOK'
<1>1. place' \in Places
  <2>1. CASE CreateIndex(f) \/ CreateIndexFails(f)
    BY <2>1, EnterType DEF CreateIndex, CreateIndexFails
  <2>2. CASE CreateIndexPanics(f)
    BY <2>2 DEF CreateIndexPanics, TypeOK, Places
  <2>3. CASE DropIndex(f)
    BY <2>3 DEF DropIndex, TypeOK, Places
  <2> QED BY <2>1, <2>2, <2>3
<1>2. indexed' \subseteq Fields
  BY DEF CreateIndex, CreateIndexFails, CreateIndexPanics, DropIndex, TypeOK
<1>3. UNCHANGED <<hash, key, list, count, val, cmd, failed>> /\ fate' \in {fate, "panic"}
  BY DEF CreateIndex, CreateIndexFails, CreateIndexPanics, DropIndex, Panic
<1> QED BY <1>1, <1>2, <1>3 DEF TypeOK, Places

-----------------------------------------------------------------------------
(* The invariant.                                                          *)

LEMMA InitInv == Init => IInv
<1> SUFFICES ASSUME Init PROVE IInv
  OBVIOUS
<1>1. Table
  BY EmptyTable DEF Init
<1>2. RunsOnRow
  BY DEF Init, RunsOnRow, Running, Runs, NoCmd
<1>3. UnusedIsUnlinked /\ IndexIsSound /\ UniqueIsUnique /\ MissingIsNew
  BY DEF Init, UnusedIsUnlinked, IndexIsSound, UniqueIsUnique, MissingIsNew
<1> QED BY <1>1, <1>2, <1>3, InitType DEF IInv, Indexes

\* A command that sets a field, or finds nothing to do.
LEMMA StepCell ==
  ASSUME IInv, Running,
         UNCHANGED <<hash, key, list, count, indexed>>,
         NEW f \in Fields, NEW v \in Cells, Takes(f, v), Put(cmd.row, f, v) \/ Keep(f)
  PROVE  IInv'
<1>1. TypeOK /\ RunsOnRow /\ Table /\ Indexes
  BY DEF IInv, Indexes
<1>2. TypeOK' /\ Table'
  BY <1>1, PutType, SameTable
<1>3. CASE Put(cmd.row, f, v)
  BY <1>1, <1>2, <1>3, PutIndexes DEF IInv
<1>4. CASE Keep(f)
  <2>1. cmd.op # "none"
    BY DEF Running, Runs
  <2> QED BY <1>1, <1>2, <1>4, <2>1, SameIndexes DEF IInv, Keep
<1> QED BY <1>3, <1>4

LEMMA StepCells ==
  ASSUME IInv, NEW f \in Fields,
         \/ \E v \in Cells : SetField(f, v)
         \/ \E d \in Values : IncrField(f, d)
         \/ SetNull(f)
  PROVE  IInv'
<1>1. UNCHANGED <<hash, key, list, count, indexed>> /\ Running
  BY DEF SetField, IncrField, SetNull, Running, Runs
<1>2. \E v \in Cells : Takes(f, v) /\ (Put(cmd.row, f, v) \/ Keep(f))
  <2>1. ASSUME NEW v \in Cells, SetField(f, v)
        PROVE  Takes(f, v) /\ (Put(cmd.row, f, v) \/ Keep(f))
    BY <2>1 DEF SetField
  <2>2. ASSUME NEW d \in Values, IncrField(f, d)
        PROVE  \E v \in Values : Takes(f, v) /\ Put(cmd.row, f, v)
    BY <2>2, NothingAssumption DEF IncrField, Takes
  <2>3. SetNull(f) => Takes(f, Null) /\ (Put(cmd.row, f, Null) \/ Keep(f))
    BY DEF SetNull
  <2> QED BY <2>1, <2>2, <2>3 DEF Cells
<1> QED BY <1>1, <1>2, StepCell

\* The other steps of commands.
LEMMA StepCommand ==
  ASSUME IInv, NEW k \in Keys,
         \/ \E op \in {"set", "incr", "null"} : Find(op, k)
         \/ \E op \in {"set", "incr"} : Create(op, k)
         \/ Rename(k) \/ RenameNew(k) \/ BadField \/ Finish
  PROVE  IInv'
<1>1. TypeOK /\ RunsOnRow /\ Table /\ Indexes
  BY DEF IInv, Indexes
<1>2. ASSUME NEW op \in {"set", "incr", "null"}, Find(op, k) PROVE IInv'
  <2>1. hash[k] \in list
    BY <1>1, <1>2, NothingAssumption DEF Find, TypeOK, Table, HashIsTable
  <2>2. Indexes'
    BY <1>1, <1>2, <2>1, SameIndexes DEF Find
  <2>3. Table'
    BY <1>1, <1>2, SameTable DEF Find
  <2> QED BY <1>1, <1>2, <2>2, <2>3, BeginType DEF IInv
<1>3. ASSUME NEW op \in {"set", "incr"}, Create(op, k) PROVE IInv'
  BY <1>1, <1>3, BeginType, CreateTable, CreateIndexes DEF IInv
<1>4. CASE Rename(k)
  <2>1. UNCHANGED <<list, val, indexed, place>> /\ cmd.ctl = "normal"
    BY <1>4 DEF Rename
  <2>2. Running /\ fate = "runs"
    BY <1>4 DEF Rename, Running, Runs
  <2>3. Fail \/ UNCHANGED <<cmd, failed, fate>>
    BY <1>4 DEF Rename
  <2>4. Indexes'
    BY <1>1, <2>1, <2>2, <2>3, SameIndexes
  <2> QED BY <1>1, <1>4, <2>4, RenameType, RenameTable DEF IInv
<1>5. CASE RenameNew(k)
  <2>1. UNCHANGED <<hash, key, list, count, val, indexed, place>> /\ fate = "runs"
    BY <1>5 DEF RenameNew, Running, Runs
  <2>2. Fail \/ (fate' # "runs" /\ cmd' = cmd)
    BY <1>5 DEF RenameNew
  <2>3. Indexes'
    BY <1>1, <2>1, <2>2, SameIndexes
  <2> QED BY <1>1, <1>5, <2>1, <2>3, RenameType, SameTable DEF IInv
<1>6. CASE BadField
  <2>1. UNCHANGED <<hash, key, list, count, val, indexed, place>> /\ fate = "runs" /\ Fail
    BY <1>6 DEF BadField, Running, Runs
  <2>2. Indexes'
    BY <1>1, <2>1, SameIndexes
  <2> QED BY <1>1, <1>6, <2>1, <2>2, RenameType, SameTable DEF IInv
<1>7. CASE Finish
  <2>1. Table'
    BY <1>1, <1>7, SameTable DEF Finish
  <2> QED BY <1>1, <1>7, <2>1, FinishType, FinishIndexes DEF IInv
<1> QED BY <1>2, <1>3, <1>4, <1>5, <1>6, <1>7

LEMMA StepIndex ==
  ASSUME IInv, NEW f \in Fields,
         CreateIndex(f) \/ CreateIndexFails(f) \/ CreateIndexPanics(f) \/ DropIndex(f)
  PROVE  IInv'
<1>1. TypeOK /\ Table /\ Indexes
  BY DEF IInv
<1>2. UNCHANGED <<hash, key, list, count>>
  BY DEF CreateIndex, CreateIndexFails, CreateIndexPanics, DropIndex
<1>3. TypeOK' /\ Table'
  BY <1>1, <1>2, IndexType, SameTable
<1>4. Indexes'
  <2>1. CASE CreateIndexPanics(f)
    <3>1. UNCHANGED <<list, val, indexed, place>> /\ fate' # "runs" /\ cmd' = cmd
      BY <2>1 DEF CreateIndexPanics, Panic
    <3> QED BY <1>1, <3>1, SameIndexes
  <2> QED BY <1>1, <2>1, CreateIndexIndexes, CreateIndexFailsIndexes, DropIndexIndexes
<1> QED BY <1>3, <1>4 DEF IInv

LEMMA StepInv == IInv /\ [Next]_vars => IInv'
<1> SUFFICES ASSUME IInv, [Next]_vars PROVE IInv'
  OBVIOUS
<1>1. CASE UNCHANGED vars
  BY <1>1 DEF vars, IInv, Table, Indexes, TypeOK, RunsOnRow, Running, Runs, UnusedIsUnlinked, HashIsTable,
              IndexIsSound, UniqueIsUnique, MissingIsNew
<1>2. ASSUME NEW k \in Keys, Delete(k) PROVE IInv'
  BY <1>2, DeleteType, DeleteTable, DeleteIndexes DEF IInv
<1>3. CASE Reset
  <2>1. Table'
    BY <1>3, ResetTable
  <2>2. Indexes'
    BY <1>3, ResetIndexes DEF IInv, Reset, Idle
  <2>3. TypeOK'
    <3>1. Nowhere \in [Fields -> Cells \cup {Out}]
      BY DEF Nowhere
    <3> QED BY <1>3, <3>1 DEF Reset, IInv, TypeOK
  <2> QED BY <2>1, <2>2, <2>3 DEF IInv
<1>4. CASE BadField \/ Finish
  <2>1. Keys # {}
    <3>1. cmd.row \in list
      BY <1>4 DEF BadField, Finish, Running, Runs, IInv, Indexes, RunsOnRow
    <3> QED BY <3>1 DEF IInv, Table, TypeOK, HashIsTable
  <2> QED BY <1>4, <2>1, StepCommand
<1>5. CASE Next
  BY <1>2, <1>3, <1>4, <1>5, StepCommand, StepCells, StepIndex DEF Next
<1> QED BY <1>1, <1>5

LEMMA AlwaysInv == Spec => []IInv
BY InitInv, StepInv, PTL DEF Spec

-----------------------------------------------------------------------------
\* The types of the state of a table.
THEOREM Types == Spec => []TypeOK
<1>1. IInv => TypeOK
  BY DEF IInv, Table, Indexes
<1> QED BY <1>1, AlwaysInv, PTL

\* The hash table and the list of rows hold the same rows, each under its own
\* key, and count is their number, whatever commands failed.
THEOREM TableIsOne == Spec => []HashIsTable
<1>1. IInv => HashIsTable
  BY DEF IInv, Table, Indexes
<1> QED BY <1>1, AlwaysInv, PTL

\* An index holds rows of the table only, under their present values: no
\* sequence of sets, failures, deletes and index commands leaves a stale entry.
THEOREM Sound == Spec => []IndexIsSound
<1>1. IInv => IndexIsSound
  BY DEF IInv, Table, Indexes
<1> QED BY <1>1, AlwaysInv, PTL

\* An index of a unique field never has two rows under one value.
THEOREM OnceEach == Spec => []UniqueIsUnique
<1>1. IInv => UniqueIsUnique
  BY DEF IInv, Table, Indexes
<1> QED BY <1>1, AlwaysInv, PTL

\* Between commands an index has every row, but for those a command has failed
\* with.
THEOREM Complete == Spec => []IndexIsComplete
<1>1. IInv => IndexIsComplete
  <2> SUFFICES ASSUME IInv, Idle, NEW f \in indexed, NEW v \in Cells,
                      NEW r \in list \ failed, val[r][f] = v
               PROVE  r \in Rows /\ place[r][f] = v
    BY DEF IndexIsComplete
  <2>1. fate = "runs" /\ cmd.ctl # "new"
    BY DEF Idle, NoCmd
  <2>2. r \in Rows /\ place[r][f] # Out
    BY <2>1 DEF IInv, Indexes, MissingIsNew, TypeOK
  <2> QED BY <2>1, <2>2 DEF IInv, Indexes, IndexIsSound
<1> QED BY <1>1, AlwaysInv, PTL
=============================================================================
