----------------------------- MODULE TableSearch -----------------------------
(***************************************************************************)
(* The search command of a table (ctable_SetupAndPerformSearch), and what  *)
(* the Tcl scripts it evaluates may do to the table in the middle of it.   *)
(*                                                                         *)
(* A search walks the list of all rows, the hash table or the index of a   *)
(* field.  A row that matches is put in the transaction table, or acted on *)
(* at once; when the walk is over the rest is done: sorting, the actions   *)
(* that were put off, the transaction, or the cursor.  The -code and       *)
(* -poll_code scripts run between two rows: they can search the same table *)
(* again, set and store rows, and open and use cursors.  ctable->searches  *)
(* is the stack of the searches that have not returned.                    *)
(*                                                                         *)
(* One process, so that a step is what happens between two scripts, row by *)
(* row.  A table with a key and one indexed field; a row stands for its    *)
(* key.  The memory of the skip list is in SharedIndex, the other commands *)
(* and their failures in TableIndex.                                       *)
(***************************************************************************)
EXTENDS Integers, Sequences, FiniteSets, SequencesExt

CONSTANTS
  Rows,      \* the rows, and their keys
  NoRow,     \* a null pointer to a row
  Values,    \* the values of the indexed field, by their rank
  Names,     \* the names of cursors
  Asks,      \* the options the search command is given
  Inner,     \* those that scripts give it
  Shares,    \* the kinds of table: "none", "reader"
  MaxDepth,  \* bound: searches within searches
  MaxTouched, \* bound: rows that commands name while a search runs
  Careful    \* do the scripts keep to the manual?  See Following

Finds   == {"all", "le", "eq", "ge", "in", "keys"}
End     == 0           \* skip->curl is NULL
Pointer == Values \cup {End}

\* What is asked: the component of -compare and its argument, -offset, -limit,
\* -sort, -buffer, what is done with a row (search->action), the transaction, the
\* value of -update, the name of -cursor and whether there is polling.
Ask == [find : Finds, arg : Seq(Values \cup Rows), offset : Nat, limit : Nat,
        sort : {"no", "up", "down"}, buffer : BOOLEAN,
        does : {"count", "pick", "code", "write", "cursor"},
        tran : {"none", "delete", "update", "cursor"},
        to : Values, name : Names, poll : BOOLEAN]

\* The combinations SetupSearch lets through and does not answer by itself.
Sensible(o) ==
  /\ o.sort # "no" => o.does \in {"code", "write"}
  /\ o.does = "cursor" <=> o.tran = "cursor"
  /\ o.does = "count" => o.tran = "none" /\ o.find # "all"
  /\ o.find = "all" => o.arg = <<>>
  /\ o.find \in {"le", "eq", "ge"} => Len(o.arg) = 1 /\ o.arg[1] \in Values
  /\ o.find = "in" => ToSet(o.arg) \subseteq Values
  /\ o.find = "keys" => ToSet(o.arg) \subseteq Rows
  /\ IsInjective(o.arg)  \* a list names nothing twice

ASSUME DataAssumption == Values \subseteq Nat \ {0} /\ NoRow \notin Rows
ASSUME AsksAssumption == Inner \subseteq Asks /\ Asks \subseteq Ask /\ \A o \in Asks : Sensible(o)
ASSUME ModeAssumption ==
  Shares \subseteq {"none", "reader"} /\ MaxDepth \in Nat /\ MaxTouched \in Nat
  /\ Careful \in BOOLEAN

VARIABLES
  share,      \* ctable->share_type
  list,       \* ctable->ll_head, the newest row first
  val,        \* the indexed field
  index,      \* its index: the rows of each node of the skip list
  at,         \* skip->curl, which all walks of the index share
  searches,   \* ctable->searches, the innermost last
  cursors,    \* ctable->cursors
  published,  \* does shm->self->cycle hold a cycle?  See SharedMem
  cursorLock  \* ctable->cursorLock

table == <<list, val, index>>
locks == <<published, cursorLock>>
vars  == <<share, table, at, searches, cursors, locks>>

\* CTableSearch and the local variables of ctable_PerformSearch, and as history the
\* table when the search began, the rows that were found and those acted on, the rows
\* that commands named since then, and whether a script has cut the search short.
Search ==
  [ask : Asks, walk : {"list", "hash", "index"}, sorts : BOOLEAN,
   mode : {"none", "provisional", "defer"}, phase : {"walk", "after"},
   stage : {"seek", "poll", "match", "act", "post", "next", "commit", "cursor", "done"},
   row : Rows \cup {NoRow}, left : Seq(Values \cup Rows), steps : Nat,
   matchCount : Nat, offsetLimit : Nat, tranTable : Seq(Rows), room : Nat, walkIndex : Nat,
   result : {"ok", "return", "error", "endless"},
   was : [rows : SUBSET Rows, val : [Rows -> Values]],
   found : Seq(Rows), acted : Seq(Rows), touched : SUBSET Rows, cut : BOOLEAN]

Cursor == [tranTable : Seq(Rows), offset : Nat, offsetLimit : Nat, tranIndex : Nat,
           locked : BOOLEAN]

TypeOK ==
  /\ share \in Shares
  /\ list \in Seq(Rows) /\ IsInjective(list)
  /\ val \in [Rows -> Values]
  /\ index \in [Values -> Seq(Rows)]
  /\ at \in Pointer
  /\ searches \in Seq(Search)
  /\ DOMAIN cursors \subseteq Names /\ \A n \in DOMAIN cursors : cursors[n] \in Cursor
  /\ published \in BOOLEAN /\ cursorLock \in BOOLEAN

-----------------------------------------------------------------------------
(* The table.                                                              *)

InTable(r) == Contains(list, r)

Nodes(ix) == {v \in DOMAIN ix : ix[v] # <<>>}

\* The first node of S, or the end of the skip list.
First(S) == IF S = {} THEN End ELSE CHOOSE v \in S : \A w \in S : v <= w

\* What follows r in the list s.
After(s, r) ==
  LET i == CHOOSE i \in 1 .. Len(s) : s[i] = r
  IN  IF Contains(s, r) /\ i < Len(s) THEN s[i + 1] ELSE NoRow

\* The elements of s that are in S, in their order.
Only(s, S) ==
  LET kept   == {i \in DOMAIN s : s[i] \in S}
      Nth(k) == CHOOSE i \in kept : Cardinality({j \in kept : j <= i}) = k
  IN  [k \in 1 .. Cardinality(kept) |-> s[Nth(k)]]

Without(ix, S) == [v \in DOMAIN ix |-> Only(ix[v], Rows \ S)]

\* The rows of s get the value v, one after the other: each leaves the list of its
\* node for the head of the other one.  The node that becomes empty is erased, and
\* that puts the walk of the index back to the start.
MoveTo(s, v) ==
  LET moved == Only(s, {r \in Rows : val[r] # v})
      gone  == Without(index, ToSet(moved))
  IN  /\ val' = [r \in Rows |-> IF r \in ToSet(moved) THEN v ELSE val[r]]
      /\ index' = [gone EXCEPT ![v] = Reverse(moved) \o @]
      /\ at' = IF Nodes(gone) = Nodes(index) THEN at ELSE First(Nodes(gone))

Satisfies(o, r, values) ==
  CASE o.find = "all"  -> TRUE
    [] o.find = "le"   -> values[r] <= o.arg[1]
    [] o.find = "eq"   -> values[r] = o.arg[1]
    [] o.find = "ge"   -> values[r] >= o.arg[1]
    [] o.find = "in"   -> Contains(o.arg, values[r])
    [] o.find = "keys" -> Contains(o.arg, r)

HasCursors == DOMAIN cursors # {}

-----------------------------------------------------------------------------
(* The searches that run.                                                  *)

Top    == searches[Len(searches)]
Now(f) == [searches EXCEPT ![Len(searches)] = f]

\* ctable_SearchAction and ctable_search_poll evaluate a script, or serve events.
InScript(f) == f.stage = "poll" \/ (f.stage = "act" /\ f.ask.does = "code")
Free        == searches # <<>> => InScript(Top)
AtStage(s)  == searches # <<>> /\ Top.stage = s

\* search->searchField of a search: it still walks the index.
Following == \E i \in DOMAIN searches : searches[i].walk = "index" /\ searches[i].phase = "walk"

\* "Modifying the index being followed from the code body of a search can have
\* undefined behavior" (manual, -buffer): the scripts do not, when they are Careful.
MayMove == Careful => ~Following

\* The rows S are named by a command.
Touch(ss, S) == [i \in DOMAIN ss |-> [ss[i] EXCEPT !.touched = @ \cup S]]

MayTouch(r) == searches # <<>> => Cardinality(searches[1].touched \cup {r}) <= MaxTouched

\* Mutant: whether another search walks the index is not looked at.
Walk_Shared(o) ==
  IF o.find = "all" THEN "list" ELSE IF o.find = "keys" THEN "hash" ELSE "index"

\* The way to the rows: by the key if the process has the hash table, by an index
\* that no other search walks, or else through all rows.
Walk(o) ==
  IF o.find = "keys" /\ share # "reader" THEN "hash"
  ELSE IF o.find \in {"le", "eq", "ge", "in"} /\ ~Following THEN "index"
  ELSE "list"

\* Mutant: an "in" list counts as being in order.
Sorts_In(o) == o.sort # "no" /\ Walk(o) # "index"

\* An index in order needs no sort on its field.
Sorts(o) == o.sort # "no" /\ ~(Walk(o) = "index" /\ o.find # "in")

\* ctable_PrepareTransactions
Mode(o) ==
  IF o.does = "count" THEN "none"
  ELSE IF o.does = "cursor" \/ Sorts(o) \/ share = "reader" \/ o.buffer THEN "defer"
  ELSE IF o.tran # "none" THEN "provisional" ELSE "none"

\* Mutant: the table is made for the rows that were asked for.
Room_Asked(o) == IF Mode(o) = "none" THEN 0 ELSE o.offset + o.limit

\* The rows the transaction table has room for.
Room(o) == IF Mode(o) = "none" THEN 0 ELSE Len(list)

\* The stage of a search that comes to a row.
Arrive(o) == IF o.poll THEN "poll" ELSE "match"

NewSearch(o) ==
  [ask |-> o, walk |-> Walk(o), sorts |-> Sorts(o), mode |-> Mode(o), phase |-> "walk",
   stage |-> IF Walk(o) = "list" THEN Arrive(o) ELSE "seek",
   row |-> IF Walk(o) = "list" THEN list[1] ELSE NoRow,
   left |-> IF o.find \in {"in", "keys"} THEN o.arg ELSE <<>>, steps |-> 0,
   matchCount |-> 0, offsetLimit |-> o.offset + o.limit, tranTable |-> <<>>,
   room |-> Room(o), walkIndex |-> 0, result |-> "ok",
   was |-> [rows |-> ToSet(list), val |-> val], found |-> <<>>, acted |-> <<>>,
   touched |-> {}, cut |-> FALSE]

-----------------------------------------------------------------------------
(* The search command.                                                     *)

Init ==
  /\ share \in Shares
  /\ list \in UNION {SetToSeqs(S) : S \in {T \in SUBSET Rows : IsFiniteSet(T)}}
  /\ val \in [Rows -> Values]
  /\ index = [v \in Values |-> Only(list, {r \in Rows : val[r] = v})]
  /\ at = End /\ searches = <<>>
  /\ cursors = <<>>
  /\ published = FALSE /\ cursorLock = FALSE

\* ctable_SetupSearch: what the state of the table rules out.
Refused(o) ==
  \/ o.tran = "delete" /\ (HasCursors \/ searches # <<>>)
  \/ o.tran \in {"delete", "update"} /\ share = "reader"
  \/ o.tran = "cursor" /\ o.name \in DOMAIN cursors

\* "It is not possible to delete rows from the speedtable while cursors are in use"
\* (manual): a script does not open one in the midst of a search that will delete.
Deleting == \E i \in DOMAIN searches : searches[i].ask.tran = "delete"
MayOpen(o)  == Careful /\ o.tran = "cursor" => ~Deleting
MayStart(o) == MayOpen(o) /\ (o.tran = "update" => MayMove)

EmptyCursor == [tranTable |-> <<>>, offset |-> 0, offsetLimit |-> 0, tranIndex |-> 0, locked |-> FALSE]

\* ctable_CreateCursor and CreateCursorCommand.  A command of the same name, that a
\* poll script made meanwhile, is replaced, and its cursor destroyed.
Open(n, c) ==
  /\ cursors' = [m \in DOMAIN cursors \cup {n} |-> IF m = n THEN c ELSE cursors[m]]
  /\ cursorLock' = (cursorLock \/ (n \in DOMAIN cursors /\ cursors[n].locked))

MayCall(o) ==
  /\ Free /\ Len(searches) < MaxDepth /\ ~Refused(o) /\ MayStart(o)
  /\ searches # <<>> => o \in Inner

\* The table is empty: ctable_PerformSearch returns at once.
StartOnNothing(o) ==
  /\ MayCall(o) /\ list = <<>>
  /\ published' = FALSE
  /\ IF o.tran = "cursor" THEN Open(o.name, EmptyCursor) ELSE UNCHANGED <<cursors, cursorLock>>
  /\ UNCHANGED <<share, table, at, searches>>

\* The read lock, the choice of the walk, and where it begins.
Start(o) ==
  /\ MayCall(o) /\ list # <<>>
  /\ published' = (share = "reader")
  /\ searches' = Append(searches, NewSearch(o))
  /\ at' = IF Walk(o) # "index" THEN at
           ELSE IF o.find \in {"le", "in"} THEN First(Nodes(index))
           ELSE First({v \in Nodes(index) : v >= o.arg[1]})
  /\ UNCHANGED <<share, table, cursors, cursorLock>>

-----------------------------------------------------------------------------
(* The walk.                                                               *)

Same == UNCHANGED <<share, table, cursors, locks>>

\* On from the row of f: to the next one in its list, or, from the last row of a
\* node, to the next node, unless the nodes to visit come from an "in" list.
GoOn(f) ==
  LET next == CASE f.walk = "list"  -> After(list, f.row)
                [] f.walk = "index" -> After(index[val[f.row]], f.row)
                [] f.walk = "hash"  -> NoRow
  IN  /\ searches' = Now([f EXCEPT !.row = next,
                           !.stage = IF next # NoRow THEN Arrive(f.ask)
                                     ELSE IF f.walk = "list" THEN "post" ELSE "seek"])
      /\ at' = IF next = NoRow /\ f.walk = "index" /\ f.ask.find # "in"
               THEN First({v \in Nodes(index) : v > at}) ELSE at

\* The walk is over, or broken off.
Over(f) == searches' = Now([f EXCEPT !.stage = "post"]) /\ UNCHANGED at

Fail(f, how) ==
  searches' = Now([f EXCEPT !.stage = "done", !.result = how]) /\ UNCHANGED at

ComeTo(f, r) == [f EXCEPT !.row = r, !.stage = Arrive(f.ask), !.steps = @ + 1]

\* The next key of a hash walk, which may be no row's.
SeekKey ==
  /\ AtStage("seek") /\ Top.walk = "hash"
  /\ LET f == Top
         g == [f EXCEPT !.left = Tail(@)]
     IN  IF f.left = <<>> THEN Over(f)
         ELSE /\ searches' = Now(IF InTable(Head(f.left)) THEN ComeTo(g, Head(f.left)) ELSE g)
              /\ UNCHANGED at
  /\ Same

\* The next node of a walk of the index.  myCount guards against loops.
Beyond(o, v) == o.find \in {"le", "eq"} /\ v > o.arg[1]

SeekNode ==
  /\ AtStage("seek") /\ Top.walk = "index"
  /\ LET f == Top
     IN  IF f.steps > Len(list) THEN Fail(f, "endless")
         ELSE IF f.ask.find = "in"
         THEN IF f.left = <<>> THEN Over(f)
              ELSE LET v == Head(f.left)
                       g == [f EXCEPT !.left = Tail(@)]
                   IN  /\ at' = First({w \in Nodes(index) : w >= v})
                       /\ searches' = Now(IF v \in Nodes(index) THEN ComeTo(g, Head(index[v])) ELSE g)
         ELSE IF at = End \/ Beyond(f.ask, at) THEN Over(f)
         ELSE searches' = Now(ComeTo(f, Head(index[at]))) /\ UNCHANGED at
  /\ Same

\* ctable_search_poll: the script returns, and an error in it is not the search's.
Polled ==
  /\ AtStage("poll")
  /\ searches' = Now([Top EXCEPT !.stage = IF Top.phase = "walk" THEN "match" ELSE "act"])
  /\ UNCHANGED at /\ Same

LimitMet(f) == f.ask.limit # 0 /\ f.matchCount >= f.offsetLimit

\* ctable_SearchCompareRow, up to the action.  The component the walk follows is not
\* compared again.
Match ==
  /\ AtStage("match")
  /\ LET f == Top
         g == [f EXCEPT !.matchCount = @ + 1, !.found = Append(@, f.row),
                        !.tranTable = IF f.mode = "none" THEN @ ELSE Append(@, f.row)]
     IN  IF f.walk = "list" /\ ~Satisfies(f.ask, f.row, val) THEN GoOn(f)
         ELSE IF f.mode = "defer" \/ g.matchCount <= f.ask.offset THEN GoOn(g)
         ELSE IF f.ask.does # "count"
         THEN searches' = Now([g EXCEPT !.stage = "act"]) /\ UNCHANGED at
         ELSE IF LimitMet(g) THEN Over(g) ELSE GoOn(g)
  /\ Same

\* How the action on a row can end: as its script does, or with a failed write.
Codes(o) == CASE o.does = "code"  -> {"ok", "break", "return", "error"}
              [] o.does = "write" -> {"ok", "error"}
              [] OTHER            -> {"ok"}

Acted(c) ==
  [Top EXCEPT !.acted = Append(@, Top.row), !.cut = @ \/ c \in {"break", "return"},
              !.result = IF c = "return" THEN c ELSE @]

\* ctable_SearchCompareRow after the action.
Act(c) ==
  /\ AtStage("act") /\ Top.phase = "walk" /\ c \in Codes(Top.ask)
  /\ LET f == Acted(c)
     IN  IF c = "error" THEN Fail(f, c)
         ELSE IF c # "ok" \/ LimitMet(f) THEN Over(f) ELSE GoOn(f)
  /\ Same

-----------------------------------------------------------------------------
(* After the walk: ctable_PostSearchCommonActions.                         *)

Ordered(o, r, q) == IF o.sort = "down" THEN val[r] >= val[q] ELSE val[r] <= val[q]

\* What ctable_qsort_r may make of s: it need not keep the order of equals.
SortsOf(o, s) ==
  {t \in [DOMAIN s -> ToSet(s)] :
     /\ \A i, j \in DOMAIN t : i <= j => Ordered(o, t[i], t[j])
     /\ \A r \in ToSet(s) : Cardinality({i \in DOMAIN t : t[i] = r}) = Cardinality({i \in DOMAIN s : s[i] = r})}

\* On to the next of the actions that were put off.
Defer(f) ==
  IF f.walkIndex < f.offsetLimit
  THEN [f EXCEPT !.row = f.tranTable[f.walkIndex + 1], !.stage = IF f.ask.poll THEN "poll" ELSE "act"]
  ELSE [f EXCEPT !.stage = "commit"]

LastOf(f) ==
  IF f.offsetLimit = 0 \/ f.offsetLimit > f.matchCount THEN f.matchCount ELSE f.offsetLimit

Short(f) == f.matchCount = 0 \/ f.ask.offset > f.matchCount

Post ==
  /\ AtStage("post")
  /\ LET o == Top.ask
         f == [Top EXCEPT !.phase = "after", !.row = NoRow]
         g == [f EXCEPT !.offsetLimit = LastOf(f), !.walkIndex = o.offset]
     IN  IF Short(f)
         THEN searches' = Now([f EXCEPT !.matchCount = 0, !.stage = "done"])
         ELSE IF f.mode = "none"
         THEN searches' = Now([f EXCEPT !.matchCount = @ - o.offset, !.stage = "done"])
         ELSE \E t \in IF f.sorts THEN SortsOf(o, f.tranTable) ELSE {f.tranTable} :
                LET h == [g EXCEPT !.tranTable = t]
                IN  searches' = Now(IF o.tran = "cursor" THEN [h EXCEPT !.stage = "cursor"]
                                    ELSE IF f.mode = "defer" THEN Defer(h)
                                    ELSE [h EXCEPT !.stage = "commit"])
  /\ UNCHANGED at /\ Same

\* An action that was put off.
ActLater(c) ==
  /\ AtStage("act") /\ Top.phase = "after" /\ c \in Codes(Top.ask)
  /\ LET f == [Acted(c) EXCEPT !.walkIndex = @ + 1]
     IN  IF c = "error" THEN Fail(f, c)
         ELSE /\ searches' = Now(IF c = "ok" THEN Defer(f)
                                 ELSE [f EXCEPT !.offsetLimit = f.walkIndex, !.stage = "commit"])
              /\ UNCHANGED at
  /\ Same

\* Mutant: the transaction takes the rows from the first one on.
Window_All(f) == SubSeq(f.tranTable, 1, f.offsetLimit)

Window(f) == SubSeq(f.tranTable, f.ask.offset + 1, f.offsetLimit)

Counted(f) == [f EXCEPT !.matchCount = f.offsetLimit - f.ask.offset, !.stage = "done"]

\* ctable_PerformTransaction: no script runs in it.
Commit ==
  /\ AtStage("commit") /\ Top.ask.tran = "none"
  /\ searches' = Now(Counted(Top))
  /\ UNCHANGED at /\ Same

CommitDelete ==
  /\ AtStage("commit") /\ Top.ask.tran = "delete"
  /\ LET gone == ToSet(Window(Top))
     IN  /\ list' = Only(list, Rows \ gone)
         /\ index' = Without(index, gone)
  /\ searches' = Now(Counted(Top))
  /\ at' = First(Nodes(index'))
  /\ UNCHANGED <<share, val, cursors, locks>>

CommitUpdate ==
  /\ AtStage("commit") /\ Top.ask.tran = "update"
  /\ MoveTo(Window(Top), Top.ask.to)
  /\ searches' = Touch(Now(Counted(Top)), ToSet(Window(Top)))
  /\ UNCHANGED <<share, list, cursors, locks>>

\* The value of -update is none for the field: the first set fails.
CommitFails ==
  /\ AtStage("commit") /\ Top.ask.tran = "update"
  /\ Fail([Top EXCEPT !.matchCount = Top.offsetLimit - Top.ask.offset], "error")
  /\ Same

-----------------------------------------------------------------------------
(* The search returns.                                                     *)

\* skip->curl means nothing once no search is left.
Leave ==
  /\ searches' = Front(searches)
  /\ at' = IF Len(searches) = 1 THEN End ELSE at

\* The read lock goes to the cursor.
ReturnCursor ==
  /\ AtStage("cursor")
  /\ LET f == Top
     IN  Open(f.ask.name, [tranTable |-> f.tranTable, offset |-> f.ask.offset,
                           offsetLimit |-> f.offsetLimit, tranIndex |-> f.ask.offset,
                           locked |-> share = "reader"])
  /\ Leave
  /\ UNCHANGED <<share, table, published>>

\* Mutant: the lock is given back only by a search that succeeds.
Unlock_OnSuccess(f) == IF f.result = "error" THEN published ELSE FALSE

\* read_unlock, for whatever search it is.
Unlock(f) == FALSE

Return ==
  /\ AtStage("done")
  /\ published' = Unlock(Top)
  /\ IF Top.ask.tran = "cursor" /\ Top.result = "ok"
     THEN Open(Top.ask.name, EmptyCursor) ELSE UNCHANGED <<cursors, cursorLock>>
  /\ Leave
  /\ UNCHANGED <<share, table>>

-----------------------------------------------------------------------------
(* The other commands, between searches and in their scripts.              *)

Alone == UNCHANGED <<share, cursors, locks>>

\* Mutant: the commands that cannot go with a cursor are not listed.
MayWrite_Always == Free /\ share # "reader"

\* cursor_safe_options and shared_options leave these commands out.
MayWrite == Free /\ share # "reader" /\ ~HasCursors

Store(r, v) ==
  /\ MayWrite /\ MayMove /\ ~InTable(r) /\ MayTouch(r)
  /\ list' = <<r>> \o list
  /\ val' = [val EXCEPT ![r] = v]
  /\ index' = [index EXCEPT ![v] = <<r>> \o @]
  /\ searches' = Touch(searches, {r})
  /\ UNCHANGED at /\ Alone

Set(r, v) ==
  /\ MayWrite /\ MayMove /\ InTable(r) /\ MayTouch(r) /\ val[r] # v
  /\ MoveTo(<<r>>, v)
  /\ searches' = Touch(searches, {r})
  /\ UNCHANGED list /\ Alone

\* Mutant: delete does not look at ctable->searches.
MayDelete_Inside == TRUE

MayDelete == searches = <<>>

Delete(r) ==
  /\ MayWrite /\ MayDelete /\ InTable(r)
  /\ list' = Only(list, Rows \ {r})
  /\ index' = Without(index, {r})
  /\ UNCHANGED <<val, at>> /\ UNCHANGED searches /\ Alone

\* Nothing keeps a script from a reset but its author.
Reset ==
  /\ MayWrite /\ (Careful => searches = <<>>) /\ list # <<>>
  /\ list' = <<>> /\ index' = [v \in Values |-> <<>>] /\ at' = End
  /\ UNCHANGED <<val, searches>> /\ Alone

\* index range: ctable_LappendIndexLowAndHi walks with the same skip->curl.
IndexRange ==
  /\ MayWrite /\ MayMove /\ searches # <<>> /\ Nodes(index) # {}
  /\ at' = CHOOSE v \in Nodes(index) : \A w \in Nodes(index) : w <= v
  /\ UNCHANGED <<table, searches>> /\ Alone

-----------------------------------------------------------------------------
(* Cursors.                                                                *)

CursorIs(n) == Free /\ n \in DOMAIN cursors

CursorNext(n) ==
  /\ CursorIs(n) /\ cursors[n].tranIndex < cursors[n].offsetLimit
  /\ cursors' = [cursors EXCEPT ![n].tranIndex = @ + 1]
  /\ UNCHANGED <<share, table, at, searches, locks>>

CursorReset(n) ==
  /\ CursorIs(n)
  /\ cursors' = [cursors EXCEPT ![n].tranIndex = cursors[n].offset]
  /\ UNCHANGED <<share, table, at, searches, locks>>

CursorSet(n, v) ==
  /\ CursorIs(n) /\ share # "reader" /\ MayMove
  /\ cursors[n].tranIndex < cursors[n].offsetLimit
  /\ LET r == cursors[n].tranTable[cursors[n].tranIndex + 1]
     IN  MayTouch(r) /\ val[r] # v /\ MoveTo(<<r>>, v) /\ searches' = Touch(searches, {r})
  /\ UNCHANGED list /\ Alone

LastCursor(n) == DOMAIN cursors = {n}

\* ctable_DestroyCursor: the last one takes the read lock with it, if any had it.
Destroy(n) ==
  /\ CursorIs(n)
  /\ cursors' = Restrict(cursors, DOMAIN cursors \ {n})
  /\ LET lock == cursorLock \/ cursors[n].locked
     IN  /\ cursorLock' = (lock /\ ~LastCursor(n))
         /\ published' = (published /\ ~(lock /\ LastCursor(n)))
  /\ UNCHANGED <<share, table, at, searches>>

\* "cursors -destroy"
DestroyAll ==
  /\ Free /\ HasCursors
  /\ cursors' = <<>>
  /\ cursorLock' = FALSE
  /\ published' = (published /\ ~cursorLock /\ \A n \in DOMAIN cursors : ~cursors[n].locked)
  /\ UNCHANGED <<share, table, at, searches>>

-----------------------------------------------------------------------------
Searching ==
  \/ \E o \in Asks : StartOnNothing(o) \/ Start(o)
  \/ SeekKey \/ SeekNode \/ Polled \/ Match \/ Post
  \/ \E c \in {"ok", "break", "return", "error"} : Act(c) \/ ActLater(c)
  \/ Commit \/ CommitDelete \/ CommitUpdate \/ CommitFails
  \/ ReturnCursor \/ Return

Commands ==
  \/ \E r \in Rows : Delete(r) \/ \E v \in Values : Store(r, v) \/ Set(r, v)
  \/ Reset \/ IndexRange

WithCursors ==
  \/ \E n \in Names :
       \/ CursorNext(n) \/ CursorReset(n) \/ Destroy(n)
       \/ \E v \in Values : CursorSet(n, v)
  \/ DestroyAll

Next == Searching \/ Commands \/ WithCursors

Spec == Init /\ [][Next]_vars

-----------------------------------------------------------------------------
(* What makes it correct.                                                  *)

Pointers(f) ==
  (IF f.stage \in {"poll", "match", "act"} THEN {f.row} ELSE {})
    \cup (IF f.stage = "done" THEN {} ELSE ToSet(f.tranTable))

\* No search goes on, and no cursor is left, with a pointer to a row that was deleted
\* while a script ran: delete and "-delete" look for searches and cursors first,
\* and a cursor keeps the commands that free rows out.
RowsAreLive ==
  /\ \A i \in DOMAIN searches : Pointers(searches[i]) \subseteq ToSet(list)
  /\ \A n \in DOMAIN cursors : ToSet(cursors[n].tranTable) \subseteq ToSet(list)

\* "It is not possible to delete rows from the speedtable while cursors are in use"
\* (manual), nor while a search runs, but for what a search with -delete does at its
\* end, when it is the only one: otherwise the list only grows, at its head.
RowsStay ==
  [][\/ list' = list \/ \E r \in Rows : list' = <<r>> \o list
     \/ ~HasCursors /\ (searches = <<>> \/ (Len(searches) = 1 /\ Top.stage = "commit"))]_vars

\* The transaction table, made for as many rows as the table had when the search
\* began, has room for all that match, however the scripts change the table, but for
\* the rows they store while the keys of a list are looked up.
TableFits ==
  TypeOK /\ \A i \in DOMAIN searches :
    LET f   == searches[i]
        new == IF f.walk = "hash" THEN f.touched \ f.was.rows ELSE {}
    IN  Len(f.tranTable) <= f.room + Cardinality(new)

\* What a search has to find: the rows that matched when it began.
Due(f)  == {r \in f.was.rows : Satisfies(f.ask, r, f.was.val)}
Done(f) == f.stage \in {"done", "cursor"} /\ f.result # "error"

\* A buffered search with an offset and no limit: see OffsetIsBypassed.
OffsetLost(f) == f.mode # "none" /\ f.ask.offset > 0 /\ f.ask.limit = 0

\* How many of n rows the offset and the limit leave.
Clip(o, n) ==
  LET rest == IF o.offset > n THEN 0 ELSE n - o.offset
  IN  IF o.limit > 0 /\ o.limit < rest THEN o.limit ELSE rest

\* A search that ends, whichever way it took to the rows, and whatever the searches
\* in its scripts did with the same index, has acted on no row twice and on none that
\* neither matched when it began nor was set since, and if no script cut it short:
\* on each row that matched and was left alone; and, if none was touched, on as many
\* as the offset and the limit say, which is also what it returns.
SearchAgrees ==
  \A i \in DOMAIN searches :
    LET f == searches[i]
        o == f.ask
    IN  Done(f) =>
      /\ f.result # "endless"
      /\ IsInjective(f.acted)
      /\ ToSet(f.acted) \subseteq Due(f) \cup f.touched
      /\ o.offset = 0 /\ o.limit = 0 /\ ~f.cut /\ o.does \notin {"count", "cursor"} =>
           Due(f) \ f.touched \subseteq ToSet(f.acted)
      /\ o.does # "cursor" /\ f.touched = {} /\ ~f.cut /\ ~OffsetLost(f) =>
           f.matchCount = Clip(o, Cardinality(Due(f)))
      /\ o.does \notin {"count", "cursor"} /\ ~OffsetLost(f) => f.matchCount = Len(f.acted)

\* A sorted search acts on the rows of the window that the offset and the limit cut
\* out of the sorted matches, in that order, also when the walk of the index is
\* trusted to be in order and nothing is sorted.  Not "down", where it is not.
SortIsKept ==
  \A i \in DOMAIN searches :
    LET f == searches[i]
        o == f.ask
        Before(r, q) == Ordered(o, r, q) /\ ~Ordered(o, q, r)
    IN  o.sort # "no" /\ (o.sort = "down" => f.sorts) /\ f.touched = {} =>
      \A k \in DOMAIN f.acted :
        LET r == f.acted[k]
        IN  /\ Cardinality({q \in Due(f) : Before(q, r)}) < o.offset + k
            /\ o.offset + k <= Cardinality({q \in Due(f) : Ordered(o, q, r)})

\* "Delete the matched records, safely": a search with -delete that succeeds has
\* deleted the rows it acted on and no other; one that fails has deleted none; and
\* the rows -update set, it acted on.
TransactionFollows ==
  \A i \in DOMAIN searches :
    LET f    == searches[i]
        gone == (f.was.rows \cup f.touched) \ ToSet(list)
    IN  f.stage = "done" /\ ~OffsetLost(f) =>
      /\ f.ask.tran = "delete" =>
           gone = IF f.result = "error" THEN {} ELSE ToSet(f.acted)
      /\ f.ask.tran = "update" /\ f.result # "error" =>
           \A r \in Rows : r \in ToSet(f.acted) => val[r] = f.ask.to

\* Without searches and cursors nothing is locked: no way out of a search and no order
\* of creating and destroying cursors leaves the read lock behind.
LockIsReturned ==
  searches = <<>> /\ ~HasCursors => ~published /\ ~cursorLock

\* "if offset is 100, the first 100 matching records are bypassed before the search
\* action begins to be taken on matching rows" (manual, -offset).
OffsetIsBypassed ==
  \A i \in DOMAIN searches :
    LET f == searches[i]
    IN  Done(f) /\ f.ask.does # "cursor" /\ f.touched = {} /\ ~f.cut =>
      f.matchCount = Clip(f.ask, Cardinality(Due(f)))
=============================================================================
