# Speedtables: a TLA+ verification development

Speedtables is a Tcl extension generator and runtime for in-memory tables. A table
definition is compiled to C (`src/ctables/gentable.tcl` with the `*.c-subst` templates);
the table keeps its rows in a hash table and in skip lists, can be placed in a
shared-memory segment written by one *master* process and searched by many *reader*
processes, can be served over a socket (`src/ctable_server`), and is wrapped by STAPI
(`src/stapi`), which also keeps tables cached from SQL in tab-separated files.

This directory holds TLA+ models of the parts where testing is weakest, the TLC
configurations that check them, and theorems about them that TLAPS proves.
`PROJECT.json` is the index: components, runs, mutants, the map of every definition to
the lines it models, hazards, findings, theorems.

## 1. Inventory

| Component | Source | State | Operations | Where it is hard | Status |
|---|---|---|---|---|---|
| Shared memory | `ctables/shared/shared.[ch]` | `map->cycle`, reader slots, garbage queue, horizon, strike counter | `write_lock`/`write_unlock`, `read_lock`/`read_unlock`, `pid2reader`, `oldest_reader_cycle`, `garbage_collect`, `shmfree`, `unmap_file` | no lock at all between writer and readers; dead readers; store buffers; wrapping counters | modelled (locks, slots, queue); pools and allocator are not |
| Skip lists | `ctables/skiplists/jsw_slib.c` | nodes with a link per level, the row list of each key | `sinsert`, `sinsert_linked`, `serase`, `sfind*`, `snext`, `sreset` | links are written one by one while readers follow them | modelled for searches and indexes, creation and deletion are not |
| Row lists | `ctables/ctable_lists.c`, `ctable.h` | doubly linked lists with a back pointer to the previous link | `ctable_ListInsertHead`, `ctable_ListRemove`, the `FOREACH` macros | a removed row keeps its forward pointer, on purpose | modelled in `SharedIndex`; the pointers of removed rows also in `SharedMem` (`links`) |
| Search engine | `ctables/ctable_search.c` | search, walk type, transaction table, offset and limit | `ctable_SetupSearch`, `ctable_PerformSearch`, `ctable_PerformTransaction`, index create/drop/insert/remove | restart when the table changes under the walk; deferred transactions | modelled: index maintenance in `TableIndex`, the walk of a reader in `SharedIndex`, nested searches and their transactions in `TableSearch`; not the compilation of filters |
| Cursors | `ctables/ctable_search.c`, `command-body.c-subst` | open cursors of a table, their position, `cursorLock` | `search -cursor`, `reset`, `next`, `set`, `destroy` | a cursor holds rows while other commands run | in `TableSearch` |
| Table commands | `command-body.c-subst`, `template.c-subst`, `exten-frag.c-subst`, `init-exten.c-subst` | rows, hash table, indexes, null bits | `set`, `store`, `incr`, `delete`, `reset`, `read_tabsep`, `attach`, ... | a unique index refuses a value half way through a change | the commands that change rows are in `TableIndex`, the write bracketing in `SharedMem` |
| Code generator | `gentable.tcl` | one C struct and one set of functions per table | field setters, `delete_row`, null handling, `begin_write`/`end_write` | errors leave before `end_write` | as above; conversions and comparisons are not |
| Hash table | `hash/speedtableHash.c` | buckets, entry count, rebuild threshold | find, create, delete, rebuild, first/next | a rebuild during a walk | modelled in `HashTable` |
| Quoting and I/O | `ctable_io.c` | none | quote, dequote, tab-separated read and write | quoting must be inverted by dequoting | not modelled: strings in, strings out |
| Batch | `ctable_batch.c` | none of its own | runs a list of commands, collects errors | one command of many fails | not modelled: a loop that keeps nothing |
| Pure algorithms | `boyer_moore.c`, `ctable_qsort.c`, `ethers.c` | none | string search, sort, address parsing | `ctable_qsort.c` is the vendored Berkeley sort | not modelled; of the sort, `TableSearch` has that the result is ordered |
| Table server | `ctable_server/ctable_server.tcl` | clients, redirects, registered tables, shutdown flag | accept, dispatch, redirect, shutdown | a client disappears between request and reply | connections, redirects and shutdown of one table in `RemoteTable` |
| Table client | `ctable_server/ctable_client.tcl`, `ctable_client_server.tcl`, `sttp_buffer.tcl` | socket per server, redirect map | `remote_ctable_send` with reconnect, retry and redirect | a retry of a command that was already done | `remote_ctable_send` in `RemoteTable` |
| Lock files | `stapi/server/lock.tcl` | the lock file, its guard file, a nesting level per process | `lockfile`, `unlockfile`, `break_lock` | the owner dies at any point, stale locks, two deleters | modelled |
| Cached tables | `stapi/server/server.tcl` | tsv, sql and log files, `last_read` | `init_ctable`, `open_cached`, `refresh_ctable`, `save_ctable`, `remove_tcl_file` | crash between two files; concurrent refresh | not modelled: clocks, file times and the database; its locking is `LockFile` |
| STAPI clients | `stapi/client/*.tcl` | open handles, reference counts | `connect`, `makeunknown`, shared-memory attach | searches translated to SQL or CQL | not modelled: formatting and dispatch |
| STAPI display | `stapi/display/display.tcl` | one web request | HTML tables | sequential formatting | not modelled: no state between requests |
| SQL access and copy | `stapi/{pgsql,postgres,copy,debug}.tcl` | a database connection | queries, `COPY` | the database's own | not modelled: pure I/O |
| Shared memory dumper | `shared/dumper.c`, `stubs.c`, `testmaster.c` | none | prints a map, test drivers | - | not modelled: diagnostics |

Build files, `tclconfig`, `boost.m4`, demos, big tests and generated code are left out.
`jsw_rand.c` is a random generator: where it matters it is a nondeterministic choice.

**How they interact.** A table command runs `begin_write` (hence `write_lock`) when it
may change a shared table; every block it unlinks is handed to `shmfree`, which queues
it; `end_write` unlocks and, once in `LAZY_GC` commands, scans the reader slots and
frees. A reader's search calls `read_lock`, follows pointers through hash table, lists
and skip lists with no further synchronisation, and calls `read_unlock`. The client and
the server talk over a socket with one request and one response at a time. STAPI's
`open_cached` takes the lock file around every change of the tsv file, which several
processes share.

**What makes them correct.** The shared memory: a block is not reused while a search
that could reach it runs, and is in the end reused. Lists and indexes: a reader's walk
ends and sees every row that stays; all indexes hold the same rows as the hash table.
Searches: whatever way leads to the rows, the same rows are found, the rows changed are
the rows found, no row goes while a search or a cursor points to it. The hash table: a
map, across rebuilds. Client and server: the answer a call returns is its own, what is
answered has been done (once, unless it had to be sent again), a table that has moved is
found, all calls return. Lock files: one holder, a lock file that belongs to it, no
stale lock for ever. Cached tables: what is loaded is what was saved, and nothing
modified after `last_read` is missed. Quoting: dequoting inverts it.

## 2. The modules

| Module | Models | Abstract specification or theorem |
|---|---|---|
| `SharedMem` | locks, slots, garbage queue | implements `GracePeriod`; that and its invariants proved |
| `LockFile` | `lockfile`/`unlockfile` | implements `LockService`; all its safety proved |
| `TableIndex` | rows, hash table, indexes with `set`, `store`, `incr`, `null`, `delete`, `reset`, `index` | hash, list and indexes are one table; all of it proved |
| `SharedIndex` | index updates store by store against a walking reader with its restart | a walk only sees rows of the table, could find every row at any store, and ends; a quiet search is exact, and a search fails only for a reason (all proved) |
| `TableSearch` | the search command with its scripts, transactions and cursors | rows stay while they are pointed to, the transaction table fits, the read lock comes back, and what is acted on is what was asked, in order (all proved) |
| `HashTable` | the chains, the rebuild and the walk of `speedtableHash.c` | implements `KeyMap`; that, its chains and its walk proved |
| `RemoteTable` | `remote_ctable_send` and `ctable_server.tcl` over connections that break | answers belong to their calls, what is answered is done and moved tables are found (proved); all calls return |

They meet at named places. `SharedMem` has blocks, and shows that a block a search may
reach is not used again: that is what `SharedIndex` assumes of rows and nodes.
`SharedIndex` shows what a reader of one index sees while it is changed; `TableSearch`
takes an index as whole and has what a search makes of it. `TableIndex` takes the hash
table for a function, which is what `KeyMap`, and hence `HashTable`, is. A module takes
its sizes as constants with named assumptions, has one action per operation or step, and
an MC module beside it gives the constants of the runs. `Induction` has what the proofs
about chains need of the natural numbers: the library's induction takes a formula as a
parameter, which no prover here can instantiate, so it is stated for sets (a set of
numbers has a least one, one of measured elements a least element) and, for recursive
functions, as the existence of the iterates of a function.

## 3. Shared memory: `SharedMem`, `GracePeriod`, `SharedMemProofs`

### Correspondence

`mapVars` are in the segment: `cycle` (`map->cycle`), `slotPid` and `slotCycle`
(`map->readers[i].pid`, `.cycle`). `masterVars` live in the master: `garbage`,
`horizon`, `strike` (`garbage_strike`), `wasLocked` and `scan`, the place of
`oldest_reader_cycle` in its loop with its two local results. `readerVars` are the
readers': `self` (the cached slot), `rpc` (where it is in `read_lock`), `loaded`,
`depth`, `held` (the blocks it has pointers to), `leaving` (between the two stores of
`unmap_file`). `where` says for each block whether it is free, linked in the table or
garbage; `links` where the stale pointers of a retired block lead; `entered` and `owed`
are history: the cycle in which a reader's lock was stored and, for every retired block,
the readers in a search begun before.

* `WriteLock`, `Retire`, `WriteUnlock` and `FailCommand` are the master's commands. A
  command that returns an error skips `end_write` (`command-body.c-subst:2158`), so
  `wasLocked` stays set and the next `begin_write` does not lock again. `Retire` does
  not ask for the write lock: a `search -delete` retires rows and counts as read-only.
* `ScanEmpty`, `ScanDead` and `ScanReader` look at one slot: an empty one is skipped,
  the slot of a dead process (`kill(pid, 0)`) is taken back, a reader's cycle is
  compared with the oldest so far. `Collect` is the rest of `write_unlock` and
  `garbage_collect`, with `IntDiff`, the difference of two 64-bit cells cut to an `int`.
* `Attach` is the master's `attach` command, which gives a reader a slot; it runs within
  `begin_write`, so no reader ever loads cycle 0. `OtherWriteUnlock` is a command on
  another share of the same process.
* `ReadLockLoad`, `ReadLockStore` and `Drain` split the one C statement `self->cycle =
  map->cycle`: the load, the store and the moment the master can see it, since the code
  has no fence. The reader follows pointers after the store, before the drain too.
* `ReadUnlock`, `Follow`, `DetachPid` and `DetachCycle` (`unmap_file`), `Die` and
  `Reuse` (a new process gets the pid of a dead one) are the rest of a reader's life.

`GracePeriod` is what the heap promises: a block is linked, retired and freed, and is
freed only when every reader that was in a search as it was retired has left that
search. `SharedMem` implements it.

### Runs

| Run | Question | Result |
|---|---|---|
| `shm_core` | Two readers lock, walk, unlock, die against a scan of two slots, in every order: is anything freed too early, any slot stolen? Is `GracePeriod` implemented? | holds |
| `shm_chain` | One reader, two blocks whose stale pointers chain, a scan in every second command, detach, pid reuse, a second share: is the queue exactly the garbage, in order? Do only the dead lose a slot? | holds |
| `shm_live` | The counter wraps for ever and a second reader never attaches: do the truncated differences and the skipped 0 still protect, and is every retired block in the end freed? | holds, while locks are shorter than half an `int` |
| `shm_nested` | Protection of a reader that searches within a search | violated: `read_unlock` does not nest |

The violation is a finding in `PROJECT.json`. Three more failures show by a change of a
constant, and contradict no document. With `r1` in `Detaching` under `shm_core`,
`KeepsGracePeriod` fails: `unmap_file` (`shared.c:239`) clears the pid of its slot
before the cycle, so the second store can erase the cycle of the reader that got the
slot in between. With `Signalable = {}`, `OnlyDeadLoseSlots` fails: `kill` answers -1
with `EPERM` too, and `oldest_reader_cycle` takes the slot of a running reader. With
`OtherShares = TRUE` under `shm_live`, `GarbageIsCollected` fails: the one static
`garbage_strike` (`shared.c:364`) serves all shares of the process, and commands that
alternate between two shares can use up its strikes on one of them, so that the other is
never scanned.

### Bounds

`NSlots`, `Readers` and `Blocks` are 1 or 2: every interaction in the code is between
the master and one slot, between two readers over one slot, or between two entries of
the queue. `TwilightZone = 1` and `LazyGC` 1 or 2 keep the constants' effect (a strike
counter that skips, a margin that matters) at the least size. `CellMod` and `IntHalf`
(2^64 and 2^31 in the code) are 8/4 or 16/8: the run goes beyond what an `int` holds,
and `Wraps = FALSE` stops at the last cell instead of wrapping. `MaxSpan` bounds how
many cycles a read lock may last (otherwise no truncated difference could be right),
`MaxDelay` how many cycles a store may stay in a store buffer, `MaxBacklog` how many
commands in a row may fail; with `IntHalf = 8` it keeps the horizon's lag within an
`int`, and with less room the truncated lag turns negative and nothing is collected any
more. The runs without wrapping have `CHECK_DEADLOCK FALSE`, since the bounded counter
really stops them; those with wrapping check deadlock.

### Fairness

`FairSpec` has weak fairness on each step of the master and of each reader: a process
that runs goes on, the scan loop ends, a store buffer drains. `WriteLock` has strong
fairness, since the timing assumption behind `MaxSpan` and `MaxDelay` holds it up while
a reader is late, and it is enabled again each time: the master is taken to issue
commands for ever. Death and failing commands have none.

### Proofs

`SharedMemProofs` proves for any number of readers, slots and blocks and for all the
sizes: `TypeCorrect` for the whole model, and under `Disciplined` the rest:
`NothingFreedEarly`, `SearchesAreSeen`, `SlotsAreOwn`, `QueueIsTheGarbage`,
`QueueIsOrdered`, `HorizonOnlyAdvances` and `ImplementsGracePeriod`. `Disciplined` names
what the code needs from its surroundings, each clause being what a violated run drops
or what no machine reaches: the counter does not wrap, no search within a search,
readers attach first, do not detach in a race, may be signalled; a store drains within
`TwilightZone` cycles; a read lock is shorter than half an `int`. `SlotsOutlive`
(`OnlyDeadLoseSlots`) needs one of these only, that the master may signal its readers:
it holds with nested searches, detaching, reused pids and a wrapping counter.

`NoPrematureFree` is not inductive (and `IInv`, which TLC has found true of the instance
of `shm_core`, is in no run): freeing is decided from a scan that read the slots at
different times. `IInv` adds what the scan knows:

1. *Scan soundness.* For each slot already passed, its reader either began after the
   scan did, or is no older than the oldest cycle found so far.
2. *Owed since.* A reader that is owed a block stored its lock no later than the cycle
   the block is stamped with.
3. *Slots.* A live reader's `self` is its own slot, so what it stores is not
   overwritten; a dead reader's slot is only taken back by the scan.
4. *Delay.* A store not yet visible is at most `MaxDelay` cycles old, which the twilight
   zone makes up for.

The key lemma puts them together: an entry that `Collect` frees lies below the horizon
less the twilight zone, hence below the cycle of every reader that is in a search, so
nobody is owed it. One lemma per action then carries `IInv`.

## 4. Lock files: `LockFile`, `LockService`, `LockFileProofs`

### Correspondence

One lock name. `file` is the lock file (who created it, the pid written in it, whether
it is older than `sleep_time / 500` seconds) and `guard` whether `name.lock.lock`
exists: its owner's pid is written but never read. `level` is a process' nesting count
(`lock_level`), `guarding` whether it owns the guard, `locking` its re-entrance flag,
`tries` the loop counter of `lockfile`, `seen` the pid it read, and `pc` where it is in
the procedure: trying for the guard, waiting and trying again, then creating the file,
writing the pid, or, when the file exists, taking its mtime, opening it, judging its pid
and deleting it, and deleting the guard.

Each file operation is a step and a process can die at each (`Die`). A process can come
back with the pid it had (`Reborn`). For a `Failing` process the `open` may fail for
another reason than `EEXIST`. `SlowGuard` lets the guard time out while its owner lives.

### Runs

| Run | Question | Result |
|---|---|---|
| `lock_core` | Two processes contend, nest, time out; one of them dies at any step, comes back with its pid, and may fail to create the file: one holder, whose file stays? Is `LockService` implemented? Does every call return, even with the guard lost for good? Is the file of a dead holder deleted, unless the guard is lost or `lockfile` has thrown everywhere? | holds |

That `lockfile` waits ten times as long as asked (`timeout * 10000 / sleep_time` at
`lock.tcl:47`, where `sleep_time` is in milliseconds) shows in the definition of
`Retries` without a run.

### Bounds

Two processes, `p1` mortal, reborn and failing: one holds or leaves a file behind, the
other judges it stale while the first one comes back. A third process that comes between
was checked for safety too, and finds nothing more; the theorems hold for any number.
`Timeout` of 1 second and `SleepTime` of 4500 ms give two tries by the source's formula
`timeout * 10000 / sleep_time`. `MaxLevel = 2` shows nesting, `SlowGuard` lets a guard
time out while its owner lives. `CHECK_DEADLOCK FALSE`: after the guard is lost and all
callers have died, the system really stops.

### Fairness

Weak fairness of `Proceed` for each process: a live process in the procedure goes on.
`BusySpec` adds weak fairness of a call (somebody keeps asking for the lock) and of the
ageing of the file: without callers nobody would ever look at a stale file. Dying,
unlocking and being reborn have none.

### Proofs

`LockExcludes`, `HolderKeepsFile`, `GuardExcludes`, `LevelsAndTriesBounded` (the type
invariant: levels and tries stay in range) and `ImplementsLock` hold for any set of
processes and any timeouts, without further assumptions. Mutual exclusion alone is not
inductive: the danger is a process that judged the old file stale and deletes a new one.
`IInv` adds that only one live process is inside the guard, that a file with a live
creator past its creation is that creator's claim, and that a process about to delete
has judged the very file that still lies there, since nobody can replace it without the
guard.

## 5. A table and its indexes: `TableIndex`, `TableIndexProofs`

### Correspondence

One table in one process. `hash` is what `ctable_FindHashEntry` finds, `key` the key in
a row, `list` the list of all rows, `count` the table's count; `val` are the fields of a
row and `indexed` the fields that have a skip list. `place` is a row's
`_ll_nodes[index]`: the value of the bucket it is linked in, or `Out` when `prev` is
null. A skip list is thus the set of its entries. `cmd` is the command that runs, with
the `indexCtl` of the generated functions, `failed` the history of rows with which a
command has failed, `fate` whether the process still runs.

A command is `Find` or `Create` (`find_or_create`), then one step per field it names,
then `Finish` (`index_defaults`), and may fail at each. `SetField`, `IncrField` and
`SetNull` are the code `gentable.tcl` generates for a field: the null flag, the early
return for an equal value (`Skips`, with the inverted comparison of `char` fields), out
of the index, the new value, into the index (`Put`). `Rename` is `reinsert_row`;
`RenameNew` is its branch that "shouldn't be possible", which damages the hash table and
ends the model. `CreateIndexFails` and `CreateIndexPanics` are the two bad ends of
`index create`. `Delete`, `Reset` and `DropIndex` are whole commands.

### Runs

| Run | Question | Result |
|---|---|---|
| `table_core` | Every order of commands on a nullable unique, a notnull and a `char` field, each failing anywhere: do hash, list and count agree; does an index hold no stale entry, no duplicate in a unique field, and every row but the failed ones? | holds |

What the indexes promise is less than one might hope, and the invariants say exactly how
much less: a `set` that a unique index refuses has changed the row and leaves it out of
that index for good (`IndexIsComplete` excepts `failed`), which is the partial index
that `ctable_CreateIndex` takes care to avoid. Two ways lead to the end of the process
(`fate` "panic", where the model stops), that is to `Tcl_Panic` for a row that is
inserted twice ("prev is always NULL if not in list", `ctable_search.c:2911`): a command
that creates a row and names an indexed field twice, as `Repeats` allows, and an `index
create` after one that failed (`ctable_search.c:3004`), whose undo has dropped the skip
list but not the links of the rows.

### Bounds

Two rows and two keys: a row that changes or takes the key of another, two that meet in
a unique index, one whose memory and key are used again. `Values` is `{0, 1}` and null;
an `incr` beyond them is left out. `CHECK_DEADLOCK FALSE`: after a panic or a damaged
hash table nothing happens any more.

### Proofs

`TableIsOne`, `Sound`, `OnceEach` and `Complete` are proved for any rows, keys, fields
and values, without assumptions on the commands. `IndexIsSound` is not inductive: a row
is created with its fields overwritten, so that a stale link of an unused row would
become a wrong entry. `IInv` adds that an unused row has no link (`UnusedIsUnlinked`),
that a command runs on a row of the table, and, for completeness, that a row missing in
an index has failed or is the one being created (`MissingIsNew`). The count needs that
the list is finite. One lemma per action and part (table, indexes, types) carries it.

## 6. A shared index under a search: `SharedIndex`, `SharedIndexProofs`

### Correspondence

One indexed field of a table in shared memory, the master that changes rows and one
reader that searches by that field. `next` are the links of a node, `curh` the height of
the list; `to` is `node->row` and `_ll_nodes[index].next`, the rows a node and a row
point to, `prev` and `head` the back pointers; `tall` is 0 for a node that is not in the
index. `val`, `stamp` (`_row_cycle`), `count` and `cycle` are the rest of shared memory.
A store that a reader can see is a step of the master, a load a step of the reader:

* A command begins with `Begin` (`write_lock`). `Unlink` is
  `ctable_ListRemoveMightBeTheLastOne`; when the node is then empty, `PutBack`,
  `EraseLevel` for each level, `LowerHeight` and `Clear` are the rest of
  `ctable_RemoveFromIndex` with `jsw_serase`. `Store` sets the field. `InsertHead` and
  `Link` are `ctable_ListInsertHead` (all its stores but the last are invisible),
  `NewNode` and one `Publish` per level the other branch of `jsw_sinsert_linked`. `Incr`
  leaves `stamp` alone, as the generated `incr` does.
* `ReadLock` takes over the row count, `Enter` the cycle, `Start`, `Locate`, `Compare`,
  `Arrive`, `Skip` and `Pass` find the first node, `Fetch`, `Check` and `Ended` are the
  head of the loop, `Walk` a row of a list, `NextNode` `jsw_snext`. `Check` and `Walk`
  may `Restart`; `LoopRestartNeeded` compares the row the list began with with itself,
  as the code does (`loop_restart.row1` is `row`), so it never asks for a restart.
* A search ends `done`, `exhausted` (more than `MaxRestarts`), `endless` ("infinite
  search loop"), `overflow` (a match beyond the table of matches, which `assert
  (search->matchCount <= ctable->count)` lets pass by one) or `crashed` (a compare
  function is given a null row).

`seen`, `seenNodes`, `stay` and `met` are history: the rows and nodes that were in the
index since the search began, the matching rows no command has named, and what else the
master has done: `add` (created a row), `early` (was creating one when the search took
the cycle), `move` (changed a value), `erase` (removed a node), `tall` (was linking a
node on several levels).

### Runs

| Run | Question | Result |
|---|---|---|
| `index_walk` | At every store: does a walk that starts now find every row but the one in hand (`IndexIsWhole`)? Do all walks end, from rows and nodes long out of the index too (`WalksEnd`)? Are only rows of the table reported (`ReportsRows`)? Is a search exact while the master only adds (`QuietSearch`), and does it only fail for a reason (`FailsForAReason`)? | holds |
| `index_partial` | "the client will never step into a partially modified structure" | violated: the last row of a node goes, and a reader that holds the node compares with a null row |

`QuietSearch` states what a search gives without locks, and each of its exceptions is
needed. With `tall` allowed, `erase` allowed or `move` allowed, a row that stays and
matches is missed: a reader that comes to a new node along an upper level finds its
lower link still null, an emptied node ends the walk, and a moved row takes the reader
along. With `early` allowed a row that does not match is reported: its stamp is the
cycle the search began with, so `Check` finds nothing to restart for. `overflow`,
`exhausted` and `crashed` all happen in `index_walk`; `endless` needs rows that fail the
other terms.

### Bounds

Three rows, three nodes, two values: two rows that share a node, one that moves to the
other node, and a node left over for one that comes back while the search can still be
on the old one. `MaxHeight = 2` gives links on two levels, `MaxCycle = 4` three
creations and a command after them, `MaxRestarts = 1` a restart and a refused one. Terms
are `lt`, `eq` and `gt`, the three ways to start a walk (from the header, by
`jsw_sfind`, past the equal rows). The rows and the nodes are symmetric. A search always
can be closed, so deadlock is checked.

### Assumptions

Stores become visible in program order, as on x86. A comparison loads the row of a node
and its value in one step. Values are ranks, so that `incr` is the next one. A row or a
node the search could have reached is not used again before it ends: `SharedMemProofs`
shows that of blocks under the read lock.

### Proofs

`TypeCorrect`, `OnlyRowsReported`, `CrashOnlyByErase`, `AlwaysWhole`, `AlwaysEnds`,
`QuietIsExact` and `FailuresHaveReasons` hold for any rows, nodes, values, heights and
searches, from the assumptions on the constants alone: every safety invariant of the run
is a theorem. The difficulty of the first three is that a reader follows pointers of
rows and nodes which are out of the index and which nobody looks after any more. `IInv`
(four of its six parts are about the master only) says why that is safe:

1. *Stage*: what the command knows at each of its steps.
2. *Lists*: `prev` and `to` agree on linked rows, the links of a list stay in it.
3. *Ranks*: a list is in the order its rows were put in, the last one first; this is
   what shows that an emptied node has no row left.
4. *Chains*: each level of the skip list is sorted, and complete but for the node in
   hand; this is what shows that an erased node is led to by no other node.
5. *Covered* and *Here* (`Sighted`): all that was in the index since the search began is
   closed under the pointers, and the reader is in it. Index cells only lead to index
   cells (`IndexClosed`), and a cell that leaves keeps pointing to what was in the index
   then.

`SortedIn` and `SortedOut` are the two lemmas about inserting and removing a node of a
level; one lemma per part carries it over every action.

`IndexIsWhole` follows from the master's parts: a set closed under the links that leaves
a row out has a first node, or a last row, where *Chains* and *Ranks* are contradicted,
except in the steps between linking a node or row and publishing it, which *Stage*
pins down. `WalksEnd` is inductive beside them (`EndsOut`, `EndsIn`): what is unlinked
leads to where it led, what is linked leads into what was there before.

`QuietSearch` and `FailsForAReason` need to know where the search is among the rows it
has seen, and how far the order of the index holds for rows and nodes that have left it.
`MarchInv` says so, in layers that ask less and less of the master to hold:

1. *Counted*, *Onward*, *Starting*: the count is that of the rows of the table, a node
   in the midst of being erased still leads to a greater value, and nothing is found
   before the first node.
2. *Calm*, no row was moved: the rows seen keep node and value, and pointers lead to
   greater values and older rows (*Placed*); the rows that stay are led to, by unlinked
   rows of their list too (*Stays*); what was found comes before where the search is, so
   that nothing is found twice (*Rising*).
3. *Still*, none was added either: the rows before the search are at least as many as
   the nodes it has passed, and all rows seen are no more than the `size` it read
   (*Enough*). This refutes `endless` and `overflow`, and it shows why
   additions are an exception.
4. *Quiet*, rows added in nodes of one level, none emptied: the rows still to be found
   are ahead of the search, and it has come to the first node of its term, or to one
   whose rows are all newer than the search, which `Check` turns away (*Exact*).

A row added in a quiet time has a stamp above `since`: that is what lets `locate` stop
before a node that is not yet linked below, and it is why a row of `early` is not
allowed. `Successor` is the step all of it rests on: from a node that is linked, the
lowest level leads to a node that is not behind any linked row of a greater value, but
for the one in hand.

## 7. Searches, their scripts and cursors: `TableSearch`, `TableSearchProofs`

### Correspondence

One process, one table with a key and one indexed field; a row stands for its key.
`list` is `ctable->ll_head`, `index` the rows of each node of the skip list, `at` the
cursor of the skip list (`skip->curl`), which all walks of the index share. `searches`
is the stack `ctable->searches`, `cursors` the open cursors, `published` whether the
process' slot holds a cycle, `cursorLock` the flag that leaves the read lock to the
cursors. `share` tells a private table from that of a reader, where searches lock and
rows cannot be changed.

An `Ask` is what a search command says: the comparison, `-offset`, `-limit`, `-sort`,
`-buffer`, `-poll_code`, the action on each row and the transaction. `Walk` chooses the
way to the rows as `ctable_PerformSearch` does (by the key, by an index no other search
walks, or all rows), `Mode` is `ctable_PrepareTransactions`, `Room` the size of the
transaction table. Lists of values or keys that name one twice are left out
(`Sensible`): they find a row twice. A search goes through stages, each step the code
between two points where a script may run:

* `SeekKey`, `SeekNode`, `Match` and `Act` are the walk, `Polled` the poll before a row;
  `GoOn` finds the next row. What the code reads again after a script, the model reads
  again: the row's place in its list, `skip->curl`, the value of the row.
* `Post` is `ctable_PostSearchCommonActions`, with the sort (of equal rows in any
  order); `ActLater` an action that was put off; `Commit`, `CommitDelete`,
  `CommitUpdate` and `CommitFails` are `ctable_PerformTransaction`; `ReturnCursor` and
  `Return` are the ends.
* In a script, and when no search runs, there are the commands `Store`, `Set`, `Delete`,
  `Reset` and `IndexRange`, further searches, and the cursor commands `CursorNext`,
  `CursorReset`, `CursorSet`, `Destroy` and `DestroyAll`. Each has the guards of the
  code: what cannot be done while a cursor is open, or while a search runs.

`was`, `found`, `acted`, `touched` and `cut` are history: the table as it was when the
search began, the rows its filter let through, the rows acted on, the rows commands have
named since, and whether a script has cut the search short.

`Careful` says that scripts keep to what the manual asks of them: "Modifying the index
being followed from the code body of a search can have undefined behavior", and "It is
not possible to delete rows from the speedtable while cursors are in use", which the
code sees to except for a `-delete` search that is already running when one of its
scripts opens a cursor, and for `reset` in a script.

### Runs

| Run | Question | Result |
|---|---|---|
| `search_core` | Fifteen kinds of search, nested in scripts that change the table: does no search and no cursor keep a pointer to a deleted row (`RowsAreLive`, `RowsStay`)? Does the transaction table fit (`TableFits`)? Does a search act on what was asked, whichever way it took (`SearchAgrees`), in order (`SortIsKept`), and is what it deletes or sets what it acted on (`TransactionFollows`)? Is the read lock given back (`LockIsReturned`)? | holds |
| `search_offset` | "the first 100 matching records are bypassed before the search action begins" | violated: a buffered search with an offset and no limit acts on nothing |

`SearchAgrees` compares the three walks with one definition of what is due; it excepts
the rows that commands named while the search ran, and the searches of `search_offset`.
`SortIsKept` leaves out `-sort` downwards on a field whose index is followed: the code
then trusts the index, which is in upward order.

### Bounds

Three rows and two values: two rows in one node, and a node that empties and one that
appears. A search and one in its script (`MaxDepth = 2`, the inner one of fewer kinds),
one row that commands may name while a search runs (`MaxTouched`), two cursors, so that
one can be the last of two. The kinds combine each way to the rows with each action,
transaction, sort, offset, limit and poll at least once. A polled list of keys is among
them: its script can store a row whose key is still to be looked up. The rows are
symmetric. Deadlock is checked.

### Proofs

`LockComesBack` needs no assumption: for any rows, searches and depth, the lock is
published only while a search runs or a cursor has it (`LockIsHeld`). `RowsAreKept` and
`OneDeletes` are proved when scripts are `Careful`; the inductive invariant adds that a
search with `-delete` is the outermost one and alone with its kind, and that no cursor
is there or being made (`DeleterIsAlone`).

`RowsStayLive` and `TableIsLargeEnough` are proved when scripts are `Careful`. Neither
is inductive: a walk goes on from a row or a node that its script could have moved, and
a table only fits if nothing is found twice. `TInv` says why neither happens:

1. *The table*. The index has each row of the table once, at its value (`Indexed`).
2. *The searches together*. At most one of them walks the index, and none inside it
   changes a value (`OneFollows`).
3. *Each search* (`Right`). Where it is in a walk is a row of the table, a node of the
   index, or keys still to come (`Stands`); all rows in its transaction table have been
   passed (`Behind`, with `Passed` for a search at a row and `Left` for one between
   two); what was there when it began is there, behind what was stored since (`Kept`);
   and the window, the room and the counts fit the table (`Held`).
4. *Each cursor*. Its rows are in the table, its end is in its rows (`CursorsRight`).

A new match is the row the search stands at, which nothing passed is (`NotPassed`), so
the table stays without repetition, and its rows are among those that were there or, for
keys, were stored since. `OnlyIs`, `MoveToIs` and `AfterIs` are the lemmas about
removing rows from a list, moving them to another node and following a list;
`StaysRight` carries a search over what a script does to the table under it.

`SearchesAgree`, `SortsAreKept` and `TransactionsFollow` are proved when scripts are
`Careful`, from `TInv` and a second inductive invariant, `DInv`. What a search will have
done in the end says nothing of the steps before, so `Did` relates it, at each stage, to
what was owed: the rows that matched when it began and that no command has named since.

1. *At every stage* (`Sound`). A row no command named has the value it had; what was
   found was due or was named; and the rows acted on are the found ones from the offset
   on (`ActsOn`), in the order of the transaction table when it is acted on after the
   walk, else in the order they were found. Along an index that order is the order of
   the values, and a row due with a smaller value was found before (`InOrder`): that is
   why the code need not sort.
2. *In the walk* (`WalkDid`). Each owed row that `TInv` says is passed was found; the
   counts and the limit agree with the rows found; and the search has taken no more
   steps along the skip list than there are nodes it has come to (`Visited`), so it
   does not turn in a circle.
3. *After the walk* (`AfterDid`). All owed rows were found, unless a script or the limit
   broke off an unbuffered walk (`Enough`); the transaction table has what was found and
   is sorted if it has to be (`InSort`); and how far the actions are agrees with the
   window (`Stop`).
4. *At the end* (`DoneDid`). The counts, and which rows are gone or were set.

`Nested` says that only the innermost search is not in a script, so that a command names
the rows it changes in every search it could disturb. Each action has a lemma of its own
for each way to the rows; `Ranks` counts what comes before a place of the sorted rows,
which turns the order into the window that `SortIsKept` is about.

A buffered search with an offset and no limit, where the code forgets the offset
(`search_offset`), is in `DInv` as it is: only the clauses about its counts and its
transaction except it, as the properties do.

## 8. The hash table: `HashTable`, `KeyMap`

`tab` is `ctable_HashTable` with the fields of the entries: `level` stands for
`numBuckets`, `mask`, `downShift` and `rebuildSize`, which follow from it, `next`,
`hash` and `key` are in the rows. `Stored` is `ctable_StoreHashEntry` and `Rebuilt`
`RebuildTable`, where each entry of the old buckets goes to the head of its new one;
`Deleted` is `ctable_DeleteHashEntry`, which walks the chain and panics on one that is
malformed. `Store`, `Rename`, `Delete` and `Reset` are the commands that use it. `walk`
is the `ctable_HashSearch` of a `foreach`, whose script may run any of them: `NextRow`
follows `nextEntry`, which was read before the script ran. If that row was freed, the
code follows a freed pointer, and the model ends there (`stray`).

| Run | Question | Result |
|---|---|---|
| `hash_core` | Four keys and rows, two rebuilds: is each row once in the right chain (`ChainsAreWhole`)? Is it a map (`ImplementsMap`)? Does `foreach` come to each row once (`EachOnce`)? | holds |

`EachOnce` says how much the walk promises: nothing more once the table was rebuilt or a
row got another key under it (`moved`). `Base = 2`, `Digits = 3` and `Multiplier = 1`
stand for 16, the digits of a hash and 3: a table of four rows is then rebuilt twice, as
one of 48 and 768 would be. Two keys share their hash, a third shares their first
bucket, the fourth does not. The rows are symmetric, and so are the two keys.

### Proofs

`HashTableProofs` proves all three properties for any keys, rows and hashes, any `Base`,
`Digits` and `Multiplier`, without a bound on the rows but that of `SizesAssumption`:
the table never outgrows the digits of a hash. (`downShift` starts at 26
and loses 4 with each rebuild: from 3 * 16^7 rows on, `RANDOM_INDEX` would shift by a
negative number, and the code has no guard.)

The model's `Chain` follows pointers as far as there are rows, so nothing can be said of
it before one knows that a chain ends. The inductive invariant `HashInv` says it without
walking: there are places `p` of the rows, integers, such that in each bucket the head
has the least place of its members and each `next` the next one up (`Chained`). Since
`p` is only said to exist, storing a row picks a place below all others, and a rebuild,
which turns every chain around, takes `-p`. `ChainInOrder` is the one induction over a
chain: from `Chained`, `Chain` returns the members of the bucket in the order of `p`.
With it:

1. *The table* (`Whole`). Each of `Put`, `Deleted`, `Cleared` and `Rebuilt` keeps it
   (`PutWhole`, `DeletedWhole`, `ClearedWhole`, `RebuiltWhole`). For the rebuild,
   `IndexSplit` shows that the new index of a hash, divided by `Base`, is its old one:
   the rows of a new bucket all come from one old one.
2. *The walk* (`WalkRight`). The rows a walk has come past are those in buckets before
   its own, or in its own before `nextEntry` in the order of `p` (`Visited`). As long as
   nothing is moved, the keys it has seen are among theirs and all of those that stay
   (`Progress`). A row stored by the script comes before the others of its bucket, and
   so is either passed or still to come, but never pushes another one behind.
3. *The map*. `Find` is the one row of the table with the key (`FindIs`), so each
   command changes what is found under its own keys only (`MapStored`, `MapDeleted`),
   which is a step of `KeyMap`.

## 9. A table on a server: `RemoteTable`, `RemoteTableProofs`

### Correspondence

`cl` is what `ctable_client.tcl` keeps for each client: the URL of the table, the cached
socket, whether its end has been read, and where in a call it is (`pc`). `srv` is a
server: whether it listens, is shutting down, has the table, where the table has gone,
and for which URLs the table is in the cache of `remote_receive`. `conn` are the
connections, with the lines under way in both directions, and which side has closed.
`call` is history: how often the call was sent and done, the rows it gave, and what it
returned.

* `Call`, `Connect`, `ConnectFails`, `Send` and `Retry` are `remote_ctable_send` up to
  its answer. `GetResult`, `Follow`, `StayBehind` and `StartRows` are the four kinds of
  answer. `ReadRow`, `EndRows`, `GiveUp`, `Stop` and `IntoStops` are a search with
  `-code` or `-into` and its ends. `Timeout` is the timer of a table with `-timeout`,
  whose handle is lost when the table moves.
* A handler of the server runs to its end, so it is one action: `TellMoved`, `Command`,
  `Redirect` (also with `-shutdown`, the kind `retire`), `Shutdown`, `ShutdownNow`,
  `Quit` and `ServerEof`. `Connect` takes `accept_connection` and its greeting with it.
* `Break` cuts a connection and loses what is under way in each direction, or none of
  it; `Crash` and `Restart` are a server's.

### Run, bounds and fairness

| Run | Question | Result |
|---|---|---|
| `remote_core` | Does a call return its own answer (`AnswersMatch`)? Has what is answered been done, once if it was sent once, with each row once (`AnsweredIsDone`)? Is nobody of a moved table told that there is none (`NoOneIsLost`)? Do all calls return (`CallsReturn`), and do servers end that were told to (`ShutdownEnds`)? | holds |

Two clients: one searches (two calls, so that the second meets what the first has left),
the other sets, moves the table, or stops the server. Two servers, three connections, so
that an old one can be there with both new ones. `Retries = 1` for 5 in the code: a
retry and a refused one. One row in an answer, one connection that breaks or server that
crashes, one restart. `CHECK_DEADLOCK FALSE`: the calls are bounded, and when they are
made the system stops.

Weak fairness of each client in a call or with a timer set, and of each server that has
lines to read: Tcl's event loop runs what is ready. Calls, crashes, breaks and restarts
have none. `ShutdownEnds` excepts a client that stays connected without a timeout, since
`handle_eof` waits for it.

### Proofs

`OwnAnswers`, `DoneWhenAnswered` and `EachFollows` hold for any clients, servers,
connections, retries, rows and faults. That an answer belongs to its call is not
inductive: it depends on everything that may be under way. `IInv` says, for each place
in a call, what the connection may hold (`Fits`): nothing before a call is sent, then
the line of this call or one whole answer to it, then the rest of the rows with a result
behind them, then the result. A client that has read the end of the connection or left
answers unread is excepted until it disconnects. `OnceInv` adds the counting: a call
that was sent once waits on one connection at most, alone, and nowhere once it was done;
an answer is only under way to a call that was done; and the rows still under way with
those already given are all of them. For the redirects, `IInv` adds that a server the
table has left has an empty cache of URLs, and that who listens has the table or knows
where it went.

## 10. Observations

What the models show, or what showed while they were written, without contradicting a
document:

* `lock.tcl:116`: the `open` of a file that was just seen may throw, and `lockfile` then
  leaves its guard behind. All later calls time out and throw, which is what
  `CallsReturn` and `StaleIsDeleted` allow for.
* `ctable_client.tcl:261-264, 289-292`: a search `-into` that fails leaves its answers
  unread, and the socket in the cache: later calls read them as theirs. `AnswersMatch`
  excepts the calls made on such a connection.
* `ctable_client.tcl:211` compares the whole command with `redirect`: a `redirect` or
  `shutdown` sent to a table that has moved returns an empty string and does nothing.
* `redirect` of a server that was shutting down opens its port again.
* The client is an at-least-once protocol: a command whose answer was lost is done
  again.
* `gentable.tcl:386`: `set k1 id k2` of a new row stores it twice in the hash table;
  `TableIndex` ends there, and `HashTable` leaves it out.
* `ctable_search.c:1276` makes the transaction table for `ctable->count` rows. A search
  over a list of keys with `-poll_code` also finds rows that its script stores before
  their key is looked up, and a list of keys or values that names one twice finds a row
  twice: both can be more than the table has room for. `TableFits` states how many more
  in the first case, `Sensible` leaves out the second.
* `ctable.h:208`: the safe list walk stops before the last row, so that `reset` leaks
  it.
* `gentable.tcl:603`: `boolSetSource` does not maintain an index of its field;
  `gentable.tcl:749`: `charSetSource` returns early for a character that differs instead
  of one that is equal.

## 11. What is only model-checked, and what is not modelled

Proved, and in no run of their own: `HorizonOnlyAdvances`, `GuardExcludes`,
`LevelsAndTriesBounded`, the types of `SharedIndex`, `CrashOnlyByErase`, `OneDeletes`.

Liveness (`GarbageIsCollected`, `CallsReturn`, `StaleIsDeleted`, `ShutdownEnds`) is
checked by TLC only: temporal reasoning under fairness is out of the prover's reach. The
wrapping counter of `shm_live` needs a proof of its own.

Left out of `SharedMem`: the pool allocator, `map_file`, the symbol table of shared
objects, reader slots when all are in use. Left out of `LockFile`: failures of `puts`
and `close`, `unlockfile`'s error for a lock not held (it changes no state), other lock
names (they are independent). Left out of `TableIndex`: searches (the delete of a row by
a search is `Delete`), imports (they ignore the failure of a field), boolean fields with
an index, `index count`, out of memory. Left out of `SharedIndex`: transactions and
cursors of a search, several indexed fields, nulls, unique indexes, `IN` lists, walks
over the hash table, `index create` and `index drop` under a search. Left out of
`TableSearch`: several comparisons in one search, `match`, what `-array` and
`-write_tabsep` write, an `-update` that fails after its first row (the code says
"update may be incomplete"), the cursor commands that only read, other processes (they
are in `SharedIndex`), scripts that are not `Careful` in the checked instance. Left out
of `HashTable`: `set` with a second key of a new row. Left out of `RemoteTable`:
quoting, lines in pieces, creating and destroying tables, calls from within the script
of a search on the same connection, and a connection that loses part of an answer while
the client has read none of it (what counts is where the client has come to when it
ends).

Whole components: *quoting*, *pure algorithms* and *STAPI display* keep no state between
calls, and what they could get wrong is in single characters and digits, where tests
reach. *Batch* is one loop. *Cached tables* wait on the database and compare clocks with
file times, all outside this source; a model would state assumptions about them and
little else. *STAPI clients* and *SQL access* are dispatch and I/O; the *dumper* prints.
