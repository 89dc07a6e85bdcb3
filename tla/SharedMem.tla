------------------------------ MODULE SharedMem ------------------------------
(***************************************************************************)
(* The shared-memory heap of ctables/shared/shared.c: one master process   *)
(* changes it, reader processes follow pointers in it, nothing blocks.     *)
(* A block the master unlinks goes to a garbage queue stamped with the     *)
(* write cycle; a reader publishes the cycle it started in; once in LazyGC *)
(* commands the master scans the reader slots for the oldest such cycle    *)
(* and frees the front of the queue, staying TwilightZone cycles behind.   *)
(*                                                                         *)
(* The scan is one step per slot.  A reader's "self->cycle = map->cycle"   *)
(* is three steps, with no fence in the code: the load (ReadLockLoad), the *)
(* store (ReadLockStore), after which the program follows pointers, and    *)
(* the moment the master can see the store (Drain).                        *)
(***************************************************************************)
EXTENDS Integers, Sequences, FiniteSets

CONSTANTS
  Readers,       \* the pids of the reader processes
  NoPid,         \* the pid 0 of an empty slot
  Blocks,        \* blocks of shared memory
  NSlots,        \* MAX_SHMEM_READERS
  TwilightZone,  \* TWILIGHT_ZONE
  LazyGC,        \* LAZY_GC
  CellMod,       \* a cell_t counts modulo CellMod (2^64)
  IntHalf,       \* an int holds -IntHalf .. IntHalf - 1 (2^31)
  \* What the model assumes of the processes around the code.
  Wraps,         \* may the cycle counter wrap round?  FALSE bounds the run
  MaxSpan,       \* cycles a read lock may outlive its start
  MaxDelay,      \* cycles a store may stay in a reader's store buffer
  MaxBacklog,    \* lag of the horizon up to which commands may fail
  MaxNest,       \* searches a reader has open at once
  Signalable,    \* pids the master has the permission to signal
  Detaching,     \* readers that unmap the share while they live
  Reused,        \* pids the system gives to a new reader process
  Unregistered,  \* readers that search without "attach"ing first
  OtherShares    \* does the master process write another share too?

ASSUME ReadersAssumption == NoPid \notin Readers
ASSUME SizesAssumption ==
  /\ NSlots \in Nat \ {0} /\ TwilightZone \in Nat /\ LazyGC \in Nat \ {0}
  /\ CellMod \in Nat /\ IntHalf \in Nat \ {0} /\ CellMod % (2 * IntHalf) = 0
  /\ MaxSpan \in Nat /\ MaxDelay \in Nat /\ MaxBacklog \in Nat /\ MaxNest \in Nat \ {0}
  /\ CellMod > 2 /\ TwilightZone < CellMod
ASSUME ChoicesAssumption == {Wraps, OtherShares} \subseteq BOOLEAN

LOST_HORIZON == 0
NoSlot == 0
Slots  == 1 .. NSlots
Cells  == 0 .. CellMod - 1

VARIABLES
  cycle,      \* map->cycle
  slotPid,    \* map->readers[i].pid
  slotCycle,  \* map->readers[i].cycle
  garbage,    \* shm->garbage, oldest entry first
  horizon,    \* shm->horizon
  strike,     \* garbage_strike
  wasLocked,  \* ctable->was_locked
  scan,       \* oldest_reader_cycle: the slot it is at, new_cycle, oldest_age
  where,      \* is a block free, linked in the table, or garbage?
  links,      \* blocks the stale pointers of a garbage block lead to
  alive,      \* reader processes that run
  self,       \* shm->self, cached by the first read_lock
  rpc,        \* where a reader is in read_lock
  loaded,     \* the cycle read_lock loaded, until the store is visible
  entered,    \* the cycle in which its store was executed
  depth,      \* searches a reader has open
  held,       \* blocks a reader has pointers to
  leaving,    \* the slot unmap_file is giving back, pid already cleared
  owed        \* history: readers still in a search they were in when a
              \* block was retired

mapVars    == <<cycle, slotPid, slotCycle>>
masterVars == <<garbage, horizon, strike, wasLocked, scan>>
heapVars   == <<where, links, owed>>
readerVars == <<alive, self, rpc, loaded, entered, depth, held, leaving>>
vars == <<mapVars, masterVars, heapVars, readerVars>>

Entry   == [cycle : Cells, memory : Blocks]
NotScanning == [at |-> 0, oldest |-> LOST_HORIZON, age |-> 0]
Scanning == scan.at # 0

TypeOK ==
  /\ cycle \in Cells
  /\ slotPid \in [Slots -> Readers \cup {NoPid}]
  /\ slotCycle \in [Slots -> Cells]
  /\ garbage \in Seq(Entry)
  /\ horizon \in Cells
  /\ strike \in 0 .. LazyGC - 1
  /\ wasLocked \in BOOLEAN
  /\ scan \in [at : 0 .. NSlots + 1, oldest : Cells, age : Int]
  /\ where \in [Blocks -> {"free", "linked", "garbage"}]
  /\ links \in [Blocks -> SUBSET Blocks]
  /\ alive \subseteq Readers
  /\ self \in [Readers -> Slots \cup {NoSlot}]
  /\ rpc \in [Readers -> {"idle", "loaded", "stored", "reading"}]
  /\ loaded \in [Readers -> Cells]
  /\ entered \in [Readers -> Cells]
  /\ depth \in [Readers -> 0 .. MaxNest]
  /\ held \in [Readers -> SUBSET Blocks]
  /\ leaving \in [Readers -> Slots \cup {NoSlot}]
  /\ owed \in [Blocks -> SUBSET Readers]

Init ==
  /\ cycle = LOST_HORIZON
  /\ slotPid = [s \in Slots |-> NoPid]
  /\ slotCycle = [s \in Slots |-> LOST_HORIZON]
  /\ garbage = <<>> /\ horizon = LOST_HORIZON /\ strike = 0
  /\ wasLocked = FALSE /\ scan = NotScanning
  /\ where = [b \in Blocks |-> "free"]
  /\ links = [b \in Blocks |-> {}]
  /\ alive = Readers
  /\ self = [r \in Readers |-> NoSlot]
  /\ rpc = [r \in Readers |-> "idle"]
  /\ loaded = [r \in Readers |-> LOST_HORIZON]
  /\ entered = [r \in Readers |-> LOST_HORIZON]
  /\ depth = [r \in Readers |-> 0]
  /\ held = [r \in Readers |-> {}]
  /\ leaving = [r \in Readers |-> NoSlot]
  /\ owed = [b \in Blocks |-> {}]

-----------------------------------------------------------------------------
(* Cycle arithmetic.                                                       *)

\* Mutant: the difference of unbounded integers.
IntDiff_Unbounded(a, b) == a - b

\* "int d = a - b" on cells: the difference truncated to an int.
IntDiff(a, b) == ((a - b + IntHalf) % (2 * IntHalf)) - IntHalf

\* How many cycles after b cell a is.
Since(a, b) == (a - b) % CellMod

\* Mutant: LOST_HORIZON is a cycle like any other.
NextCycle_NoSkip(c) == (c + 1) % CellMod

\* write_lock counts on, past LOST_HORIZON.
NextCycle(c) ==
  IF (c + 1) % CellMod = LOST_HORIZON THEN LOST_HORIZON + 1 ELSE (c + 1) % CellMod

\* Mutant: no twilight zone.
FreeBelow_NoTwilight(h) == h

\* The cycle below which garbage_collect(h) frees.  It may be negative, where
\* a cell_t wraps: only IntDiff looks at it, and 2 * IntHalf divides CellMod.
FreeBelow(h) ==
  CASE h = LOST_HORIZON -> LOST_HORIZON
    [] h # LOST_HORIZON /\ h - TwilightZone = LOST_HORIZON -> LOST_HORIZON - 1
    [] OTHER -> h - TwilightZone

\* garbage_collect's test of an entry.
Collectable(entry, h) ==
  \/ FreeBelow(h) = LOST_HORIZON
  \/ entry.cycle = LOST_HORIZON
  \/ IntDiff(FreeBelow(h), entry.cycle) > 0

\* Timing assumptions on the readers, as limits on how far the master may run
\* ahead: no published or loaded cycle gets older than MaxSpan, and no store
\* stays invisible for more than MaxDelay cycles.
ReadersKeepUp ==
  /\ \A s \in Slots : slotPid[s] \in alive /\ slotCycle[s] # LOST_HORIZON =>
       Since(NextCycle(cycle), slotCycle[s]) <= MaxSpan
  /\ \A r \in Readers : rpc[r] \in {"loaded", "stored"} =>
       Since(NextCycle(cycle), loaded[r]) <= MaxSpan
  /\ \A r \in Readers : rpc[r] = "stored" =>
       Since(NextCycle(cycle), entered[r]) <= MaxDelay

\* The readers that may hold pointers into the heap.
Searching == {r \in Readers : rpc[r] \in {"stored", "reading"} \/ depth[r] > 1}

\* Reader r ends its last search.
Forget(r) ==
  /\ held' = [held EXCEPT ![r] = {}]
  /\ entered' = [entered EXCEPT ![r] = LOST_HORIZON]
  /\ owed' = [b \in Blocks |-> owed[b] \ {r}]

-----------------------------------------------------------------------------
(* The master process.                                                     *)

\* begin_write: a command that may modify the table starts.  If wasLocked, the
\* command before it returned an error and so never reached its end_write.
WriteLock ==
  /\ ~Scanning
  /\ Wraps \/ cycle + 1 < CellMod
  /\ ReadersKeepUp
  /\ wasLocked => Since(cycle, horizon) < MaxBacklog
  /\ cycle' = NextCycle(cycle)
  /\ wasLocked' = TRUE
  /\ UNCHANGED <<slotPid, slotCycle, garbage, horizon, strike, scan,
                 heapVars, readerVars>>

\* A block is allocated, filled and linked where readers can reach it.
Link(b) ==
  /\ ~Scanning
  /\ where[b] = "free"
  /\ where' = [where EXCEPT ![b] = "linked"]
  /\ links' = [links EXCEPT ![b] = {}]
  /\ owed' = [owed EXCEPT ![b] = {}]
  /\ UNCHANGED <<mapVars, masterVars, readerVars>>

\* Mutant: the newest entry goes to the front.
Enqueue_Front(b) == <<[cycle |-> cycle, memory |-> b]>> \o garbage

\* shmfree_raw: the newest entry goes to the end.
Enqueue(b) == Append(garbage, [cycle |-> cycle, memory |-> b])

\* A block is unlinked and passed to shmfree.  It keeps its own pointers, so a
\* reader that has it can go on to any block linked now.  No write lock is
\* needed: "search -delete" is among the readonly_options.
Retire(b) ==
  /\ ~Scanning
  /\ where[b] = "linked"
  /\ where' = [where EXCEPT ![b] = "garbage"]
  /\ links' = [links EXCEPT ![b] = {n \in Blocks \ {b} : where[n] = "linked"}]
  /\ garbage' = Enqueue(b)
  /\ owed' = [owed EXCEPT ![b] = Searching]
  /\ UNCHANGED <<mapVars, horizon, strike, wasLocked, scan, readerVars>>

SlotsOf(r) == {s \in Slots : slotPid[s] = r}

FirstSlot(r, s) == s \in SlotsOf(r) /\ \A t \in SlotsOf(r) : s <= t

\* Mutant: shmattachpid does not look for the pid first.
Registered_Never(r) == FALSE

\* pid2reader finds the pid.
Registered(r) == SlotsOf(r) # {}

\* The master's "attach" command, itself inside begin_write .. end_write.
Attach(r) ==
  /\ ~Scanning /\ wasLocked
  /\ r \notin Unregistered /\ leaving[r] = NoSlot
  /\ ~Registered(r)
  /\ \E s \in Slots :
       /\ FirstSlot(NoPid, s)
       /\ slotPid' = [slotPid EXCEPT ![s] = r]
       /\ slotCycle' = [slotCycle EXCEPT ![s] = LOST_HORIZON]
  /\ UNCHANGED <<cycle, masterVars, heapVars, readerVars>>

\* Mutant: the strike counter is not reset.
NextStrike_NoReset == strike + 1

\* garbage_strike counts to LAZY_GC and starts again.
NextStrike == (strike + 1) % LazyGC

\* end_write, write_unlock: most calls only count.
WriteUnlock ==
  /\ ~Scanning /\ wasLocked
  /\ wasLocked' = FALSE
  /\ strike' = NextStrike
  /\ scan' = IF strike + 1 < LazyGC THEN scan ELSE [NotScanning EXCEPT !.at = 1]
  /\ UNCHANGED <<mapVars, garbage, horizon, heapVars, readerVars>>

\* write_unlock for another share: garbage_strike is one counter per process.
OtherWriteUnlock ==
  /\ OtherShares
  /\ ~Scanning
  /\ strike' = NextStrike
  /\ UNCHANGED <<mapVars, garbage, horizon, wasLocked, scan, heapVars, readerVars>>

\* oldest_reader_cycle at an empty slot.
ScanEmpty ==
  /\ scan.at \in Slots
  /\ slotPid[scan.at] = NoPid
  /\ scan' = [scan EXCEPT !.at = @ + 1]
  /\ UNCHANGED <<mapVars, garbage, horizon, strike, wasLocked, heapVars, readerVars>>

\* Mutant: the result of kill is taken the wrong way round.
KillFails_Inverted(r) == r \in alive /\ r \in Signalable

\* Mutant: no reader is ever found dead.
KillFails_Never(r) == FALSE

\* kill(pid, 0) is -1 for a process that has gone, and for one the master may
\* not signal.
KillFails(r) == r \notin alive \/ r \notin Signalable

\* oldest_reader_cycle takes the slot back.
ScanDead ==
  /\ scan.at \in Slots
  /\ slotPid[scan.at] # NoPid /\ KillFails(slotPid[scan.at])
  /\ slotPid' = [slotPid EXCEPT ![scan.at] = NoPid]
  /\ slotCycle' = [slotCycle EXCEPT ![scan.at] = LOST_HORIZON]
  /\ scan' = [scan EXCEPT !.at = @ + 1]
  /\ UNCHANGED <<cycle, garbage, horizon, strike, wasLocked, heapVars, readerVars>>

\* Mutant: keeps the youngest.
IsOldest_Youngest(age) == scan.oldest = LOST_HORIZON \/ age <= scan.age

\* A reader of this age is the oldest seen so far.
IsOldest(age) == scan.oldest = LOST_HORIZON \/ age >= scan.age

\* oldest_reader_cycle at a running reader.
ScanReader ==
  /\ scan.at \in Slots
  /\ slotPid[scan.at] # NoPid /\ ~KillFails(slotPid[scan.at])
  /\ LET c   == slotCycle[scan.at]
         age == IntDiff(cycle, c)
     IN  scan' = IF c # LOST_HORIZON /\ IsOldest(age)
                 THEN [at |-> scan.at + 1, oldest |-> c, age |-> age]
                 ELSE [scan EXCEPT !.at = @ + 1]
  /\ UNCHANGED <<mapVars, garbage, horizon, strike, wasLocked, heapVars, readerVars>>

NewHorizon == IF scan.oldest = LOST_HORIZON THEN cycle ELSE scan.oldest

\* write_unlock collects only if the horizon has moved far enough.
HorizonMoves == IntDiff(NewHorizon, horizon) > TwilightZone

\* Mutant: frees the last of the n entries and leaves it in the queue.
FreeFront_KeepsLast(n) ==
  /\ garbage' = SubSeq(garbage, IF n = 0 THEN 1 ELSE n, Len(garbage))
  /\ where' = [b \in Blocks |->
       IF \E i \in 1 .. n : garbage[i].memory = b THEN "free" ELSE where[b]]

\* garbage_collect frees the first n entries of the queue.
FreeFront(n) ==
  /\ garbage' = SubSeq(garbage, n + 1, Len(garbage))
  /\ where' = [b \in Blocks |->
       IF \E i \in 1 .. n : garbage[i].memory = b THEN "free" ELSE where[b]]

\* The rest of write_unlock: the horizon advances and the queue is collected
\* up to the first entry still pending, or the horizon is too near to bother.
Collect ==
  /\ scan.at = NSlots + 1
  /\ scan' = NotScanning
  /\ IF HorizonMoves
     THEN /\ horizon' = NewHorizon
          /\ \E n \in 0 .. Len(garbage) :
               /\ \A i \in 1 .. n : Collectable(garbage[i], NewHorizon)
               /\ n < Len(garbage) => ~Collectable(garbage[n + 1], NewHorizon)
               /\ FreeFront(n)
     ELSE UNCHANGED <<horizon, garbage, where>>
  /\ UNCHANGED <<mapVars, strike, wasLocked, links, owed, readerVars>>

-----------------------------------------------------------------------------
(* A reader process.                                                       *)

MySlot(r) == IF self[r] # NoSlot THEN self[r] ELSE CHOOSE s \in Slots : FirstSlot(r, s)

CanSearch(r) ==
  /\ r \in alive /\ leaving[r] = NoSlot
  /\ rpc[r] \in {"idle", "reading"} /\ depth[r] < MaxNest

\* A search starts: read_lock finds the slot and loads map->cycle.
ReadLockLoad(r) ==
  /\ CanSearch(r)
  /\ self[r] # NoSlot \/ Registered(r)
  /\ self' = [self EXCEPT ![r] = MySlot(r)]
  /\ loaded' = [loaded EXCEPT ![r] = cycle]
  /\ rpc' = [rpc EXCEPT ![r] = "loaded"]
  /\ depth' = [depth EXCEPT ![r] = @ + 1]
  /\ UNCHANGED <<mapVars, masterVars, heapVars, alive, entered, held, leaving>>

\* read_lock finds no slot, prints a warning, and the search goes on.
ReadLockFails(r) ==
  /\ CanSearch(r)
  /\ r \in Unregistered
  /\ self[r] = NoSlot /\ ~Registered(r)
  /\ rpc' = [rpc EXCEPT ![r] = "reading"]
  /\ depth' = [depth EXCEPT ![r] = @ + 1]
  /\ UNCHANGED <<mapVars, masterVars, heapVars, alive, self, loaded, entered,
                 held, leaving>>

\* read_lock's store leaves the reader's pipeline.
ReadLockStore(r) ==
  /\ rpc[r] = "loaded"
  /\ rpc' = [rpc EXCEPT ![r] = "stored"]
  /\ entered' = [entered EXCEPT ![r] = cycle]
  /\ UNCHANGED <<mapVars, masterVars, heapVars, alive, self, loaded, depth,
                 held, leaving>>

\* The store reaches the memory the master reads.
Drain(r) ==
  /\ rpc[r] = "stored"
  /\ rpc' = [rpc EXCEPT ![r] = "reading"]
  /\ slotCycle' = [slotCycle EXCEPT ![self[r]] = loaded[r]]
  /\ loaded' = [loaded EXCEPT ![r] = LOST_HORIZON]
  /\ UNCHANGED <<cycle, slotPid, masterVars, heapVars, alive, self,
                 entered, depth, held, leaving>>

\* The search follows a pointer, from the table's roots or from a block it has.
Follow(r, b) ==
  /\ rpc[r] \in {"stored", "reading"}
  /\ b \notin held[r]
  /\ \/ where[b] = "linked"
     \/ \E h \in held[r] : where[h] = "garbage" /\ b \in links[h]
  /\ held' = [held EXCEPT ![r] = @ \cup {b}]
  /\ UNCHANGED <<mapVars, masterVars, heapVars, alive, self, rpc, loaded,
                 entered, depth, leaving>>

\* A search ends: read_unlock, whatever else the process has open.
ReadUnlock(r) ==
  /\ rpc[r] \in {"stored", "reading"}
  /\ slotCycle' = IF self[r] = NoSlot THEN slotCycle
                  ELSE [slotCycle EXCEPT ![self[r]] = LOST_HORIZON]
  /\ depth' = [depth EXCEPT ![r] = @ - 1]
  /\ rpc' = [rpc EXCEPT ![r] = IF depth[r] = 1 THEN "idle" ELSE "reading"]
  /\ loaded' = [loaded EXCEPT ![r] = LOST_HORIZON]
  /\ IF depth[r] = 1 THEN Forget(r) ELSE UNCHANGED <<held, entered, owed>>
  /\ UNCHANGED <<cycle, slotPid, masterVars, where, links, alive, self, leaving>>

\* unmap_file gives the slot back in two stores, the pid first.
DetachPid(r) ==
  /\ r \in Detaching /\ r \in alive
  /\ rpc[r] = "idle" /\ Registered(r)
  /\ \E s \in Slots :
       /\ FirstSlot(r, s)
       /\ slotPid' = [slotPid EXCEPT ![s] = NoPid]
       /\ leaving' = [leaving EXCEPT ![r] = s]
  /\ UNCHANGED <<cycle, slotCycle, masterVars, heapVars, alive, self, rpc,
                 loaded, entered, depth, held>>

DetachCycle(r) ==
  /\ leaving[r] # NoSlot
  /\ slotCycle' = [slotCycle EXCEPT ![leaving[r]] = LOST_HORIZON]
  /\ leaving' = [leaving EXCEPT ![r] = NoSlot]
  /\ self' = [self EXCEPT ![r] = NoSlot]
  /\ UNCHANGED <<cycle, slotPid, masterVars, heapVars, alive, rpc, loaded,
                 entered, depth, held>>

\* A reader dies; its slot keeps what it published.
Die(r) ==
  /\ r \in alive
  /\ alive' = alive \ {r}
  /\ self' = [self EXCEPT ![r] = NoSlot]
  /\ rpc' = [rpc EXCEPT ![r] = "idle"]
  /\ depth' = [depth EXCEPT ![r] = 0]
  /\ leaving' = [leaving EXCEPT ![r] = NoSlot]
  /\ loaded' = [loaded EXCEPT ![r] = LOST_HORIZON]
  /\ Forget(r)
  /\ UNCHANGED <<mapVars, masterVars, where, links>>

\* The system gives the pid of a dead reader to a new one, that inherits the
\* slot if the master has not taken it back.
Reuse(r) ==
  /\ r \in Reused \ alive
  /\ \A s \in SlotsOf(r) :
       slotCycle[s] # LOST_HORIZON => Since(cycle, slotCycle[s]) <= MaxSpan
  /\ alive' = alive \cup {r}
  /\ UNCHANGED <<mapVars, masterVars, heapVars, self, rpc, loaded, entered,
                 depth, held, leaving>>

-----------------------------------------------------------------------------
MasterNext ==
  \/ WriteLock \/ WriteUnlock \/ OtherWriteUnlock
  \/ ScanEmpty \/ ScanDead \/ ScanReader \/ Collect
  \/ \E b \in Blocks : Link(b) \/ Retire(b)
  \/ \E r \in Readers : Attach(r)

ReaderNext(r) ==
  \/ ReadLockLoad(r) \/ ReadLockFails(r) \/ ReadLockStore(r) \/ Drain(r)
  \/ \E b \in Blocks : Follow(r, b)
  \/ ReadUnlock(r)
  \/ DetachPid(r) \/ DetachCycle(r)
  \/ Die(r) \/ Reuse(r)

Next == MasterNext \/ \E r \in Readers : ReaderNext(r)

Spec == Init /\ [][Next]_vars

\* The master keeps running commands, its loops end, and a reader that has
\* started a search gets to its end: nothing in the code blocks.  WriteLock
\* needs strong fairness because ReadersKeepUp is no lock in the code: it
\* limits how slow readers are, never whether the master goes on.
Fairness ==
  /\ SF_vars(WriteLock) /\ WF_vars(WriteUnlock)
  /\ WF_vars(ScanEmpty \/ ScanDead \/ ScanReader \/ Collect)
  /\ \A r \in Readers :
       WF_vars(ReadLockStore(r)) /\ WF_vars(Drain(r)) /\ WF_vars(ReadUnlock(r))

FairSpec == Spec /\ Fairness

-----------------------------------------------------------------------------
(* What makes it correct.                                                  *)

\* No registered reader has a pointer to a block that went back to the
\* allocator, however it came by the pointer: garbage "can't be freed until the
\* last reader that was live when it was in use has released it" (shared.h).
NoPrematureFree ==
  \A r \in Readers \ Unregistered : \A b \in held[r] : where[b] # "free"

\* Every garbage block is in the queue once and nothing else is, so that no
\* block is handed to the allocator twice or lost.
GarbageIsQueued ==
  /\ {garbage[i].memory : i \in DOMAIN garbage} = {b \in Blocks : where[b] = "garbage"}
  /\ \A i, j \in DOMAIN garbage : garbage[i].memory = garbage[j].memory => i = j

\* garbage_collect may stop at the first pending entry, "since it is ordered
\* by cycle": no entry behind it was retired in an earlier cycle.
GarbageOrdered ==
  \A i, j \in DOMAIN garbage : i < j => garbage[i].cycle <= garbage[j].cycle

\* A pid has at most one slot, and a slot in use by a search keeps the pid it
\* was given to: the pointer cached in shm->self never becomes another's.
SlotIsMine ==
  /\ \A s, t \in Slots : slotPid[s] = slotPid[t] /\ slotPid[s] # NoPid => s = t
  /\ \A r \in Readers : self[r] # NoSlot /\ leaving[r] = NoSlot =>
       slotPid[self[r]] = r

\* A live reader loses its slot only by giving it back: "Found a pid belonging
\* to a dead process.  Remove it." (oldest_reader_cycle).
OnlyDeadLoseSlots ==
  [][\A r \in alive : Registered(r) => Registered(r)' \/ leaving'[r] # NoSlot]_vars

\* A registered reader in a search is seen by the master: its published cycle
\* is there and is not after the search began.
SearchIsPublished ==
  \A r \in Readers \ Unregistered : rpc[r] = "reading" =>
    /\ slotCycle[self[r]] # LOST_HORIZON
    /\ Since(cycle, entered[r]) <= Since(cycle, slotCycle[self[r]])

\* The horizon never moves back, nor beyond a cycle some search may need.
HorizonAdvances ==
  [][IntDiff(horizon', horizon) >= 0 /\ Since(cycle, horizon') < IntHalf]_horizon

\* Memory is not leaked: what is retired is in the end given back.
GarbageIsCollected ==
  \A b \in Blocks : where[b] = "garbage" ~> where[b] # "garbage"
=============================================================================
