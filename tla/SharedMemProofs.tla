--------------------------- MODULE SharedMemProofs ---------------------------
(***************************************************************************)
(* No reader of a shared heap holds freed memory, for every number of      *)
(* readers, slots and blocks and every value of the tuning constants that  *)
(* meets Disciplined; and the heap implements GracePeriod.  Only dead      *)
(* readers lose their slots if the master may signal them, Disciplined or  *)
(* not.                                                                    *)
(***************************************************************************)
EXTENDS SharedMem, TLAPS

\* What the code relies on in the processes around it: one search at a time in
\* a reader, readers that attach first, stay mapped and can be signalled; a
\* store is visible within the twilight zone; no lock outlives half an int of
\* cycles; and the 64-bit counter does not wrap.
Disciplined ==
  /\ ~Wraps /\ MaxNest = 1
  /\ Unregistered = {} /\ Detaching = {} /\ Readers \subseteq Signalable
  /\ MaxDelay <= TwilightZone
  /\ MaxSpan + TwilightZone + 1 <= IntHalf

\* No stamp lies in the future.
StampsPast ==
  /\ \A s \in Slots : slotCycle[s] <= cycle
  /\ \A r \in Readers : loaded[r] <= cycle /\ entered[r] <= cycle
  /\ \A i \in DOMAIN garbage : garbage[i].cycle <= cycle
  /\ scan.oldest <= cycle

\* The timing assumptions hold now, not only where WriteLock tests them.
KeptUp ==
  /\ \A s \in Slots : slotPid[s] \in alive /\ slotCycle[s] # LOST_HORIZON =>
       cycle - slotCycle[s] <= MaxSpan
  /\ \A r \in Readers : rpc[r] \in {"loaded", "stored"} => cycle - loaded[r] <= MaxSpan
  /\ \A r \in Readers : rpc[r] = "stored" => cycle - entered[r] <= MaxDelay

\* Cycle 0 is over before there is a reader.
Started ==
  /\ wasLocked \/ Scanning => cycle >= 1
  /\ \A s \in Slots : slotPid[s] # NoPid => cycle >= 1

\* A reader is in a search only with a slot that is its own.
ReaderOK(r) ==
  /\ leaving[r] = NoSlot
  /\ self[r] # NoSlot => r \in alive /\ slotPid[self[r]] = r
  /\ rpc[r] # "idle" => self[r] # NoSlot
  /\ rpc[r] = "idle" <=> depth[r] = 0
  /\ rpc[r] \in {"idle", "loaded"} => held[r] = {}

\* What it published, or is about to, is a real cycle not after its entry.
Published(r) ==
  /\ rpc[r] \in {"loaded", "stored"} => loaded[r] >= 1
  /\ rpc[r] = "stored" => loaded[r] <= entered[r]
  /\ rpc[r] = "reading" => slotCycle[self[r]] \in 1 .. entered[r]

OneSlotEach ==
  \A s, t \in Slots : slotPid[s] = slotPid[t] /\ slotPid[s] # NoPid => s = t

\* A block is owed only to searches that began no later than it was retired.
OwedSince ==
  /\ \A b \in Blocks : owed[b] \subseteq Searching
  /\ \A i \in DOMAIN garbage : \A r \in owed[garbage[i].memory] :
       entered[r] <= garbage[i].cycle

\* Owed or linked: what a search may still touch.
Protected(r, b) == where[b] = "linked" \/ (where[b] = "garbage" /\ r \in owed[b])

\* Everything a search has, and everything a stale pointer it may come to
\* leads to, is protected.
HeldProtected ==
  \A r \in Readers : \A b \in held[r] : Protected(r, b)
LinksProtected ==
  \A b \in Blocks : where[b] = "garbage" =>
    \A r \in owed[b] : \A n \in links[b] : Protected(r, n)

\* The scan's result so far leaves room for every search in a slot it passed.
ScanSound ==
  Scanning =>
    /\ scan.oldest # LOST_HORIZON =>
         scan.age = cycle - scan.oldest /\ scan.age <= MaxSpan
    /\ \A r \in Searching : self[r] < scan.at =>
         NewHorizon <= entered[r] + TwilightZone

IInv ==
  /\ TypeOK /\ StampsPast /\ KeptUp /\ Started
  /\ \A r \in Readers : ReaderOK(r) /\ Published(r)
  /\ OneSlotEach /\ GarbageIsQueued
  /\ OwedSince /\ HeldProtected /\ LinksProtected /\ ScanSound

\* SharedMem implements GracePeriod: read off who is in a search.
Grace == INSTANCE GracePeriod WITH searching <- Searching

\* The garbage queue keeps the promise of GracePeriod (shared.h, garbage_t).
KeepsGracePeriod == Grace!Spec

-----------------------------------------------------------------------------
(* Arithmetic.                                                             *)

LEMMA ModSmall ==
  ASSUME NEW x \in Int, NEW m \in Int, 0 <= x, x < m
  PROVE  x % m = x
  OBVIOUS

LEMMA ModRange ==
  ASSUME NEW x \in Int, NEW m \in Int, 0 < m
  PROVE  x % m \in 0 .. m - 1
  OBVIOUS

\* The truncated difference is the real one while that fits an int.
LEMMA IntDiffExact ==
  ASSUME NEW a \in Int, NEW b \in Int, -IntHalf <= a - b, a - b < IntHalf
  PROVE  IntDiff(a, b) = a - b
<1>1. /\ a - b + IntHalf \in Int /\ 2 * IntHalf \in Int
      /\ 0 <= a - b + IntHalf /\ a - b + IntHalf < 2 * IntHalf
  BY SizesAssumption
<1> QED BY <1>1, ModSmall, SizesAssumption DEF IntDiff

LEMMA IntDiffInt ==
  ASSUME NEW a \in Int, NEW b \in Int
  PROVE  IntDiff(a, b) \in Int
<1>1. a - b + IntHalf \in Int /\ 2 * IntHalf \in Int /\ 0 < 2 * IntHalf
  BY SizesAssumption
<1> QED BY <1>1, ModRange, SizesAssumption DEF IntDiff

LEMMA NextCycleCell ==
  ASSUME NEW c \in Cells
  PROVE  NextCycle(c) \in Cells
<1>1. c + 1 \in Int /\ CellMod \in Int /\ 0 < CellMod /\ CellMod > 2
  BY SizesAssumption DEF Cells
<1>2. (c + 1) % CellMod \in 0 .. CellMod - 1
  BY <1>1, ModRange
<1> QED BY <1>1, <1>2 DEF NextCycle, Cells, LOST_HORIZON

LEMMA NextStrikeRange ==
  ASSUME strike \in 0 .. LazyGC - 1
  PROVE  NextStrike \in 0 .. LazyGC - 1
<1>1. strike + 1 \in Int /\ LazyGC \in Int /\ 0 < LazyGC
  BY SizesAssumption
<1> QED BY <1>1, ModRange DEF NextStrike

\* Until the counter wraps, the cycles from one cell to a later one are their
\* plain difference, and the next cycle is the next number.
LEMMA SinceExact ==
  ASSUME NEW a \in Cells, NEW b \in Cells, b <= a
  PROVE  Since(a, b) = a - b
<1>1. a - b \in Int /\ CellMod \in Int /\ 0 <= a - b /\ a - b < CellMod
  BY SizesAssumption DEF Cells
<1> QED BY <1>1, ModSmall DEF Since

LEMMA NextCycleExact ==
  ASSUME NEW c \in Cells, c + 1 < CellMod
  PROVE  NextCycle(c) = c + 1
<1>1. c \in Int /\ CellMod \in Int /\ 0 <= c + 1 /\ c >= 0
  BY SizesAssumption DEF Cells
<1>2. (c + 1) % CellMod = c + 1
  BY <1>1, ModSmall
<1> QED BY <1>1, <1>2 DEF NextCycle, LOST_HORIZON

-----------------------------------------------------------------------------
(* Types.                                                                  *)

\* TypeOK is inductive with two more facts: pid2reader has one slot to find,
\* and a reader is idle exactly when it has no search open.
TInv ==
  /\ TypeOK
  /\ OneSlotEach
  /\ \A r \in Readers : rpc[r] = "idle" <=> depth[r] = 0

LEMMA MySlotIsSlot ==
  ASSUME TInv, NEW r \in Readers, self[r] # NoSlot \/ Registered(r)
  PROVE  MySlot(r) \in Slots /\ (self[r] = NoSlot => slotPid[MySlot(r)] = r)
<1>1. CASE self[r] # NoSlot
  BY <1>1 DEF MySlot, TInv, TypeOK
<1>2. CASE self[r] = NoSlot
  <2>1. PICK s \in Slots : slotPid[s] = r
    BY <1>2 DEF Registered, SlotsOf
  <2>2. FirstSlot(r, s)
    <3>1. s \in SlotsOf(r)
      BY <2>1 DEF SlotsOf
    <3>2. \A t \in SlotsOf(r) : t = s
      BY <2>1, ReadersAssumption DEF SlotsOf, TInv, OneSlotEach
    <3> QED BY <3>1, <3>2 DEF FirstSlot, Slots
  <2>3. FirstSlot(r, CHOOSE t \in Slots : FirstSlot(r, t)) /\
        (CHOOSE t \in Slots : FirstSlot(r, t)) \in Slots
    BY <2>2
  <2> QED BY <1>2, <2>3 DEF MySlot, FirstSlot, SlotsOf
<1> QED BY <1>1, <1>2

ScanType == [at : 0 .. NSlots + 1, oldest : Cells, age : Int]

LEMMA ScanStepType ==
  ASSUME NEW s \in ScanType, s.at \in Slots
  PROVE  [s EXCEPT !.at = @ + 1] \in ScanType
  BY SizesAssumption DEF ScanType, Slots

LEMMA TypeInit == Init => TInv
<1> SUFFICES ASSUME Init PROVE TInv
  OBVIOUS
<1>1. 0 \in Cells /\ 0 \in 0 .. LazyGC - 1 /\ 0 \in 0 .. NSlots + 1 /\ 0 \in 0 .. MaxNest
  BY SizesAssumption DEF Cells
<1>2. <<>> \in Seq(Entry)
  OBVIOUS
<1>5. scan \in ScanType
  BY <1>1 DEF Init, ScanType, NotScanning, LOST_HORIZON
<1>3. TypeOK
  BY <1>1, <1>2, <1>5 DEF Init, TypeOK, ScanType, LOST_HORIZON, NoSlot
<1>4. OneSlotEach /\ \A r \in Readers : rpc[r] = "idle" <=> depth[r] = 0
  BY DEF Init, OneSlotEach
<1> QED BY <1>3, <1>4 DEF TInv

LEMMA TypeMaster ==
  ASSUME TInv, MasterNext
  PROVE  TInv'
<1> USE DEF TInv
<1> DEFINE Idle == \A r \in Readers : rpc[r] = "idle" <=> depth[r] = 0
<1>1. CASE WriteLock
  BY <1>1, NextCycleCell DEF WriteLock, TypeOK, OneSlotEach, heapVars, readerVars
<1>2. CASE WriteUnlock
  <2>1. [NotScanning EXCEPT !.at = 1] \in ScanType
    BY SizesAssumption DEF NotScanning, ScanType, Cells, LOST_HORIZON
  <2> QED BY <1>2, <2>1, NextStrikeRange
    DEF WriteUnlock, TypeOK, ScanType, OneSlotEach, mapVars, heapVars, readerVars
<1>3. CASE OtherWriteUnlock
  BY <1>3, NextStrikeRange
    DEF OtherWriteUnlock, TypeOK, OneSlotEach, mapVars, heapVars, readerVars
<1>4. CASE ScanEmpty
  <2>1. scan' \in ScanType
    BY <1>4, ScanStepType DEF ScanEmpty, TypeOK, ScanType
  <2> QED BY <1>4, <2>1 DEF ScanEmpty, TypeOK, ScanType, OneSlotEach, mapVars, heapVars, readerVars
<1>5. CASE ScanDead
  <2>1. 0 \in Cells /\ NoPid \in Readers \cup {NoPid}
    BY SizesAssumption DEF Cells
  <2>4. scan' \in ScanType
    BY <1>5, ScanStepType DEF ScanDead, TypeOK, ScanType
  <2>2. TypeOK'
    BY <1>5, <2>1, <2>4 DEF ScanDead, TypeOK, ScanType, heapVars, readerVars, LOST_HORIZON
  <2>3. OneSlotEach' /\ Idle'
    BY <1>5 DEF ScanDead, TypeOK, OneSlotEach, heapVars, readerVars
  <2> QED BY <2>2, <2>3
<1>6. CASE ScanReader
  <2>5. scan.at \in Slots
    BY <1>6 DEF ScanReader
  <2>6. slotCycle \in [Slots -> Cells] /\ cycle \in Cells
    BY DEF TypeOK
  <2>7. slotCycle[scan.at] \in Cells /\ cycle \in Cells
    BY <2>5, <2>6
  <2>8. scan.at + 1 \in 0 .. NSlots + 1
    BY <2>5, SizesAssumption DEF Slots
  <2>1. /\ slotCycle[scan.at] \in Cells /\ cycle \in Cells
        /\ scan.at + 1 \in 0 .. NSlots + 1
    BY <2>7, <2>8
  <2>4. cycle \in Int /\ slotCycle[scan.at] \in Int
    BY <2>1, SizesAssumption DEF Cells
  <2>2. IntDiff(cycle, slotCycle[scan.at]) \in Int
    BY <2>4, IntDiffInt
  <2>3. scan' \in ScanType
    BY <1>6, <2>1, <2>2 DEF ScanReader, TypeOK, ScanType
  <2> QED BY <1>6, <2>3 DEF ScanReader, TypeOK, ScanType, OneSlotEach, mapVars, heapVars, readerVars
<1>7. CASE Collect
  <2>1. scan' \in ScanType
    BY <1>7, SizesAssumption DEF Collect, NotScanning, ScanType, Cells, LOST_HORIZON
  <2>2. NewHorizon \in Cells
    BY DEF NewHorizon, TypeOK
  <2>3. ASSUME NEW n \in 0 .. Len(garbage), FreeFront(n)
        PROVE  garbage' \in Seq(Entry) /\ where' \in [Blocks -> {"free", "linked", "garbage"}]
    BY <2>3 DEF FreeFront, TypeOK
  <2> QED BY <1>7, <2>1, <2>2, <2>3 DEF Collect, TypeOK, ScanType, OneSlotEach, mapVars, readerVars
<1>8. ASSUME NEW b \in Blocks, Link(b)
      PROVE  TInv'
  BY <1>8 DEF Link, TypeOK, OneSlotEach, mapVars, masterVars, readerVars
<1>9. ASSUME NEW b \in Blocks, Retire(b)
      PROVE  TInv'
  <2>1. garbage' \in Seq(Entry)
    BY <1>9 DEF Retire, Enqueue, TypeOK, Entry
  <2>2. owed' \in [Blocks -> SUBSET Readers]
    BY <1>9 DEF Retire, Searching, TypeOK
  <2> QED BY <1>9, <2>1, <2>2 DEF Retire, TypeOK, OneSlotEach, mapVars, readerVars
<1>10. ASSUME NEW r \in Readers, Attach(r)
       PROVE  TInv'
  <2>1. PICK s \in Slots :
          /\ slotPid' = [slotPid EXCEPT ![s] = r]
          /\ slotCycle' = [slotCycle EXCEPT ![s] = LOST_HORIZON]
    BY <1>10 DEF Attach
  <2>2. \A t \in Slots : slotPid[t] # r
    BY <1>10 DEF Attach, Registered, SlotsOf
  <2>3. 0 \in Cells
    BY SizesAssumption DEF Cells
  <2>4. TypeOK'
    BY <1>10, <2>1, <2>3 DEF Attach, TypeOK, masterVars, heapVars, readerVars, LOST_HORIZON
  <2>5. OneSlotEach' /\ Idle'
    BY <1>10, <2>1, <2>2 DEF Attach, TypeOK, OneSlotEach, readerVars
  <2> QED BY <2>4, <2>5
<1> QED BY <1>1, <1>2, <1>3, <1>4, <1>5, <1>6, <1>7, <1>8, <1>9, <1>10 DEF MasterNext

LEMMA TypeReader ==
  ASSUME TInv, NEW r \in Readers, ReaderNext(r)
  PROVE  TInv'
<1> USE DEF TInv
<1> DEFINE Idle == \A q \in Readers : rpc[q] = "idle" <=> depth[q] = 0
<1>0. 0 \in Cells /\ 0 \in 0 .. MaxNest /\ MaxNest \in Nat
  BY SizesAssumption DEF Cells
<1>1. CASE ReadLockLoad(r)
  <2>1. MySlot(r) \in Slots
    BY <1>1, MySlotIsSlot DEF ReadLockLoad
  <2>2. depth[r] + 1 \in 1 .. MaxNest
    BY <1>0, <1>1 DEF ReadLockLoad, CanSearch, TypeOK
  <2>3. TypeOK'
    BY <1>1, <2>1, <2>2 DEF ReadLockLoad, TypeOK, mapVars, masterVars, heapVars
  <2>4. Idle'
    BY <1>1, <2>2 DEF ReadLockLoad, TypeOK
  <2> QED BY <1>1, <2>3, <2>4 DEF ReadLockLoad, OneSlotEach, mapVars
<1>2. CASE ReadLockFails(r)
  <2>2. depth[r] + 1 \in 1 .. MaxNest
    BY <1>0, <1>2 DEF ReadLockFails, CanSearch, TypeOK
  <2>3. TypeOK'
    BY <1>2, <2>2 DEF ReadLockFails, TypeOK, mapVars, masterVars, heapVars
  <2>4. Idle'
    BY <1>2, <2>2 DEF ReadLockFails, TypeOK
  <2> QED BY <1>2, <2>3, <2>4 DEF ReadLockFails, OneSlotEach, mapVars
<1>3. CASE ReadLockStore(r)
  BY <1>3 DEF ReadLockStore, TypeOK, OneSlotEach, mapVars, masterVars, heapVars
<1>4. CASE Drain(r)
  <2>1. TypeOK'
    BY <1>0, <1>4 DEF Drain, TypeOK, masterVars, heapVars, LOST_HORIZON
  <2> QED BY <1>4, <2>1 DEF Drain, TypeOK, OneSlotEach
<1>5. ASSUME NEW b \in Blocks, Follow(r, b)
      PROVE  TInv'
  BY <1>5 DEF Follow, TypeOK, OneSlotEach, mapVars, masterVars, heapVars
<1>6. CASE ReadUnlock(r)
  <2>1. depth[r] \in 1 .. MaxNest
    BY <1>0, <1>6 DEF ReadUnlock, TypeOK
  <2>2. depth[r] - 1 \in 0 .. MaxNest /\ (depth[r] - 1 = 0 <=> depth[r] = 1)
    BY <1>0, <2>1
  <2>3. slotCycle' \in [Slots -> Cells]
    BY <1>0, <1>6 DEF ReadUnlock, TypeOK, LOST_HORIZON
  <2>4. /\ held' \in [Readers -> SUBSET Blocks] /\ entered' \in [Readers -> Cells]
        /\ owed' \in [Blocks -> SUBSET Readers]
    <3>1. CASE depth[r] = 1
      <4>1. Forget(r)
        BY <1>6, <3>1 DEF ReadUnlock
      <4> QED BY <1>0, <4>1 DEF Forget, TypeOK, LOST_HORIZON
    <3>2. CASE depth[r] # 1
      BY <1>6, <3>2 DEF ReadUnlock, TypeOK
    <3> QED BY <3>1, <3>2
  <2>5. /\ depth' \in [Readers -> 0 .. MaxNest]
        /\ rpc' \in [Readers -> {"idle", "loaded", "stored", "reading"}]
        /\ loaded' \in [Readers -> Cells]
    BY <1>0, <1>6, <2>2 DEF ReadUnlock, TypeOK, LOST_HORIZON
  <2>6. TypeOK'
    BY <1>6, <2>3, <2>4, <2>5 DEF ReadUnlock, TypeOK, masterVars
  <2>7. Idle'
    BY <1>6, <2>2 DEF ReadUnlock, TypeOK
  <2> QED BY <1>6, <2>6, <2>7 DEF ReadUnlock, OneSlotEach
<1>7. CASE DetachPid(r)
  BY <1>7 DEF DetachPid, TypeOK, OneSlotEach, masterVars, heapVars
<1>8. CASE DetachCycle(r)
  BY <1>0, <1>8 DEF DetachCycle, TypeOK, OneSlotEach, masterVars, heapVars, LOST_HORIZON
<1>9. CASE Die(r)
  <2>1. TypeOK'
    BY <1>0, <1>9 DEF Die, Forget, TypeOK, mapVars, masterVars, LOST_HORIZON, NoSlot
  <2> QED BY <1>9, <2>1 DEF Die, TypeOK, OneSlotEach, mapVars
<1>10. CASE Reuse(r)
  BY <1>10 DEF Reuse, TypeOK, OneSlotEach, mapVars, masterVars, heapVars
<1> QED BY <1>1, <1>2, <1>3, <1>4, <1>5, <1>6, <1>7, <1>8, <1>9, <1>10 DEF ReaderNext

LEMMA TypeStutter ==
  ASSUME TInv, UNCHANGED vars
  PROVE  TInv'
  BY DEF TInv, TypeOK, OneSlotEach, vars, mapVars, masterVars, heapVars, readerVars

\* Whatever the processes around it do, nested searches, detaching readers and
\* wrapping counters included, every cell, slot and queue entry keeps the type
\* shared.h declares, and no pid gets a second slot.
THEOREM TypeCorrect == Spec => [](TypeOK /\ OneSlotEach)
<1>1. Init => TInv
  BY TypeInit
<1>2. TInv /\ [Next]_vars => TInv'
  BY TypeMaster, TypeReader, TypeStutter DEF Next
<1>3. TInv => TypeOK /\ OneSlotEach
  BY DEF TInv
<1> QED BY <1>1, <1>2, <1>3, PTL DEF Spec

-----------------------------------------------------------------------------
(* The steps of the master.                                                *)

LEMMA Facts ==
  ASSUME Disciplined, IInv
  PROVE  /\ TInv
         /\ cycle \in Nat /\ scan.oldest \in Nat /\ scan.at \in Nat /\ scan.age \in Int
         /\ \A s \in Slots : s \in Nat /\ s >= 1 /\ slotCycle[s] \in Nat
         /\ \A r \in Readers : loaded[r] \in Nat /\ entered[r] \in Nat
         /\ \A r \in Readers : depth[r] \in {0, 1} /\ r # NoPid
         /\ \A i \in DOMAIN garbage : garbage[i] \in Entry /\ garbage[i].cycle \in Nat
         /\ Searching = {r \in Readers : rpc[r] \in {"stored", "reading"}}
         /\ \A r \in Searching : r \in alive /\ self[r] \in Slots /\ slotPid[self[r]] = r
         /\ \A r \in Searching : entered[r] >= 1
<1>1. TInv
  BY DEF IInv, TInv, ReaderOK
<1>2. \A x \in Cells : x \in Nat
  BY SizesAssumption DEF Cells
<1>3. /\ cycle \in Nat /\ scan.oldest \in Nat /\ scan.at \in Nat /\ scan.age \in Int
      /\ \A s \in Slots : s \in Nat /\ s >= 1 /\ slotCycle[s] \in Nat
      /\ \A r \in Readers : loaded[r] \in Nat /\ entered[r] \in Nat
  BY <1>1, <1>2, SizesAssumption DEF TInv, TypeOK, Slots
<1>4. \A r \in Readers : depth[r] \in {0, 1} /\ r # NoPid
  BY <1>1, ReadersAssumption DEF TInv, TypeOK, Disciplined
<1>5. \A i \in DOMAIN garbage : garbage[i] \in Entry /\ garbage[i].cycle \in Nat
  <2>1. \A i \in DOMAIN garbage : garbage[i] \in Entry
    BY <1>1 DEF TInv, TypeOK
  <2> QED BY <1>2, <2>1 DEF Entry
<1>6. Searching = {r \in Readers : rpc[r] \in {"stored", "reading"}}
  BY <1>4 DEF Searching
<1>7. \A r \in Searching : r \in alive /\ self[r] \in Slots /\ slotPid[self[r]] = r
  BY <1>1, <1>6 DEF IInv, ReaderOK, TInv, TypeOK
<1>8. \A r \in Searching : entered[r] >= 1
  BY <1>3, <1>6, <1>7 DEF IInv, Published
<1> QED BY <1>1, <1>3, <1>4, <1>5, <1>6, <1>7, <1>8

LEMMA StepWriteLock ==
  ASSUME Disciplined, IInv, WriteLock
  PROVE  IInv'
<1>0. TInv' /\ TInv
  BY Facts, TypeMaster DEF MasterNext
<1>1. cycle' = cycle + 1 /\ cycle \in Cells /\ cycle + 1 \in Cells /\ cycle \in Nat
  BY Facts, NextCycleExact, SizesAssumption DEF WriteLock, Disciplined, TInv, TypeOK, Cells
<1>2. NextCycle(cycle) = cycle + 1
  BY <1>1 DEF WriteLock
<1>3. \A c \in Cells : c <= cycle => Since(cycle + 1, c) = cycle + 1 - c
  BY <1>1, SinceExact, SizesAssumption DEF Cells
<1>4. StampsPast' /\ Started'
  BY <1>0, <1>1, Facts DEF WriteLock, IInv, StampsPast, Started, heapVars, readerVars, Scanning
<1>5. KeptUp'
  <2>1. ASSUME NEW s \in Slots, slotPid[s] \in alive, slotCycle[s] # LOST_HORIZON
        PROVE  cycle + 1 - slotCycle[s] <= MaxSpan
    BY <1>0, <1>2, <1>3, <2>1 DEF WriteLock, ReadersKeepUp, IInv, StampsPast, TInv, TypeOK
  <2>2. ASSUME NEW r \in Readers, rpc[r] \in {"loaded", "stored"}
        PROVE  cycle + 1 - loaded[r] <= MaxSpan
    BY <1>0, <1>2, <1>3, <2>2 DEF WriteLock, ReadersKeepUp, IInv, StampsPast, TInv, TypeOK
  <2>3. ASSUME NEW r \in Readers, rpc[r] = "stored"
        PROVE  cycle + 1 - entered[r] <= MaxDelay
    BY <1>0, <1>2, <1>3, <2>3 DEF WriteLock, ReadersKeepUp, IInv, StampsPast, TInv, TypeOK
  <2>4. /\ cycle' = cycle + 1 /\ slotPid' = slotPid /\ slotCycle' = slotCycle
        /\ alive' = alive /\ rpc' = rpc /\ loaded' = loaded /\ entered' = entered
    BY <1>1 DEF WriteLock, readerVars
  <2>5. \A s \in Slots : slotPid'[s] \in alive' /\ slotCycle'[s] # LOST_HORIZON =>
          cycle' - slotCycle'[s] <= MaxSpan
    BY <1>1, <2>1, <2>4, Facts
  <2>6. \A r \in Readers : rpc'[r] \in {"loaded", "stored"} => cycle' - loaded'[r] <= MaxSpan
    BY <1>1, <2>2, <2>4, Facts
  <2>7. \A r \in Readers : rpc'[r] = "stored" => cycle' - entered'[r] <= MaxDelay
    BY <1>1, <2>3, <2>4, Facts
  <2> QED BY <2>5, <2>6, <2>7 DEF KeptUp
<1>6. ScanSound'
  BY DEF WriteLock, ScanSound, Scanning
<1>7. \A r \in Readers : ReaderOK(r)' /\ Published(r)'
  BY DEF WriteLock, IInv, ReaderOK, Published, readerVars
<1>8. GarbageIsQueued' /\ OwedSince' /\ HeldProtected' /\ LinksProtected'
  BY DEF WriteLock, IInv, GarbageIsQueued, OwedSince, HeldProtected, LinksProtected,
         Protected, Searching, heapVars, readerVars
<1> QED BY <1>0, <1>4, <1>5, <1>6, <1>7, <1>8 DEF IInv, TInv

LEMMA StepLink ==
  ASSUME Disciplined, IInv, NEW b \in Blocks, Link(b)
  PROVE  IInv'
<1>0. TInv' /\ TInv
  BY Facts, TypeMaster DEF MasterNext
<1>1. \A i \in DOMAIN garbage : garbage[i].memory # b /\ garbage[i].memory \in Blocks
  BY Facts DEF Link, IInv, GarbageIsQueued, Entry
<1>2. StampsPast' /\ KeptUp' /\ Started' /\ ScanSound'
  BY DEF Link, IInv, StampsPast, KeptUp, Started, ScanSound, Scanning, mapVars,
         masterVars, readerVars
<1>3. \A r \in Readers : ReaderOK(r)' /\ Published(r)'
  BY DEF Link, IInv, ReaderOK, Published, mapVars, readerVars
<1>4. GarbageIsQueued'
  BY <1>0, <1>1 DEF Link, IInv, GarbageIsQueued, masterVars, TInv, TypeOK
<1>5. Searching' = Searching
  BY DEF Link, Searching, readerVars
<1>6. OwedSince'
  BY <1>0, <1>1, <1>5 DEF Link, IInv, OwedSince, masterVars, readerVars, TInv, TypeOK
<1>7. \A r \in Readers : \A c \in Blocks : Protected(r, c) => Protected(r, c)'
  BY <1>0 DEF Link, Protected, TInv, TypeOK
<1>8. HeldProtected'
  BY <1>0, <1>7 DEF Link, IInv, HeldProtected, readerVars, TInv, TypeOK
<1>9. LinksProtected'
  BY <1>0, <1>7 DEF Link, IInv, LinksProtected, TInv, TypeOK
<1> QED BY <1>0, <1>2, <1>3, <1>4, <1>6, <1>8, <1>9 DEF IInv, TInv

LEMMA StepRetire ==
  ASSUME Disciplined, IInv, NEW b \in Blocks, Retire(b)
  PROVE  IInv'
<1>0. TInv' /\ TInv
  BY Facts, TypeMaster DEF MasterNext
<1>1. \A i \in DOMAIN garbage : garbage[i].memory # b /\ garbage[i].memory \in Blocks
  BY Facts DEF Retire, IInv, GarbageIsQueued, Entry
<1>2. /\ DOMAIN garbage = 1 .. Len(garbage) /\ DOMAIN garbage' = 1 .. Len(garbage) + 1
      /\ Len(garbage) \in Nat
      /\ \A i \in DOMAIN garbage : garbage'[i] = garbage[i]
      /\ garbage'[Len(garbage) + 1] = [cycle |-> cycle, memory |-> b]
  BY <1>0 DEF Retire, Enqueue, TInv, TypeOK
<1>3. StampsPast'
  BY <1>2, Facts DEF Retire, IInv, StampsPast, mapVars, readerVars
<1>4. KeptUp' /\ Started' /\ ScanSound'
  BY DEF Retire, IInv, KeptUp, Started, ScanSound, Scanning, mapVars, readerVars
<1>5. \A r \in Readers : ReaderOK(r)' /\ Published(r)'
  BY DEF Retire, IInv, ReaderOK, Published, mapVars, readerVars
<1>6. GarbageIsQueued'
  <2>1. {garbage'[i].memory : i \in DOMAIN garbage'} =
        {garbage[i].memory : i \in DOMAIN garbage} \cup {b}
    BY <1>2
  <2>2. {c \in Blocks : where'[c] = "garbage"} =
        {c \in Blocks : where[c] = "garbage"} \cup {b}
    BY <1>0 DEF Retire, TInv, TypeOK
  <2>3. \A i, j \in DOMAIN garbage' : garbage'[i].memory = garbage'[j].memory => i = j
    BY <1>1, <1>2 DEF IInv, GarbageIsQueued
  <2> QED BY <2>1, <2>2, <2>3 DEF IInv, GarbageIsQueued
<1>7. Searching' = Searching
  BY DEF Retire, Searching, readerVars
<1>8. OwedSince'
  <2>1. \A c \in Blocks : owed'[c] \subseteq Searching'
    BY <1>0, <1>7 DEF Retire, IInv, OwedSince, TInv, TypeOK
  <2>2. ASSUME NEW i \in DOMAIN garbage', NEW r \in owed'[garbage'[i].memory]
        PROVE  entered'[r] <= garbage'[i].cycle
    <3>1. CASE i \in DOMAIN garbage
      BY <1>0, <1>1, <1>2, <2>2, <3>1 DEF Retire, IInv, OwedSince, readerVars, TInv, TypeOK
    <3>2. CASE i = Len(garbage) + 1
      BY <1>0, <1>2, <2>2, <3>2, Facts
        DEF Retire, IInv, StampsPast, readerVars, TInv, TypeOK
    <3> QED BY <1>2, <3>1, <3>2
  <2> QED BY <2>1, <2>2 DEF OwedSince
<1>9. ASSUME NEW r \in Searching, NEW c \in Blocks, Protected(r, c)
      PROVE  Protected(r, c)'
  BY <1>0, <1>9 DEF Retire, Protected, TInv, TypeOK
<1>10. HeldProtected'
  <2>1. \A r \in Readers : held[r] # {} => r \in Searching
    BY <1>0, Facts DEF IInv, ReaderOK, TInv, TypeOK
  <2> QED BY <1>0, <1>9, <2>1 DEF Retire, IInv, HeldProtected, readerVars, TInv, TypeOK
<1>11. LinksProtected'
  <2>1. ASSUME NEW c \in Blocks, where'[c] = "garbage", NEW r \in owed'[c],
               NEW n \in links'[c]
        PROVE  Protected(r, n)'
    <3>1. CASE c = b
      BY <1>0, <2>1, <3>1 DEF Retire, Protected, TInv, TypeOK
    <3>2. CASE c # b
      <4>1. where[c] = "garbage" /\ r \in owed[c] /\ n \in links[c] /\ n \in Blocks
        BY <1>0, <2>1, <3>2 DEF Retire, TInv, TypeOK
      <4>2. r \in Searching /\ Protected(r, n)
        BY <4>1 DEF IInv, LinksProtected, OwedSince
      <4> QED BY <1>9, <4>1, <4>2
    <3> QED BY <3>1, <3>2
  <2> QED BY <2>1 DEF LinksProtected
<1> QED BY <1>0, <1>3, <1>4, <1>5, <1>6, <1>8, <1>10, <1>11 DEF IInv, TInv

LEMMA StepAttach ==
  ASSUME Disciplined, IInv, NEW r \in Readers, Attach(r)
  PROVE  IInv'
<1>0. TInv' /\ TInv
  BY Facts, TypeMaster DEF MasterNext
<1>1. PICK s \in Slots :
        /\ slotPid[s] = NoPid
        /\ slotPid' = [slotPid EXCEPT ![s] = r]
        /\ slotCycle' = [slotCycle EXCEPT ![s] = LOST_HORIZON]
  BY DEF Attach, FirstSlot, SlotsOf
<1>2. StampsPast' /\ KeptUp'
  BY <1>0, <1>1, Facts
    DEF Attach, IInv, StampsPast, KeptUp, masterVars, readerVars, TInv, TypeOK, LOST_HORIZON
<1>3. Started' /\ ScanSound'
  BY <1>0, <1>1
    DEF Attach, IInv, Started, ScanSound, Scanning, masterVars, readerVars, TInv, TypeOK
<1>4. \A q \in Readers : self[q] # s
  BY <1>1, Facts DEF IInv, ReaderOK, Slots, NoSlot
<1>5. \A q \in Readers : ReaderOK(q)' /\ Published(q)'
  BY <1>0, <1>1, <1>4 DEF Attach, IInv, ReaderOK, Published, readerVars, TInv, TypeOK
<1>6. GarbageIsQueued' /\ OwedSince' /\ HeldProtected' /\ LinksProtected'
  BY DEF Attach, IInv, GarbageIsQueued, OwedSince, HeldProtected, LinksProtected,
         Protected, Searching, masterVars, heapVars, readerVars
<1> QED BY <1>0, <1>2, <1>3, <1>5, <1>6 DEF IInv, TInv

LEMMA StepUnlock ==
  ASSUME Disciplined, IInv, WriteUnlock \/ OtherWriteUnlock
  PROVE  IInv'
<1>0. TInv' /\ TInv
  BY Facts, TypeMaster DEF MasterNext
<1>1. CASE WriteUnlock
  <2>1. scan' = scan \/ scan' = [at |-> 1, oldest |-> LOST_HORIZON, age |-> 0]
    BY <1>1 DEF WriteUnlock, NotScanning
  <2>2. scan'.oldest <= cycle
    <3>1. CASE scan' = scan
      BY <3>1 DEF IInv, StampsPast
    <3>2. CASE scan' # scan
      BY <2>1, <3>2, Facts DEF LOST_HORIZON
    <3> QED BY <3>1, <3>2
  <2>7. StampsPast' /\ KeptUp' /\ Started'
    BY <1>1, <2>2 DEF WriteUnlock, IInv, StampsPast, KeptUp, Started, Scanning,
       mapVars, heapVars, readerVars
  <2>3. Searching' = Searching
    BY <1>1 DEF WriteUnlock, Searching, readerVars
  <2>4. ScanSound'
    <3>1. CASE scan' = scan
      BY <1>1, <3>1 DEF WriteUnlock, ScanSound, Scanning
    <3>2. CASE scan' = [at |-> 1, oldest |-> LOST_HORIZON, age |-> 0]
      <4>1. \A r \in Searching' : self'[r] \in Nat /\ self'[r] >= 1
        BY <1>1, <2>3, Facts DEF WriteUnlock, readerVars
      <4> QED BY <3>2, <4>1 DEF ScanSound
    <3> QED BY <2>1, <3>1, <3>2
  <2>5. \A r \in Readers : ReaderOK(r)' /\ Published(r)'
    BY <1>1 DEF WriteUnlock, IInv, ReaderOK, Published, mapVars, readerVars
  <2>6. GarbageIsQueued' /\ OwedSince' /\ HeldProtected' /\ LinksProtected'
    BY <1>1, <2>3 DEF WriteUnlock, IInv, GarbageIsQueued, OwedSince, HeldProtected,
       LinksProtected, Protected, heapVars, readerVars
  <2> QED BY <1>0, <2>4, <2>5, <2>6, <2>7 DEF IInv, TInv
<1>2. CASE OtherWriteUnlock
  <2>1. StampsPast' /\ KeptUp' /\ Started' /\ ScanSound'
    BY <1>2 DEF OtherWriteUnlock, IInv, StampsPast, KeptUp, Started, ScanSound, Scanning,
       mapVars, heapVars, readerVars
  <2>2. \A r \in Readers : ReaderOK(r)' /\ Published(r)'
    BY <1>2 DEF OtherWriteUnlock, IInv, ReaderOK, Published, mapVars, readerVars
  <2>3. GarbageIsQueued' /\ OwedSince' /\ HeldProtected' /\ LinksProtected'
    BY <1>2 DEF OtherWriteUnlock, IInv, GarbageIsQueued, OwedSince, HeldProtected,
       LinksProtected, Protected, Searching, heapVars, readerVars
  <2> QED BY <1>0, <2>1, <2>2, <2>3 DEF IInv, TInv
<1> QED BY <1>1, <1>2

\* A scan that passes the slot it is at without touching its result is sound
\* if no search uses that slot, or the result already leaves room for it.
LEMMA ScanPasses ==
  ASSUME Disciplined, IInv, Scanning,
         scan'.at = scan.at + 1, scan'.oldest = scan.oldest, scan'.age = scan.age,
         cycle' = cycle, rpc' = rpc, depth' = depth, self' = self, entered' = entered,
         \A r \in Searching : self[r] = scan.at => NewHorizon <= entered[r] + TwilightZone
  PROVE  ScanSound'
<1>1. Searching' = Searching /\ NewHorizon' = NewHorizon
  BY DEF Searching, NewHorizon
<1>2. \A r \in Searching : self[r] < scan.at + 1 => self[r] < scan.at \/ self[r] = scan.at
  BY Facts
<1> QED BY <1>1, <1>2 DEF ScanSound, IInv

LEMMA StepScanEmpty ==
  ASSUME Disciplined, IInv, ScanEmpty
  PROVE  IInv'
<1>0. TInv' /\ TInv
  BY Facts, TypeMaster DEF MasterNext
<1>1. /\ scan'.at = scan.at + 1 /\ scan'.oldest = scan.oldest /\ scan'.age = scan.age
      /\ Scanning
  BY <1>0, Facts DEF ScanEmpty, TInv, TypeOK, Scanning
<1>2. \A r \in Searching : self[r] # scan.at
  BY Facts DEF ScanEmpty, Searching
<1>3. ScanSound'
  BY <1>1, <1>2, ScanPasses DEF ScanEmpty, mapVars, readerVars
<1>4. StampsPast' /\ KeptUp' /\ Started'
  BY <1>1 DEF ScanEmpty, IInv, StampsPast, KeptUp, Started, mapVars, heapVars, readerVars
<1>5. \A r \in Readers : ReaderOK(r)' /\ Published(r)'
  BY DEF ScanEmpty, IInv, ReaderOK, Published, mapVars, readerVars
<1>6. GarbageIsQueued' /\ OwedSince' /\ HeldProtected' /\ LinksProtected'
  BY DEF ScanEmpty, IInv, GarbageIsQueued, OwedSince, HeldProtected,
     LinksProtected, Protected, Searching, heapVars, readerVars
<1> QED BY <1>0, <1>3, <1>4, <1>5, <1>6 DEF IInv, TInv

LEMMA StepScanDead ==
  ASSUME Disciplined, IInv, ScanDead
  PROVE  IInv'
<1>0. TInv' /\ TInv
  BY Facts, TypeMaster DEF MasterNext
<1>1. /\ scan'.at = scan.at + 1 /\ scan'.oldest = scan.oldest /\ scan'.age = scan.age
      /\ Scanning
  BY <1>0, Facts DEF ScanDead, TInv, TypeOK, Scanning
<1>2. slotPid[scan.at] \notin alive
  BY <1>0 DEF ScanDead, KillFails, Disciplined, TInv, TypeOK
<1>3. \A r \in Readers : self[r] # scan.at
  BY <1>2 DEF IInv, ReaderOK, ScanDead, Slots, NoSlot
<1>4. ScanSound'
  BY <1>1, <1>3, ScanPasses DEF ScanDead, Searching, readerVars
<1>5. StampsPast' /\ KeptUp'
  BY <1>0, <1>1, Facts DEF ScanDead, IInv, StampsPast, KeptUp, TInv, TypeOK, readerVars,
     LOST_HORIZON
<1>6. Started'
  BY <1>0, <1>1, Facts DEF ScanDead, IInv, Started, TInv, TypeOK
<1>7. \A r \in Readers : ReaderOK(r)' /\ Published(r)'
  BY <1>0, <1>3 DEF ScanDead, IInv, ReaderOK, Published, TInv, TypeOK, readerVars
<1>8. GarbageIsQueued' /\ OwedSince' /\ HeldProtected' /\ LinksProtected'
  BY DEF ScanDead, IInv, GarbageIsQueued, OwedSince, HeldProtected,
     LinksProtected, Protected, Searching, heapVars, readerVars
<1> QED BY <1>0, <1>4, <1>5, <1>6, <1>7, <1>8 DEF IInv, TInv

LEMMA StepScanReader ==
  ASSUME Disciplined, IInv, ScanReader
  PROVE  IInv'
<1>0. TInv' /\ TInv
  BY Facts, TypeMaster DEF MasterNext
<1> DEFINE c   == slotCycle[scan.at]
           age == IntDiff(cycle, c)
<1>1. /\ scan.at \in Slots /\ Scanning /\ slotPid[scan.at] \in alive
      /\ c \in Nat /\ c <= cycle /\ cycle \in Nat
  BY Facts DEF ScanReader, KillFails, IInv, StampsPast, Scanning
<1>2. c # LOST_HORIZON => age = cycle - c /\ age <= MaxSpan
  <2>1. c # LOST_HORIZON => cycle - c <= MaxSpan
    BY <1>1 DEF IInv, KeptUp
  <2>2. MaxSpan < IntHalf /\ IntHalf \in Nat /\ MaxSpan \in Nat
    BY SizesAssumption DEF Disciplined
  <2>3. ASSUME c # LOST_HORIZON
        PROVE  age = cycle - c
    BY <1>1, <2>1, <2>2, <2>3, IntDiffExact
  <2> QED BY <2>1, <2>3
<1>3. \A r \in Searching : self[r] = scan.at =>
        \/ rpc[r] = "reading" /\ c # LOST_HORIZON /\ c <= entered[r]
        \/ rpc[r] = "stored" /\ cycle <= entered[r] + TwilightZone
  <2>1. ASSUME NEW r \in Searching, self[r] = scan.at, rpc[r] = "reading"
        PROVE  c # LOST_HORIZON /\ c <= entered[r]
    BY <2>1, Facts DEF IInv, Published, LOST_HORIZON
  <2>2. ASSUME NEW r \in Searching, rpc[r] = "stored"
        PROVE  cycle <= entered[r] + TwilightZone
    <3>1. r \in Readers /\ entered[r] \in Nat
      BY Facts
    <3>2. cycle - entered[r] <= MaxDelay /\ MaxDelay <= TwilightZone
      BY <2>2, <3>1 DEF IInv, KeptUp, Disciplined
    <3> QED BY <1>1, <3>1, <3>2, SizesAssumption
  <2> QED BY <2>1, <2>2, Facts
<1>4. NewHorizon <= cycle /\ NewHorizon \in Nat
  BY <1>1, Facts DEF NewHorizon, IInv, StampsPast
<1>5. StampsPast'
  <2>1. scan'.oldest <= cycle
    BY <1>0, <1>1 DEF ScanReader, IInv, StampsPast, TInv, TypeOK
  <2> QED BY <2>1 DEF ScanReader, IInv, StampsPast, mapVars, readerVars
<1>6. ScanSound'
  <2>1. CASE c # LOST_HORIZON /\ IsOldest(age)
    <3>1. scan' = [at |-> scan.at + 1, oldest |-> c, age |-> age]
      BY <2>1 DEF ScanReader
    <3>2. c <= NewHorizon
      BY <1>1, <1>2, <2>1, Facts DEF IsOldest, NewHorizon, IInv, ScanSound
    <3>3. NewHorizon' = c /\ Searching' = Searching
      BY <2>1, <3>1 DEF ScanReader, NewHorizon, Searching, readerVars
    <3>4. ASSUME NEW r \in Searching, self[r] < scan.at + 1
          PROVE  c <= entered[r] + TwilightZone
      <4>1. self[r] < scan.at \/ self[r] = scan.at
        BY <3>4, Facts
      <4>2. CASE self[r] < scan.at
        <5>1. NewHorizon <= entered[r] + TwilightZone
          BY <1>1, <4>2 DEF IInv, ScanSound
        <5> QED BY <1>1, <1>4, <3>2, <5>1, Facts, SizesAssumption
      <4>3. CASE self[r] = scan.at
        BY <1>1, <1>3, <4>3, Facts, SizesAssumption
      <4> QED BY <4>1, <4>2, <4>3
    <3>5. cycle' = cycle /\ self' = self /\ entered' = entered
      BY DEF ScanReader, mapVars, readerVars
    <3> QED BY <1>2, <2>1, <3>1, <3>3, <3>4, <3>5 DEF ScanSound
  <2>2. CASE ~(c # LOST_HORIZON /\ IsOldest(age))
    <3>1. /\ scan'.at = scan.at + 1 /\ scan'.oldest = scan.oldest
          /\ scan'.age = scan.age
      BY <1>0, <2>2 DEF ScanReader, TInv, TypeOK
    <3>2. ASSUME NEW r \in Searching, self[r] = scan.at
          PROVE  NewHorizon <= entered[r] + TwilightZone
      <4>1. r \in Readers /\ entered[r] \in Nat
        BY Facts
      <4>2. CASE rpc[r] = "reading"
        <5>1. c # LOST_HORIZON /\ c <= entered[r]
          BY <1>3, <3>2, <4>2
        <5>2. scan.oldest # LOST_HORIZON /\ ~(age >= scan.age)
          BY <2>2, <5>1 DEF IsOldest
        <5>3. NewHorizon = scan.oldest /\ scan.age = cycle - scan.oldest
          BY <1>1, <5>2 DEF NewHorizon, IInv, ScanSound
        <5>4. scan.oldest < c
          BY <1>1, <1>2, <5>1, <5>2, <5>3, Facts
        <5> QED BY <1>1, <4>1, <5>1, <5>3, <5>4, Facts, SizesAssumption
      <4>3. CASE rpc[r] = "stored"
        BY <1>1, <1>3, <1>4, <3>2, <4>1, <4>3, SizesAssumption
      <4> QED BY <1>3, <3>2, <4>2, <4>3
    <3> QED BY <1>1, <3>1, <3>2, ScanPasses DEF ScanReader, mapVars, readerVars
  <2> QED BY <2>1, <2>2
<1>7. KeptUp' /\ Started'
  BY <1>1 DEF ScanReader, IInv, KeptUp, Started, mapVars, readerVars
<1>8. \A r \in Readers : ReaderOK(r)' /\ Published(r)'
  BY DEF ScanReader, IInv, ReaderOK, Published, mapVars, readerVars
<1>9. GarbageIsQueued' /\ OwedSince' /\ HeldProtected' /\ LinksProtected'
  BY DEF ScanReader, IInv, GarbageIsQueued, OwedSince, HeldProtected,
     LinksProtected, Protected, Searching, heapVars, readerVars
<1> QED BY <1>0, <1>5, <1>6, <1>7, <1>8, <1>9 DEF IInv, TInv

\* What the collection gives back is owed to nobody: a search still running
\* keeps the horizon, less the twilight zone, at or below its entry.
LEMMA FreedNotOwed ==
  ASSUME Disciplined, IInv, scan.at = NSlots + 1,
         NEW i \in DOMAIN garbage, Collectable(garbage[i], NewHorizon)
  PROVE  owed[garbage[i].memory] = {}
<1> DEFINE e == garbage[i].cycle
           h == NewHorizon
<1> SUFFICES ASSUME NEW r \in owed[garbage[i].memory] PROVE FALSE
  OBVIOUS
<1>1. /\ e \in Nat /\ e <= cycle /\ cycle \in Nat /\ scan.oldest \in Nat
      /\ TwilightZone \in Nat /\ MaxSpan \in Nat /\ IntHalf \in Nat /\ NSlots \in Nat
      /\ MaxSpan + TwilightZone + 1 <= IntHalf
  BY Facts, SizesAssumption DEF IInv, StampsPast, Disciplined
<1>2. /\ r \in Searching /\ r \in Readers /\ self[r] \in Slots
      /\ entered[r] \in Nat /\ entered[r] >= 1 /\ entered[r] <= e
  BY Facts DEF IInv, OwedSince, Entry, Searching
<1>3. Scanning /\ self[r] < scan.at
  BY <1>1, <1>2 DEF Scanning, Slots
<1>4. h \in Nat /\ h >= 1 /\ cycle - h <= MaxSpan
  BY <1>1, <1>3 DEF NewHorizon, IInv, ScanSound, Started, LOST_HORIZON
<1>5. h <= entered[r] + TwilightZone
  BY <1>2, <1>3 DEF IInv, ScanSound
<1>6. /\ FreeBelow(h) \in Int /\ FreeBelow(h) # 0 /\ FreeBelow(h) <= h - TwilightZone
      /\ FreeBelow(h) >= h - TwilightZone - 1
  BY <1>1, <1>4 DEF FreeBelow, LOST_HORIZON
<1>7. e # 0
  BY <1>1, <1>2
<1>8. IntDiff(FreeBelow(h), e) > 0
  BY <1>6, <1>7 DEF Collectable, LOST_HORIZON
<1>9. FreeBelow(h) - e <= 0 /\ FreeBelow(h) - e >= -IntHalf /\ FreeBelow(h) - e < IntHalf
  BY <1>1, <1>2, <1>4, <1>5, <1>6, SizesAssumption
<1>10. IntDiff(FreeBelow(h), e) = FreeBelow(h) - e
  BY <1>1, <1>6, <1>9, IntDiffExact
<1> QED BY <1>1, <1>6, <1>8, <1>9, <1>10

LEMMA StepCollect ==
  ASSUME Disciplined, IInv, Collect
  PROVE  IInv'
<1>0. TInv' /\ TInv
  BY Facts, TypeMaster DEF MasterNext
<1>1. /\ ~Scanning' /\ scan'.oldest = 0
      /\ cycle' = cycle /\ slotPid' = slotPid /\ slotCycle' = slotCycle
      /\ wasLocked' = wasLocked /\ links' = links /\ owed' = owed
      /\ UNCHANGED readerVars
  BY DEF Collect, NotScanning, Scanning, mapVars, LOST_HORIZON
<1>2. KeptUp' /\ Started' /\ ScanSound'
  BY <1>1 DEF IInv, KeptUp, Started, ScanSound, readerVars
<1>3. \A r \in Readers : ReaderOK(r)' /\ Published(r)'
  BY <1>1 DEF IInv, ReaderOK, Published, readerVars
<1>4. Searching' = Searching
  BY <1>1 DEF Searching, readerVars
<1>5. CASE ~HorizonMoves
  <2>1. garbage' = garbage /\ where' = where
    BY <1>5 DEF Collect
  <2>2. StampsPast'
    BY <1>1, <2>1, Facts DEF IInv, StampsPast, readerVars
  <2>3. GarbageIsQueued' /\ OwedSince' /\ HeldProtected' /\ LinksProtected'
    BY <1>1, <1>4, <2>1 DEF IInv, GarbageIsQueued, OwedSince, HeldProtected,
       LinksProtected, Protected, readerVars
  <2> QED BY <1>0, <1>2, <1>3, <2>2, <2>3 DEF IInv, TInv
<1>6. CASE HorizonMoves
  <2>1. PICK n \in 0 .. Len(garbage) :
          /\ \A i \in 1 .. n : Collectable(garbage[i], NewHorizon)
          /\ FreeFront(n)
    BY <1>6 DEF Collect
  <2>2. /\ Len(garbage) \in Nat /\ n \in Nat /\ DOMAIN garbage = 1 .. Len(garbage)
        /\ DOMAIN garbage' = 1 .. Len(garbage) - n
        /\ \A i \in DOMAIN garbage' : i + n \in DOMAIN garbage /\ garbage'[i] = garbage[i + n]
    BY <1>0, <2>1 DEF FreeFront, TInv, TypeOK
  <2>3. \A b \in Blocks : where'[b] =
          IF \E i \in 1 .. n : garbage[i].memory = b THEN "free" ELSE where[b]
    BY <2>1 DEF FreeFront
  <2>4. ASSUME NEW i \in 1 .. n
        PROVE  garbage[i].memory \in Blocks /\ where[garbage[i].memory] = "garbage"
               /\ owed[garbage[i].memory] = {}
    <3>1. i \in DOMAIN garbage
      BY <2>1, <2>2
    <3>2. owed[garbage[i].memory] = {}
      BY <2>1, <3>1, FreedNotOwed DEF Collect
    <3> QED BY <3>1, <3>2 DEF IInv, GarbageIsQueued
  <2>5. StampsPast'
    BY <1>1, <2>2, Facts DEF IInv, StampsPast, readerVars
  <2>6. GarbageIsQueued'
    <3>1. \A i, j \in DOMAIN garbage' : garbage'[i].memory = garbage'[j].memory => i = j
      <4>1. ASSUME NEW i \in DOMAIN garbage', NEW j \in DOMAIN garbage',
                   garbage'[i].memory = garbage'[j].memory
            PROVE  i = j
        <5>1. i + n = j + n
          BY <2>2, <4>1 DEF IInv, GarbageIsQueued
        <5> QED BY <2>2, <5>1
      <4> QED BY <4>1
    <3>2. ASSUME NEW b \in Blocks, where'[b] = "garbage"
          PROVE  \E i \in DOMAIN garbage' : garbage'[i].memory = b
      <4>1. where[b] = "garbage" /\ \A i \in 1 .. n : garbage[i].memory # b
        BY <2>3, <3>2
      <4>2. PICK i \in DOMAIN garbage : garbage[i].memory = b
        BY <4>1 DEF IInv, GarbageIsQueued
      <4>3. i \in Int /\ i > n
        BY <2>2, <4>1, <4>2
      <4>4. i - n \in DOMAIN garbage' /\ (i - n) + n = i
        BY <2>2, <4>2, <4>3
      <4> QED BY <2>2, <4>2, <4>4
    <3>3. ASSUME NEW i \in DOMAIN garbage'
          PROVE  garbage'[i].memory \in Blocks /\ where'[garbage'[i].memory] = "garbage"
      <4>1. i + n \in DOMAIN garbage /\ garbage'[i] = garbage[i + n] /\ i \in Nat /\ i >= 1
        BY <2>2
      <4>2. garbage[i + n].memory \in Blocks /\ where[garbage[i + n].memory] = "garbage"
        BY <4>1 DEF IInv, GarbageIsQueued
      <4>3. \A k \in 1 .. n : garbage[k].memory # garbage[i + n].memory
        BY <2>2, <4>1 DEF IInv, GarbageIsQueued
      <4> QED BY <2>3, <4>1, <4>2, <4>3
    <3> QED BY <3>1, <3>2, <3>3 DEF GarbageIsQueued
  <2>7. OwedSince'
    BY <1>1, <1>4, <2>2 DEF IInv, OwedSince, readerVars
  <2>8. ASSUME NEW r \in Readers, NEW b \in Blocks, Protected(r, b)
        PROVE  Protected(r, b)'
    <3>1. \A i \in 1 .. n : garbage[i].memory # b
      BY <2>4, <2>8 DEF Protected
    <3> QED BY <1>1, <2>3, <2>8, <3>1 DEF Protected
  <2>9. HeldProtected'
    BY <1>0, <1>1, <2>8 DEF IInv, HeldProtected, readerVars, TInv, TypeOK
  <2>10. LinksProtected'
    <3>1. \A b \in Blocks : where'[b] = "garbage" => where[b] = "garbage"
      BY <2>3
    <3> QED BY <1>0, <1>1, <2>8, <3>1 DEF IInv, LinksProtected, TInv, TypeOK
  <2> QED BY <1>0, <1>2, <1>3, <2>5, <2>6, <2>7, <2>9, <2>10 DEF IInv, TInv
<1> QED BY <1>5, <1>6

LEMMA InvMaster ==
  ASSUME Disciplined, IInv, MasterNext
  PROVE  IInv'
  BY StepWriteLock, StepUnlock, StepScanEmpty, StepScanDead, StepScanReader, StepCollect,
     StepLink, StepRetire, StepAttach DEF MasterNext

-----------------------------------------------------------------------------
(* The steps of a reader.                                                  *)

LEMMA StepReadLockLoad ==
  ASSUME Disciplined, IInv, NEW r \in Readers, ReadLockLoad(r)
  PROVE  IInv'
<1>0. TInv' /\ TInv
  BY Facts, TypeReader DEF ReaderNext
<1>1. rpc[r] = "idle"
  BY <1>0, Facts DEF ReadLockLoad, CanSearch, TInv, Disciplined
<1>2. self'[r] \in Slots /\ slotPid[self'[r]] = r
  <2>1. MySlot(r) \in Slots /\ (self[r] = NoSlot => slotPid[MySlot(r)] = r)
    BY <1>0, MySlotIsSlot DEF ReadLockLoad
  <2>2. self[r] # NoSlot => MySlot(r) = self[r] /\ slotPid[self[r]] = r
    BY DEF MySlot, IInv, ReaderOK
  <2> QED BY <1>0, <2>1, <2>2 DEF ReadLockLoad, TInv, TypeOK
<1>3. cycle >= 1
  BY <1>2, Facts DEF IInv, Started
<1>4. Searching' = Searching /\ r \notin Searching
  <2>1. depth[r] = 0 /\ MaxNest = 1
    BY <1>0, <1>1 DEF TInv, Disciplined
  <2> QED BY <1>0, <1>1, <2>1, Facts DEF ReadLockLoad, Searching, TInv, TypeOK
<1>5. StampsPast'
  BY <1>0, Facts DEF ReadLockLoad, IInv, StampsPast, mapVars, masterVars, TInv, TypeOK
<1>6. KeptUp'
  <2>1. MaxSpan \in Nat /\ cycle \in Nat
    BY Facts, SizesAssumption
  <2> QED BY <1>0, <2>1 DEF ReadLockLoad, IInv, KeptUp, mapVars, TInv, TypeOK
<1>7. Started'
  BY DEF ReadLockLoad, IInv, Started, mapVars, masterVars, Scanning
<1>8. ScanSound'
  BY <1>0, <1>4 DEF ReadLockLoad, IInv, ScanSound, Scanning, NewHorizon, mapVars, masterVars,
     TInv, TypeOK
<1>9. \A q \in Readers : ReaderOK(q)' /\ Published(q)'
  <2>1. ASSUME NEW q \in Readers, q # r
        PROVE  ReaderOK(q)' /\ Published(q)'
    BY <1>0, <2>1 DEF ReadLockLoad, IInv, ReaderOK, Published, mapVars, TInv, TypeOK
  <2>2. ReaderOK(r)'
    <3>1. rpc'[r] = "loaded" /\ depth'[r] = 1
      BY <1>0, <1>1 DEF ReadLockLoad, TInv, TypeOK
    <3>2. leaving'[r] = NoSlot /\ held'[r] = {} /\ r \in alive'
      BY <1>1 DEF ReadLockLoad, CanSearch, IInv, ReaderOK
    <3>3. slotPid' = slotPid /\ self'[r] # NoSlot
      BY <1>2 DEF ReadLockLoad, mapVars, Slots, NoSlot
    <3> QED BY <1>2, <3>1, <3>2, <3>3 DEF ReaderOK
  <2>3. Published(r)'
    BY <1>0, <1>3 DEF ReadLockLoad, Published, TInv, TypeOK
  <2> QED BY <2>1, <2>2, <2>3
<1>10. GarbageIsQueued' /\ OwedSince' /\ HeldProtected' /\ LinksProtected'
  BY <1>4 DEF ReadLockLoad, IInv, GarbageIsQueued, OwedSince, HeldProtected,
     LinksProtected, Protected, masterVars, heapVars
<1> QED BY <1>0, <1>5, <1>6, <1>7, <1>8, <1>9, <1>10 DEF IInv, TInv

LEMMA StepReadLockStore ==
  ASSUME Disciplined, IInv, NEW r \in Readers, ReadLockStore(r)
  PROVE  IInv'
<1>0. TInv' /\ TInv
  BY Facts, TypeReader DEF ReaderNext
<1>1. Searching' = Searching \cup {r} /\ r \notin Searching
  BY <1>0, Facts DEF ReadLockStore, Searching, TInv, TypeOK
<1>2. StampsPast'
  BY <1>0, Facts DEF ReadLockStore, IInv, StampsPast, mapVars, masterVars, TInv, TypeOK
<1>3. KeptUp'
  <2>1. MaxDelay \in Nat /\ cycle \in Nat
    BY Facts, SizesAssumption
  <2> QED BY <1>0, <2>1 DEF ReadLockStore, IInv, KeptUp, mapVars, TInv, TypeOK
<1>4. Started'
  BY DEF ReadLockStore, IInv, Started, mapVars, masterVars, Scanning
<1>5. ScanSound'
  <2>1. NewHorizon <= cycle /\ NewHorizon \in Nat /\ cycle \in Nat /\ TwilightZone \in Nat
    BY Facts, SizesAssumption DEF NewHorizon, IInv, StampsPast
  <2>2. NewHorizon' = NewHorizon /\ self' = self /\ scan' = scan /\ cycle' = cycle
    BY DEF ReadLockStore, NewHorizon, mapVars, masterVars
  <2>3. \A q \in Searching : entered'[q] = entered[q]
    BY <1>0, <1>1 DEF ReadLockStore, TInv, TypeOK
  <2>4. entered'[r] = cycle
    BY <1>0 DEF ReadLockStore, TInv, TypeOK
  <2> QED BY <1>1, <2>1, <2>2, <2>3, <2>4 DEF IInv, ScanSound, Scanning
<1>6. \A q \in Readers : ReaderOK(q)' /\ Published(q)'
  <2>1. ASSUME NEW q \in Readers, q # r
        PROVE  ReaderOK(q)' /\ Published(q)'
    BY <1>0, <2>1 DEF ReadLockStore, IInv, ReaderOK, Published, mapVars, TInv, TypeOK
  <2>2. ReaderOK(r)'
    BY <1>0 DEF ReadLockStore, IInv, ReaderOK, mapVars, TInv, TypeOK
  <2>3. Published(r)'
    BY <1>0 DEF ReadLockStore, IInv, Published, StampsPast, TInv, TypeOK
  <2> QED BY <2>1, <2>2, <2>3
<1>7. OwedSince'
  <2>1. \A b \in Blocks : owed'[b] \subseteq Searching
    BY DEF ReadLockStore, IInv, OwedSince, heapVars
  <2>2. \A q \in Searching : entered'[q] = entered[q]
    BY <1>0, <1>1 DEF ReadLockStore, TInv, TypeOK
  <2>3. \A i \in DOMAIN garbage : garbage[i].memory \in Blocks
    BY Facts DEF Entry
  <2> QED BY <1>1, <2>1, <2>2, <2>3 DEF ReadLockStore, IInv, OwedSince, masterVars, heapVars
<1>8. GarbageIsQueued' /\ HeldProtected' /\ LinksProtected'
  BY DEF ReadLockStore, IInv, GarbageIsQueued, HeldProtected, LinksProtected, Protected,
     masterVars, heapVars
<1> QED BY <1>0, <1>2, <1>3, <1>4, <1>5, <1>6, <1>7, <1>8 DEF IInv, TInv

LEMMA StepDrain ==
  ASSUME Disciplined, IInv, NEW r \in Readers, Drain(r)
  PROVE  IInv'
<1>0. TInv' /\ TInv
  BY Facts, TypeReader DEF ReaderNext
<1>1. /\ self[r] \in Slots /\ slotPid[self[r]] = r
      /\ loaded[r] \in Nat /\ loaded[r] >= 1 /\ loaded[r] <= entered[r] /\ loaded[r] <= cycle
      /\ cycle - loaded[r] <= MaxSpan
  BY <1>0, Facts
    DEF Drain, IInv, ReaderOK, Published, StampsPast, KeptUp, TInv, TypeOK
<1>2. \A q \in Readers : q # r /\ self[q] \in Slots => self[q] # self[r]
  BY <1>1 DEF IInv, ReaderOK, Slots, NoSlot
<1>3. Searching' = Searching
  BY <1>0 DEF Drain, Searching, TInv, TypeOK
<1>4. StampsPast'
  BY <1>0, <1>1, Facts DEF Drain, IInv, StampsPast, masterVars, TInv, TypeOK, LOST_HORIZON
<1>5. KeptUp'
  BY <1>0, <1>1 DEF Drain, IInv, KeptUp, TInv, TypeOK
<1>6. Started' /\ ScanSound'
  BY <1>3 DEF Drain, IInv, Started, ScanSound, Scanning, NewHorizon, masterVars
<1>7. \A q \in Readers : ReaderOK(q)' /\ Published(q)'
  <2>1. ASSUME NEW q \in Readers, q # r
        PROVE  ReaderOK(q)' /\ Published(q)'
    <3>1. ReaderOK(q)'
      BY <1>0, <2>1 DEF Drain, IInv, ReaderOK, TInv, TypeOK
    <3>2. rpc[q] = "reading" => self[q] \in Slots /\ self[q] # self[r]
      BY <1>0, <1>2, <2>1 DEF IInv, ReaderOK, TInv, TypeOK
    <3>3. Published(q)'
      BY <1>0, <1>1, <2>1, <3>2 DEF Drain, IInv, Published, TInv, TypeOK
    <3> QED BY <3>1, <3>3
  <2>2. ReaderOK(r)'
    BY <1>0 DEF Drain, IInv, ReaderOK, TInv, TypeOK
  <2>3. Published(r)'
    BY <1>0, <1>1, Facts DEF Drain, Published, TInv, TypeOK
  <2> QED BY <2>1, <2>2, <2>3
<1>8. GarbageIsQueued' /\ OwedSince' /\ HeldProtected' /\ LinksProtected'
  BY <1>3 DEF Drain, IInv, GarbageIsQueued, OwedSince, HeldProtected, LinksProtected,
     Protected, masterVars, heapVars
<1> QED BY <1>0, <1>4, <1>5, <1>6, <1>7, <1>8 DEF IInv, TInv

LEMMA StepFollow ==
  ASSUME Disciplined, IInv, NEW r \in Readers, NEW b \in Blocks, Follow(r, b)
  PROVE  IInv'
<1>0. TInv' /\ TInv
  BY Facts, TypeReader DEF ReaderNext
<1>1. Protected(r, b)
  <2>1. CASE where[b] = "linked"
    BY <2>1 DEF Protected
  <2>2. ASSUME NEW h \in held[r], where[h] = "garbage", b \in links[h]
        PROVE  Protected(r, b)
    <3>1. h \in Blocks
      BY <1>0 DEF TInv, TypeOK
    <3>2. r \in owed[h]
      BY <2>2 DEF IInv, HeldProtected, Protected
    <3> QED BY <2>2, <3>1, <3>2 DEF IInv, LinksProtected
  <2> QED BY <2>1, <2>2 DEF Follow
<1>2. HeldProtected'
  BY <1>0, <1>1 DEF Follow, IInv, HeldProtected, Protected, heapVars, TInv, TypeOK
<1>3. StampsPast' /\ KeptUp' /\ Started'
  BY DEF Follow, IInv, StampsPast, KeptUp, Started, Scanning, mapVars, masterVars
<1>4. ScanSound'
  BY DEF Follow, IInv, ScanSound, Scanning, NewHorizon, Searching, mapVars, masterVars
<1>5. \A q \in Readers : ReaderOK(q)' /\ Published(q)'
  BY <1>0 DEF Follow, IInv, ReaderOK, Published, mapVars, TInv, TypeOK
<1>6. GarbageIsQueued' /\ OwedSince' /\ LinksProtected'
  BY DEF Follow, IInv, GarbageIsQueued, OwedSince, LinksProtected, Protected, Searching,
     masterVars, heapVars
<1> QED BY <1>0, <1>2, <1>3, <1>4, <1>5, <1>6 DEF IInv, TInv

\* A reader whose search is over leaves the blocks of the others alone.
LEMMA ForgetKeeps ==
  ASSUME Disciplined, IInv, TInv', NEW r \in Readers, Forget(r),
         garbage' = garbage, where' = where, links' = links,
         Searching' = Searching \ {r}
  PROVE  GarbageIsQueued' /\ OwedSince' /\ HeldProtected' /\ LinksProtected'
<1>0. TInv
  BY Facts
<1>1. \A b \in Blocks : owed'[b] = owed[b] \ {r}
  BY DEF Forget
<1>2. \A q \in Readers : q # r => entered'[q] = entered[q] /\ held'[q] = held[q]
  BY <1>0 DEF Forget, TInv, TypeOK
<1>3. held'[r] = {}
  BY <1>0 DEF Forget, TInv, TypeOK
<1>4. GarbageIsQueued'
  BY DEF IInv, GarbageIsQueued
<1>5. OwedSince'
  <2>1. \A i \in DOMAIN garbage : garbage[i].memory \in Blocks
    BY Facts DEF Entry
  <2>2. \A b \in Blocks : owed'[b] \subseteq Searching'
    BY <1>1 DEF IInv, OwedSince
  <2>3. ASSUME NEW i \in DOMAIN garbage, NEW q \in owed'[garbage[i].memory]
        PROVE  entered'[q] <= garbage[i].cycle
    <3>1. q \in owed[garbage[i].memory] /\ q # r
      BY <1>1, <2>1
    <3>2. q \in Readers
      BY <1>0, <2>1, <3>1 DEF TInv, TypeOK
    <3> QED BY <1>2, <3>1, <3>2 DEF IInv, OwedSince
  <2> QED BY <2>2, <2>3 DEF OwedSince
<1>6. \A q \in Readers \ {r} : \A b \in Blocks : Protected(q, b) => Protected(q, b)'
  BY <1>1 DEF Protected
<1>7. HeldProtected'
  BY <1>0, <1>2, <1>3, <1>6 DEF IInv, HeldProtected, TInv, TypeOK
<1>8. LinksProtected'
  BY <1>0, <1>1, <1>6 DEF IInv, LinksProtected, TInv, TypeOK
<1> QED BY <1>4, <1>5, <1>7, <1>8

LEMMA StepReadUnlock ==
  ASSUME Disciplined, IInv, NEW r \in Readers, ReadUnlock(r)
  PROVE  IInv'
<1>0. TInv' /\ TInv
  BY Facts, TypeReader DEF ReaderNext
<1>1. depth[r] = 1 /\ self[r] \in Slots /\ slotPid[self[r]] = r
  <2>1. rpc[r] \in {"stored", "reading"}
    BY DEF ReadUnlock
  <2> QED BY <1>0, <2>1, Facts DEF TInv, Searching
<1>2. Forget(r)
  BY <1>1 DEF ReadUnlock
<1>3. Searching' = Searching \ {r}
  BY <1>0, <1>1, Facts DEF ReadUnlock, Searching, TInv, TypeOK
<1>4. \A q \in Readers : q # r /\ self[q] \in Slots => self[q] # self[r]
  BY <1>1 DEF IInv, ReaderOK, Slots, NoSlot
<1>5. slotCycle' = [slotCycle EXCEPT ![self[r]] = LOST_HORIZON]
  BY <1>1 DEF ReadUnlock, Slots, NoSlot
<1>6. StampsPast'
  BY <1>0, <1>2, <1>5, Facts
    DEF ReadUnlock, Forget, IInv, StampsPast, masterVars, TInv, TypeOK, LOST_HORIZON
<1>7. KeptUp'
  BY <1>0, <1>1, <1>2, <1>5
    DEF ReadUnlock, Forget, IInv, KeptUp, TInv, TypeOK
<1>8. Started'
  BY DEF ReadUnlock, IInv, Started, Scanning, masterVars
<1>9. ScanSound'
  <2>1. \A q \in Searching' : q \in Searching /\ entered'[q] = entered[q]
    BY <1>0, <1>2, <1>3, Facts DEF Forget, TInv, TypeOK
  <2> QED BY <2>1 DEF ReadUnlock, IInv, ScanSound, Scanning, NewHorizon, masterVars
<1>10. \A q \in Readers : ReaderOK(q)' /\ Published(q)'
  <2>1. ASSUME NEW q \in Readers, q # r
        PROVE  ReaderOK(q)' /\ Published(q)'
    <3>1. ReaderOK(q)'
      BY <1>0, <1>2, <2>1 DEF ReadUnlock, Forget, IInv, ReaderOK, TInv, TypeOK
    <3>2. rpc[q] = "reading" => self[q] \in Slots /\ self[q] # self[r]
      BY <1>0, <1>4, <2>1 DEF IInv, ReaderOK, TInv, TypeOK
    <3>3. Published(q)'
      BY <1>0, <1>1, <1>2, <1>5, <2>1, <3>2
        DEF ReadUnlock, Forget, IInv, Published, TInv, TypeOK
    <3> QED BY <3>1, <3>3
  <2>2. rpc'[r] = "idle" /\ depth'[r] = 0 /\ held'[r] = {}
    BY <1>0, <1>1, <1>2 DEF ReadUnlock, Forget, TInv, TypeOK
  <2>3. ReaderOK(r)'
    BY <1>0, <1>1, <2>2 DEF ReadUnlock, IInv, ReaderOK
  <2>4. Published(r)'
    BY <2>2 DEF Published
  <2> QED BY <2>1, <2>3, <2>4
<1>11. GarbageIsQueued' /\ OwedSince' /\ HeldProtected' /\ LinksProtected'
  BY <1>0, <1>2, <1>3, ForgetKeeps DEF ReadUnlock, masterVars
<1> QED BY <1>0, <1>6, <1>7, <1>8, <1>9, <1>10, <1>11 DEF IInv, TInv

LEMMA StepDie ==
  ASSUME Disciplined, IInv, NEW r \in Readers, Die(r)
  PROVE  IInv'
<1>0. TInv' /\ TInv
  BY Facts, TypeReader DEF ReaderNext
<1>1. Forget(r)
  BY DEF Die
<1>2. Searching' = Searching \ {r}
  BY <1>0, Facts DEF Die, Searching, TInv, TypeOK
<1>3. StampsPast'
  BY <1>0, <1>1, Facts
    DEF Die, Forget, IInv, StampsPast, mapVars, masterVars, TInv, TypeOK, LOST_HORIZON
<1>4. KeptUp' /\ Started'
  BY <1>0, <1>1
    DEF Die, Forget, IInv, KeptUp, Started, Scanning, mapVars, masterVars, TInv, TypeOK
<1>5. ScanSound'
  <2>1. \A q \in Searching' : q \in Searching /\ entered'[q] = entered[q] /\ self'[q] = self[q]
    BY <1>0, <1>1, <1>2, Facts DEF Die, Forget, TInv, TypeOK
  <2> QED BY <2>1 DEF Die, IInv, ScanSound, Scanning, NewHorizon, mapVars, masterVars
<1>6. \A q \in Readers : ReaderOK(q)' /\ Published(q)'
  <2>1. ASSUME NEW q \in Readers, q # r
        PROVE  ReaderOK(q)' /\ Published(q)'
    BY <1>0, <1>1, <2>1
      DEF Die, Forget, IInv, ReaderOK, Published, mapVars, TInv, TypeOK
  <2>2. /\ rpc'[r] = "idle" /\ depth'[r] = 0 /\ held'[r] = {} /\ self'[r] = NoSlot
        /\ leaving'[r] = NoSlot
    BY <1>0, <1>1 DEF Die, Forget, TInv, TypeOK
  <2> QED BY <2>1, <2>2 DEF ReaderOK, Published
<1>7. GarbageIsQueued' /\ OwedSince' /\ HeldProtected' /\ LinksProtected'
  BY <1>0, <1>1, <1>2, ForgetKeeps DEF Die, masterVars
<1> QED BY <1>0, <1>3, <1>4, <1>5, <1>6, <1>7 DEF IInv, TInv

LEMMA StepReuse ==
  ASSUME Disciplined, IInv, NEW r \in Readers, Reuse(r)
  PROVE  IInv'
<1>0. TInv' /\ TInv
  BY Facts, TypeReader DEF ReaderNext
<1>1. KeptUp'
  <2>1. ASSUME NEW s \in Slots, slotPid[s] = r, slotCycle[s] # LOST_HORIZON
        PROVE  cycle - slotCycle[s] <= MaxSpan
    <3>1. cycle \in Cells /\ slotCycle[s] \in Cells /\ slotCycle[s] <= cycle
      BY <1>0 DEF IInv, StampsPast, TInv, TypeOK
    <3>2. Since(cycle, slotCycle[s]) <= MaxSpan
      BY <2>1 DEF Reuse, SlotsOf
    <3> QED BY <3>1, <3>2, SinceExact
  <2>2. ASSUME NEW s \in Slots, slotPid[s] \in alive', slotCycle[s] # LOST_HORIZON
        PROVE  cycle - slotCycle[s] <= MaxSpan
    BY <2>1, <2>2 DEF Reuse, IInv, KeptUp
  <2> QED BY <2>2 DEF Reuse, IInv, KeptUp, mapVars
<1>2. StampsPast' /\ Started'
  BY DEF Reuse, IInv, StampsPast, Started, Scanning, mapVars, masterVars
<1>3. ScanSound'
  BY DEF Reuse, IInv, ScanSound, Scanning, NewHorizon, Searching, mapVars, masterVars
<1>4. \A q \in Readers : ReaderOK(q)' /\ Published(q)'
  BY DEF Reuse, IInv, ReaderOK, Published, mapVars
<1>5. GarbageIsQueued' /\ OwedSince' /\ HeldProtected' /\ LinksProtected'
  BY DEF Reuse, IInv, GarbageIsQueued, OwedSince, HeldProtected, LinksProtected, Protected,
     Searching, masterVars, heapVars
<1> QED BY <1>0, <1>1, <1>2, <1>3, <1>4, <1>5 DEF IInv, TInv

LEMMA InvReader ==
  ASSUME Disciplined, IInv, NEW r \in Readers, ReaderNext(r)
  PROVE  IInv'
<1>1. ~ReadLockFails(r) /\ ~DetachPid(r) /\ ~DetachCycle(r)
  BY DEF Disciplined, ReadLockFails, DetachPid, DetachCycle, IInv, ReaderOK
<1> QED BY <1>1, StepReadLockLoad, StepReadLockStore, StepDrain, StepFollow, StepReadUnlock,
  StepDie, StepReuse DEF ReaderNext

LEMMA InvInit ==
  ASSUME Disciplined, Init
  PROVE  IInv
<1>1. TInv
  BY TypeInit
<1>2. Searching = {}
  BY SizesAssumption DEF Init, Searching
<1>3. StampsPast /\ KeptUp /\ Started
  BY DEF Init, StampsPast, KeptUp, Started, Scanning, NotScanning, LOST_HORIZON
<1>4. \A r \in Readers : ReaderOK(r) /\ Published(r)
  BY DEF Init, ReaderOK, Published
<1>5. GarbageIsQueued /\ OwedSince /\ HeldProtected /\ LinksProtected /\ ScanSound
  BY <1>2 DEF Init, GarbageIsQueued, OwedSince, HeldProtected, LinksProtected, ScanSound,
     Scanning, NotScanning
<1> QED BY <1>1, <1>3, <1>4, <1>5 DEF IInv, TInv

LEMMA InvStutter ==
  ASSUME IInv, UNCHANGED vars
  PROVE  IInv'
<1> USE DEF vars, mapVars, masterVars, heapVars, readerVars
<1>1. TypeOK' /\ OneSlotEach'
  BY DEF IInv, TypeOK, OneSlotEach
<1>2. StampsPast' /\ KeptUp' /\ Started'
  BY DEF IInv, StampsPast, KeptUp, Started, Scanning
<1>3. \A r \in Readers : ReaderOK(r)' /\ Published(r)'
  BY DEF IInv, ReaderOK, Published
<1>4. GarbageIsQueued' /\ OwedSince' /\ HeldProtected' /\ LinksProtected'
  BY DEF IInv, GarbageIsQueued, OwedSince, HeldProtected, LinksProtected, Protected, Searching
<1>5. ScanSound'
  BY DEF IInv, ScanSound, Scanning, NewHorizon, Searching
<1> QED BY <1>1, <1>2, <1>3, <1>4, <1>5 DEF IInv

LEMMA Invariance ==
  ASSUME Disciplined
  PROVE  Spec => []IInv
<1>1. Init => IInv
  BY InvInit
<1>2. IInv /\ [Next]_vars => IInv'
  BY InvMaster, InvReader, InvStutter DEF Next
<1> QED BY <1>1, <1>2, PTL DEF Spec

\* Memory a reader has a pointer to is never given back while its search runs
\* (shmfree_raw, garbage_collect, oldest_reader_cycle), for any number of
\* readers, slots and blocks, with the scan interleaved at every slot and the
\* store of read_lock delayed up to the twilight zone.
THEOREM NothingFreedEarly ==
  ASSUME Disciplined
  PROVE  Spec => []NoPrematureFree
<1>1. IInv => NoPrematureFree
  <2>1. IInv => TInv
    BY DEF IInv, TInv, ReaderOK
  <2> QED BY <2>1 DEF IInv, HeldProtected, Protected, NoPrematureFree, TInv, TypeOK
<1> QED BY <1>1, Invariance, PTL

\* What is in the queue is what was retired, once each: no block is given to
\* the allocator twice or dropped (shmfree_raw, garbage_collect).
THEOREM QueueIsTheGarbage ==
  ASSUME Disciplined
  PROVE  Spec => []GarbageIsQueued
<1>1. IInv => GarbageIsQueued
  BY DEF IInv
<1> QED BY <1>1, Invariance, PTL

\* A search the master has to wait for is one it can see (read_lock).
THEOREM SearchesAreSeen ==
  ASSUME Disciplined
  PROVE  Spec => []SearchIsPublished
<1>1. ASSUME IInv PROVE SearchIsPublished
  <2>1. ASSUME NEW r \in Readers, rpc[r] = "reading"
        PROVE  /\ slotCycle[self[r]] # LOST_HORIZON
               /\ Since(cycle, entered[r]) <= Since(cycle, slotCycle[self[r]])
    <3>1. r \in Searching
      BY <1>1, <2>1, Facts
    <3>2. /\ self[r] \in Slots /\ slotCycle[self[r]] \in 1 .. entered[r]
          /\ entered[r] <= cycle /\ slotCycle[self[r]] <= cycle
      BY <1>1, <2>1, <3>1, Facts DEF IInv, Published, StampsPast
    <3>3. cycle \in Cells /\ entered[r] \in Cells /\ slotCycle[self[r]] \in Cells
      BY <1>1, <3>2, Facts DEF TInv, TypeOK
    <3>4. /\ Since(cycle, entered[r]) = cycle - entered[r]
          /\ Since(cycle, slotCycle[self[r]]) = cycle - slotCycle[self[r]]
      BY <3>2, <3>3, SinceExact
    <3>5. cycle \in Nat /\ entered[r] \in Nat /\ slotCycle[self[r]] \in Nat
      BY <1>1, <3>2, Facts
    <3> QED BY <3>2, <3>4, <3>5 DEF LOST_HORIZON
  <2> QED BY <2>1 DEF SearchIsPublished
<1> QED BY <1>1, Invariance, PTL

\* shm->self stays the reader's own slot (pid2reader, shmattachpid).
THEOREM SlotsAreOwn ==
  ASSUME Disciplined
  PROVE  Spec => []SlotIsMine
<1>1. IInv => SlotIsMine
  BY DEF IInv, OneSlotEach, ReaderOK, SlotIsMine
<1> QED BY <1>1, Invariance, PTL

\* The horizon only moves forward, and stays within half an int of the cycle
\* (write_unlock): the truncated comparisons of garbage_collect are exact.
THEOREM HorizonOnlyAdvances ==
  ASSUME Disciplined
  PROVE  Spec => HorizonAdvances
<1>1. ASSUME IInv, Next, horizon' # horizon
      PROVE  IntDiff(horizon', horizon) >= 0 /\ Since(cycle, horizon') < IntHalf
  <2>1. Collect /\ HorizonMoves
    BY <1>1 DEF Next, MasterNext, ReaderNext, WriteLock, WriteUnlock, OtherWriteUnlock,
       ScanEmpty, ScanDead, ScanReader, Collect, Link, Retire, Attach, ReadLockLoad,
       ReadLockFails, ReadLockStore, Drain, Follow, ReadUnlock, DetachPid, DetachCycle,
       Die, Reuse, mapVars, masterVars
  <2>2. horizon' = NewHorizon
    BY <2>1 DEF Collect
  <2>3. NewHorizon \in Cells /\ horizon \in Cells /\ cycle \in Cells
    BY <1>1, Facts DEF NewHorizon, TInv, TypeOK
  <2>4. NewHorizon \in Int /\ horizon \in Int /\ cycle \in Int
    BY <2>3, SizesAssumption DEF Cells
  <2>5. IntDiff(NewHorizon, horizon) >= 0
    <3>1. IntDiff(NewHorizon, horizon) \in Int
      BY <2>4, IntDiffInt
    <3> QED BY <2>1, <3>1, SizesAssumption DEF HorizonMoves
  <2>6. NewHorizon <= cycle /\ cycle - NewHorizon <= MaxSpan
    <3>1. Scanning /\ MaxSpan \in Nat
      BY <2>1, SizesAssumption DEF Collect, Scanning
    <3> QED BY <1>1, <2>4, <3>1, Facts DEF NewHorizon, IInv, ScanSound, StampsPast
  <2>7. Since(cycle, NewHorizon) = cycle - NewHorizon
    BY <2>3, <2>6, SinceExact
  <2>8. MaxSpan < IntHalf /\ MaxSpan \in Nat /\ IntHalf \in Nat
    BY SizesAssumption DEF Disciplined
  <2> QED BY <2>2, <2>4, <2>5, <2>6, <2>7, <2>8
<1>2. IInv /\ [Next]_vars =>
        [IntDiff(horizon', horizon) >= 0 /\ Since(cycle, horizon') < IntHalf]_horizon
  BY <1>1 DEF vars, masterVars
<1> QED BY <1>2, Invariance, PTL DEF Spec, HorizonAdvances

\* A master that may signal its readers takes slots back from dead ones only
\* (oldest_reader_cycle): live readers keep theirs or give them back themselves,
\* whatever else they do, be it nested searches, detaching or reused pids.
THEOREM SlotsOutlive ==
  ASSUME Readers \subseteq Signalable
  PROVE  Spec => OnlyDeadLoseSlots
<1> DEFINE Keeps(r) == Registered(r) => Registered(r)' \/ leaving'[r] # NoSlot
           Step == \A r \in alive : Keeps(r)
<1>1. TypeOK /\ [Next]_vars => Step
  <2> SUFFICES ASSUME TypeOK, [Next]_vars, NEW r \in alive, Registered(r),
                      leaving'[r] = NoSlot
               PROVE  Registered(r)'
    OBVIOUS
  <2>1. r \in Readers /\ r # NoPid
    BY ReadersAssumption DEF TypeOK
  <2>2. PICK s \in Slots : slotPid[s] = r
    BY DEF Registered, SlotsOf
  <2>3. slotPid'[s] = r
    <3>1. CASE UNCHANGED slotPid
      BY <2>2, <3>1
    <3>2. ASSUME NEW q \in Readers, Attach(q) PROVE slotPid'[s] = r
      BY <2>1, <2>2, <3>2 DEF Attach, FirstSlot, SlotsOf, TypeOK
    <3>3. CASE ScanDead
      <4>1. scan.at # s
        BY <2>1, <2>2, <3>3 DEF ScanDead, KillFails
      <4> QED BY <2>2, <3>3, <4>1 DEF ScanDead, TypeOK
    <3>4. ASSUME NEW q \in Readers, DetachPid(q) PROVE slotPid'[s] = r
      <4>1. PICK u \in Slots : /\ FirstSlot(q, u) /\ slotPid' = [slotPid EXCEPT ![u] = NoPid]
                               /\ leaving' = [leaving EXCEPT ![q] = u]
        BY <3>4 DEF DetachPid
      <4>2. q # r
        BY <2>1, <4>1 DEF TypeOK, Slots, NoSlot
      <4>3. u # s
        BY <2>2, <4>1, <4>2 DEF FirstSlot, SlotsOf
      <4> QED BY <2>2, <4>1, <4>3
    <3>5. CASE UNCHANGED vars
      BY <3>1, <3>5 DEF vars, mapVars
    <3>6. CASE MasterNext
      BY <3>1, <3>2, <3>3, <3>6 DEF MasterNext, WriteLock, WriteUnlock, OtherWriteUnlock,
         ScanEmpty, ScanReader, Collect, Link, Retire, mapVars
    <3>7. ASSUME NEW q \in Readers, ReaderNext(q) PROVE slotPid'[s] = r
      BY <3>1, <3>4, <3>7 DEF ReaderNext, ReadLockLoad, ReadLockFails, ReadLockStore, Drain,
         Follow, ReadUnlock, DetachCycle, Die, Reuse, mapVars
    <3> QED BY <3>5, <3>6, <3>7 DEF Next
  <2> QED BY <2>2, <2>3 DEF Registered, SlotsOf
<1>2. Spec => []TypeOK
  BY TypeCorrect, PTL
<1>3. TypeOK /\ [Next]_vars => [Step]_vars
  BY <1>1
<1> QED BY <1>2, <1>3, PTL DEF Spec, OnlyDeadLoseSlots

\* The queue is in the order of its stamps, so that garbage_collect may stop
\* at the first entry still pending.
THEOREM QueueIsOrdered ==
  ASSUME Disciplined
  PROVE  Spec => []GarbageOrdered
<1>1. Init => GarbageOrdered
  BY DEF Init, GarbageOrdered
<1>2. ASSUME IInv, GarbageOrdered, [Next]_vars
      PROVE  GarbageOrdered'
  <2>1. TInv
    BY <1>2, Facts
  <2>2. ASSUME NEW b \in Blocks, Retire(b)
        PROVE  GarbageOrdered'
    <3>1. /\ DOMAIN garbage = 1 .. Len(garbage) /\ DOMAIN garbage' = 1 .. Len(garbage) + 1
          /\ Len(garbage) \in Nat
          /\ \A i \in DOMAIN garbage : garbage'[i] = garbage[i]
          /\ garbage'[Len(garbage) + 1] = [cycle |-> cycle, memory |-> b]
      BY <2>1, <2>2 DEF Retire, Enqueue, TInv, TypeOK
    <3>2. \A i \in DOMAIN garbage : garbage[i].cycle <= cycle
      BY <1>2 DEF IInv, StampsPast
    <3> QED BY <1>2, <3>1, <3>2 DEF GarbageOrdered
  <2>3. CASE Collect
    <3>1. CASE garbage' = garbage
      BY <1>2, <3>1 DEF GarbageOrdered
    <3>2. CASE garbage' # garbage
      <4>1. PICK n \in 0 .. Len(garbage) : FreeFront(n)
        BY <2>3, <3>2 DEF Collect
      <4>2. /\ n \in Nat /\ DOMAIN garbage' \subseteq Nat
            /\ \A i \in DOMAIN garbage' : i + n \in DOMAIN garbage /\ garbage'[i] = garbage[i + n]
        BY <2>1, <4>1 DEF FreeFront, TInv, TypeOK
      <4> QED BY <1>2, <4>2 DEF GarbageOrdered
    <3> QED BY <3>1, <3>2
  <2>4. ASSUME UNCHANGED garbage
        PROVE  GarbageOrdered'
    BY <1>2, <2>4 DEF GarbageOrdered
  <2> QED BY <1>2, <2>2, <2>3, <2>4 DEF Next, MasterNext, ReaderNext, WriteLock,
    WriteUnlock, OtherWriteUnlock, ScanEmpty, ScanDead, ScanReader, Link, Attach,
    ReadLockLoad, ReadLockFails, ReadLockStore, Drain, Follow, ReadUnlock, DetachPid,
    DetachCycle, Die, Reuse, vars, mapVars, masterVars
<1>3. IInv /\ GarbageOrdered /\ [Next]_vars => GarbageOrdered'
  BY <1>2
<1> QED BY <1>1, <1>3, Invariance, PTL DEF Spec

-----------------------------------------------------------------------------
(* The heap implements GracePeriod.                                        *)

LEMMA GraceInit ==
  ASSUME Disciplined, Init
  PROVE  Grace!Init
  BY DEF Init, Grace!Init, Searching

LEMMA GraceStep ==
  ASSUME Disciplined, IInv, Next
  PROVE  [Grace!Next]_(Grace!vars)
<1>0. TInv
  BY Facts
<1>1. ASSUME UNCHANGED <<where, owed, rpc, depth>>
      PROVE  UNCHANGED Grace!vars
  BY <1>1 DEF Grace!vars, Searching
<1>2. CASE MasterNext
  <2>1. ASSUME NEW b \in Blocks, Link(b)
        PROVE  Grace!Link(b)
    BY <2>1 DEF Link, Grace!Link, Searching, readerVars
  <2>2. ASSUME NEW b \in Blocks, Retire(b)
        PROVE  Grace!Retire(b)
    BY <2>2 DEF Retire, Grace!Retire, Searching, readerVars
  <2>3. ASSUME Collect, HorizonMoves
        PROVE  \E B \in SUBSET Blocks : Grace!Free(B)
    <3>1. PICK n \in 0 .. Len(garbage) :
            /\ \A i \in 1 .. n : Collectable(garbage[i], NewHorizon)
            /\ FreeFront(n)
      BY <2>3 DEF Collect
    <3> DEFINE B == {garbage[i].memory : i \in 1 .. n}
    <3>2. \A i \in 1 .. n : i \in DOMAIN garbage
      BY <1>0 DEF TInv, TypeOK
    <3>3. ASSUME NEW b \in B
          PROVE  b \in Blocks /\ where[b] = "garbage" /\ owed[b] = {}
      <4>1. PICK i \in 1 .. n : b = garbage[i].memory
        OBVIOUS
      <4>2. owed[b] = {}
        BY <2>3, <3>1, <3>2, <4>1, FreedNotOwed DEF Collect
      <4> QED BY <3>2, <4>1, <4>2 DEF IInv, GarbageIsQueued
    <3>4. where' = [b \in Blocks |-> IF b \in B THEN "free" ELSE where[b]]
      BY <3>1 DEF FreeFront
    <3>5. Searching' = Searching /\ owed' = owed
      BY <2>3 DEF Collect, Searching, readerVars
    <3>6. Grace!Free(B)
      BY <3>3, <3>4, <3>5 DEF Grace!Free
    <3>7. B \in SUBSET Blocks
      BY <3>3
    <3> QED BY <3>6, <3>7
  <2>4. CASE Collect /\ ~HorizonMoves
    BY <1>1, <2>4 DEF Collect, readerVars
  <2>5. CASE WriteLock \/ WriteUnlock \/ OtherWriteUnlock \/ ScanEmpty \/ ScanDead \/ ScanReader
    BY <1>1, <2>5 DEF WriteLock, WriteUnlock, OtherWriteUnlock, ScanEmpty, ScanDead,
       ScanReader, heapVars, readerVars
  <2>6. ASSUME NEW r \in Readers, Attach(r)
        PROVE  UNCHANGED Grace!vars
    BY <1>1, <2>6 DEF Attach, heapVars, readerVars
  <2> QED BY <1>2, <2>1, <2>2, <2>3, <2>4, <2>5, <2>6 DEF MasterNext, Grace!Next
<1>3. ASSUME NEW r \in Readers, ReaderNext(r)
      PROVE  [Grace!Next]_(Grace!vars)
  <2>0. TInv'
    BY <1>0, <1>3, TypeReader
  <2>1. CASE ReadLockStore(r)
    <3>1. Searching' = Searching \cup {r} /\ r \notin Searching
      BY <1>0, <2>0, <2>1, Facts DEF ReadLockStore, Searching, TInv, TypeOK
    <3>2. Grace!Begin(r)
      BY <2>1, <3>1 DEF ReadLockStore, Grace!Begin, heapVars
    <3> QED BY <3>2 DEF Grace!Next
  <2>2. ASSUME Forget(r), where' = where, Searching' = Searching \ {r}
        PROVE  [Grace!Next]_(Grace!vars)
    <3>1. CASE r \in Searching
      <4>1. Grace!End(r)
        BY <2>2, <3>1 DEF Forget, Grace!End
      <4> QED BY <4>1 DEF Grace!Next
    <3>2. CASE r \notin Searching
      <4>1. \A b \in Blocks : r \notin owed[b]
        BY <3>2 DEF IInv, OwedSince
      <4>2. owed' = owed
        BY <1>0, <2>2, <4>1 DEF Forget, TInv, TypeOK
      <4>3. Searching' = Searching
        BY <2>2, <3>2
      <4> QED BY <2>2, <4>2, <4>3 DEF Grace!vars
    <3> QED BY <3>1, <3>2
  <2>3. CASE ReadUnlock(r)
    <3>1. depth[r] = 1
      BY <1>0, <2>3, Facts DEF ReadUnlock, TInv
    <3>2. Searching' = Searching \ {r}
      BY <1>0, <2>0, <2>3, <3>1, Facts DEF ReadUnlock, Searching, TInv, TypeOK
    <3> QED BY <2>2, <2>3, <3>1, <3>2 DEF ReadUnlock
  <2>4. CASE Die(r)
    <3>1. Searching' = Searching \ {r}
      BY <1>0, <2>0, <2>4, Facts DEF Die, Searching, TInv, TypeOK
    <3> QED BY <2>2, <2>4, <3>1 DEF Die
  <2>5. CASE ReadLockLoad(r)
    <3>1. rpc[r] = "idle" /\ depth[r] = 0 /\ MaxNest = 1
      BY <1>0, <2>5, Facts DEF ReadLockLoad, CanSearch, TInv, Disciplined
    <3>2. Searching' = Searching
      BY <1>0, <2>0, <2>5, <3>1, Facts DEF ReadLockLoad, Searching, TInv, TypeOK
    <3> QED BY <2>5, <3>2 DEF ReadLockLoad, heapVars, Grace!vars
  <2>6. CASE Drain(r)
    <3>1. Searching' = Searching
      BY <1>0, <2>6 DEF Drain, Searching, TInv, TypeOK
    <3> QED BY <2>6, <3>1 DEF Drain, heapVars, Grace!vars
  <2>7. CASE Reuse(r) \/ \E b \in Blocks : Follow(r, b)
    BY <1>1, <2>7 DEF Reuse, Follow, heapVars
  <2>8. ~ReadLockFails(r) /\ ~DetachPid(r) /\ ~DetachCycle(r)
    BY DEF Disciplined, ReadLockFails, DetachPid, DetachCycle, IInv, ReaderOK
  <2> QED BY <1>3, <2>1, <2>3, <2>4, <2>5, <2>6, <2>7, <2>8 DEF ReaderNext
<1> QED BY <1>2, <1>3 DEF Next

\* The whole of cycles, slots, scan and queue (shared.c) does what GracePeriod
\* says in three variables: a block goes back to the allocator only when every
\* search that ran when it was retired has ended.
THEOREM ImplementsGracePeriod ==
  ASSUME Disciplined
  PROVE  Spec => KeepsGracePeriod
<1>1. Init => Grace!Init
  BY GraceInit
<1>2. IInv /\ [Next]_vars => [Grace!Next]_(Grace!vars)
  <2>1. UNCHANGED vars => UNCHANGED Grace!vars
    BY DEF vars, heapVars, readerVars, Searching, Grace!vars
  <2> QED BY <2>1, GraceStep
<1> QED BY <1>1, <1>2, Invariance, PTL DEF Spec, KeepsGracePeriod, Grace!Spec
=============================================================================
