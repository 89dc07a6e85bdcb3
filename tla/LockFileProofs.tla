---------------------------- MODULE LockFileProofs ----------------------------
(***************************************************************************)
(* Mutual exclusion by lock files, for any number of processes, whoever    *)
(* dies and whenever; and LockFile implements LockService.                 *)
(***************************************************************************)
EXTENDS LockFile, TLAPS

\* LockFile implements LockService: read off who holds the lock.
Service == INSTANCE LockService WITH holders <- Holders

\* To the program that calls lockfile, this is a lock.
ImplementsService == Service!Spec

\* Who holds the lock, or is about to, has the lock file, and has left lockfile.
ClaimsFile ==
  /\ \A p \in Procs : pc[p] = "write" => file.by = p
  /\ \A p \in Procs : level[p] > 0 \/ pc[p] = "locked" => file.by = p /\ file.pid = p
  /\ \A p \in Procs : level[p] > 0 => pc[p] = "out" /\ p \in alive

\* Who is in lockfile lives and has tries left.
RunsAlive == \A p \in Procs : pc[p] # "out" => p \in alive /\ tries[p] > 0

\* A file being judged is still the one that was read, or gone; one about to
\* be deleted belongs to nobody who holds the lock.
JudgedRight ==
  /\ file.pid # NoPid => file.pid = file.by
  /\ file # NoFile => file.by # NoPid
  /\ \A p \in Procs : pc[p] = "judge" => seen[p] # NoPid /\ (Exists => file.pid = seen[p])
  /\ \A p \in Procs : pc[p] = "delete" => \A q \in Procs : level[q] = 0

IInv ==
  /\ TypeOK /\ GuardIsExclusive /\ ClaimsFile /\ RunsAlive /\ JudgedRight

-----------------------------------------------------------------------------
LEMMA RetriesNat == Retries \in Nat \ {0}
<1>1. SleepTime \in Nat /\ SleepTime > 0 /\ Timeout * 10000 \in Nat /\ Timeout * 10000 >= SleepTime
  BY TimesAssumption
<1>2. \A a, b \in Nat : b > 0 /\ a >= b => a \div b \in Nat /\ a \div b >= 1
  OBVIOUS
<1> QED BY <1>1, <1>2 DEF Retries

LEMMA InitInv == Init => IInv
<1> SUFFICES ASSUME Init PROVE IInv
  OBVIOUS
<1>1. 0 \in 0 .. Retries /\ 0 \in 0 .. MaxLevel
  BY RetriesNat, TimesAssumption
<1>2. file \in [by : Procs \cup {NoPid}, pid : Procs \cup {NoPid}, old : BOOLEAN]
  BY DEF Init, NoFile
<1>3. TypeOK
  BY <1>1, <1>2 DEF Init, TypeOK
<1> QED BY <1>3 DEF Init, IInv, GuardIsExclusive, ClaimsFile, RunsAlive, JudgedRight,
  NoFile, Inside, Exists


LEMMA StepCall ==
  ASSUME IInv, NEW p \in Procs, Call(p)
  PROVE  IInv'
<1> USE DEF Call, Goto
<1>1. TypeOK'
  BY RetriesNat, TimesAssumption, ProcsAssumption DEF IInv, TypeOK, Waits, Inside, NoFile
<1>2. GuardIsExclusive'
  BY DEF IInv, TypeOK, GuardIsExclusive, Waits, Inside, GuardFree
<1>3. ClaimsFile'
  BY ProcsAssumption DEF IInv, TypeOK, ClaimsFile, RunsAlive, GuardIsExclusive, Waits, Inside, NoFile, Exists, JudgedRight
<1>5. RunsAlive'
  BY RetriesNat DEF IInv, TypeOK, ClaimsFile, RunsAlive, Waits, Inside
<1>4. JudgedRight'
  BY ProcsAssumption DEF IInv, TypeOK, ClaimsFile, JudgedRight, GuardIsExclusive, Waits, Inside, NoFile, Exists
<1> QED BY <1>1, <1>2, <1>3, <1>4, <1>5 DEF IInv

LEMMA StepCallNested ==
  ASSUME IInv, NEW p \in Procs, CallNested(p)
  PROVE  IInv'
<1> USE DEF CallNested, Goto
<1>1. TypeOK'
  BY RetriesNat, TimesAssumption, ProcsAssumption DEF IInv, TypeOK, Waits, Inside, NoFile
<1>2. GuardIsExclusive'
  BY DEF IInv, TypeOK, GuardIsExclusive, Waits, Inside, GuardFree
<1>3. ClaimsFile'
  BY ProcsAssumption DEF IInv, TypeOK, ClaimsFile, RunsAlive, GuardIsExclusive, Waits, Inside, NoFile, Exists, JudgedRight
<1>5. RunsAlive'
  BY RetriesNat DEF IInv, TypeOK, ClaimsFile, RunsAlive, Waits, Inside
<1>4. JudgedRight'
  BY ProcsAssumption DEF IInv, TypeOK, ClaimsFile, JudgedRight, GuardIsExclusive, Waits, Inside, NoFile, Exists
<1> QED BY <1>1, <1>2, <1>3, <1>4, <1>5 DEF IInv

LEMMA StepTakeGuard ==
  ASSUME IInv, NEW p \in Procs, TakeGuard(p)
  PROVE  IInv'
<1> USE DEF TakeGuard, Goto
<1>1. TypeOK'
  BY RetriesNat, TimesAssumption, ProcsAssumption DEF IInv, TypeOK, Waits, Inside, NoFile
<1>2. GuardIsExclusive'
  BY DEF IInv, TypeOK, GuardIsExclusive, Waits, Inside, GuardFree
<1>3. ClaimsFile'
  BY ProcsAssumption DEF IInv, TypeOK, ClaimsFile, RunsAlive, GuardIsExclusive, Waits, Inside, NoFile, Exists, JudgedRight
<1>5. RunsAlive'
  BY RetriesNat DEF IInv, TypeOK, ClaimsFile, RunsAlive, Waits, Inside
<1>4. JudgedRight'
  BY ProcsAssumption DEF IInv, TypeOK, ClaimsFile, JudgedRight, GuardIsExclusive, Waits, Inside, NoFile, Exists
<1> QED BY <1>1, <1>2, <1>3, <1>4, <1>5 DEF IInv

LEMMA StepGuardTimeout ==
  ASSUME IInv, NEW p \in Procs, GuardTimeout(p)
  PROVE  IInv'
<1> USE DEF GuardTimeout, Goto
<1>1. TypeOK'
  BY RetriesNat, TimesAssumption, ProcsAssumption DEF IInv, TypeOK, Waits, Inside, NoFile
<1>2. GuardIsExclusive'
  BY DEF IInv, TypeOK, GuardIsExclusive, Waits, Inside, GuardFree
<1>3. ClaimsFile'
  BY ProcsAssumption DEF IInv, TypeOK, ClaimsFile, RunsAlive, GuardIsExclusive, Waits, Inside, NoFile, Exists, JudgedRight
<1>5. RunsAlive'
  BY RetriesNat DEF IInv, TypeOK, ClaimsFile, RunsAlive, Waits, Inside
<1>4. JudgedRight'
  BY ProcsAssumption DEF IInv, TypeOK, ClaimsFile, JudgedRight, GuardIsExclusive, Waits, Inside, NoFile, Exists
<1> QED BY <1>1, <1>2, <1>3, <1>4, <1>5 DEF IInv

LEMMA StepCreate ==
  ASSUME IInv, NEW p \in Procs, Create(p)
  PROVE  IInv'
<1> USE DEF Create, Goto
<1>1. TypeOK'
  <2>1. file' \in [by : Procs \cup {NoPid}, pid : Procs \cup {NoPid}, old : BOOLEAN]
    <3>1. [by |-> p, pid |-> NoPid, old |-> FALSE]
            \in [by : Procs \cup {NoPid}, pid : Procs \cup {NoPid}, old : BOOLEAN]
      OBVIOUS
    <3> QED BY <3>1 DEF IInv, TypeOK
  <2>2. pc' \in [Procs -> {"out"} \cup Waits \cup Inside]
    BY DEF IInv, TypeOK, Inside
  <2> QED BY <2>1, <2>2 DEF IInv, TypeOK
<1>2. GuardIsExclusive'
  BY DEF IInv, TypeOK, GuardIsExclusive, Waits, Inside, GuardFree
<1>3. ClaimsFile'
  BY ProcsAssumption DEF IInv, TypeOK, ClaimsFile, RunsAlive, GuardIsExclusive, Waits, Inside, NoFile, Exists, JudgedRight
<1>5. RunsAlive'
  BY RetriesNat DEF IInv, TypeOK, ClaimsFile, RunsAlive, Waits, Inside
<1>4. JudgedRight'
  BY ProcsAssumption DEF IInv, TypeOK, ClaimsFile, JudgedRight, GuardIsExclusive, Waits, Inside, NoFile, Exists
<1> QED BY <1>1, <1>2, <1>3, <1>4, <1>5 DEF IInv

LEMMA StepCreateFails ==
  ASSUME IInv, NEW p \in Procs, CreateFails(p)
  PROVE  IInv'
<1> USE DEF CreateFails, Goto, DropGuard
<1>1. TypeOK'
  <2>1. pc' \in [Procs -> {"out"} \cup Waits \cup Inside]
    BY DEF IInv, TypeOK, Waits, Inside
  <2>2. guard' \in BOOLEAN /\ guarding' \in [Procs -> BOOLEAN]
    BY DEF IInv, TypeOK
  <2>3. locking' \in [Procs -> BOOLEAN]
    BY DEF IInv, TypeOK
  <2> QED BY <2>1, <2>2, <2>3 DEF IInv, TypeOK
<1>2. GuardIsExclusive'
  BY DEF IInv, TypeOK, GuardIsExclusive, Waits, Inside, GuardFree
<1>3. ClaimsFile'
  BY ProcsAssumption DEF IInv, TypeOK, ClaimsFile, RunsAlive, GuardIsExclusive, Waits, Inside, NoFile, Exists, JudgedRight
<1>5. RunsAlive'
  BY RetriesNat DEF IInv, TypeOK, ClaimsFile, RunsAlive, Waits, Inside
<1>4. JudgedRight'
  BY ProcsAssumption DEF IInv, TypeOK, ClaimsFile, JudgedRight, GuardIsExclusive, Waits, Inside, NoFile, Exists
<1> QED BY <1>1, <1>2, <1>3, <1>4, <1>5 DEF IInv

LEMMA StepWrite ==
  ASSUME IInv, NEW p \in Procs, Write(p)
  PROVE  IInv'
<1> USE DEF Write, Goto
<1>1. TypeOK'
  BY RetriesNat, TimesAssumption, ProcsAssumption DEF IInv, TypeOK, Waits, Inside, NoFile
<1>2. GuardIsExclusive'
  BY DEF IInv, TypeOK, GuardIsExclusive, Waits, Inside, GuardFree
<1>3. ClaimsFile'
  BY ProcsAssumption DEF IInv, TypeOK, ClaimsFile, RunsAlive, GuardIsExclusive, Waits, Inside, NoFile, Exists, JudgedRight
<1>5. RunsAlive'
  BY RetriesNat DEF IInv, TypeOK, ClaimsFile, RunsAlive, Waits, Inside
<1>4. JudgedRight'
  BY ProcsAssumption DEF IInv, TypeOK, ClaimsFile, JudgedRight, GuardIsExclusive, Waits, Inside, NoFile, Exists
<1> QED BY <1>1, <1>2, <1>3, <1>4, <1>5 DEF IInv

LEMMA StepLocked ==
  ASSUME IInv, NEW p \in Procs, Locked(p)
  PROVE  IInv'
<1> USE DEF Locked, Goto, DropGuard
<1>1. TypeOK'
  <2>1. pc' \in [Procs -> {"out"} \cup Waits \cup Inside]
    BY DEF IInv, TypeOK, Waits, Inside
  <2>2. guard' \in BOOLEAN /\ guarding' \in [Procs -> BOOLEAN]
    BY DEF IInv, TypeOK
  <2>3. locking' \in [Procs -> BOOLEAN]
    BY DEF IInv, TypeOK
  <2>4. level' \in [Procs -> 0 .. MaxLevel]
    BY TimesAssumption DEF IInv, TypeOK
  <2> QED BY <2>1, <2>2, <2>3, <2>4 DEF IInv, TypeOK
<1>2. GuardIsExclusive'
  BY DEF IInv, TypeOK, GuardIsExclusive, Waits, Inside, GuardFree
<1>3. ClaimsFile'
  BY ProcsAssumption DEF IInv, TypeOK, ClaimsFile, RunsAlive, GuardIsExclusive, Waits, Inside, NoFile, Exists, JudgedRight
<1>5. RunsAlive'
  BY RetriesNat DEF IInv, TypeOK, ClaimsFile, RunsAlive, Waits, Inside
<1>4. JudgedRight'
  BY ProcsAssumption DEF IInv, TypeOK, ClaimsFile, JudgedRight, GuardIsExclusive, Waits, Inside, NoFile, Exists
<1> QED BY <1>1, <1>2, <1>3, <1>4, <1>5 DEF IInv

LEMMA StepBusy ==
  ASSUME IInv, NEW p \in Procs, Busy(p)
  PROVE  IInv'
<1> USE DEF Busy, Goto, DropGuard
<1>1. TypeOK'
  <2>1. pc' \in [Procs -> {"out"} \cup Waits \cup Inside]
    BY DEF IInv, TypeOK, Waits, Inside
  <2>2. guard' \in BOOLEAN /\ guarding' \in [Procs -> BOOLEAN]
    BY DEF IInv, TypeOK
  <2> QED BY <2>1, <2>2 DEF IInv, TypeOK
<1>2. GuardIsExclusive'
  BY DEF IInv, TypeOK, GuardIsExclusive, Waits, Inside, GuardFree
<1>3. ClaimsFile'
  BY ProcsAssumption DEF IInv, TypeOK, ClaimsFile, RunsAlive, GuardIsExclusive, Waits, Inside, NoFile, Exists, JudgedRight
<1>5. RunsAlive'
  BY RetriesNat DEF IInv, TypeOK, ClaimsFile, RunsAlive, Waits, Inside
<1>4. JudgedRight'
  BY ProcsAssumption DEF IInv, TypeOK, ClaimsFile, JudgedRight, GuardIsExclusive, Waits, Inside, NoFile, Exists
<1> QED BY <1>1, <1>2, <1>3, <1>4, <1>5 DEF IInv

LEMMA StepMtime ==
  ASSUME IInv, NEW p \in Procs, Mtime(p)
  PROVE  IInv'
<1> USE DEF Mtime, Goto
<1>1. TypeOK'
  BY RetriesNat, TimesAssumption, ProcsAssumption DEF IInv, TypeOK, Waits, Inside, NoFile
<1>2. GuardIsExclusive'
  BY DEF IInv, TypeOK, GuardIsExclusive, Waits, Inside, GuardFree
<1>3. ClaimsFile'
  BY ProcsAssumption DEF IInv, TypeOK, ClaimsFile, RunsAlive, GuardIsExclusive, Waits, Inside, NoFile, Exists, JudgedRight
<1>5. RunsAlive'
  BY RetriesNat DEF IInv, TypeOK, ClaimsFile, RunsAlive, Waits, Inside
<1>4. JudgedRight'
  BY ProcsAssumption DEF IInv, TypeOK, ClaimsFile, JudgedRight, GuardIsExclusive, Waits, Inside, NoFile, Exists
<1> QED BY <1>1, <1>2, <1>3, <1>4, <1>5 DEF IInv

LEMMA StepOpen ==
  ASSUME IInv, NEW p \in Procs, Open(p)
  PROVE  IInv'
<1> USE DEF Open, Goto
<1>1. TypeOK'
  BY RetriesNat, TimesAssumption, ProcsAssumption DEF IInv, TypeOK, Waits, Inside, NoFile
<1>2. GuardIsExclusive'
  BY DEF IInv, TypeOK, GuardIsExclusive, Waits, Inside, GuardFree
<1>3. ClaimsFile'
  BY ProcsAssumption DEF IInv, TypeOK, ClaimsFile, RunsAlive, GuardIsExclusive, Waits, Inside, NoFile, Exists, JudgedRight
<1>5. RunsAlive'
  BY RetriesNat DEF IInv, TypeOK, ClaimsFile, RunsAlive, Waits, Inside
<1>4. JudgedRight'
  BY ProcsAssumption DEF IInv, TypeOK, ClaimsFile, JudgedRight, GuardIsExclusive, Waits, Inside, NoFile, Exists
<1> QED BY <1>1, <1>2, <1>3, <1>4, <1>5 DEF IInv

LEMMA StepJudge ==
  ASSUME IInv, NEW p \in Procs, Judge(p)
  PROVE  IInv'
<1> USE DEF Judge, Goto, Dead
<1>1. TypeOK'
  BY RetriesNat, TimesAssumption, ProcsAssumption DEF IInv, TypeOK, Waits, Inside, NoFile
<1>2. GuardIsExclusive'
  BY DEF IInv, TypeOK, GuardIsExclusive, Waits, Inside, GuardFree
<1>3. ClaimsFile'
  BY ProcsAssumption DEF IInv, TypeOK, ClaimsFile, RunsAlive, GuardIsExclusive, Waits, Inside, NoFile, Exists, JudgedRight
<1>5. RunsAlive'
  BY RetriesNat DEF IInv, TypeOK, ClaimsFile, RunsAlive, Waits, Inside
<1>4. JudgedRight'
  BY ProcsAssumption DEF IInv, TypeOK, ClaimsFile, JudgedRight, GuardIsExclusive, Waits, Inside, NoFile, Exists
<1> QED BY <1>1, <1>2, <1>3, <1>4, <1>5 DEF IInv

LEMMA StepDelete ==
  ASSUME IInv, NEW p \in Procs, Delete(p)
  PROVE  IInv'
<1> USE DEF Delete, Goto
<1>1. TypeOK'
  BY RetriesNat, TimesAssumption, ProcsAssumption DEF IInv, TypeOK, Waits, Inside, NoFile
<1>2. GuardIsExclusive'
  BY DEF IInv, TypeOK, GuardIsExclusive, Waits, Inside, GuardFree
<1>3. ClaimsFile'
  BY ProcsAssumption DEF IInv, TypeOK, ClaimsFile, RunsAlive, GuardIsExclusive, Waits, Inside, NoFile, Exists, JudgedRight
<1>5. RunsAlive'
  BY RetriesNat DEF IInv, TypeOK, ClaimsFile, RunsAlive, Waits, Inside
<1>4. JudgedRight'
  BY ProcsAssumption DEF IInv, TypeOK, ClaimsFile, JudgedRight, GuardIsExclusive, Waits, Inside, NoFile, Exists
<1> QED BY <1>1, <1>2, <1>3, <1>4, <1>5 DEF IInv

LEMMA StepRelease ==
  ASSUME IInv, NEW p \in Procs, Release(p)
  PROVE  IInv'
<1> USE DEF Release, Goto, DropGuard, TriesLeft
<1>1. TypeOK'
  <2>1. pc' \in [Procs -> {"out"} \cup Waits \cup Inside]
    BY DEF IInv, TypeOK, Waits, Inside
  <2>2. guard' \in BOOLEAN /\ guarding' \in [Procs -> BOOLEAN]
    BY DEF IInv, TypeOK
  <2>3. locking' \in [Procs -> BOOLEAN]
    BY DEF IInv, TypeOK
  <2>4. tries' \in [Procs -> 0 .. Retries]
    BY RetriesNat DEF IInv, TypeOK, RunsAlive, Inside
  <2> QED BY <2>1, <2>2, <2>3, <2>4 DEF IInv, TypeOK
<1>2. GuardIsExclusive'
  BY DEF IInv, TypeOK, GuardIsExclusive, Waits, Inside, GuardFree
<1>3. ClaimsFile'
  BY ProcsAssumption DEF IInv, TypeOK, ClaimsFile, RunsAlive, GuardIsExclusive, Waits, Inside, NoFile, Exists, JudgedRight
<1>5. RunsAlive'
  BY RetriesNat DEF IInv, TypeOK, ClaimsFile, RunsAlive, Waits, Inside
<1>4. JudgedRight'
  BY ProcsAssumption DEF IInv, TypeOK, ClaimsFile, JudgedRight, GuardIsExclusive, Waits, Inside, NoFile, Exists
<1> QED BY <1>1, <1>2, <1>3, <1>4, <1>5 DEF IInv

LEMMA StepUnlock ==
  ASSUME IInv, NEW p \in Procs, Unlock(p)
  PROVE  IInv'
<1> USE DEF Unlock, Goto, LastUnlock
<1>1. TypeOK'
  BY RetriesNat, TimesAssumption, ProcsAssumption DEF IInv, TypeOK, Waits, Inside, NoFile
<1>2. GuardIsExclusive'
  BY DEF IInv, TypeOK, GuardIsExclusive, Waits, Inside, GuardFree
<1>3. ClaimsFile'
  BY ProcsAssumption DEF IInv, TypeOK, ClaimsFile, RunsAlive, GuardIsExclusive, Waits, Inside, NoFile, Exists, JudgedRight
<1>5. RunsAlive'
  BY RetriesNat DEF IInv, TypeOK, ClaimsFile, RunsAlive, Waits, Inside
<1>4. JudgedRight'
  BY ProcsAssumption DEF IInv, TypeOK, ClaimsFile, JudgedRight, GuardIsExclusive, Waits, Inside, NoFile, Exists
<1> QED BY <1>1, <1>2, <1>3, <1>4, <1>5 DEF IInv

LEMMA StepDie ==
  ASSUME IInv, NEW p \in Procs, Die(p)
  PROVE  IInv'
<1> USE DEF Die, Goto
<1>1. TypeOK'
  BY RetriesNat, TimesAssumption, ProcsAssumption DEF IInv, TypeOK, Waits, Inside, NoFile
<1>2. GuardIsExclusive'
  BY DEF IInv, TypeOK, GuardIsExclusive, Waits, Inside, GuardFree
<1>3. ClaimsFile'
  BY ProcsAssumption DEF IInv, TypeOK, ClaimsFile, RunsAlive, GuardIsExclusive, Waits, Inside, NoFile, Exists, JudgedRight
<1>5. RunsAlive'
  BY RetriesNat DEF IInv, TypeOK, ClaimsFile, RunsAlive, Waits, Inside
<1>4. JudgedRight'
  BY ProcsAssumption DEF IInv, TypeOK, ClaimsFile, JudgedRight, GuardIsExclusive, Waits, Inside, NoFile, Exists
<1> QED BY <1>1, <1>2, <1>3, <1>4, <1>5 DEF IInv

LEMMA StepStart ==
  ASSUME IInv, NEW p \in Procs, Start(p)
  PROVE  IInv'
<1> USE DEF Start, Goto, local
<1>1. TypeOK'
  BY RetriesNat, TimesAssumption, ProcsAssumption DEF IInv, TypeOK, Waits, Inside, NoFile
<1>2. GuardIsExclusive'
  BY DEF IInv, TypeOK, GuardIsExclusive, Waits, Inside, GuardFree
<1>3. ClaimsFile'
  BY ProcsAssumption DEF IInv, TypeOK, ClaimsFile, RunsAlive, GuardIsExclusive, Waits, Inside, NoFile, Exists, JudgedRight
<1>5. RunsAlive'
  BY RetriesNat DEF IInv, TypeOK, ClaimsFile, RunsAlive, Waits, Inside
<1>4. JudgedRight'
  BY ProcsAssumption DEF IInv, TypeOK, ClaimsFile, JudgedRight, GuardIsExclusive, Waits, Inside, NoFile, Exists
<1> QED BY <1>1, <1>2, <1>3, <1>4, <1>5 DEF IInv

LEMMA StepAge ==
  ASSUME IInv, Age
  PROVE  IInv'
<1> USE DEF Age, local
<1>1. TypeOK'
  BY DEF IInv, TypeOK
<1>2. GuardIsExclusive' /\ RunsAlive'
  BY DEF IInv, GuardIsExclusive, RunsAlive
<1>3. ClaimsFile' /\ JudgedRight'
  BY DEF IInv, TypeOK, ClaimsFile, JudgedRight, Exists, NoFile
<1> QED BY <1>1, <1>2, <1>3 DEF IInv

LEMMA Invariance == Spec => []IInv
<1>1. IInv /\ [Next]_vars => IInv'
  <2>1. ASSUME IInv, Next PROVE IInv'
    BY <2>1, StepCall, StepCallNested, StepTakeGuard, StepGuardTimeout, StepCreate,
       StepCreateFails, StepWrite, StepLocked, StepBusy, StepMtime, StepOpen, StepJudge,
       StepDelete, StepRelease, StepUnlock, StepDie, StepStart, StepAge DEF Next, Proceed
  <2>2. ASSUME IInv, UNCHANGED vars PROVE IInv'
    BY <2>2 DEF IInv, TypeOK, GuardIsExclusive, ClaimsFile, RunsAlive, JudgedRight, Exists,
       vars, local
  <2> QED BY <2>1, <2>2
<1> QED BY <1>1, InitInv, PTL DEF Spec

\* Never two processes between lockfile and the last unlockfile, for any
\* number of them, though lock files are deleted as stale, guards get lost and
\* pids come back (lockfile, unlockfile).
THEOREM LockExcludes == Spec => []MutualExclusion
<1>1. IInv => MutualExclusion
  BY DEF IInv, ClaimsFile, MutualExclusion, Holders
<1> QED BY <1>1, Invariance, PTL

\* Levels and tries keep to their bounds: no recursive lock beyond MaxLevel, and
\* lockfile gives up in time (TypeOK).
THEOREM LevelsAndTriesBounded == Spec => []TypeOK
<1>1. IInv => TypeOK
  BY DEF IInv
<1> QED BY <1>1, Invariance, PTL

\* The holder's file stays, with its pid, until it unlocks (lockfile).
THEOREM HolderKeepsFile == Spec => []HolderHasFile
<1>1. IInv => HolderHasFile
  BY DEF IInv, ClaimsFile, HolderHasFile, Holders
<1> QED BY <1>1, Invariance, PTL

\* At most one process creates or judges the lock file (the inner lockfile).
THEOREM GuardExcludes == Spec => []GuardIsExclusive
<1>1. IInv => GuardIsExclusive
  BY DEF IInv
<1> QED BY <1>1, Invariance, PTL

LEMMA ServiceStep ==
  ASSUME IInv, Next
  PROVE  [Service!Next]_Holders
<1>0. level \in [Procs -> 0 .. MaxLevel] /\ IInv'
  <2>1. IInv'
    BY StepCall, StepCallNested, StepTakeGuard, StepGuardTimeout, StepCreate,
       StepCreateFails, StepWrite, StepLocked, StepBusy, StepMtime, StepOpen, StepJudge,
       StepDelete, StepRelease, StepUnlock, StepDie, StepStart, StepAge DEF Next, Proceed
  <2> QED BY <2>1 DEF IInv, TypeOK
<1>1. ASSUME NEW p \in Procs, Locked(p)
      PROVE  Service!Next
  <2>1. file.by = p
    BY <1>1 DEF Locked, IInv, ClaimsFile
  <2>2. \A q \in Procs : level[q] > 0 => q = p
    BY <2>1 DEF IInv, ClaimsFile
  <2>3. level[p] = 0
    BY <1>0, <1>1 DEF Locked, IInv, ClaimsFile
  <2>4. Holders = {} /\ Holders' = {p}
    BY <1>0, <1>1, <2>2, <2>3 DEF Locked, Holders
  <2> QED BY <2>4 DEF Service!Next, Service!Acquire
<1>2. ASSUME NEW p \in Procs, Unlock(p)
      PROVE  Service!Next \/ Holders' = Holders
  <2>1. CASE level[p] = 1
    <3>1. Holders' = Holders \ {p} /\ p \in Holders
      BY <1>0, <1>2, <2>1 DEF Unlock, Holders
    <3> QED BY <3>1 DEF Service!Next, Service!Release
  <2>2. CASE level[p] # 1
    BY <1>0, <1>2, <2>2 DEF Unlock, Holders
  <2> QED BY <2>1, <2>2
<1>3. ASSUME NEW p \in Procs, Die(p)
      PROVE  Service!Next \/ Holders' = Holders
  <2>1. Holders' = Holders \ {p}
    BY <1>0, <1>3 DEF Die, Holders
  <2>2. CASE p \in Holders
    BY <2>1, <2>2 DEF Service!Next, Service!Release
  <2>3. CASE p \notin Holders
    BY <2>1, <2>3
  <2> QED BY <2>2, <2>3
<1>4. ASSUME NEW p \in Procs, CallNested(p)
      PROVE  Holders' = Holders
  BY <1>0, <1>4, TimesAssumption DEF CallNested, Holders
<1>5. ASSUME UNCHANGED level
      PROVE  Holders' = Holders
  BY <1>5 DEF Holders
<1> QED BY <1>1, <1>2, <1>3, <1>4, <1>5 DEF Next, Proceed, Call, TakeGuard, GuardTimeout,
  Create, CreateFails, Write, Busy, Mtime, Open, Judge, Delete, Release, Start, Age, local

\* All of lockfile and unlockfile is, for the program around it, one lock:
\* acquired when nobody has it, released by its holder (or by its death).
THEOREM ImplementsLock == Spec => ImplementsService
<1>1. Init => Service!Init
  BY DEF Init, Service!Init, Holders
<1>2. IInv /\ [Next]_vars => [Service!Next]_Holders
  <2>1. UNCHANGED vars => UNCHANGED Holders
    BY DEF vars, local, Holders
  <2> QED BY <2>1, ServiceStep
<1> QED BY <1>1, <1>2, Invariance, PTL DEF Spec, ImplementsService, Service!Spec
==============================================================================
