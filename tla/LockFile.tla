------------------------------ MODULE LockFile ------------------------------
(***************************************************************************)
(* stapi/server/lock.tcl: processes that share a directory take turns by   *)
(* creating a lock file.  The holder writes its pid in it; who finds the   *)
(* file in its way may delete it if that process is dead.  Creating and    *)
(* judging the file are done under a second lock file, the guard, for      *)
(* which there is no such check.                                           *)
(*                                                                         *)
(* One lock name.  The pid in the guard file is never read, so the guard   *)
(* is only there or not.                                                   *)
(***************************************************************************)
EXTENDS Integers, FiniteSets

CONSTANTS
  Procs,      \* the pids of the processes
  NoPid,      \* what an unwritten lock file has for a pid
  Timeout,    \* the timeout argument of lockfile, in seconds
  SleepTime,  \* sleep_time, in milliseconds
  MaxLevel,   \* calls of lockfile a holder nests
  Mortal,     \* processes that may die
  Reborn,     \* pids the system gives to a new process
  Failing,    \* processes whose open may fail for another reason than EEXIST
  SlowGuard   \* can an attempt at the guard time out while its holder runs?

ASSUME ProcsAssumption == NoPid \notin Procs
ASSUME TimesAssumption ==
  /\ Timeout \in Nat /\ SleepTime \in Nat \ {0} /\ MaxLevel \in Nat \ {0}
  /\ Timeout * 10000 >= SleepTime  \* it tries at least once
ASSUME FatesAssumption == SlowGuard \in BOOLEAN

\* retries: how often lockfile tries.
Retries == (Timeout * 10000) \div SleepTime

VARIABLES
  file,      \* $name.lock, or NoFile
  guard,     \* is there a $name.lock.lock?
  alive,     \* the processes that run
  pc,        \* where in lockfile a process is; "out" of it
  level,     \* lock_level($name)
  guarding,  \* lock_level($name.lock): does the process own the guard?
  locking,   \* the variable locking
  tries,     \* retries left
  seen       \* the pid read from the lock file

local == <<pc, level, guarding, locking, tries, seen>>
vars  == <<file, guard, alive, local>>

NoFile == [by |-> NoPid, pid |-> NoPid, old |-> FALSE]
Exists == file # NoFile

\* Inside, a process has the guard, but for the places where it waits for it.
Waits  == {"guard", "recheck"}
Inside == {"create", "write", "locked", "busy", "mtime", "open", "judge", "delete", "release"}

TypeOK ==
  /\ file \in [by : Procs \cup {NoPid}, pid : Procs \cup {NoPid}, old : BOOLEAN]
  /\ guard \in BOOLEAN
  /\ alive \subseteq Procs
  /\ pc \in [Procs -> {"out"} \cup Waits \cup Inside]
  /\ level \in [Procs -> 0 .. MaxLevel]
  /\ guarding \in [Procs -> BOOLEAN]
  /\ locking \in [Procs -> BOOLEAN]
  /\ tries \in [Procs -> 0 .. Retries]
  /\ seen \in [Procs -> Procs \cup {NoPid}]

Init ==
  /\ file = NoFile /\ guard = FALSE /\ alive = Procs
  /\ pc = [p \in Procs |-> "out"]
  /\ level = [p \in Procs |-> 0]
  /\ guarding = [p \in Procs |-> FALSE]
  /\ locking = [p \in Procs |-> FALSE]
  /\ tries = [p \in Procs |-> 0]
  /\ seen = [p \in Procs |-> NoPid]

Goto(p, place) == pc' = [pc EXCEPT ![p] = place]

\* unlockfile on the guard.
DropGuard(p) ==
  /\ guard' = FALSE
  /\ guarding' = [guarding EXCEPT ![p] = FALSE]

\* lockfile is called.  With "locking" set it only says "Recursive lock call".
Call(p) ==
  /\ p \in alive /\ pc[p] = "out" /\ level[p] = 0 /\ ~locking[p]
  /\ locking' = [locking EXCEPT ![p] = TRUE]
  /\ tries' = [tries EXCEPT ![p] = Retries]
  /\ Goto(p, "guard")
  /\ UNCHANGED <<file, guard, alive, level, guarding, seen>>

\* A holder calls lockfile again.
CallNested(p) ==
  /\ level[p] \in 1 .. MaxLevel - 1
  /\ level' = [level EXCEPT ![p] = @ + 1]
  /\ UNCHANGED <<file, guard, alive, pc, guarding, locking, tries, seen>>

\* Mutant: the guard file is opened without EXCL.
GuardFree_Shared(p) == TRUE

\* open {CREAT EXCL} of the guard succeeds.
GuardFree(p) == ~guard

\* The inner lockfile, for the guard, returns 1: to create the lock file, or
\* to look at the one that is in the way.
TakeGuard(p) ==
  /\ pc[p] \in Waits
  /\ GuardFree(p)
  /\ guard' = TRUE
  /\ guarding' = [guarding EXCEPT ![p] = TRUE]
  /\ Goto(p, IF pc[p] = "guard" THEN "create" ELSE "mtime")
  /\ UNCHANGED <<file, alive, level, locking, tries, seen>>

\* Nobody who runs lockfile has the guard.
Orphaned == guard /\ \A p \in Procs : guarding[p] => pc[p] = "out"

\* The inner lockfile returns 0: the first time lockfile goes on to look at
\* the lock file, the second time it throws "PANIC!".
GuardTimeout(p) ==
  /\ pc[p] \in Waits /\ guard
  /\ SlowGuard \/ Orphaned
  /\ Goto(p, IF pc[p] = "guard" THEN "recheck" ELSE "out")
  /\ UNCHANGED <<file, guard, alive, level, guarding, locking, tries, seen>>

\* open {CREAT EXCL} of the lock file.
Create(p) ==
  /\ pc[p] = "create"
  /\ IF Exists
     THEN /\ Goto(p, "busy")
          /\ UNCHANGED file
     ELSE /\ Goto(p, "write")
          /\ file' = [by |-> p, pid |-> NoPid, old |-> FALSE]
  /\ UNCHANGED <<guard, alive, level, guarding, locking, tries, seen>>

\* The open fails for another reason than EEXIST: lockfile returns 0.
CreateFails(p) ==
  /\ pc[p] = "create" /\ p \in Failing
  /\ DropGuard(p)
  /\ locking' = [locking EXCEPT ![p] = FALSE]
  /\ Goto(p, "out")
  /\ UNCHANGED <<file, alive, level, tries, seen>>

\* puts $fp [pid]
Write(p) ==
  /\ pc[p] = "write"
  /\ file' = [file EXCEPT !.pid = p]
  /\ Goto(p, "locked")
  /\ UNCHANGED <<guard, alive, level, guarding, locking, tries, seen>>

\* lockfile returns 1.
Locked(p) ==
  /\ pc[p] = "locked"
  /\ DropGuard(p)
  /\ level' = [level EXCEPT ![p] = 1]
  /\ locking' = [locking EXCEPT ![p] = FALSE]
  /\ Goto(p, "out")
  /\ UNCHANGED <<file, alive, tries, seen>>

\* The file was there: give the guard back, to take it again at once.
Busy(p) ==
  /\ pc[p] = "busy"
  /\ DropGuard(p)
  /\ Goto(p, "recheck")
  /\ UNCHANGED <<file, alive, level, locking, tries, seen>>

\* file mtime: only a file that has been there for a while is looked into.
Mtime(p) ==
  /\ pc[p] = "mtime"
  /\ Goto(p, IF Exists /\ file.old THEN "open" ELSE "release")
  /\ UNCHANGED <<file, guard, alive, level, guarding, locking, tries, seen>>

\* open and gets.  The open is not in a catch: if the holder has deleted the
\* file since, lockfile throws, guard and "locking" as they are.
Open(p) ==
  /\ pc[p] = "open"
  /\ seen' = [seen EXCEPT ![p] = file.pid]
  /\ Goto(p, IF ~Exists THEN "out" ELSE IF file.pid = NoPid THEN "release" ELSE "judge")
  /\ UNCHANGED <<file, guard, alive, level, guarding, locking, tries>>

\* Mutant: "kill -0" is not asked.
Dead_Assumed(p) == TRUE

\* Mutant: every failure of kill is taken for a running process.
Dead_Never(p) == FALSE

\* dead_proc
Dead(p) == p \notin alive

Judge(p) ==
  /\ pc[p] = "judge"
  /\ Goto(p, IF Dead(seen[p]) THEN "delete" ELSE "release")
  /\ UNCHANGED <<file, guard, alive, level, guarding, locking, tries, seen>>

\* file delete of a stale lock file.
Delete(p) ==
  /\ pc[p] = "delete"
  /\ file' = NoFile
  /\ Goto(p, "release")
  /\ UNCHANGED <<guard, alive, level, guarding, locking, tries, seen>>

\* Mutant: the loop forgets to count.
TriesLeft_Uncounted(p) == tries[p]

TriesLeft(p) == tries[p] - 1

\* The end of an iteration: the guard is given back and lockfile sleeps.
Release(p) ==
  /\ pc[p] = "release"
  /\ DropGuard(p)
  /\ tries' = [tries EXCEPT ![p] = TriesLeft(p)]
  /\ Goto(p, IF TriesLeft(p) = 0 THEN "out" ELSE "guard")
  /\ locking' = [locking EXCEPT ![p] = TriesLeft(p) # 0]
  /\ UNCHANGED <<file, alive, level, seen>>

\* Mutant: every call deletes the file.
LastUnlock_Always(p) == TRUE

LastUnlock(p) == level[p] = 1

\* unlockfile: the last one deletes the lock file, whosever it is.
Unlock(p) ==
  /\ level[p] > 0
  /\ level' = [level EXCEPT ![p] = @ - 1]
  /\ file' = IF LastUnlock(p) THEN NoFile ELSE file
  /\ UNCHANGED <<guard, alive, pc, guarding, locking, tries, seen>>

\* A process dies: its files stay.
Die(p) ==
  /\ p \in Mortal \cap alive
  /\ alive' = alive \ {p}
  /\ Goto(p, "out")
  /\ level' = [level EXCEPT ![p] = 0]
  /\ guarding' = [guarding EXCEPT ![p] = FALSE]
  /\ locking' = [locking EXCEPT ![p] = FALSE]
  /\ UNCHANGED <<file, guard, tries, seen>>

\* A new process has the pid of a dead one.
Start(p) ==
  /\ p \in Reborn \ alive
  /\ alive' = alive \cup {p}
  /\ UNCHANGED <<file, guard, local>>

\* Time passes: the lock file is older than sleep_time / 500 seconds.
Age ==
  /\ Exists /\ ~file.old
  /\ file' = [file EXCEPT !.old = TRUE]
  /\ UNCHANGED <<guard, alive, local>>

\* What a process in lockfile does next.
Proceed(p) ==
  \/ TakeGuard(p) \/ GuardTimeout(p)
  \/ Create(p) \/ CreateFails(p) \/ Write(p) \/ Locked(p) \/ Busy(p)
  \/ Mtime(p) \/ Open(p) \/ Judge(p) \/ Delete(p) \/ Release(p)

Next ==
  \/ \E p \in Procs :
       Call(p) \/ CallNested(p) \/ Proceed(p) \/ Unlock(p) \/ Die(p) \/ Start(p)
  \/ Age

Spec == Init /\ [][Next]_vars

\* lockfile waits for nobody: each of its steps is taken or times out.
FairSpec == Spec /\ \A p \in Procs : WF_vars(Proceed(p))

\* Time passes, and processes that use the lock come back to it.
BusySpec == FairSpec /\ WF_vars(Age) /\ \A p \in Procs : WF_vars(Call(p))

-----------------------------------------------------------------------------
Holders == {p \in Procs : level[p] > 0}

\* At most one process is between lockfile and its last unlockfile, whoever
\* dies, times out or finds a stale file meanwhile.
MutualExclusion == \A p, q \in Holders : p = q

\* The holder's lock file is there, with its pid in it: nobody deletes it as
\* stale, and who looks at it finds the right process.
HolderHasFile == \A p \in Holders : file.pid = p

\* There is one guard, and who is judging or creating the lock file has it.
GuardIsExclusive ==
  /\ \A p \in Procs : pc[p] \in Inside => guarding[p]
  /\ \A p \in Procs : guarding[p] => guard
  /\ \A p, q \in Procs : guarding[p] /\ guarding[q] => p = q

\* Every call of lockfile comes to an end, whatever the others do.
CallsReturn == \A p \in Procs : pc[p] # "out" ~> pc[p] = "out"

\* lockfile has thrown: "locking" stays set, and every call to come is refused
\* as recursive.
Shut(p) == pc[p] = "out" /\ locking[p]

\* The lock file of a dead process is deleted, unless the guard is lost or
\* lockfile has thrown in every process that runs.
StaleIsDeleted ==
  file.pid \in Procs \ alive ~>
    (file.pid \notin Procs \ alive \/ Orphaned \/ \A p \in alive : Shut(p))
=============================================================================
