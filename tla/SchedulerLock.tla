--------------------------- MODULE SchedulerLock ----------------------------
(***************************************************************************)
(* utils/cronTasksLock.ts and its use in utils/cronScheduler.ts: the       *)
(* sessions of a project directory elect one scheduler with a lock file.   *)
(*                                                                         *)
(* Every file operation is awaited, so each is a step of its own: the      *)
(* exclusive create opens an empty file that a later step fills; a lock is *)
(* read, judged, and removed in separate steps; a process may die at any   *)
(* point and leaves on disk what it wrote.  A process is its PID, which is *)
(* never used again.  The code asks for the session at each call; here it  *)
(* is fixed, as if no process changed its session while it has a scheduler.*)
(***************************************************************************)
CONSTANTS
  Processes,   \* the processes that run a scheduler in this directory
  Ghosts,      \* processes that died before, and may have left their lock
  SessionOf    \* the session of each; a resumed session has a new process

Known == Processes \cup Ghosts
NotAProcess == {"unwritten", "no file"}

ASSUME ProcessesAssumption ==
  /\ Processes \cap Ghosts = {}
  /\ Known \cap NotAProcess = {}

VARIABLES
  lockFile,  \* the lock file: whose record it holds, and who has it open to write
  alive,     \* the processes that run
  phase,     \* where the process is in enable(), the probe or stop()
  stopped,   \* the schedulers whose stop() was called
  saw,       \* history: the lock file a process read and is about to act on
  raced      \* history: a live process's lock was judged or removed wrongly

lockVars == <<lockFile, alive, phase, stopped, saw, raced>>

Lock(body, writers) == [body |-> body, writers |-> writers]
NoFile == Lock("no file", {})
LockFiles == [body : Known \cup NotAProcess, writers : SUBSET Processes]

Phases == {"off", "create", "read", "unlink", "recreate", "overwrite", "write",
           "owner", "passive", "release", "remove", "stopped"}

LockInit ==
  /\ lockFile \in {NoFile, Lock("unwritten", {})} \cup {Lock(g, {}) : g \in Ghosts}
  /\ alive = Processes
  /\ phase = [p \in Processes |-> "off"]
  /\ stopped = {}
  /\ saw = [p \in Processes |-> NoFile]
  /\ raced = FALSE

-----------------------------------------------------------------------------
GoTo(p, next) == phase' = [phase EXCEPT ![p] = next]

\* A mistake: the acquisition does not look whether stop() was called.
ReturnsAnyway(p, owned) ==
  GoTo(p, IF ~owned THEN "passive" ELSE IF p \in stopped THEN "stopped" ELSE "owner")

\* The caller's continuation: a scheduler that was stopped meanwhile gives the
\* lock back.
Returns(p, owned) ==
  GoTo(p, CASE owned /\ p \notin stopped  -> "owner"
            [] owned /\ p \in stopped     -> "release"
            [] ~owned /\ p \notin stopped -> "passive"
            [] ~owned /\ p \in stopped    -> "stopped")

\* start(), enable(): the first acquisition.
StartScheduler(p) ==
  /\ phase[p] = "off"
  /\ GoTo(p, "create")
  /\ UNCHANGED <<lockFile, alive, stopped, saw, raced>>

\* A passive session probes the lock from time to time.
Probe(p) ==
  /\ phase[p] = "passive"
  /\ GoTo(p, "create")
  /\ UNCHANGED <<lockFile, alive, stopped, saw, raced>>

\* tryCreateExclusive(): open with O_EXCL.  The file is empty until Write.
Create(p) ==
  /\ phase[p] \in {"create", "recreate"}
  /\ IF lockFile = NoFile
     THEN lockFile' = Lock("unwritten", {p}) /\ GoTo(p, "write")
     ELSE /\ IF phase[p] = "create" THEN GoTo(p, "read") ELSE Returns(p, FALSE)
          /\ UNCHANGED lockFile
  /\ UNCHANGED <<alive, stopped, saw, raced>>

\* The record is written into the file that was opened, which may be gone.
WriteLock(p) ==
  /\ phase[p] = "write"
  /\ lockFile' = IF p \in lockFile.writers
                 THEN Lock(p, lockFile.writers \ {p})
                 ELSE lockFile
  /\ Returns(p, TRUE)
  /\ UNCHANGED <<alive, stopped, saw, raced>>

\* Another live process has the file open and did not write it yet.
Unfinished(p) == \E q \in lockFile.writers \ {p} : q \in alive

Ours(p) ==
  lockFile.body \in Known /\ SessionOf[lockFile.body] = SessionOf[p]

\* A mistake: the process that a lock names is never found running.
HeldByNobody == FALSE

\* isProcessRunning(): the record of another live session.
HeldByLive == lockFile.body \in alive

\* The file the process acts on is not the one it read.
Changed(p) == lockFile # NoFile /\ lockFile # saw[p]

Remember(p) == saw' = [saw EXCEPT ![p] = lockFile]
Forget(p) == saw' = [saw EXCEPT ![p] = NoFile]

\* The lock is ours already.  After a resume it names the old process.
ReadOurs(p) ==
  /\ phase[p] = "read"
  /\ Ours(p)
  /\ IF lockFile.body = p THEN Returns(p, TRUE) /\ UNCHANGED saw
                        ELSE GoTo(p, "overwrite") /\ Remember(p)
  /\ raced' = (raced \/ Unfinished(p) \/ lockFile.body \in alive \ {p})
  /\ UNCHANGED <<lockFile, alive, stopped>>

ReadHeld(p) ==
  /\ phase[p] = "read"
  /\ ~Ours(p) /\ HeldByLive
  /\ Returns(p, FALSE)
  /\ UNCHANGED <<lockFile, alive, stopped, saw, raced>>

\* The owner is dead, or the file is missing, empty or corrupt.
ReadStale(p) ==
  /\ phase[p] = "read"
  /\ ~Ours(p) /\ ~HeldByLive
  /\ GoTo(p, "unlink")
  /\ Remember(p)
  /\ raced' = (raced \/ Unfinished(p))
  /\ UNCHANGED <<lockFile, alive, stopped>>

Unlink(p) ==
  /\ phase[p] = "unlink"
  /\ lockFile' = NoFile
  /\ raced' = (raced \/ Changed(p))
  /\ GoTo(p, "recreate")
  /\ Forget(p)
  /\ UNCHANGED <<alive, stopped>>

\* The resumed session opens the file, which truncates or creates it.
Overwrite(p) ==
  /\ phase[p] = "overwrite"
  /\ lockFile' = Lock("unwritten", lockFile.writers \cup {p})
  /\ raced' = (raced \/ Changed(p))
  /\ GoTo(p, "write")
  /\ Forget(p)
  /\ UNCHANGED <<alive, stopped>>

-----------------------------------------------------------------------------
\* stop(): an owner releases the lock; an acquisition under way finds out later.
StopScheduler(p) ==
  /\ phase[p] # "off" /\ p \notin stopped
  /\ stopped' = stopped \cup {p}
  /\ GoTo(p, CASE phase[p] = "owner"   -> "release"
               [] phase[p] = "passive" -> "stopped"
               [] OTHER                -> phase[p])
  /\ UNCHANGED <<lockFile, alive, saw, raced>>

\* releaseSchedulerLock(): read, compare the session, remove.
ReadForRelease(p) ==
  /\ phase[p] = "release"
  /\ IF Ours(p) THEN GoTo(p, "remove") /\ Remember(p)
             ELSE GoTo(p, "stopped") /\ UNCHANGED saw
  /\ raced' = (raced \/ (Ours(p) /\ lockFile.body \in alive \ {p}))
  /\ UNCHANGED <<lockFile, alive, stopped>>

Remove(p) ==
  /\ phase[p] = "remove"
  /\ lockFile' = NoFile
  /\ raced' = (raced \/ Changed(p))
  /\ GoTo(p, "stopped")
  /\ Forget(p)
  /\ UNCHANGED <<alive, stopped>>

\* The process dies: its lock, or its empty file, stays behind.
Die(p) ==
  /\ alive' = alive \ {p}
  /\ stopped' = stopped \ {p}
  /\ GoTo(p, "off")
  /\ Forget(p)
  /\ UNCHANGED <<lockFile, raced>>

-----------------------------------------------------------------------------
LockStep(p) ==
  /\ p \in alive
  /\ \/ Probe(p) \/ Create(p) \/ WriteLock(p)
     \/ ReadOurs(p) \/ ReadHeld(p) \/ ReadStale(p)
     \/ Unlink(p) \/ Overwrite(p)
     \/ ReadForRelease(p) \/ Remove(p)

LockNext(p) ==
  \/ LockStep(p)
  \/ p \in alive /\ (StartScheduler(p) \/ StopScheduler(p) \/ Die(p))

LockSpec == LockInit /\ [][\E p \in Processes : LockNext(p)]_lockVars

FairLockSpec == LockSpec /\ \A p \in Processes : WF_lockVars(LockStep(p))

-----------------------------------------------------------------------------
LockTypeOK ==
  /\ lockFile \in LockFiles
  /\ alive \subseteq Processes
  /\ phase \in [Processes -> Phases]
  /\ stopped \subseteq Processes
  /\ saw \in [Processes -> LockFiles]
  /\ raced \in BOOLEAN

Owner(p) == p \in alive /\ phase[p] = "owner"

\* Two live schedulers own the lock only after a race the code leaves open: a
\* lock was taken for corrupt while its creator had yet to write it, a file
\* was removed that is not the one that was read, or a session was resumed
\* while its first process still ran.  Crashes at any step, resumed sessions,
\* probes, and stops that come in the middle of an acquisition do not break it.
OwnersNeedRace ==
  \A p, q \in Processes : Owner(p) /\ Owner(q) => p = q \/ raced

\* A lock that names a live session, so that all others stay passive, names one
\* that schedules, or that is about to give the lock back: whatever raced, "others
\* stay passive" (cronTasksLock.ts:5) only on behalf of an owner.
HeldIsOwned == HeldByLive => phase[lockFile.body] \in {"owner", "release", "remove"}

\* A passive session does not wait for ever in vain: while it lives and is not
\* stopped, some live session owns the scheduler again and again.  An owner
\* that dies, stops, or stops half-way leaves nothing that blocks the others.
SchedulerServed ==
  \A p \in Processes :
    phase[p] = "passive" ~>
      \/ \E q \in Processes : Owner(q)
      \/ p \in stopped \/ p \notin alive

=============================================================================
