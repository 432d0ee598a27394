------------------------- MODULE SchedulerLockProofs -------------------------
(***************************************************************************)
(* Proofs about SchedulerLock, for any processes and sessions.             *)
(***************************************************************************)
EXTENDS SchedulerLock, TLAPS

\* The phases in which a process takes itself for the owner.
Holds(p) == phase[p] \in {"owner", "release", "remove"}

\* The phases in which a process is about to replace the file it read.
Replaces(p) == phase[p] \in {"unlink", "overwrite"}

\* Who writes the lock has the file open that is there, and nobody else does.
WritersAgree ==
  /\ \A p \in alive : phase[p] = "write" =>
       p \in lockFile.writers /\ lockFile.body = "unwritten"
  /\ \A p \in alive \cap lockFile.writers :
       phase[p] = "write" /\ \A q \in alive \cap lockFile.writers : p = q

\* The lock names the process that takes itself for its owner.
HoldersNamed == \A p \in alive : Holds(p) => lockFile.body = p

\* The file that a process is about to replace belongs to no live process.
ReplacedStale ==
  \A p \in alive : Replaces(p) =>
    saw[p].body \notin alive /\ saw[p].writers \cap alive = {}

LockIInv ==
  /\ LockTypeOK
  /\ ~raced => WritersAgree /\ HoldersNamed /\ ReplacedStale

-----------------------------------------------------------------------------
LEMMA LockInitTyped == LockInit => LockTypeOK
<1> SUFFICES ASSUME LockInit PROVE LockTypeOK
  OBVIOUS
<1>1. NoFile \in LockFiles /\ Lock("unwritten", {}) \in LockFiles
  BY DEF LockFiles, Lock, NoFile, NotAProcess
<1>2. \A g \in Ghosts : Lock(g, {}) \in LockFiles
  BY DEF LockFiles, Lock, Known
<1>3. lockFile \in LockFiles
  BY <1>1, <1>2 DEF LockInit
<1> QED
  BY <1>1, <1>3 DEF LockInit, LockTypeOK, Phases

LEMMA LockTyped == LockSpec => []LockTypeOK
<1>1. LockInit => LockTypeOK
  BY LockInitTyped
<1>2. LockTypeOK /\ [\E p \in Processes : LockNext(p)]_lockVars => LockTypeOK'
  <2> SUFFICES ASSUME LockTypeOK, [\E p \in Processes : LockNext(p)]_lockVars
               PROVE  LockTypeOK'
    OBVIOUS
  <2>1. CASE UNCHANGED lockVars
    BY <2>1 DEF LockTypeOK, lockVars
  <2>2. ASSUME NEW p \in Processes, LockNext(p) PROVE LockTypeOK'
    <3> USE DEF LockTypeOK, GoTo, Phases
    <3>1. ASSUME NEW owned \in BOOLEAN, Returns(p, owned)
          PROVE  phase' \in [Processes -> Phases]
      BY <3>1 DEF Returns
    <3>2. Lock("unwritten", {p}) \in LockFiles /\ NoFile \in LockFiles
      BY DEF LockFiles, Lock, NoFile, NotAProcess
    <3>3. CASE StartScheduler(p)
      BY <3>3 DEF StartScheduler
    <3>4. CASE Probe(p)
      BY <3>4 DEF Probe
    <3>5. CASE Create(p)
      BY <3>5, <3>1, <3>2 DEF Create
    <3>6. CASE WriteLock(p)
      <4>1. p \in lockFile.writers => Lock(p, lockFile.writers \ {p}) \in LockFiles
        BY DEF LockFiles, Lock, Known
      <4> QED
        BY <3>6, <3>1, <4>1 DEF WriteLock
    <3>7. CASE ReadOurs(p)
      BY <3>7, <3>1 DEF ReadOurs, Remember, Unfinished
    <3>8. CASE ReadHeld(p)
      BY <3>8, <3>1 DEF ReadHeld
    <3>9. CASE ReadStale(p)
      BY <3>9 DEF ReadStale, Remember, Unfinished
    <3>10. CASE Unlink(p)
      BY <3>10, <3>2 DEF Unlink, Forget, Changed
    <3>11. CASE Overwrite(p)
      <4>1. Lock("unwritten", lockFile.writers \cup {p}) \in LockFiles
        BY DEF LockFiles, Lock, NotAProcess
      <4> QED
        BY <3>11, <3>2, <4>1 DEF Overwrite, Forget, Changed
    <3>12. CASE StopScheduler(p)
      BY <3>12 DEF StopScheduler
    <3>13. CASE ReadForRelease(p)
      BY <3>13 DEF ReadForRelease, Remember, Ours
    <3>14. CASE Remove(p)
      BY <3>14, <3>2 DEF Remove, Forget, Changed
    <3>15. CASE Die(p)
      BY <3>15, <3>2 DEF Die, Forget
    <3> QED
      BY <2>2, <3>3, <3>4, <3>5, <3>6, <3>7, <3>8, <3>9, <3>10, <3>11, <3>12,
         <3>13, <3>14, <3>15 DEF LockNext, LockStep
  <2> QED
    BY <2>1, <2>2
<1> QED
  BY <1>1, <1>2, PTL DEF LockSpec

\* The type invariant of the lock: who writes, what is on disk and where every
\* process is, for any number of processes.
THEOREM LockTypeCorrect == LockSpec => []LockTypeOK
  BY LockTyped

-----------------------------------------------------------------------------
(* One step of one process keeps the agreement, unless it is a race.       *)

LEMMA LockStepKeeps ==
  ASSUME LockTypeOK, NEW p \in Processes, LockNext(p), ~raced', ~raced,
         WritersAgree, HoldersNamed, ReplacedStale
  PROVE  WritersAgree' /\ HoldersNamed' /\ ReplacedStale'
<1> USE DEF LockTypeOK, GoTo, WritersAgree, HoldersNamed, ReplacedStale, Holds, Replaces
<1>0. \A q \in Processes : q # "unwritten" /\ q # "no file"
  BY ProcessesAssumption DEF Known, NotAProcess
<1>1. CASE StartScheduler(p)
  BY <1>1 DEF StartScheduler
<1>2. CASE Probe(p)
  BY <1>2 DEF Probe
<1>3. CASE Create(p) /\ p \in alive
  <2>1. CASE lockFile = NoFile
    <3>1. /\ lockFile'.body = "unwritten" /\ lockFile'.writers = {p}
          /\ phase' = [phase EXCEPT ![p] = "write"]
          /\ alive' = alive /\ saw' = saw
      BY <1>3, <2>1 DEF Create, Lock
    <3>2. \A q \in alive : ~Holds(q) /\ phase[q] # "write"
      BY <2>1, <1>0 DEF NoFile, Lock
    <3>3. WritersAgree'
      BY <3>1, <3>2
    <3>4. HoldersNamed'
      BY <3>1, <3>2
    <3>5. ReplacedStale'
      BY <3>1
    <3> QED
      BY <3>3, <3>4, <3>5
  <2>2. CASE lockFile # NoFile
    <3>1. /\ phase' = [phase EXCEPT ![p] = phase'[p]]
          /\ phase'[p] \in {"read", "passive", "stopped"}
          /\ alive' = alive /\ saw' = saw /\ lockFile' = lockFile
      BY <1>3, <2>2 DEF Create, Returns
    <3> QED
      BY <1>3, <3>1 DEF Create
  <2> QED
    BY <2>1, <2>2
<1>4. CASE WriteLock(p) /\ p \in alive
  <2>1. /\ lockFile'.body = p /\ lockFile'.writers = lockFile.writers \ {p}
        /\ phase' = [phase EXCEPT ![p] = phase'[p]]
        /\ phase'[p] \in {"owner", "release"}
        /\ alive' = alive /\ saw' = saw
    BY <1>4 DEF WriteLock, Returns, Lock
  <2>2. \A q \in alive : ~Holds(q) /\ (phase[q] = "write" => q = p)
    BY <1>0, <1>4 DEF WriteLock
  <2>3. WritersAgree'
    BY <2>1, <2>2
  <2>4. HoldersNamed'
    BY <2>1, <2>2
  <2>5. ReplacedStale'
    BY <2>1
  <2> QED
    BY <2>3, <2>4, <2>5
<1>5. CASE ReadOurs(p) /\ p \in alive
  <2>1. CASE lockFile.body = p
    <3>1. /\ phase' = [phase EXCEPT ![p] = phase'[p]]
          /\ phase'[p] \in {"owner", "release"}
          /\ alive' = alive /\ saw' = saw /\ lockFile' = lockFile
      BY <1>5, <2>1 DEF ReadOurs, Returns
    <3> QED
      BY <1>5, <2>1, <3>1 DEF ReadOurs
  <2>2. CASE lockFile.body # p
    <3>1. /\ phase' = [phase EXCEPT ![p] = "overwrite"]
          /\ saw' = [saw EXCEPT ![p] = lockFile]
          /\ alive' = alive /\ lockFile' = lockFile
      BY <1>5, <2>2 DEF ReadOurs, Remember
    <3>2. lockFile.body \notin alive /\ lockFile.writers \cap alive = {}
      BY <1>5, <2>2 DEF ReadOurs, Unfinished
    <3> QED
      BY <1>5, <3>1, <3>2 DEF ReadOurs
  <2> QED
    BY <2>1, <2>2
<1>6. CASE ReadHeld(p) /\ p \in alive
  <2>1. /\ phase' = [phase EXCEPT ![p] = phase'[p]]
        /\ phase'[p] \in {"passive", "stopped"}
        /\ alive' = alive /\ saw' = saw /\ lockFile' = lockFile
    BY <1>6 DEF ReadHeld, Returns
  <2> QED
    BY <1>6, <2>1 DEF ReadHeld
<1>7. CASE ReadStale(p) /\ p \in alive
  <2>1. /\ phase' = [phase EXCEPT ![p] = "unlink"]
        /\ saw' = [saw EXCEPT ![p] = lockFile]
        /\ alive' = alive /\ lockFile' = lockFile
    BY <1>7 DEF ReadStale, Remember
  <2>2. lockFile.body \notin alive /\ lockFile.writers \cap alive = {}
    BY <1>7 DEF ReadStale, Unfinished, HeldByLive
  <2> QED
    BY <1>7, <2>1, <2>2 DEF ReadStale
<1>8. CASE Unlink(p) /\ p \in alive
  <2>1. /\ phase' = [phase EXCEPT ![p] = "recreate"]
        /\ saw' = [saw EXCEPT ![p] = NoFile]
        /\ alive' = alive /\ lockFile' = NoFile
        /\ lockFile = NoFile \/ lockFile = saw[p]
    BY <1>8 DEF Unlink, Forget, Changed
  <2>2. lockFile.body \notin alive /\ lockFile.writers \cap alive = {}
    <3>1. CASE lockFile = NoFile
      <4>1. lockFile.body = "no file" /\ lockFile.writers = {}
        BY <3>1 DEF NoFile, Lock
      <4> QED
        BY <1>0, <4>1
    <3>2. CASE lockFile = saw[p]
      BY <1>8, <3>2 DEF Unlink
    <3> QED
      BY <2>1, <3>1, <3>2
  <2>3. \A q \in alive : ~Holds(q) /\ phase[q] # "write"
    BY <2>2
  <2>4. NoFile.writers = {}
    BY DEF NoFile, Lock
  <2> QED
    BY <2>1, <2>3, <2>4
<1>9. CASE Overwrite(p) /\ p \in alive
  <2>1. /\ phase' = [phase EXCEPT ![p] = "write"]
        /\ saw' = [saw EXCEPT ![p] = NoFile]
        /\ alive' = alive
        /\ lockFile'.body = "unwritten"
        /\ lockFile'.writers = lockFile.writers \cup {p}
        /\ lockFile = NoFile \/ lockFile = saw[p]
    BY <1>9 DEF Overwrite, Forget, Changed, Lock
  <2>2. lockFile.body \notin alive /\ lockFile.writers \cap alive = {}
    <3>1. CASE lockFile = NoFile
      <4>1. lockFile.body = "no file" /\ lockFile.writers = {}
        BY <3>1 DEF NoFile, Lock
      <4> QED
        BY <1>0, <4>1
    <3>2. CASE lockFile = saw[p]
      BY <1>9, <3>2 DEF Overwrite
    <3> QED
      BY <2>1, <3>1, <3>2
  <2>3. \A q \in alive : ~Holds(q) /\ phase[q] # "write"
    BY <2>2
  <2>4. WritersAgree'
    BY <2>1, <2>2, <2>3
  <2>5. HoldersNamed' /\ ReplacedStale'
    BY <2>1, <2>3
  <2> QED
    BY <2>4, <2>5
<1>10. CASE StopScheduler(p) /\ p \in alive
  <2>1. /\ phase' = [phase EXCEPT ![p] = phase'[p]]
        /\ \/ phase'[p] = phase[p]
           \/ phase[p] = "owner" /\ phase'[p] = "release"
           \/ phase[p] = "passive" /\ phase'[p] = "stopped"
        /\ alive' = alive /\ saw' = saw /\ lockFile' = lockFile
    BY <1>10 DEF StopScheduler
  <2> QED
    BY <1>10, <2>1
<1>11. CASE ReadForRelease(p) /\ p \in alive
  <2>1. /\ phase' = [phase EXCEPT ![p] = phase'[p]]
        /\ phase'[p] \in {"remove", "stopped"}
        /\ alive' = alive /\ lockFile' = lockFile
        /\ \A q \in Processes : q # p => saw'[q] = saw[q]
    BY <1>11 DEF ReadForRelease, Remember
  <2> QED
    BY <1>11, <2>1 DEF ReadForRelease
<1>12. CASE Remove(p) /\ p \in alive
  <2>1. /\ phase' = [phase EXCEPT ![p] = "stopped"]
        /\ saw' = [saw EXCEPT ![p] = NoFile]
        /\ alive' = alive /\ lockFile' = NoFile
    BY <1>12 DEF Remove, Forget
  <2>2. lockFile.body = p
    BY <1>12 DEF Remove
  <2>3. \A q \in alive : (Holds(q) => q = p) /\ phase[q] # "write"
    BY <1>0, <2>2
  <2>4. NoFile.writers = {}
    BY DEF NoFile, Lock
  <2> QED
    BY <2>1, <2>3, <2>4
<1>13. CASE Die(p) /\ p \in alive
  <2>1. /\ phase' = [phase EXCEPT ![p] = "off"]
        /\ saw' = [saw EXCEPT ![p] = NoFile]
        /\ alive' = alive \ {p} /\ lockFile' = lockFile
    BY <1>13 DEF Die, Forget
  <2> QED
    BY <2>1
<1> QED
  BY <1>1, <1>2, <1>3, <1>4, <1>5, <1>6, <1>7, <1>8, <1>9, <1>10, <1>11, <1>12,
     <1>13 DEF LockNext, LockStep

\* A race is never forgotten.
LEMMA RaceRemembered ==
  ASSUME LockTypeOK, NEW p \in Processes, LockNext(p), raced
  PROVE  raced'
BY DEF LockTypeOK, LockNext, LockStep, StartScheduler, Probe, Create, WriteLock,
       ReadOurs, ReadHeld, ReadStale, Unlink, Overwrite, StopScheduler,
       ReadForRelease, Remove, Die

\* At most one live session owns the scheduler, for any number of processes
\* and whatever crashes, probes, resumes and stops interleave, as long as none of
\* the three races occurred that cronTasksLock.ts leaves open.
THEOREM OneOwner == LockSpec => []OwnersNeedRace
<1>1. LockInit => LockIInv
  <2> SUFFICES ASSUME LockInit PROVE LockIInv
    OBVIOUS
  <2>1. LockTypeOK
    BY LockInitTyped
  <2>2. \A p \in Processes : phase[p] = "off"
    BY DEF LockInit
  <2>3. lockFile.writers = {}
    <3>1. \E b \in {"unwritten", "no file"} \cup Ghosts : lockFile = Lock(b, {})
      BY DEF LockInit, NoFile
    <3>2. \A b : Lock(b, {}).writers = {}
      BY DEF Lock
    <3> QED
      BY <3>1, <3>2
  <2> QED
    BY <2>1, <2>2, <2>3 DEF LockIInv, LockTypeOK, WritersAgree, HoldersNamed,
      ReplacedStale, Holds, Replaces
<1>2. LockIInv /\ LockTypeOK' /\ [\E p \in Processes : LockNext(p)]_lockVars => LockIInv'
  <2> SUFFICES ASSUME LockIInv, LockTypeOK', [\E p \in Processes : LockNext(p)]_lockVars
               PROVE  LockIInv'
    OBVIOUS
  <2>1. CASE UNCHANGED lockVars
    BY <2>1 DEF LockIInv, lockVars, LockTypeOK, LockFiles, WritersAgree, HoldersNamed,
      ReplacedStale, Holds, Replaces
  <2>2. ASSUME NEW p \in Processes, LockNext(p) PROVE LockIInv'
    <3>1. ~raced' => ~raced
      BY <2>2, RaceRemembered DEF LockIInv
    <3>2. ~raced' => WritersAgree' /\ HoldersNamed' /\ ReplacedStale'
      BY <2>2, <3>1, LockStepKeeps DEF LockIInv
    <3> QED
      BY <3>2 DEF LockIInv
  <2> QED
    BY <2>1, <2>2
<1>3. LockIInv => OwnersNeedRace
  BY DEF LockIInv, OwnersNeedRace, Owner, HoldersNamed, Holds
<1> QED
  BY <1>1, <1>2, <1>3, LockTyped, PTL DEF LockSpec

-----------------------------------------------------------------------------
(* A lock blocks the others only on behalf of its owner.                   *)

\* Only the record's own process makes a lock name it, and becomes its owner by
\* that; it leaves the ownership by way of the release, which removes the lock.
THEOREM HeldLockIsOwned == LockSpec => []HeldIsOwned
<1> USE DEF HeldIsOwned, HeldByLive
<1>1. LockInit => HeldIsOwned
  <2> SUFFICES ASSUME LockInit PROVE lockFile.body \notin alive
    OBVIOUS
  <2>1. \E b \in {"unwritten", "no file"} \cup Ghosts : lockFile = Lock(b, {})
    BY DEF LockInit, NoFile
  <2>2. \A b : Lock(b, {}).body = b
    BY DEF Lock
  <2> QED
    BY <2>1, <2>2, ProcessesAssumption DEF LockInit, Known, NotAProcess
<1>2. LockTypeOK /\ HeldIsOwned /\ [\E p \in Processes : LockNext(p)]_lockVars => HeldIsOwned'
  <2> SUFFICES ASSUME LockTypeOK, HeldIsOwned, [\E p \in Processes : LockNext(p)]_lockVars
               PROVE  HeldIsOwned'
    OBVIOUS
  <2> USE DEF LockTypeOK, GoTo
  <2>1. CASE UNCHANGED lockVars
    BY <2>1 DEF lockVars
  <2>2. ASSUME NEW p \in Processes, LockNext(p) PROVE HeldIsOwned'
    <3>1. p \in alive
      BY <2>2 DEF LockNext, LockStep
    <3>2. ASSUME NEW body \in {"unwritten", "no file"}, lockFile'.body = body,
                 alive' = alive
          PROVE  HeldIsOwned'
      BY <3>2, ProcessesAssumption DEF Known, NotAProcess
    <3>3. NoFile.body = "no file" /\ \A w : Lock("unwritten", w).body = "unwritten"
      BY DEF NoFile, Lock
    <3>4. ASSUME UNCHANGED <<lockFile, alive>>, phase' = [phase EXCEPT ![p] = phase'[p]],
                 \/ phase[p] \notin {"owner", "release", "remove"}
                 \/ phase'[p] \in {"owner", "release", "remove"}
          PROVE  HeldIsOwned'
      <4> SUFFICES ASSUME lockFile.body \in alive
                   PROVE  phase'[lockFile.body] \in {"owner", "release", "remove"}
        BY <3>4
      <4> QED
        BY <3>4
    <3>5. CASE StartScheduler(p) \/ Probe(p)
      BY <3>4, <3>5 DEF StartScheduler, Probe
    <3>6. CASE Create(p)
      <4>1. CASE lockFile = NoFile
        BY <3>2, <3>3, <3>6, <4>1 DEF Create
      <4>2. CASE lockFile # NoFile
        BY <3>4, <3>6, <4>2 DEF Create, Returns
      <4> QED
        BY <4>1, <4>2
    <3>7. CASE WriteLock(p)
      <4>1. phase' = [phase EXCEPT ![p] = phase'[p]] /\ phase'[p] \in {"owner", "release"}
        BY <3>7 DEF WriteLock, Returns
      <4>2. CASE p \in lockFile.writers
        <5>1. lockFile'.body = p
          BY <3>7, <4>2 DEF WriteLock, Lock
        <5> QED
          BY <4>1, <5>1
      <4>3. CASE p \notin lockFile.writers
        BY <3>4, <3>7, <4>1, <4>3 DEF WriteLock
      <4> QED
        BY <4>2, <4>3
    <3>8. CASE ReadOurs(p) \/ ReadHeld(p) \/ ReadStale(p)
      BY <3>4, <3>8 DEF ReadOurs, ReadHeld, ReadStale, Returns
    <3>9. CASE Unlink(p) \/ Remove(p)
      BY <3>2, <3>3, <3>9 DEF Unlink, Remove
    <3>10. CASE Overwrite(p)
      BY <3>2, <3>3, <3>10 DEF Overwrite
    <3>11. CASE StopScheduler(p)
      BY <3>4, <3>11 DEF StopScheduler
    <3>12. CASE ReadForRelease(p)
      <4>1. CASE Ours(p)
        BY <3>4, <3>12, <4>1 DEF ReadForRelease
      <4>2. CASE ~ Ours(p)
        <5>1. lockFile.body # p
          BY <4>2 DEF Ours, Known
        <5> QED
          BY <3>12, <4>2, <5>1 DEF ReadForRelease
      <4> QED
        BY <4>1, <4>2
    <3>13. CASE Die(p)
      BY <3>13 DEF Die
    <3> QED
      BY <2>2, <3>5, <3>6, <3>7, <3>8, <3>9, <3>10, <3>11, <3>12, <3>13
         DEF LockNext, LockStep
  <2> QED
    BY <2>1, <2>2
<1> QED
  BY <1>1, <1>2, LockTyped, PTL DEF LockSpec
=============================================================================
