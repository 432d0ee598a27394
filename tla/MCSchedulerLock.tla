-------------------------- MODULE MCSchedulerLock ---------------------------
(***************************************************************************)
(* An instance of SchedulerLock: two sessions, and a third that resumes    *)
(* the session of a process that died and may have left its lock.          *)
(***************************************************************************)
EXTENDS SchedulerLock

MCSessions == [p \in Known |-> IF p \in {"p3", "ghost"} THEN "resumed" ELSE p]
=============================================================================
