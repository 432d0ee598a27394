----------------------------- MODULE QueryGuard -----------------------------
(***************************************************************************)
(* utils/QueryGuard.ts: the synchronous state machine that decides whether *)
(* the main thread may start a query, with its watchdog (an idle timeout,  *)
(* bounded leases for long tools, and a hard maximum lifetime).            *)
(*                                                                         *)
(* Every method runs to completion on the JavaScript thread, so a method   *)
(* is one action.  The callers are asynchronous and keep generations and   *)
(* lease handles for as long as they like: every action that takes one     *)
(* takes any that was ever handed out.  A call the code ignores (a stale   *)
(* generation, the wrong status) changes nothing and has no action.        *)
(***************************************************************************)
EXTENDS Integers, FiniteSetsExt

CONSTANTS
  IdleTimeout,     \* _idleTimeoutMs
  HardMax,         \* _hardMaxQueryMs
  LeaseGrace,      \* _toolLeaseGraceMs
  LeaseTimeouts,   \* the timeoutMs values callers pass; 0 stands for "none"
  LeaseCaps,       \* the hardCapMs values callers pass; 0 stands for "none"
  TimerLag,        \* how late the event loop may run a due timer
  TimerEarly,      \* how early a timer may fire, measured by Date.now()
  MaxTime,         \* bound on the clock
  MaxGeneration,   \* bound on the generation counter
  MaxLeases        \* bound on the leases ever acquired

ASSUME DurationsAssumption ==
  /\ IdleTimeout \in Nat \ {0}
  /\ HardMax \in Nat \ {0}
  /\ LeaseGrace \in Nat
  /\ LeaseTimeouts \subseteq Nat
  /\ LeaseCaps \subseteq Nat
  /\ TimerLag \in Nat
  /\ TimerEarly \in Nat

ASSUME BoundsAssumption ==
  /\ MaxTime \in Nat
  /\ MaxGeneration \in Nat
  /\ MaxLeases \in Nat

VARIABLES
  status,           \* _status
  generation,       \* _generation
  queryStartedAt,   \* _queryStartedAt
  lastActivityAt,   \* _lastActivityAt
  activeLeases,     \* _activeLeases, the values of the Map
  leaseCounter,     \* _leaseCounter
  timer,            \* when the pending setTimeout is due, NoTimer when null
  now,              \* Date.now()
  late,             \* history: did a due timer of the latest query run late?
  handles,          \* the lease handles callers hold, released ones included
  granted,          \* history: the generations tryStart() returned
  settled           \* history: the generations whose end a caller was told of

clockVars == <<now, late>>
leaseVars == <<activeLeases, leaseCounter, handles>>
vars == <<status, generation, queryStartedAt, lastActivityAt, activeLeases,
          leaseCounter, timer, now, late, handles, granted, settled>>

NoTimer == -1
None == 0
Handle == [leaseId : Nat, generation : Nat]
Lease == [leaseId : Nat, generation : Nat, deadlineAt : Nat]

(***************************************************************************)
(* The deadlines.                                                          *)
(***************************************************************************)
Expired(leases, t) == {l \in leases : l.deadlineAt <= t}

\* Why a query would be ended at time t; None when it may go on.
TimeoutReason(t, started, active, leases) ==
  IF t >= started + HardMax THEN "hard_max"
  ELSE IF Expired(leases, t) # {} THEN "lease_expired"
  ELSE IF leases = {} /\ t >= active + IdleTimeout THEN "idle"
  ELSE "none"

\* A mistake: the hard maximum does not count while leases or activity do.
NextDeadlineOfActivity(t, started, active, leases) ==
  LET leaseDeadlines == {l.deadlineAt : l \in leases \ Expired(leases, t)}
  IN  IF leaseDeadlines = {} THEN active + IdleTimeout ELSE Min(leaseDeadlines)

\* A mistake: the idle timeout counts even while a lease is held.
NextDeadlineDespiteLeases(t, started, active, leases) ==
  Min({started + HardMax, active + IdleTimeout} \cup
        {l.deadlineAt : l \in leases \ Expired(leases, t)})

\* The first instant after t at which TimeoutReason may change.
NextDeadlineAt(t, started, active, leases) ==
  LET leaseDeadlines == {l.deadlineAt : l \in leases \ Expired(leases, t)}
  IN  Min({started + HardMax} \cup
            (IF leaseDeadlines = {} THEN {active + IdleTimeout}
                                    ELSE leaseDeadlines))

\* _scheduleTimeout while running: the timer replaces the pending one.
ArmedTimer(t, started, active, leases) ==
  IF TimeoutReason(t, started, active, leases) # "none"
  THEN t
  ELSE Max({t, NextDeadlineAt(t, started, active, leases)})

\* A mistake: a lease is granted the full lifetime of a query.
LeaseDeadlineUnbounded(timeout, cap) ==
  LET hardCap == IF cap = None THEN HardMax ELSE cap
  IN  now + (IF timeout = None THEN hardCap
                               ELSE Min({timeout + LeaseGrace, hardCap}))

\* The deadline of a lease acquired now: its own limits, the grace period,
\* and the lifetime the query has left.
LeaseDeadline(timeout, cap) ==
  LET remaining == Max({0, queryStartedAt + HardMax - now})
      hardCap   == Min({IF cap = None THEN HardMax ELSE cap, remaining})
  IN  now + (IF timeout = None THEN hardCap
                               ELSE Min({timeout + LeaseGrace, hardCap}))

-----------------------------------------------------------------------------
Init ==
  /\ status = "idle"
  /\ generation = 0
  /\ queryStartedAt = 0
  /\ lastActivityAt = 0
  /\ activeLeases = {}
  /\ leaseCounter = 0
  /\ timer = NoTimer
  /\ now = 0
  /\ late = FALSE
  /\ handles = {}
  /\ granted = {}
  /\ settled = {}

Reserve ==
  /\ status = "idle"
  /\ status' = "dispatching"
  /\ UNCHANGED <<generation, queryStartedAt, lastActivityAt, leaseVars, timer,
                 clockVars, granted, settled>>

\* A mistake: whatever the guard is doing, it becomes idle.
CancelAnything ==
  /\ status # "idle"
  /\ status' = "idle"
  /\ UNCHANGED <<generation, queryStartedAt, lastActivityAt, leaseVars, timer,
                 clockVars, granted, settled>>

CancelReservation ==
  /\ status = "dispatching"
  /\ status' = "idle"
  /\ UNCHANGED <<generation, queryStartedAt, lastActivityAt, leaseVars, timer,
                 clockVars, granted, settled>>

\* The bounds leave room for the generation a forceEnd() consumes and for a
\* whole query lifetime before MaxTime.
TryStart ==
  /\ generation + 2 <= MaxGeneration
  /\ now + HardMax + TimerLag <= MaxTime
  /\ status # "running"
  /\ status' = "running"
  /\ generation' = generation + 1
  /\ activeLeases' = {}
  /\ queryStartedAt' = now
  /\ lastActivityAt' = now
  /\ timer' = ArmedTimer(now, now, now, {})
  /\ granted' = granted \cup {generation'}
  /\ late' = FALSE
  /\ UNCHANGED <<leaseCounter, handles, now, settled>>

\* A mistake: any generation passes for the current one.
IsAnyQuery(g) == status = "running"

\* Does g own the guard?
IsCurrentQuery(g) == status = "running" /\ g = generation

\* end() called with g, when it returns true: the caller then cleans up.
End(g) ==
  /\ IsCurrentQuery(g)
  /\ timer' = NoTimer
  /\ activeLeases' = {}
  /\ status' = "idle"
  /\ settled' = settled \cup {g}
  /\ UNCHANGED <<generation, queryStartedAt, lastActivityAt, leaseCounter,
                 handles, clockVars, granted>>

\* The query forceEnd() leaves its caller to clean up, if one runs.
Reported == IF status = "running" THEN {generation} ELSE {}

\* The body of forceEnd(): whoever calls it cleans up for a running query.
EndCurrent ==
  /\ timer' = NoTimer
  /\ activeLeases' = {}
  /\ status' = "idle"
  /\ generation' = generation + 1
  /\ settled' = settled \cup Reported
  /\ UNCHANGED <<queryStartedAt, lastActivityAt, leaseCounter, handles,
                 clockVars, granted>>

ForceEnd ==
  /\ generation < MaxGeneration
  /\ status # "idle"
  /\ EndCurrent

RegisterActivity(g) ==
  /\ IsCurrentQuery(g)
  /\ lastActivityAt' = now
  /\ timer' = ArmedTimer(now, queryStartedAt, now, activeLeases)
  /\ UNCHANGED <<status, generation, queryStartedAt, leaseVars, clockVars,
                 granted, settled>>

AcquireLease(g, timeout, cap) ==
  /\ leaseCounter < MaxLeases
  /\ IsCurrentQuery(g)
  /\ leaseCounter' = leaseCounter + 1
  /\ activeLeases' = activeLeases \cup
       {[leaseId |-> leaseCounter', generation |-> g,
         deadlineAt |-> LeaseDeadline(timeout, cap)]}
  /\ handles' = handles \cup {[leaseId |-> leaseCounter', generation |-> g]}
  /\ lastActivityAt' = now
  /\ timer' = ArmedTimer(now, queryStartedAt, now, activeLeases')
  /\ UNCHANGED <<status, generation, queryStartedAt, clockVars, granted,
                 settled>>

\* release() of a handle, whatever became of its query meanwhile.
ReleaseLease(h) ==
  /\ \E l \in activeLeases :
       /\ l.leaseId = h.leaseId
       /\ l.generation = h.generation
       /\ activeLeases' = activeLeases \ {l}
  /\ timer' = ArmedTimer(now, queryStartedAt, lastActivityAt, activeLeases')
  /\ UNCHANGED <<status, generation, queryStartedAt, lastActivityAt,
                 leaseCounter, handles, clockVars, granted, settled>>

\* A mistake: a timer that fires early is not armed again.
HandleTimeoutOnce ==
  /\ timer # NoTimer
  /\ timer <= now + TimerEarly
  /\ status = "running"
  /\ IF TimeoutReason(now, queryStartedAt, lastActivityAt, activeLeases) = "none"
     THEN /\ timer' = NoTimer
          /\ UNCHANGED <<status, generation, queryStartedAt, lastActivityAt,
                         leaseVars, clockVars, granted, settled>>
     ELSE EndCurrent

\* The timer callback.  The timeout handler the REPL registers runs before
\* forceEnd() and does not call back into the guard.
HandleTimeout ==
  /\ timer # NoTimer
  /\ timer <= now + TimerEarly
  /\ status = "running"
  /\ IF TimeoutReason(now, queryStartedAt, lastActivityAt, activeLeases) = "none"
     THEN /\ timer' = ArmedTimer(now, queryStartedAt, lastActivityAt, activeLeases)
          /\ UNCHANGED <<status, generation, queryStartedAt, lastActivityAt,
                         leaseVars, clockVars, granted, settled>>
     ELSE EndCurrent

\* Time passes, but never further than TimerLag beyond a due timer.
Tick ==
  /\ now < MaxTime
  /\ timer # NoTimer => now < timer + TimerLag
  /\ now' = now + 1
  /\ late' = (late \/ (timer # NoTimer /\ timer <= now))
  /\ UNCHANGED <<status, generation, queryStartedAt, lastActivityAt, leaseVars,
                 timer, granted, settled>>

Next ==
  \/ Reserve
  \/ CancelReservation
  \/ TryStart
  \/ \E g \in granted : End(g)
  \/ ForceEnd
  \/ \E g \in granted : RegisterActivity(g)
  \/ \E g \in granted, timeout \in LeaseTimeouts, cap \in LeaseCaps :
       AcquireLease(g, timeout, cap)
  \/ \E h \in handles : ReleaseLease(h)
  \/ HandleTimeout
  \/ Tick

Spec == Init /\ [][Next]_vars

\* The clock advances and the event loop runs due timers; no caller is
\* assumed to do anything.
Fairness == WF_vars(Tick) /\ WF_vars(HandleTimeout)

FairSpec == Spec /\ Fairness

-----------------------------------------------------------------------------
\* The types, and that only queries that started are ever settled.
TypeOK ==
  /\ status \in {"idle", "dispatching", "running"}
  /\ generation \in Nat
  /\ queryStartedAt \in Nat
  /\ lastActivityAt \in Nat
  /\ activeLeases \subseteq Lease
  /\ leaseCounter \in Nat
  /\ timer \in Nat \cup {NoTimer}
  /\ now \in Nat
  /\ late \in BOOLEAN
  /\ handles \subseteq Handle
  /\ granted \subseteq 1..generation
  /\ settled \subseteq granted

\* The instant at which the watchdog must end a query.
DeadlineOf(started, active, leases) ==
  Min({started + HardMax} \cup
        (IF leases = {} THEN {active + IdleTimeout}
                        ELSE {l.deadlineAt : l \in leases}))

Deadline == DeadlineOf(queryStartedAt, lastActivityAt, activeLeases)

\* The watchdog is always armed for the query that runs, for its earliest
\* deadline or for an instant already reached, whatever sequence of starts,
\* leases, releases and activity re-armed it; and no timer outlives a query,
\* to end the next one (_scheduleTimeout, _clearTimeout).
WatchdogArmed ==
  IF status = "running"
  THEN /\ timer # NoTimer
       /\ Deadline <= timer
       /\ timer = Deadline \/ timer <= now
  ELSE timer = NoTimer

\* A lease exists only while the query that acquired it runs, and never
\* reaches beyond that query's lifetime: the deadline of a lease is past the
\* hard maximum only when it was acquired by a query already due to end.
LeasesBelongToQuery ==
  \A l \in activeLeases :
    /\ status = "running"
    /\ l.generation = generation
    /\ l.leaseId \in 1..leaseCounter
    /\ [leaseId |-> l.leaseId, generation |-> l.generation] \in handles
    /\ l.deadlineAt <= queryStartedAt + HardMax \/ l.deadlineAt <= now

\* Whatever leases the tools take and whatever activity they report, only a
\* timer that was due and run late lets a query run for longer than the hard
\* maximum ("the hard maximum aborts the query regardless of activity",
\* QueryGuard.ts:327).
HardMaxRespected ==
  status = "running" /\ ~ late => now <= queryStartedAt + HardMax

\* The end of a query is reported to exactly one party, and only queries that
\* started are reported: the history never holds the running query, and holds
\* every query before it.
SettledOnce ==
  settled = IF status = "running" THEN granted \ {generation} ELSE granted

\* Every query ends, even if its callers never call end() and renew their
\* leases and report activity for ever (the watchdog).
WatchdogEndsQuery == status = "running" ~> status # "running"

\* The guard implements the session it promises: unique generations, one
\* owner, one report per query.
Session ==
  INSTANCE QuerySession WITH
    Generations <- 1..MaxGeneration,
    phase <- status,
    owner <- IF status = "running" THEN generation ELSE 0,
    granted <- granted,
    settled <- settled

SessionSpec == Session!Spec
=============================================================================
