-------------------------- MODULE QueryGuardProofs --------------------------
(***************************************************************************)
(* Proofs about QueryGuard for every choice of the timeouts, of the lease  *)
(* limits, of the lateness of timers and of the bounds.                    *)
(***************************************************************************)
EXTENDS QueryGuard, WellFoundedInduction, TLAPS

-----------------------------------------------------------------------------
(* Minima and maxima.                                                      *)

\* Math.min over a non-empty set of instants is one of them and a lower bound.
LEMMA MinOfNaturals ==
  ASSUME NEW S \in SUBSET Nat, S # {}
  PROVE  /\ Min(S) \in S
         /\ \A y \in S : Min(S) <= y
<1> DEFINE R == OpToRel(<, Nat)
<1>1. \A x, y \in Nat : <<y, x>> \in R <=> y < x
  BY DEF OpToRel
<1>2. IsWellFoundedOn(R, Nat)
  BY NatLessThanWellFounded
<1> HIDE DEF R
<1>3. PICK x \in S : \A y \in S : ~ (<<y, x>> \in R)
  BY <1>2, WFMin, Zenon
<1>4. \A y \in S : x <= y
  <2> TAKE y \in S
  <2>1. x \in Nat /\ y \in Nat
    OBVIOUS
  <2>2. ~ (y < x)
    BY <2>1, <1>1, <1>3, Zenon
  <2> QED  BY <2>1, <2>2
<1> QED  BY <1>4 DEF Min

\* Math.max of two instants.
LEMMA MaxOfTwo ==
  ASSUME NEW a \in Int, NEW b \in Int
  PROVE  Max({a, b}) = IF a >= b THEN a ELSE b
<1>1. \E x \in {a, b} : \A y \in {a, b} : x >= y
  BY DEF Max
<1>2. Max({a, b}) \in {a, b} /\ \A y \in {a, b} : Max({a, b}) >= y
  BY <1>1 DEF Max
<1> QED  BY <1>2

\* Math.min of two durations.
LEMMA MinOfTwo ==
  ASSUME NEW a \in Int, NEW b \in Int
  PROVE  Min({a, b}) = IF a <= b THEN a ELSE b
<1>1. \E x \in {a, b} : \A y \in {a, b} : x <= y
  OBVIOUS
<1>2. Min({a, b}) \in {a, b} /\ \A y \in {a, b} : Min({a, b}) <= y
  BY <1>1 DEF Min
<1> QED  BY <1>2

-----------------------------------------------------------------------------
(* The deadlines.                                                          *)

\* The instants among which a deadline is chosen.
DeadlineCandidates(started, active, leases) ==
  {started + HardMax} \cup
    (IF leases = {} THEN {active + IdleTimeout}
                    ELSE {l.deadlineAt : l \in leases})

LEMMA DeadlineIsEarliest ==
  ASSUME NEW started \in Nat, NEW active \in Nat, NEW leases \in SUBSET Lease
  PROVE  LET D == DeadlineOf(started, active, leases)
             C == DeadlineCandidates(started, active, leases)
         IN  D \in Nat /\ D \in C /\ \A c \in C : D <= c
<1> DEFINE C == DeadlineCandidates(started, active, leases)
<1>1. C \in SUBSET Nat /\ C # {}
  BY DurationsAssumption DEF DeadlineCandidates, Lease
<1>2. DeadlineOf(started, active, leases) = Min(C)
  BY DEF DeadlineOf, DeadlineCandidates
<1> QED  BY <1>1, <1>2, MinOfNaturals

\* A query may go on exactly until its deadline.
LEMMA ReasonIffDeadline ==
  ASSUME NEW t \in Nat, NEW started \in Nat, NEW active \in Nat,
         NEW leases \in SUBSET Lease
  PROVE  TimeoutReason(t, started, active, leases) # "none"
           <=> DeadlineOf(started, active, leases) <= t
<1> DEFINE D == DeadlineOf(started, active, leases)
           C == DeadlineCandidates(started, active, leases)
<1>1. D \in Nat /\ D \in C /\ \A c \in C : D <= c
  BY DeadlineIsEarliest
<1>2. C \in SUBSET Nat
  BY DurationsAssumption DEF DeadlineCandidates, Lease
<1>3. TimeoutReason(t, started, active, leases) # "none"
        <=> \E c \in C : c <= t
  <2>1. CASE leases = {}
    BY <2>1, DurationsAssumption
    DEF TimeoutReason, Expired, DeadlineCandidates
  <2>2. CASE leases # {}
    BY <2>2, DurationsAssumption
    DEF TimeoutReason, Expired, DeadlineCandidates, Lease
  <2> QED  BY <2>1, <2>2
<1>4. (\E c \in C : c <= t) <=> D <= t
  BY <1>1, <1>2
<1> QED  BY <1>3, <1>4

\* _scheduleTimeout arms the timer for the deadline, or for the present when
\* the deadline has passed: never earlier, never later.
LEMMA ArmedForDeadline ==
  ASSUME NEW t \in Nat, NEW started \in Nat, NEW active \in Nat,
         NEW leases \in SUBSET Lease
  PROVE  LET D == DeadlineOf(started, active, leases)
             T == ArmedTimer(t, started, active, leases)
         IN  T \in Nat /\ D <= T /\ (T = D \/ T <= t)
<1> DEFINE D == DeadlineOf(started, active, leases)
           T == ArmedTimer(t, started, active, leases)
<1>1. D \in Nat
  BY DeadlineIsEarliest
<1>2. CASE TimeoutReason(t, started, active, leases) # "none"
  BY <1>2, <1>1, ReasonIffDeadline DEF ArmedTimer
<1>3. CASE TimeoutReason(t, started, active, leases) = "none"
  <2>1. D > t
    BY <1>3, <1>1, ReasonIffDeadline
  <2>2. Expired(leases, t) = {}
    BY <1>3 DEF TimeoutReason
  <2>3. leases \ Expired(leases, t) = leases
    BY <2>2
  <2>4. NextDeadlineAt(t, started, active, leases) = D
    BY <2>3 DEF NextDeadlineAt, DeadlineOf
  <2>5. T = Max({t, D})
    BY <1>3, <2>4 DEF ArmedTimer
  <2> QED  BY <2>1, <2>5, <1>1, MaxOfTwo
<1> QED  BY <1>2, <1>3

\* The deadline of a new lease is in the future of its acquisition and inside
\* the query's lifetime, unless that is over.
LEMMA LeaseDeadlineBounded ==
  ASSUME NEW timeout \in LeaseTimeouts, NEW cap \in LeaseCaps,
         now \in Nat, queryStartedAt \in Nat
  PROVE  LET d == LeaseDeadline(timeout, cap)
         IN  /\ d \in Nat
             /\ now <= d
             /\ d <= queryStartedAt + HardMax \/ d <= now
<1> DEFINE left == queryStartedAt + HardMax - now
           remaining == Max({0, left})
           asked == IF cap = None THEN HardMax ELSE cap
           hardCap == Min({asked, remaining})
           length == IF timeout = None THEN hardCap
                                       ELSE Min({timeout + LeaseGrace, hardCap})
<1>1. left \in Int /\ asked \in Nat /\ timeout \in Nat /\ LeaseGrace \in Nat
  BY DurationsAssumption
<1>2. remaining = IF left <= 0 THEN 0 ELSE left
  BY <1>1, MaxOfTwo
<1>3. hardCap \in Nat /\ hardCap <= remaining
  <2> HIDE DEF remaining, asked
  <2>1. remaining \in Nat
    BY <1>1, <1>2
  <2>2. hardCap = IF asked <= remaining THEN asked ELSE remaining
    BY <2>1, <1>1, MinOfTwo
  <2> QED  BY <2>1, <2>2, <1>1
<1>4. length \in Nat /\ length <= hardCap
  <2> HIDE DEF hardCap
  <2>1. timeout + LeaseGrace \in Nat
    BY <1>1
  <2>2. Min({timeout + LeaseGrace, hardCap})
          = IF timeout + LeaseGrace <= hardCap THEN timeout + LeaseGrace ELSE hardCap
    BY <2>1, <1>3, MinOfTwo
  <2> QED  BY <2>1, <2>2, <1>3
<1>5. LeaseDeadline(timeout, cap) = now + length
  BY DEF LeaseDeadline
<1>6. now + length <= queryStartedAt + HardMax \/ now + length <= now
  BY <1>1, <1>2, <1>3, <1>4, DurationsAssumption
<1> QED  BY <1>4, <1>5, <1>6

-----------------------------------------------------------------------------
(* Type correctness.                                                       *)

\* The generation that runs is one that tryStart() returned.
RunningWasGranted == status = "running" => generation \in granted

TypeInv == TypeOK /\ RunningWasGranted

LEMMA TypeInvInit == Init => TypeInv
<1> SUFFICES ASSUME Init PROVE TypeInv
  OBVIOUS
<1>1. late \in BOOLEAN
  BY Zenon DEF Init
<1> QED  BY <1>1 DEF Init, TypeInv, TypeOK, RunningWasGranted

LEMMA TypeInvStep == TypeInv /\ [Next]_vars => TypeInv'
<1> SUFFICES ASSUME TypeInv, [Next]_vars
             PROVE  TypeInv'
  OBVIOUS
<1> USE DEF TypeInv, TypeOK, RunningWasGranted
<1>1. CASE Reserve
  BY <1>1 DEF Reserve, leaseVars, clockVars
<1>2. CASE CancelReservation
  BY <1>2 DEF CancelReservation, leaseVars, clockVars
<1>3. CASE TryStart
  <2>1. timer' \in Nat
    <3>1. ArmedTimer(now, now, now, {}) \in Nat
      BY ArmedForDeadline
    <3> QED  BY <3>1, <1>3 DEF TryStart
  <2>2. granted' \subseteq 1..generation'
    BY <1>3 DEF TryStart
  <2>3. late' \in BOOLEAN
    BY <1>3, Zenon DEF TryStart
  <2> QED  BY <2>1, <2>2, <2>3, <1>3 DEF TryStart
<1>4. ASSUME NEW g \in granted, End(g) PROVE TypeInv'
  BY <1>4 DEF End, clockVars, IsCurrentQuery
<1>5. ASSUME EndCurrent PROVE TypeInv'
  BY <1>5 DEF EndCurrent, clockVars, Reported
<1>6. CASE ForceEnd
  BY <1>5, <1>6 DEF ForceEnd
<1>7. ASSUME NEW g \in granted, RegisterActivity(g) PROVE TypeInv'
  <2>1. ArmedTimer(now, queryStartedAt, now, activeLeases) \in Nat
    BY ArmedForDeadline
  <2> QED  BY <2>1, <1>7 DEF RegisterActivity, leaseVars, clockVars, IsCurrentQuery
<1>8. ASSUME NEW g \in granted, NEW timeout \in LeaseTimeouts,
             NEW cap \in LeaseCaps, AcquireLease(g, timeout, cap)
      PROVE  TypeInv'
  <2>1. LeaseDeadline(timeout, cap) \in Nat
    BY LeaseDeadlineBounded
  <2>2. activeLeases' \subseteq Lease /\ handles' \subseteq Handle
    BY <2>1, <1>8 DEF AcquireLease, Lease, Handle, IsCurrentQuery
  <2>3. timer' \in Nat
    BY <2>2, <1>8, ArmedForDeadline DEF AcquireLease, IsCurrentQuery
  <2> QED  BY <2>2, <2>3, <1>8 DEF AcquireLease, clockVars, IsCurrentQuery
<1>9. ASSUME NEW h \in handles, ReleaseLease(h) PROVE TypeInv'
  <2>1. activeLeases' \subseteq Lease
    BY <1>9 DEF ReleaseLease
  <2>2. timer' \in Nat
    BY <2>1, <1>9, ArmedForDeadline DEF ReleaseLease
  <2> QED  BY <2>1, <2>2, <1>9 DEF ReleaseLease, clockVars
<1>10. CASE HandleTimeout
  <2>1. ArmedTimer(now, queryStartedAt, lastActivityAt, activeLeases) \in Nat
    BY ArmedForDeadline
  <2>2. CASE TimeoutReason(now, queryStartedAt, lastActivityAt, activeLeases) = "none"
    <3>1. /\ timer' = ArmedTimer(now, queryStartedAt, lastActivityAt, activeLeases)
          /\ UNCHANGED <<status, generation, queryStartedAt, lastActivityAt,
                         leaseVars, clockVars, granted, settled>>
      BY <2>2, <1>10 DEF HandleTimeout
    <3>2. timer' \in Nat
      BY <2>1, <3>1
    <3> QED  BY <3>1, <3>2 DEF leaseVars, clockVars
  <2>3. CASE TimeoutReason(now, queryStartedAt, lastActivityAt, activeLeases) # "none"
    BY <2>3, <1>5, <1>10 DEF HandleTimeout
  <2> QED  BY <2>2, <2>3
<1>11. CASE Tick
  BY <1>11 DEF Tick, leaseVars
<1>12. CASE UNCHANGED vars
  BY <1>12 DEF vars
<1> QED
  BY <1>1, <1>2, <1>3, <1>4, <1>6, <1>7, <1>8, <1>9, <1>10, <1>11, <1>12 DEF Next

\* The state of the guard has its type in every behaviour, and only queries
\* that started are settled.
THEOREM TypeCorrect == Spec => []TypeOK
<1>1. TypeInv => TypeOK
  BY DEF TypeInv
<1> QED  BY <1>1, TypeInvInit, TypeInvStep, PTL DEF Spec

LEMMA TypeInvariant == Spec => []TypeInv
BY TypeInvInit, TypeInvStep, PTL DEF Spec

-----------------------------------------------------------------------------
(* Leases.                                                                 *)

LEMMA LeasesStep ==
  TypeInv /\ LeasesBelongToQuery /\ [Next]_vars => LeasesBelongToQuery'
<1> SUFFICES ASSUME TypeInv, LeasesBelongToQuery, [Next]_vars
             PROVE  LeasesBelongToQuery'
  OBVIOUS
<1> USE DEF TypeInv, TypeOK, LeasesBelongToQuery
<1>a. \A l \in activeLeases : l \in Lease
  OBVIOUS
\* No lease is added, and none changes hands.
<1>b. ASSUME activeLeases' \subseteq activeLeases,
             UNCHANGED <<status, generation, queryStartedAt, leaseCounter,
                         handles>>,
             now' \in {now, now + 1}
      PROVE  LeasesBelongToQuery'
  <2> SUFFICES ASSUME NEW l \in activeLeases
               PROVE  /\ status' = "running"
                      /\ l.generation = generation'
                      /\ l.leaseId \in 1..leaseCounter'
                      /\ [leaseId |-> l.leaseId, generation |-> l.generation] \in handles'
                      /\ \/ l.deadlineAt <= queryStartedAt' + HardMax
                         \/ l.deadlineAt <= now'
    BY <1>b
  <2>1. l.deadlineAt \in Nat
    BY <1>a DEF Lease
  <2>2. \/ l.deadlineAt <= queryStartedAt + HardMax
        \/ l.deadlineAt <= now
    OBVIOUS
  <2>3. \/ l.deadlineAt <= queryStartedAt' + HardMax
        \/ l.deadlineAt <= now'
    BY <2>1, <2>2, <1>b
  <2> QED  BY <2>3, <1>b
<1>c. ASSUME activeLeases' = {} PROVE LeasesBelongToQuery'
  BY <1>c
<1>1. CASE Reserve
  BY <1>1, <1>c DEF Reserve, leaseVars
<1>2. CASE CancelReservation
  BY <1>2, <1>c DEF CancelReservation, leaseVars
<1>3. CASE TryStart
  BY <1>3, <1>c DEF TryStart
<1>4. ASSUME NEW g \in granted, End(g) PROVE LeasesBelongToQuery'
  BY <1>4, <1>c DEF End, IsCurrentQuery
<1>5. ASSUME EndCurrent PROVE LeasesBelongToQuery'
  BY <1>5, <1>c DEF EndCurrent, Reported
<1>6. CASE ForceEnd
  BY <1>5, <1>6 DEF ForceEnd
<1>7. ASSUME NEW g \in granted, RegisterActivity(g) PROVE LeasesBelongToQuery'
  BY <1>7, <1>b DEF RegisterActivity, leaseVars, clockVars, IsCurrentQuery
<1>8. ASSUME NEW g \in granted, NEW timeout \in LeaseTimeouts,
             NEW cap \in LeaseCaps, AcquireLease(g, timeout, cap)
      PROVE  LeasesBelongToQuery'
  <2> DEFINE deadline == LeaseDeadline(timeout, cap)
             new == [leaseId |-> leaseCounter', generation |-> g,
                     deadlineAt |-> deadline]
  <2>1. /\ deadline \in Nat
        /\ deadline <= queryStartedAt + HardMax \/ deadline <= now
    BY LeaseDeadlineBounded
  <2>2. /\ activeLeases' = activeLeases \cup {new}
        /\ handles' = handles \cup {[leaseId |-> leaseCounter', generation |-> g]}
        /\ status' = "running" /\ generation' = generation /\ g = generation
        /\ leaseCounter' = leaseCounter + 1
        /\ now' = now /\ queryStartedAt' = queryStartedAt
    BY <1>8 DEF AcquireLease, clockVars, IsCurrentQuery
  <2> HIDE DEF deadline
  <2> SUFFICES ASSUME NEW l \in activeLeases \cup {new}
               PROVE  /\ status' = "running"
                      /\ l.generation = generation'
                      /\ l.leaseId \in 1..leaseCounter'
                      /\ [leaseId |-> l.leaseId, generation |-> l.generation] \in handles'
                      /\ \/ l.deadlineAt <= queryStartedAt' + HardMax
                         \/ l.deadlineAt <= now'
    BY <2>2
  <2>3. CASE l = new
    BY <2>1, <2>2, <2>3
  <2>4. CASE l \in activeLeases
    BY <2>2, <2>4, <1>a DEF Lease
  <2> QED  BY <2>3, <2>4
<1>9. ASSUME NEW h \in handles, ReleaseLease(h) PROVE LeasesBelongToQuery'
  BY <1>9, <1>b DEF ReleaseLease, clockVars
<1>10. CASE HandleTimeout
  <2>1. CASE TimeoutReason(now, queryStartedAt, lastActivityAt, activeLeases) = "none"
    BY <2>1, <1>10, <1>b DEF HandleTimeout, leaseVars, clockVars
  <2>2. CASE TimeoutReason(now, queryStartedAt, lastActivityAt, activeLeases) # "none"
    BY <2>2, <1>5, <1>10 DEF HandleTimeout
  <2> QED  BY <2>1, <2>2
<1>11. CASE Tick
  BY <1>11, <1>b DEF Tick, leaseVars
<1>12. CASE UNCHANGED vars
  BY <1>12, <1>b DEF vars
<1> QED
  BY <1>1, <1>2, <1>3, <1>4, <1>6, <1>7, <1>8, <1>9, <1>10, <1>11, <1>12 DEF Next

\* A lease never outlives its query and never extends it: no stale lease of a
\* cancelled query can protect a newer one.
THEOREM LeasesNeverStale == Spec => []LeasesBelongToQuery
<1>1. Init => LeasesBelongToQuery
  BY DEF Init, LeasesBelongToQuery
<1> QED  BY <1>1, LeasesStep, TypeInvariant, PTL DEF Spec

-----------------------------------------------------------------------------
(* The watchdog.                                                           *)

LEMMA WatchdogStep ==
  TypeInv /\ LeasesBelongToQuery /\ WatchdogArmed /\ [Next]_vars => WatchdogArmed'
<1> SUFFICES ASSUME TypeInv, LeasesBelongToQuery, WatchdogArmed,
                    [Next]_vars
             PROVE  WatchdogArmed'
  OBVIOUS
<1>0. TypeInv'
  BY TypeInvStep
<1> USE DEF TypeInv, TypeOK
<1>a. NoTimer \notin Nat
  BY DEF NoTimer
\* Every re-armed timer is right for the state it is armed in.
<1>b. ASSUME status' = "running", now' = now,
             timer' = ArmedTimer(now, queryStartedAt', lastActivityAt',
                                 activeLeases')
      PROVE  WatchdogArmed'
  <2>1. /\ timer' \in Nat
        /\ Deadline' <= timer'
        /\ timer' = Deadline' \/ timer' <= now
    BY <1>0, <1>b, ArmedForDeadline DEF Deadline
  <2> QED  BY <2>1, <1>a, <1>b DEF WatchdogArmed
<1>c. ASSUME UNCHANGED <<status, queryStartedAt, lastActivityAt, activeLeases,
                         timer>>,
             now' \in {now, now + 1}
      PROVE  WatchdogArmed'
  <2>1. Deadline' = Deadline
    BY <1>c DEF Deadline
  <2> QED  BY <2>1, <1>c, <1>a DEF WatchdogArmed
<1>d. ASSUME status' # "running", timer' = NoTimer
      PROVE  WatchdogArmed'
  BY <1>d DEF WatchdogArmed
<1>1. CASE Reserve
  <2>1. status # "running" /\ status' # "running" /\ timer' = timer
    BY <1>1 DEF Reserve
  <2> QED  BY <2>1, <1>d DEF WatchdogArmed
<1>2. CASE CancelReservation
  <2>1. status # "running" /\ status' # "running" /\ timer' = timer
    BY <1>2 DEF CancelReservation
  <2> QED  BY <2>1, <1>d DEF WatchdogArmed
<1>3. CASE TryStart
  BY <1>3, <1>b DEF TryStart, clockVars
<1>4. ASSUME NEW g \in granted, End(g) PROVE WatchdogArmed'
  BY <1>4, <1>d DEF End, IsCurrentQuery
<1>5. ASSUME EndCurrent PROVE WatchdogArmed'
  BY <1>5, <1>d DEF EndCurrent, Reported
<1>6. CASE ForceEnd
  BY <1>5, <1>6 DEF ForceEnd
<1>7. ASSUME NEW g \in granted, RegisterActivity(g) PROVE WatchdogArmed'
  BY <1>7, <1>b DEF RegisterActivity, leaseVars, clockVars, IsCurrentQuery
<1>8. ASSUME NEW g \in granted, NEW timeout \in LeaseTimeouts,
             NEW cap \in LeaseCaps, AcquireLease(g, timeout, cap)
      PROVE  WatchdogArmed'
  BY <1>8, <1>b DEF AcquireLease, clockVars, IsCurrentQuery
<1>9. ASSUME NEW h \in handles, ReleaseLease(h) PROVE WatchdogArmed'
  <2>1. CASE status = "running"
    BY <2>1, <1>9, <1>b DEF ReleaseLease, clockVars
  <2>2. CASE status # "running"
    BY <2>2, <1>9 DEF ReleaseLease, LeasesBelongToQuery
  <2> QED  BY <2>1, <2>2
<1>10. CASE HandleTimeout
  <2>1. CASE TimeoutReason(now, queryStartedAt, lastActivityAt, activeLeases) = "none"
    <3>1. /\ timer' = ArmedTimer(now, queryStartedAt, lastActivityAt, activeLeases)
          /\ UNCHANGED <<status, generation, queryStartedAt, lastActivityAt,
                         leaseVars, clockVars, granted, settled>>
          /\ status = "running"
      BY <2>1, <1>10 DEF HandleTimeout
    <3> QED  BY <3>1, <1>b DEF leaseVars, clockVars
  <2>2. CASE TimeoutReason(now, queryStartedAt, lastActivityAt, activeLeases) # "none"
    BY <2>2, <1>5, <1>10 DEF HandleTimeout
  <2> QED  BY <2>1, <2>2
<1>11. CASE Tick
  BY <1>11, <1>c DEF Tick, leaseVars
<1>12. CASE UNCHANGED vars
  BY <1>12, <1>c DEF vars
<1> QED
  BY <1>1, <1>2, <1>3, <1>4, <1>6, <1>7, <1>8, <1>9, <1>10, <1>11, <1>12 DEF Next

\* A running query always has a timer for its earliest deadline, and an idle
\* guard has none.
THEOREM WatchdogAlwaysArmed == Spec => []WatchdogArmed
<1>1. Init => WatchdogArmed
  BY DEF Init, WatchdogArmed
<1> QED
  BY <1>1, WatchdogStep, LeasesNeverStale, TypeInvariant, PTL DEF Spec

LEMMA HardMaxStep ==
  TypeInv /\ WatchdogArmed /\ HardMaxRespected /\ [Next]_vars
    => HardMaxRespected'
<1> SUFFICES ASSUME TypeInv, WatchdogArmed, HardMaxRespected, [Next]_vars
             PROVE  HardMaxRespected'
  OBVIOUS
<1> USE DEF TypeInv, TypeOK, HardMaxRespected
<1>1. CASE Tick
  <2>1. CASE status = "running" /\ ~ late'
    <3>0. timer # NoTimer /\ ~ (timer # NoTimer /\ timer <= now)
      BY <1>1, <2>1 DEF Tick, WatchdogArmed
    <3>1. now < timer /\ now' = now + 1 /\ queryStartedAt' = queryStartedAt
      BY <1>1, <3>0 DEF Tick
    <3>2. timer = Deadline
      BY <2>1, <3>1 DEF WatchdogArmed, NoTimer
    <3>3. Deadline <= queryStartedAt + HardMax
      BY DeadlineIsEarliest DEF Deadline, DeadlineCandidates
    <3>4. Deadline \in Nat
      BY DeadlineIsEarliest DEF Deadline
    <3> QED  BY <3>1, <3>2, <3>3, <3>4, DurationsAssumption
  <2>2. CASE status # "running" \/ late'
    BY <1>1, <2>2 DEF Tick
  <2> QED  BY <2>1, <2>2
<1>2. CASE TryStart
  BY <1>2, DurationsAssumption DEF TryStart
<1>3. ASSUME UNCHANGED <<now, late, queryStartedAt>>,
             status' = "running" => status = "running"
      PROVE  HardMaxRespected'
  BY <1>3
<1>4. CASE Reserve \/ CancelReservation
  BY <1>3, <1>4 DEF Reserve, CancelReservation, clockVars
<1>5. CASE \E g \in granted : End(g)
  BY <1>3, <1>5 DEF End, clockVars, IsCurrentQuery
<1>6. CASE ForceEnd \/ HandleTimeout
  BY <1>3, <1>6 DEF ForceEnd, HandleTimeout, EndCurrent, clockVars, Reported
<1>7. CASE \E g \in granted : RegisterActivity(g)
  BY <1>3, <1>7 DEF RegisterActivity, clockVars, IsCurrentQuery
<1>8. CASE \E g \in granted, timeout \in LeaseTimeouts, cap \in LeaseCaps :
             AcquireLease(g, timeout, cap)
  BY <1>3, <1>8 DEF AcquireLease, clockVars, IsCurrentQuery
<1>9. CASE \E h \in handles : ReleaseLease(h)
  BY <1>3, <1>9 DEF ReleaseLease, clockVars
<1>10. CASE UNCHANGED vars
  BY <1>3, <1>10 DEF vars
<1> QED
  BY <1>1, <1>2, <1>4, <1>5, <1>6, <1>7, <1>8, <1>9, <1>10 DEF Next

\* Only a timer that is run late lets a query outlive the hard maximum,
\* whatever leases it takes and whatever activity it reports.
THEOREM HardMaxAlwaysWins == Spec => []HardMaxRespected
<1>1. Init => HardMaxRespected
  BY DEF Init, HardMaxRespected
<1> QED
  BY <1>1, HardMaxStep, WatchdogAlwaysArmed, TypeInvariant, PTL DEF Spec

-----------------------------------------------------------------------------
(* The session the guard promises.                                         *)

LEMMA SettledStep ==
  TypeInv /\ SettledOnce /\ [Next]_vars => SettledOnce'
<1> SUFFICES ASSUME TypeInv, SettledOnce, [Next]_vars
             PROVE  SettledOnce'
  OBVIOUS
<1> USE DEF TypeInv, TypeOK, RunningWasGranted, SettledOnce
<1>1. CASE TryStart
  <2>1. generation + 1 \notin granted
    OBVIOUS
  <2>2. status # "running" /\ settled' = granted
    BY <1>1 DEF TryStart
  <2> QED  BY <2>1, <2>2, <1>1 DEF TryStart
<1>2. CASE \E g \in granted : End(g)
  BY <1>2 DEF End, IsCurrentQuery
<1>3. ASSUME EndCurrent PROVE SettledOnce'
  BY <1>3 DEF EndCurrent, Reported
<1>4. ASSUME UNCHANGED <<granted, settled, generation>>,
             status = "running" <=> status' = "running"
      PROVE  SettledOnce'
  BY <1>4
<1>5. CASE Reserve \/ CancelReservation
  BY <1>4, <1>5 DEF Reserve, CancelReservation
<1>6. CASE ForceEnd
  BY <1>3, <1>6 DEF ForceEnd
<1>7. CASE \E g \in granted : RegisterActivity(g)
  BY <1>4, <1>7 DEF RegisterActivity, IsCurrentQuery
<1>8. CASE \E g \in granted, timeout \in LeaseTimeouts, cap \in LeaseCaps :
             AcquireLease(g, timeout, cap)
  BY <1>4, <1>8 DEF AcquireLease, IsCurrentQuery
<1>9. CASE \E h \in handles : ReleaseLease(h)
  BY <1>4, <1>9 DEF ReleaseLease
<1>10. CASE HandleTimeout
  BY <1>3, <1>4, <1>10 DEF HandleTimeout
<1>11. CASE Tick \/ UNCHANGED vars
  BY <1>4, <1>11 DEF Tick, vars
<1> QED
  BY <1>1, <1>2, <1>5, <1>6, <1>7, <1>8, <1>9, <1>10, <1>11 DEF Next

\* The end of every query but the running one was reported exactly once.
THEOREM EveryQuerySettled == Spec => []SettledOnce
<1>1. Init => SettledOnce
  BY DEF Init, SettledOnce
<1> QED  BY <1>1, SettledStep, TypeInvariant, PTL DEF Spec

LEMMA SessionStep ==
  TypeInv /\ SettledOnce /\ [Next]_vars => [Session!Next]_(Session!vars)
<1> SUFFICES ASSUME TypeInv, SettledOnce, [Next]_vars
             PROVE  Session!Next \/ UNCHANGED Session!vars
  BY DEF Session!vars
<1> USE DEF TypeInv, TypeOK, RunningWasGranted
<1>1. CASE Reserve
  BY <1>1 DEF Reserve, Session!Next, Session!Reserve
<1>2. CASE CancelReservation
  BY <1>2 DEF CancelReservation, Session!Next, Session!Unreserve
<1>3. CASE TryStart
  <2>1. generation + 1 \in 1..MaxGeneration
    BY <1>3, BoundsAssumption DEF TryStart
  <2>2. generation + 1 \notin granted
    OBVIOUS
  <2>3. Session!Start(generation + 1)
    BY <2>2, <1>3 DEF TryStart, Session!Start
  <2> QED  BY <2>1, <2>3 DEF Session!Next
<1>4. ASSUME NEW g \in granted, End(g) PROVE Session!Next
  <2>1. generation \notin settled
    BY <1>4 DEF End, SettledOnce, IsCurrentQuery
  <2>2. Session!Settle
    BY <2>1, <1>4 DEF End, Session!Settle, Session!NoOwner, IsCurrentQuery
  <2> QED  BY <2>2 DEF Session!Next
<1>5. ASSUME EndCurrent, status # "idle" PROVE Session!Next
  <2>1. CASE status = "running"
    <3>1. generation \notin settled
      BY <2>1 DEF SettledOnce
    <3>2. Session!Settle
      BY <3>1, <2>1, <1>5 DEF EndCurrent, Session!Settle, Session!NoOwner, Reported
    <3> QED  BY <3>2 DEF Session!Next
  <2>2. CASE status = "dispatching"
    BY <2>2, <1>5 DEF EndCurrent, Session!Next, Session!Unreserve, Reported
  <2> QED  BY <2>1, <2>2, <1>5
<1>6. ASSUME UNCHANGED <<status, generation, granted, settled>>
      PROVE  UNCHANGED Session!vars
  BY <1>6 DEF Session!vars
<1>7. CASE ForceEnd
  BY <1>5, <1>7 DEF ForceEnd
<1>8. CASE \E g \in granted : RegisterActivity(g)
  BY <1>6, <1>8 DEF RegisterActivity, IsCurrentQuery
<1>9. CASE \E g \in granted, timeout \in LeaseTimeouts, cap \in LeaseCaps :
             AcquireLease(g, timeout, cap)
  BY <1>6, <1>9 DEF AcquireLease, IsCurrentQuery
<1>10. CASE \E h \in handles : ReleaseLease(h)
  BY <1>6, <1>10 DEF ReleaseLease
<1>11. CASE HandleTimeout
  BY <1>5, <1>6, <1>11 DEF HandleTimeout
<1>12. CASE Tick \/ UNCHANGED vars
  BY <1>6, <1>12 DEF Tick, vars
<1> QED
  BY <1>1, <1>2, <1>3, <1>4, <1>7, <1>8, <1>9, <1>10, <1>11, <1>12 DEF Next

\* The guard implements the session: no two queries share a generation, no
\* query starts while another runs, and the end of a query is reported to the
\* one party that owns it.
THEOREM GuardImplementsSession == Spec => SessionSpec
<1>1. Init => Session!Init
  BY DEF Init, Session!Init, Session!NoOwner
<1> QED
  BY <1>1, SessionStep, EveryQuerySettled, TypeInvariant, PTL
  DEF Spec, SessionSpec, Session!Spec
=============================================================================
