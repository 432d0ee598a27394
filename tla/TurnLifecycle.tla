---------------------------- MODULE TurnLifecycle ---------------------------
(***************************************************************************)
(* The life of a turn on the REPL's main thread: the user submits, or the  *)
(* queue processor or a teammate message starts a turn; the input is       *)
(* processed, then queried; the turn ends by itself, is cancelled, or is   *)
(* ended by the watchdog.  (handlePromptSubmit.ts, REPL.tsx,               *)
(* useQueueProcessor.ts, useCancelRequest.ts, on top of QueryGuard and of  *)
(* the command queue.)                                                     *)
(*                                                                         *)
(* A turn is one call of executeUserInput() or handleIncomingPrompt().     *)
(* Between two awaits such a call is one action; other turns, the user and *)
(* React's effects interleave at the awaits.  The guard appears with its   *)
(* status and generation; its clock and leases are in QueryGuard.tla, and  *)
(* here the watchdog may fire whenever a query runs.                       *)
(***************************************************************************)
EXTENDS CommandQueueOps, FiniteSets

CONSTANTS
  Turns,           \* slots for the calls in flight
  UserCommands,    \* the commands the user types, each at most once
  OtherCommands,   \* notifications, scheduled prompts, follow-ups
  TeammateMessages,\* the contents handed to handleIncomingPrompt
  EagerEffects,    \* may React run effects before promise continuations?
  MaxInterrupts,   \* bound on cancellations, timeouts and agent kills
  MaxGeneration    \* bound on the generations of the guard

AllCommands == UserCommands \cup OtherCommands \cup TeammateMessages
AllIds == {cmd.id : cmd \in AllCommands}
NoTurn == "none"

ASSUME TurnsAssumption == NoTurn \notin Turns
ASSUME EffectsAssumption == EagerEffects \in BOOLEAN
ASSUME BoundsAssumption ==
  MaxInterrupts \in Nat /\ MaxGeneration \in Nat /\ MaxInterrupts <= MaxGeneration

\* A command as it arrives, and as it is put back after a refused query.
Queueable ==
  [id : AllIds, mode : Modes, priority : Priorities,
   agent : {cmd.agent : cmd \in AllCommands},
   slash : BOOLEAN, skipSlash : BOOLEAN, meta : BOOLEAN]

ASSUME CommandsAssumption == AllCommands \subseteq Queueable

VARIABLES
  status,       \* QueryGuard._status
  generation,   \* QueryGuard._generation
  queue,        \* the command queue
  pc,           \* where each turn is
  batch,        \* queuedCommands of each turn
  gen,          \* thisGeneration of each turn, once it queries
  aborted,      \* the turns whose AbortController was aborted
  controller,   \* the turn whose controller the REPL state holds, or NoTurn
  snapshot,     \* queuedCommandsSnapshot of each turn's query loop
  arrived,      \* history: the ids of the commands that arrived so far
  delivered,    \* history: how often each id reached the conversation
  dropped,      \* history: the ids given up for a reason the code has
  interrupts    \* the number of interruptions so far

guardVars == <<status, generation>>
turnVars == <<pc, batch, gen, aborted, controller, snapshot>>
fateVars == <<delivered, dropped>>
vars == <<guardVars, queue, turnVars, arrived, fateVars, interrupts>>

Phases ==
  {"free",         \* no call in this slot
   "processing",   \* awaiting processUserInput
   "querying",     \* in onQuery, after tryStart
   "settling",     \* end() returned true: awaiting mrOnTurnComplete
   "returning",    \* onQuery returned: about to leave executeUserInput
   "unwinding"}    \* processUserInput threw

\* Continuations that wait for nothing but their place in the microtask queue.
Continuations == {"settling", "returning", "unwinding"}

Busy(t) == pc[t] # "free"
NoContinuation == \A t \in Turns : pc[t] \notin Continuations

IdsOf(seq) == {seq[i].id : i \in DOMAIN seq}

Init ==
  /\ status = "idle"
  /\ generation = 0
  /\ queue = <<>>
  /\ pc = [t \in Turns |-> "free"]
  /\ batch = [t \in Turns |-> <<>>]
  /\ gen = [t \in Turns |-> 0]
  /\ aborted = {}
  /\ controller = NoTurn
  /\ snapshot = [t \in Turns |-> {}]
  /\ arrived = {}
  /\ delivered = [id \in AllIds |-> 0]
  /\ dropped = {}
  /\ interrupts = 0

-----------------------------------------------------------------------------
(* Pieces the handlers share.                                              *)

Arrive(cmd) == cmd.id \notin arrived /\ arrived' = arrived \cup {cmd.id}

Deliver(ids) ==
  delivered' = [id \in AllIds |-> delivered[id] + (IF id \in ids THEN 1 ELSE 0)]

\* A mistake: nothing is reserved.
NotReserved == status

\* reserve(), whose result is ignored.
Reserved == IF status = "idle" THEN "dispatching" ELSE status

\* A mistake: the REPL is not told of the controller of the turn.
StartUncontrolled(t, cmds) ==
  /\ pc' = [pc EXCEPT ![t] = "processing"]
  /\ batch' = [batch EXCEPT ![t] = cmds]
  /\ aborted' = aborted \ {t}
  /\ controller' = controller
  /\ status' = Reserved
  /\ UNCHANGED <<generation, gen, snapshot>>

\* executeUserInput() up to its first await, with a fresh controller.
StartExecution(t, cmds) ==
  /\ pc' = [pc EXCEPT ![t] = "processing"]
  /\ batch' = [batch EXCEPT ![t] = cmds]
  /\ aborted' = aborted \ {t}
  /\ controller' = t
  /\ status' = Reserved
  /\ UNCHANGED <<generation, gen, snapshot>>

\* A mistake: the reservation is kept.
StillReserved == status

\* cancelReservation(): whoever holds the reservation.
Unreserved == IF status = "dispatching" THEN "idle" ELSE status

\* tryStart(), when it succeeds.
TryStart(t) ==
  /\ status # "running"
  /\ generation + 2 * MaxInterrupts - 2 * interrupts < MaxGeneration
  /\ status' = "running"
  /\ generation' = generation + 1
  /\ gen' = [gen EXCEPT ![t] = generation']

\* A call leaves its slot.
Vacate(t) ==
  /\ pc' = [pc EXCEPT ![t] = "free"]
  /\ batch' = [batch EXCEPT ![t] = <<>>]
  /\ gen' = [gen EXCEPT ![t] = 0]
  /\ aborted' = aborted \ {t}
  /\ snapshot' = [snapshot EXCEPT ![t] = {}]

\* A mistake: the query is not told.
AbortNothing(t) == aborted' = aborted

\* An AbortController belongs to one call; aborting twice has no effect.
Abort(t) == aborted' = IF t = NoTurn THEN aborted ELSE aborted \cup {t}

-----------------------------------------------------------------------------
(* How turns start.                                                        *)

\* handlePromptSubmit() with the guard idle: the command starts a turn.
SubmitIdle(t, cmd) ==
  /\ NoContinuation
  /\ status = "idle"
  /\ ~ Busy(t)
  /\ Arrive(cmd)
  /\ StartExecution(t, <<cmd>>)
  /\ UNCHANGED <<queue, fateVars, interrupts>>

\* handlePromptSubmit() with the guard active: the command waits.  The branch
\* that aborts the turn for a shell command needs a tool that implements
\* interruptBehavior, and none does.
SubmitActive(cmd) ==
  /\ NoContinuation
  /\ status # "idle"
  /\ Arrive(cmd)
  /\ queue' = Append(queue, cmd)
  /\ UNCHANGED <<guardVars, turnVars, fateVars, interrupts>>

\* enqueuePendingNotification() by a task, a schedule or a remote client.
Notify(cmd) ==
  /\ NoContinuation
  /\ Arrive(cmd)
  /\ queue' = Append(queue, cmd)
  /\ UNCHANGED <<guardVars, turnVars, fateVars, interrupts>>

\* The effect of useQueueProcessor: it runs when the guard is idle and the
\* queue is not empty, before or after pending continuations.
ProcessQueue(t) ==
  /\ EagerEffects \/ NoContinuation
  /\ status = "idle"
  /\ ~ Busy(t)
  /\ Ready(queue)
  /\ queue' = Left(queue)
  /\ StartExecution(t, Taken(queue))
  /\ UNCHANGED <<arrived, fateVars, interrupts>>

\* handleIncomingPrompt(): a teammate's message becomes a turn at once, unless
\* a query is active or the user has something queued.
IncomingPrompt(t, cmd) ==
  /\ NoContinuation
  /\ status = "idle"
  /\ ~ Busy(t)
  /\ \A i \in DOMAIN queue : queue[i].mode \notin {"prompt", "bash"}
  /\ Arrive(cmd)
  /\ TryStart(t)
  /\ controller' = t
  /\ pc' = [pc EXCEPT ![t] = "querying"]
  /\ batch' = [batch EXCEPT ![t] = <<cmd>>]
  /\ aborted' = aborted \ {t}
  /\ Deliver({cmd.id})
  /\ UNCHANGED <<queue, snapshot, dropped, interrupts>>

-----------------------------------------------------------------------------
(* From the input to the query.                                            *)

\* processUserInput() throws.
ProcessingThrows(t) ==
  /\ NoContinuation
  /\ pc[t] = "processing"
  /\ pc' = [pc EXCEPT ![t] = "unwinding"]
  /\ dropped' = dropped \cup IdsOf(batch[t])
  /\ UNCHANGED <<guardVars, queue, batch, gen, aborted, controller, snapshot,
                 arrived, delivered, interrupts>>

\* processUserInput() yields no message (/model, /theme): the turn is over.
ProcessingIsLocal(t) ==
  /\ NoContinuation
  /\ pc[t] = "processing"
  /\ status' = Unreserved
  /\ controller' = NoTurn
  /\ pc' = [pc EXCEPT ![t] = "returning"]
  /\ dropped' = dropped \cup IdsOf(batch[t])
  /\ UNCHANGED <<generation, queue, batch, gen, aborted, snapshot, arrived,
                 delivered, interrupts>>

\* onQuery() gets the guard: the messages join the conversation.
QueryStarts(t) ==
  /\ NoContinuation
  /\ pc[t] = "processing"
  /\ TryStart(t)
  /\ pc' = [pc EXCEPT ![t] = "querying"]
  /\ Deliver(IdsOf(batch[t]))
  /\ UNCHANGED <<queue, batch, aborted, controller, snapshot, arrived, dropped,
                 interrupts>>

\* onQuery() finds another query running: the text of the messages the user
\* wrote goes back to the queue, as prompts, and the others are lost.
QueryRefused(t) ==
  LET own == Only(batch[t], {cmd \in Commands(batch[t]) : ~ cmd.meta})
  IN  /\ NoContinuation
      /\ pc[t] = "processing"
      /\ status = "running"
      /\ pc' = [pc EXCEPT ![t] = "returning"]
      /\ queue' = queue \o [i \in DOMAIN own |->
                    [own[i] EXCEPT !.mode = "prompt", !.priority = "next"]]
      /\ dropped' = dropped \cup (IdsOf(batch[t]) \ IdsOf(own))
      /\ UNCHANGED <<guardVars, batch, gen, aborted, controller, snapshot,
                     arrived, delivered, interrupts>>

-----------------------------------------------------------------------------
(* The query loop reads the queue in the middle of a turn (query.ts).      *)

BeginDrain(t, threshold) ==
  /\ NoContinuation
  /\ pc[t] = "querying"
  /\ t \notin aborted
  /\ snapshot[t] = {}
  /\ snapshot' = [snapshot EXCEPT ![t] = Drainable(queue, MainThread, threshold)]
  /\ snapshot' # snapshot
  /\ UNCHANGED <<guardVars, queue, pc, batch, gen, aborted, controller, arrived,
                 fateVars, interrupts>>

\* The commands copied are attached even if the turn was aborted meanwhile.
EndDrain(t) ==
  LET consumed == {cmd \in snapshot[t] : cmd.mode # "bash"}
  IN  /\ NoContinuation
      /\ pc[t] = "querying"
      /\ snapshot[t] # {}
      /\ Deliver({cmd.id : cmd \in consumed})
      /\ queue' = Without(queue, consumed)
      /\ snapshot' = [snapshot EXCEPT ![t] = {}]
      /\ UNCHANGED <<guardVars, pc, batch, gen, aborted, controller, arrived,
                     dropped, interrupts>>

-----------------------------------------------------------------------------
(* How turns end.                                                          *)

Incoming(t) == \E cmd \in TeammateMessages : batch[t] = <<cmd>>

\* The query is over, for whatever reason, and the finally of onQuery calls
\* end().  A turn without a query (local: shouldQuery was false) cleared the
\* controller before.  The awaits of a turn that no longer owns the guard
\* lead nowhere.
QueryEnds(t, local) ==
  LET owns == status = "running" /\ gen[t] = generation
  IN  /\ NoContinuation
      /\ pc[t] = "querying"
      /\ snapshot[t] = {}
      /\ local => ~ Incoming(t)
      /\ controller' = IF local THEN NoTurn ELSE controller
      /\ status' = IF owns THEN "idle" ELSE status
      /\ IF owns \/ ~ Incoming(t)
         THEN /\ pc' = [pc EXCEPT ![t] = IF owns THEN "settling" ELSE "returning"]
              /\ UNCHANGED <<batch, gen, aborted, snapshot>>
         ELSE Vacate(t)
      /\ UNCHANGED <<generation, queue, arrived, fateVars, interrupts>>

\* After mrOnTurnComplete: the REPL forgets its controller.
Settle(t) ==
  /\ pc[t] = "settling"
  /\ controller' = NoTurn
  /\ IF Incoming(t)
     THEN Vacate(t)
     ELSE /\ pc' = [pc EXCEPT ![t] = "returning"]
          /\ UNCHANGED <<batch, gen, aborted, snapshot>>
  /\ UNCHANGED <<guardVars, queue, arrived, fateVars, interrupts>>

\* executeUserInput() returns: a slash command may submit a follow-up, and the
\* finally cancels the reservation.
Return(t, followUps) ==
  /\ pc[t] = "returning"
  /\ followUps # <<>> => batch[t][1].slash
  /\ IdsOf(followUps) \cap arrived = {}
  /\ queue' = queue \o followUps
  /\ arrived' = arrived \cup IdsOf(followUps)
  /\ status' = Unreserved
  /\ Vacate(t)
  /\ UNCHANGED <<generation, controller, fateVars, interrupts>>

Unwind(t) ==
  /\ pc[t] = "unwinding"
  /\ status' = Unreserved
  /\ Vacate(t)
  /\ UNCHANGED <<generation, queue, controller, arrived, fateVars, interrupts>>

-----------------------------------------------------------------------------
(* Interruptions.                                                          *)

CanCancelRunningTask == controller # NoTurn /\ controller \notin aborted

\* A mistake: the generation moves on, the guard stays busy.
ForceEndStaysBusy ==
  /\ status' = status
  /\ generation' = IF status = "idle" THEN generation ELSE generation + 1

\* forceEnd(): nothing to do when idle.
ForceEnd ==
  /\ status' = "idle"
  /\ generation' = IF status = "idle" THEN generation ELSE generation + 1

\* ESC or Ctrl+C with a live controller: onCancel().
Cancel ==
  /\ NoContinuation
  /\ interrupts < MaxInterrupts
  /\ interrupts' = interrupts + 1
  /\ CanCancelRunningTask
  /\ ForceEnd
  /\ Abort(controller)
  /\ controller' = NoTurn
  /\ UNCHANGED <<queue, pc, batch, gen, snapshot, arrived, fateVars>>

\* The same key without a live controller: the queue goes back to the input.
PopQueue ==
  /\ NoContinuation
  /\ ~ CanCancelRunningTask
  /\ AfterPop(queue) # queue
  /\ queue' = AfterPop(queue)
  /\ dropped' = dropped \cup (IdsOf(queue) \ IdsOf(queue'))
  /\ UNCHANGED <<guardVars, turnVars, arrived, delivered, interrupts>>

\* The watchdog: abortTimedOutQuery(), forceEnd(), and the microtask that
\* clears the controller, before any other task can run.
Timeout ==
  /\ NoContinuation
  /\ interrupts < MaxInterrupts
  /\ interrupts' = interrupts + 1
  /\ status = "running"
  /\ ForceEnd
  /\ Abort(controller)
  /\ controller' = NoTurn
  /\ UNCHANGED <<queue, pc, batch, gen, snapshot, arrived, fateVars>>

\* The effect that lets an urgent message abort the current operation.
AbortForUrgent ==
  /\ EagerEffects \/ NoContinuation
  /\ \E i \in DOMAIN queue : queue[i].priority = "now"
  /\ CanCancelRunningTask
  /\ Abort(controller)
  /\ UNCHANGED <<guardVars, queue, pc, batch, gen, controller, snapshot,
                 arrived, fateVars, interrupts>>

\* The confirmed "kill agents" gesture: clearCommandQueue(), then one summary
\* notification.
KillAgents(cmd) ==
  /\ NoContinuation
  /\ interrupts < MaxInterrupts
  /\ interrupts' = interrupts + 1
  /\ cmd.mode = "task-notification"
  /\ Arrive(cmd)
  /\ queue' = <<cmd>>
  /\ dropped' = dropped \cup IdsOf(queue)
  /\ UNCHANGED <<guardVars, turnVars, delivered>>

-----------------------------------------------------------------------------
FollowUps == {<<>>} \cup {<<cmd>> : cmd \in {c \in OtherCommands : c.mode = "prompt"}}

Next ==
  \/ \E t \in Turns, cmd \in UserCommands : SubmitIdle(t, cmd)
  \/ \E cmd \in UserCommands : SubmitActive(cmd)
  \/ \E cmd \in OtherCommands : Notify(cmd)
  \/ \E t \in Turns : ProcessQueue(t)
  \/ \E t \in Turns, cmd \in TeammateMessages : IncomingPrompt(t, cmd)
  \/ \E t \in Turns : ProcessingThrows(t)
  \/ \E t \in Turns : ProcessingIsLocal(t)
  \/ \E t \in Turns : QueryStarts(t)
  \/ \E t \in Turns : QueryRefused(t)
  \/ \E t \in Turns, threshold \in {"next", "later"} : BeginDrain(t, threshold)
  \/ \E t \in Turns : EndDrain(t)
  \/ \E t \in Turns, local \in BOOLEAN : QueryEnds(t, local)
  \/ \E t \in Turns : Settle(t)
  \/ \E t \in Turns, followUps \in FollowUps : Return(t, followUps)
  \/ \E t \in Turns : Unwind(t)
  \/ Cancel
  \/ PopQueue
  \/ Timeout
  \/ AbortForUrgent
  \/ \E cmd \in OtherCommands : KillAgents(cmd)

Spec == Init /\ [][Next]_vars

\* The promises a turn awaits settle, the microtask queue is drained, and React
\* runs effects.  A query may read the queue again and again, but not for ever:
\* the guard's hard maximum ends it (WatchdogEndsQuery), hence SF.
Fairness ==
  /\ WF_vars(\E t \in Turns : ProcessQueue(t))
  /\ \A t \in Turns :
       /\ WF_vars(ProcessingIsLocal(t) \/ QueryStarts(t) \/ QueryRefused(t))
       /\ WF_vars(EndDrain(t))
       /\ SF_vars(QueryEnds(t, FALSE))
       /\ WF_vars(Settle(t))
       /\ WF_vars(Return(t, <<>>))
       /\ WF_vars(Unwind(t))

FairSpec == Spec /\ Fairness

-----------------------------------------------------------------------------
TypeOK ==
  /\ status \in {"idle", "dispatching", "running"}
  /\ generation \in 0..MaxGeneration
  /\ pc \in [Turns -> Phases]
  /\ gen \in [Turns -> 0..MaxGeneration]
  /\ aborted \subseteq Turns
  /\ controller \in Turns \cup {NoTurn}
  /\ arrived \subseteq AllIds
  /\ dropped \subseteq arrived

\* The guard is never stuck: whenever it is reserved, a call is on its way to
\* start the query or to cancel the reservation, and whenever it runs, the
\* call that will end it is still there.  No timer covers the reservation.
ActiveHasTurn ==
  /\ status = "dispatching" =>
       \E t \in Turns : pc[t] \in {"processing", "unwinding"}
  /\ status = "running" =>
       \E t \in Turns : pc[t] = "querying" /\ gen[t] = generation

\* No command vanishes, and none is in two places: what arrived is in the
\* queue or in a turn that has yet to query, or it was delivered, or it was
\* given up for a reason the code has.
CommandsAccounted ==
  LET waiting(id) == {i \in DOMAIN queue : queue[i].id = id}
      inTurn(id) == {t \in Turns : pc[t] = "processing" /\ id \in IdsOf(batch[t])}
      places(id) == Cardinality(waiting(id)) + Cardinality(inTurn(id))
  IN  \A id \in arrived :
        /\ places(id) <= 1
        /\ places(id) = 0 => delivered[id] > 0 \/ id \in dropped

\* Nothing was cancelled, timed out or killed so far.
Undisturbed == interrupts = 0

\* As long as nothing was interrupted, two executeUserInput() calls are never
\* in their try block together: "queryGuard guarantees no concurrent
\* executeUserInput call" (handlePromptSubmit.ts:422).  After a cancellation
\* the cancelled call may still process its input while the next one does.
OneExecution ==
  Undisturbed =>
    Cardinality({t \in Turns : pc[t] \in {"processing", "querying"}}) <= 1

\* While a query runs, ESC reaches it, unless it was aborted already: "users
\* can always interrupt" (useCancelRequest.ts:96).
AlwaysInterruptible ==
  \A t \in Turns :
    (status = "running" /\ pc[t] = "querying" /\ gen[t] = generation
       /\ t \notin aborted)
    => controller = t

\* The first interruption reaches the query it is meant for.
FirstInterruptReaches == Undisturbed => AlwaysInterruptible

\* A query that lost the guard to the first interruption was told to stop:
\* forceEnd() is used "where any running query should be terminated"
\* (QueryGuard.ts:188).  The watchdog that fires after a cancelled call has
\* cleared the controller of its successor tells nobody.
LosersAborted ==
  interrupts <= 1 =>
    \A t \in Turns :
      pc[t] = "querying" /\ ~ (status = "running" /\ gen[t] = generation)
      => t \in aborted

\* A command reaches the conversation at most once, although a drain leaves it
\* in the queue while it is attached.  After a cancellation in the middle of a
\* drain the queue processor or the user may take it, too.
DeliveredOnce == Undisturbed => \A id \in AllIds : delivered[id] <= 1

\* What is queued for the main thread is eventually taken out of the queue.
QueueServed ==
  \A id \in AllIds :
    (\E i \in DOMAIN queue : queue[i].id = id /\ IsMainThread(queue[i]))
    ~> (\A i \in DOMAIN queue : queue[i].id # id)
=============================================================================
