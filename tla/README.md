# Formal models of the agent's turn, queue and tool coordination

This directory holds TLA+ models of the part of the program that decides *when*
things run: when a turn may start, how queued commands reach the conversation,
how a turn ends when it is cancelled or stuck, how the loop that answers a prompt
goes on after errors and tools, in which order and overlap the tools of a response
execute, which of several sessions runs the scheduled tasks, and how events are
uploaded. The models are checked with TLC on small instances; the theorems in the
`*Proofs` modules are checked by TLAPS for every value of the constants.

The program is a command-line agent in TypeScript. It runs on one JavaScript
thread: a stretch of code between two `await`s is atomic, and everything
interesting happens because something else ran at an `await`, in a callback of a
timer, or in an effect of React. The models follow that: **an action is one
stretch without an `await`**. Several processes share only files; there, each
file operation is a step.

## 1. Inventory

### Components, their state and operations

| Component | Source (`src/src/...`) | State | Operations | Model |
|---|---|---|---|---|
| Query guard | `utils/QueryGuard.ts` | status, generation, start and activity times, leases, timer | reserve, cancelReservation, tryStart, end, forceEnd, registerActivity, acquireLease, releaseLease, timer callback | `QueryGuard`, abstract: `QuerySession` |
| Activity leases | `services/tools/queryActivityLease.ts` | none | computes the lease of a tool | limits of a lease are inputs of `QueryGuard` |
| Command queue | `utils/messageQueueManager.ts` | the array of commands | enqueue, dequeue, peek, dequeueAllMatching, remove, popAllEditable, clear | `CommandQueueOps`, `CommandQueue` |
| Queue processor | `utils/queueProcessor.ts`, `hooks/useQueueProcessor.ts` | none | takes a batch between turns | `CommandQueueOps`, `TurnLifecycle` |
| Prompt submission | `utils/handlePromptSubmit.ts` | local to a call | start a turn or enqueue; process the input; query; release | `TurnLifecycle` |
| REPL coordination | `screens/REPL.tsx`, `hooks/useCancelRequest.ts` | the current abort controller, messages | onQuery, onCancel, watchdog handler, teammate prompts, effects | `TurnLifecycle` |
| Tool executor | `services/tools/StreamingToolExecutor.ts` | tools, results, progress, error and abort flags | addTool, processQueue, getCompletedResults, getRemainingResults, discard | `ToolExecutor` |
| Query loop | `query.ts`, `query/tokenBudget.ts` | messages, state carried between rounds, budget tracker | stream, fall back, recover, run hooks, run tools, go on or return | `QueryLoop`; its use of the queue is in `TurnLifecycle`, the executor in `ToolExecutor` |
| Scheduler election | `utils/cronTasksLock.ts`, `utils/cronScheduler.ts` | the lock file; per session: owner, stopped, probe timer | acquire, take over, probe, release | `SchedulerLock` |
| Permission requests | `hooks/toolPermission/` | a resolve-once flag, dialogs | dialog, classifier, hooks and bridge race | only the abort of a rejection |
| Tool streams | `utils/stream.ts`, `services/tools/toolExecution.ts` | queue, waiting reader, done, error | enqueue, next, error, done | not modelled |
| Batched orchestration | `services/tools/toolOrchestration.ts`, `utils/generators.ts` | batches, running generators | partition, bounded concurrency | only that every use is answered |
| Scheduled tasks | the rest of `utils/cronScheduler.ts`, `utils/cronTasks.ts` | tasks, next times, tasks in flight | load, fire, remove | not modelled |
| Task list, mailbox, consolidation lock | `utils/tasks.ts`, `utils/teammateMailbox.ts`, `services/autoDream/consolidationLock.ts` | files shared by processes | locked read-modify-write; claim, roll back | not modelled |
| Serial event uploader | `cli/transports/SerialBatchEventUploader.ts` | pending events, waiting callers, drain loop, closed | enqueue, flush, close, drain, retry | `SerialUploader` |
| Event transports, bridge gates | the rest of `cli/transports/`, `bridge/flushGate.ts`, `bridge/capacityWake.ts` | pending batches, waiters | enqueue, drain, retry, back-pressure | not modelled |
| Retries, compaction, goals | `services/api/withRetry.ts`, `services/compact/`, `services/goal/` | counters, thresholds | decide whether to go on | their outcomes are choices of `QueryLoop` |
| Language servers, team memory | `services/lsp/`, `services/teamMemorySync/` | server state, versions | start, crash, restart; push, conflict | not modelled |
| User interface, providers, tools, web, Python and editor parts | the rest | | | not modelled: rendering, parsing and I/O |

### How they interact

A typed command either starts a turn at once (`handlePromptSubmit` with an idle
guard) or is queued. Between turns an effect hands a batch of the queue to the
same path. In a turn the input is processed under a *reservation* of the guard,
then `onQuery` turns it into a *query* with a *generation*. The query loop
streams a response, gives every `tool_use` block to the executor, drains it, and
takes further commands from the queue before the next request. The turn ends
when `end(generation)` succeeds; `forceEnd()` takes the guard from it when the
user cancels or the watchdog fires. Tools hold leases that keep the idle timeout
away, and report failures and rejections through a chain of abort controllers.
Transports hand the messages of a session to a serial uploader, which several of
them instantiate with limits of their own; it is independent of the rest. Sessions
that run in the same project directory elect the one that fires scheduled tasks
through a lock file; a task that fires is a command that arrives in the queue.

The modules meet where the code does. `TurnLifecycle` contains the guard's status
and generation (its clock is `QueryGuard`), the queue of `CommandQueueOps`, and a
query as an interval in which the queue may be drained. `QueryLoop` is what happens
inside that interval, with the tools that `ToolExecutor` shows: a tool it was given
is answered at any time until the drain, and by then in any case (`Answered`,
`DrainedCompletely`).

### What is hard about it

* **Late continuations.** A cancelled turn is not stopped: it goes on at its
  next `await`, and its `finally` still runs, while another turn may be in
  progress. Generations exist for that.
* **Unordered effects.** React may run an effect before or after the promise
  continuations that are due.
* **Non-atomic reads.** A drain copies commands, awaits, then removes them.
* **Overlapping passes.** Several passes of `processQueue()` over the same array
  are suspended at once.
* **Suspended consumers.** A generator of results is held at a `yield` while the
  tools it looks at change.
* **Timers.** Every change of a deadline replaces the pending timer; timers fire
  late, and sometimes early by the clock.
* **Retries.** A batch that failed returns to a queue that went on, or was closed;
  a request that failed may have arrived.
* **Liveness.** Nobody polls: a missed wake-up is a hang.
* **Recoveries that meet.** Each error of a response has a recovery of its own;
  each sets or resets the counters and limits the others look at.
* **Crashes.** A process may die between any two of its file operations, and
  another has to tell what it left from what it is still doing.

The hazards are listed one by one, at their lines, in `PROJECT.json`.

## 2. The modules

| Module | What it is |
|---|---|
| `QuerySession` | what the guard promises: one owner, fresh generations, one report per query |
| `QueryGuard` | the guard with clock, timer and leases |
| `QueryGuardProofs` | its theorems, and that it implements `QuerySession` |
| `CommandQueueOps` | the queue's operations as operators on a sequence; used by the next two |
| `CommandQueueOpsProofs` | lemmas about those operators, for queues of any length |
| `CommandQueue` | the queue as a shared object with concurrent readers |
| `CommandQueueProofs` | its theorems |
| `TurnLifecycle` | turns, guard, queue and controller together |
| `TurnLifecycleProofs` | the guard is never stuck; turns before and after the first interruption; what becomes of each command |
| `QueryLoop` | the loop that answers a prompt: rounds, recoveries, tools, ways out |
| `QueryLoopProofs` | its theorems |
| `ToolExecutor` | the executor with its query loop and the microtasks |
| `ToolExecutorProofs` | its theorems |
| `SerialUploader` | the event uploader with its callers and its drain loop |
| `SerialUploaderProofs` | its theorems |
| `SchedulerLock` | the election of the scheduler among processes that may die |
| `SchedulerLockProofs` | its theorems |
| `MC...` | instances for TLC |

The operators whose comment begins with "A mistake:" are not part of the model.
Each is a variant of the definition below it as a plausible bug would leave it
(a guard dropped, a wrong comparison, a step forgotten). `PROJECT.json` pairs
each with the property that catches it.

### `QueryGuard`

The variables are the fields of the class, under their names; `timer` is the
instant at which the pending `setTimeout` is due. `handles` holds the lease
handles callers may still release, `granted` and `settled` record which
generations were handed out and which ends were reported. Every method is an
action, and every action that takes a generation or a handle takes *any* that was
ever handed out, because callers are asynchronous. `Tick` advances the clock,
at most `TimerLag` past a due timer; a timer may fire `TimerEarly` before
`Date.now()` reaches it, so the callback may find nothing to do and arm again.
`late` remembers whether a due timer of the latest query was run late.

### `CommandQueueOps`, `CommandQueue`

A command is a record; its text is reduced to what the queue tests (does it begin
with `/`, is that to be ignored, is it system-generated). Selection by priority
and arrival, the batch of `processQueueIfReady()`, and the filter of the query
loops are operators on the sequence; `Only` is the pass of a `for` loop that pushes
what a filter lets through to a new array. In `CommandQueue` each slot of `Loops` is a
call of `query()` for the main thread or for a subagent (`Addressee`). It copies commands
(`BeginDrain`) and removes them later (`EndDrain`); producers, the processor, the user and
other loops act in between. `current` holds the loop whose turn has the guard, and the
latest run of each agent; `live` those that may still begin a drain. The processor asks
only whether the guard is idle (`useQueueProcessor.ts:48`), so it also runs while a loop
that was cancelled is in the middle of its drain. `exposed` is a history: the ids of which a
loop held copies when it was cut off from its addressee, by a cancellation, a kill or another
run of the agent, or made copies after that.

Abstractions: a turn is its loop, from the reservation of the guard to its end (how the two
come apart is the subject of `TurnLifecycle`; a reservation that a late `finally` cancels is
a `CancelTurn` that does not abort); the status of an agent's task is left out, so a run may
start beside another at any time, as it does when a foreground agent goes to the background
or two messages resume an agent at once; a drain is abandoned, with nothing read or removed,
only where `AgentTool` closes the generator (`AgentTool.tsx:1013`).

### `TurnLifecycle`

Each slot of `Turns` is a call of `executeUserInput()` or
`handleIncomingPrompt()`; `pc` says at which `await` it is. `controller` is the
turn whose controller the REPL holds, `aborted` the turns whose controller was
aborted. A turn that was cancelled keeps its slot until it has really returned.
`settling`, `returning` and `unwinding` wait only for the microtask queue, so new
tasks (keys, timers, messages) wait until no turn is there; React's effects wait
for it too if `EagerEffects` is `FALSE`. The order of effects and microtasks
depends on what scheduled the render, so `TRUE` allows both; violations are
reported with `FALSE`, where they need no particular order.

Abstractions: an effect sees the current state of guard and queue; `onCancel`
aborts the controller the REPL holds now; the watchdog may fire whenever a query
runs (its deadlines are the subject of `QueryGuard`); a batch has one outcome of
`processUserInput()`; the branch of `handlePromptSubmit` that aborts for shell
commands needs a tool that implements `interruptBehavior`, and none does.

### `ToolExecutor`

`status` and `stage` say where each tool is; `paused` holds the passes of
`processQueue()` suspended after starting a tool (identified by that tool),
`settled` the tools whose `finally()` is due, and `loop`, `at`, `fill` and
`awaited` where the query loop is: streaming, inside `getCompletedResults()` at
tool `at`, awaiting the pass `fill`, or racing for the tools in `awaited`. The
generator is suspended at every message it yields: `EmitProgress` and
`EmitResults` are separate steps between which tools go on.

Abstractions: a message is progress or an answer; a tool reports progress at most
once; `runToolUse()` answers every tool it runs exactly once unless the loop over
its updates is left; the messages of one tool are yielded in one step; a tool may
send messages of its hooks after the answer. The chain of controllers is reduced
to `hasErrored` (which aborts the sibling controller and through it every tool's)
and `parent`. An iteration of the drain that changes nothing is a stuttering
step, so a drain that spins appears as one that never returns.

### `QueryLoop`

`phase` says where the loop is: preparing a request, streaming, after the response
(`settle`), after the stop hooks' run began, running tools, or done. `state` is the
object `State` of the code that is carried from round to round, `round` what the
response brought: its last message, whether that is withheld, the tool uses, the
results, and the uses the executor holds. `messages` keeps the newest uses and
results of what is sent. Every `continue` of the loop is an action that sets `state`
field by field as the code does (`RetriesWithCap`, `EscalatesLimit`,
`ResumesResponse`, `SwitchesProvider`, `HooksBlock`, `ContinuesBudget`, `Nudges`,
`NextTurn`, ...), every `return` one that ends in `done`. `unanswered` is what the
consumer of the generator has seen without a result, so it also tells what a tombstone
retracted. `tracker` is the budget tracker, in units of the threshold below which a
continuation counts as diminishing.

Abstractions: messages are reduced to their kinds, and tool uses are named apart only
within what is alive (`MaxUses`). A limit of 0 is `undefined`. What happens outside is
a choice whose supply is in `config` and `world`: stop hooks that block, spans the
context collapse stages, overloads that ask for the fallback model, providers to fall
back to. Of `transition` only the two values that are tested are told apart.
Reactive compaction is not in this build (`scripts/build.ts`); context collapse and the
token budget are. Micro- and auto-compaction, attachments, the drain of the queue (see
`TurnLifecycle`) and the guard against failing tools do not change what is modelled, or
end the query, which `ToolsEnd` may do after any tools.

### `SchedulerLock`

`lockFile` is the file: whose record it holds (or that it is missing or unwritten) and
which processes have it open to write. Every file operation is an action, in the order
of `tryAcquireSchedulerLock()` and `releaseSchedulerLock()`: the exclusive create and
the write that fills the file are two; the lock is read, judged, and removed by name in
separate steps. `stop()` may come at any of them and `Die` at any at all. `saw` is the
file a process has read and is about to replace, and `raced` records that a process
acted on a file that a live process had yet to write, that was not the one it had read,
or that belongs to another live process of its own session.

Abstractions: the session of a process is fixed (`SessionOf`), although each call of
`tryAcquireSchedulerLock()` and `releaseSchedulerLock()` reads `getSessionId()` anew
(`cronTasksLock.ts:118`, `:186`): an owner whose session changed in the process would not
know its own lock and would leave it; as `stop()` comes when the REPL unmounts or the process
exits, the lock is then soon found stale; a PID is never used again, and all sessions are of one user (a process
of another user counts as not running, whatever the comment at
`genericProcessUtils.ts:16` says of that case); the probe of a process does not overlap itself; a process has one
scheduler and does not start it again after `stop()`; file errors other than "exists"
and "missing" do not occur.

### `SerialUploader`

The variables are the fields of the class and the locals of `drain()`, which is
`"idle"`, `"sending"` a batch or `"sleeping"` after a failure. Between two of its
awaits `drain()` runs without a suspension, so the end of a send or of a sleep, the
`takeBatch()` that follows, and the notifications when the loop ends are one step
(`Loop`). A call of `enqueue()` that finds no space is in `blocked`; when it is
released it waits in `awake` for its microtask and then looks again. Events are
numbered as they are accepted; `sent`, `dropped`, `abandoned` and `reached` record
what became of each, `reached` those that arrived in a request that failed.

Abstractions: an event is serializable or not; the limit on bytes may end a batch
anywhere after its first event; a delay ends some time, sooner if `close()` cuts it
short; `send()` settles, as its callers give their requests a timeout, and whether
the server refused a batch for good (the callers return normally then) is not told
apart from success. The `drain()` that `flush()` calls has no effect: events are
pending only while one runs, or after `close()`.

## 3. What is checked with TLC

| Run | Instance | Shows |
|---|---|---|
| `guard` | idle timeout 2, hard maximum 4, grace 1, leases with and without limits, lag 1, 2 leases, generations up to 5, clock up to 8 | the watchdog is armed for the earliest deadline; leases die with their query; only a late timer outlives the hard maximum; every query is settled once; every query ends; implements `QuerySession` |
| `queue` | up to 3 commands of 5 kinds, two turns, two runs of one subagent | read twice only if a loop was cut off that held a copy; nothing lost, order kept, never stalls, the most urgent goes |
| `turns` | 3 turns, shell and slash command, urgent prompt, notification, teammate, effects in any order, 1 interruption | the guard is never stuck; every command is accounted for |
| `turns_live` | 3 turns, prompt, slash command, notification, teammate, 1 interruption, fair | turns do not overlap, commands are delivered once and ESC reaches the query until something is interrupted; the query that loses the guard was aborted; what is queued is served |
| `turns_uninterruptible` | 3 turns, 1 interruption | **violated**: see below |
| `tools` | 2 tools of three kinds (read-only Bash, one that runs alone, unknown), progress and hooks, both kinds of aborts, fair | exclusive tools execute alone; context modifiers in order; answered, a failed tool only once; drained completely; nobody waits for what cannot come; the drain returns and nothing is stranded if the tools exist |
| `tools_spin` | 2 tools, all kinds, fair | **violated**: see below |
| `tools_rejection` | 2 known tools | **violated**: see below |
| `uploader` | 3 calls of `enqueue()` with 1 to 3 events, some not serializable, batches and queue of 2, 2 failures, limit on bytes, fair | events are accounted for; the server sees a prefix; the queue is bounded; nobody waits for an uploader that is idle; `flush()` is sound; `flush()` and `enqueue()` return |
| `uploader_flush` | 2 calls with 1 event each | **violated**: see below |
| `scheduler_lock` | 3 processes, one of which resumes the session of a dead one that may have left its lock; any lock file to begin with, fair | two owners need a race the code leaves open; a session that waits sees some live session own the scheduler again and again |
| `query_loop` | 6 queries in which different recoveries meet, 2 turns, 1 recovery, 1 nudge, one cap below the escalated limit, 2 tool uses, fair | requests are paired; every tool use is answered; withheld errors surface; no request is repeated unchanged; the query returns |

*Why the bounds are enough.* The guard needs one query that is over, one that
runs and one that follows, a lease of each, and a lifetime longer than the idle
timeout; the clock leaves a whole lifetime to the last query. The queue needs
two commands that are taken or passed over and one that is left, a loop that is cut off in a
drain and the one that follows it, for the main thread and for an agent; kinds that differ
from these only in urgency or in who may edit them are left to the proofs. Three turns are
a cancelled one, its successor and a third that meets what the first leaves
behind. Two tools are enough for one that executes and one that waits, for
cancellation between updates and for the race of the drain; a third, which a pass might
start over the second, is covered by the proofs, which hold for any number. The uploader needs a batch in flight, a
call that fits behind it and one that does not; a failure that is retried and one
that is not; an array that is larger than the queue. The lock needs an owner, one
that takes over and one that interferes with both; a dead process's record and its
session's resumption are the initial files. A query of the loop needs two turns, so that
what one leaves behind meets the next, one recovery that succeeds and one that is
refused, and two uses of which one is answered early; its six queries are chosen so that
recoveries of different kinds meet in one query. All other combinations are covered by the proofs as far as those go.

*Deadlock.* The runs of the queue, the turns, the tools and the uploader end when the
bounded supply of commands, turns, blocks or calls is used up, the loop ends when the
query returned, and the processes of the lock end when they are dead, so deadlock is not
checked there. The guard's run checks it.

*Fairness.* Guard: the clock advances and due timers run; no caller is assumed to
do anything. Turns: continuations and effects run (weak fairness); input
processing ends (an assumption: no timer covers it); a query ends (strong
fairness, because it may read the queue again and again in between: the guard's
hard maximum bounds it, which is `WatchdogEndsQuery` and the abort of the
controller). Executor: microtasks run and the consumer takes what it is given;
a tool answers, and is strongly fair only with respect to states in which the
event loop is `Idle`, that is, in which no microtask is pending. A tool waits for
I/O, and I/O is served only then; assuming more would hide a drain that starves
the event loop. Uploader: microtasks run, sleeps end and sends settle; that some
send succeeds is assumed only where the failures are not limited (`MaxFailures` = 0,
not used in the run). Lock: a live process takes its next step; starting, stopping and
dying are never assumed. Query loop: the loop goes on, and a stream ends, since the
API layer's idle timer cuts one that hangs. Blocks by stop hooks and overloads are
bounded by the instance alone: nothing in `query.ts` bounds them, so `QueryReturns`
says that the loop returns unless hooks or the API keep it for ever.

### Disagreements between code and comments

1. `turns_uninterruptible`. "users can always interrupt Claude"
   (`useCancelRequest.ts:96`). A turn cancelled while its input is processed ends
   later, without messages, with an unconditional `setAbortController(null)`
   (`handlePromptSubmit.ts:591`), which clears the controller of its successor.
   ESC and Ctrl+C then do not reach the successor's query.
2. `tools_spin`. An unknown tool behind one that runs alone is `completed`, but
   `getCompletedResults()` stops before it; `getRemainingResults()` takes it that
   something is ready, never awaits, and goes round on microtasks, which keeps the
   event loop from the tool it should wait for.
3. `tools_rejection`. "that abort must bubble up to the query controller"
   (`StreamingToolExecutor.ts:297`). After a Bash sibling failed the tool's
   controller is aborted already, and a rejected permission request no longer
   ends the turn.
4. `uploader_flush`. `close()` is to "Drop pending events and stop processing" and to
   release the callers of `flush()` (`SerialBatchEventUploader.ts:136`). A send that
   fails afterwards puts its batch back into the queue; `drain()` stops with the queue
   not empty, and a `flush()` called after `close()` never returns.
   `HybridTransport.write()` calls it whether the uploader is closed or not.

Also seen while modelling, and recorded as hazards: after a cancellation two
`executeUserInput()` calls may be in flight, a command copied by the cancelled
drain may be delivered twice (by the processor, or by the next turn's drain; `ReadOnce`
allows just this, and TLC shows it if the exception is dropped), and, after a second interruption, a query may lose
the guard without being aborted; results are not emitted in the order received; a
batch is in order of arrival, not of priority; a call of `enqueue()` that waits is
overtaken by later, smaller ones.

In the scheduler's lock: two sessions may both own it after a takeover ("only one create
succeeds", `cronTasksLock.ts:109`), because the second of two that read the same stale lock
removes, by name, the file the first has created meanwhile; and a reader that comes
between the create and the write takes the empty file for corrupt. `OwnersNeedRace`
excepts exactly these (without its last disjunct TLC shows them).

In the query loop, none of them against a property that is checked:

* A rate limit that has no fallback, or a prompt that is too long for spans that are not
  staged, is not withheld, but yielded while streaming (`query.ts:1064`) and again
  after it (`:1425`, `:1636`).
* A `tool_use` that streams in after the abort gets no result (`:1080`), against the
  comment at `:1249`; this is what `late` excepts.
* The escalation of the output limit "fires once per turn" (`:1484`); the recovery that
  follows resets the override it is guarded by, so it fires again.
* After a model error or a fallback every tool use is answered with the error, also those
  the executor has answered already.
* A withheld `max_output_tokens` error of a response with tool uses is never shown.
* The loop around the fallback model has no bound of its own.

## 4. What is proved

All theorems hold for every value of the constants that satisfies the named
assumptions of the modules (durations and bounds are naturals, timeouts are
positive, a turn is not the value `"none"`, kinds and commands are records of the
fields the code tests). `MaxInterrupts <= MaxGeneration` is about the model's own bounds:
a query starts only if the generations suffice for the interruptions that may come.

| Theorem | Property |
|---|---|
| `QueryGuardProofs!TypeCorrect` | `TypeOK` (no run) |
| `LeasesNeverStale` | `LeasesBelongToQuery` |
| `WatchdogAlwaysArmed` | `WatchdogArmed` |
| `HardMaxAlwaysWins` | `HardMaxRespected` |
| `EveryQuerySettled` | `SettledOnce` |
| `GuardImplementsSession` | `SessionSpec` |
| `CommandQueueProofs!NoCommandReadTwice` | `ReadOnce` |
| `NoCommandLost` | `NothingLost` |
| `OrderKept` | `ArrivalOrderKept` |
| `ProcessorNeverStalls` | `NeverStalls` |
| `UrgentFirst` | `MostUrgentGoes` |
| `CommandQueueProofs!TypeCorrect` | `TypeOK` (no run) |
| `TurnLifecycleProofs!GuardNeverStuck` | `ActiveHasTurn` |
| `TurnsDoNotOverlap` | `OneExecution`, if `EagerEffects` is `FALSE` |
| `FirstInterruptFindsQuery` | `FirstInterruptReaches`, if `EagerEffects` is `FALSE` |
| `FirstLosersAborted` | `LosersAborted`, if `EagerEffects` is `FALSE` |
| `NoCommandVanishes` | `CommandsAccounted` |
| `DeliveredAtMostOnce` | `DeliveredOnce`, if `EagerEffects` is `FALSE` |
| `TurnLifecycleProofs!TypeCorrect` | `TypeOK` (no run) |
| `ToolExecutorProofs!ToolsExclusive` | `Exclusive` |
| `ToolsStartInOrder` | `StartedInOrder` (no run) |
| `ContextModifiedInOrder` | `ContextInOrder` |
| `ToolsAnswered` | `Answered` |
| `FailuresAnsweredOnce` | `FailedAnsweredOnce` |
| `NothingLeftBehind` | `DrainedCompletely` |
| `NobodyIsForgotten` | `NobodyForgotten` |
| `ToolExecutorProofs!TypeCorrect` | `TypeOK` (no run) |
| `SerialUploaderProofs!EventsAccounted` | `Accounted` |
| `ServerPrefix` | `ServerSeesPrefix` |
| `QueueBound` | `QueueBounded` |
| `CallersNeverStuck` | `CallersNotStuck` |
| `FlushSound` | `FlushMeansSent` |
| `SerialUploaderProofs!TypeCorrect` | `TypeOK` (no run) |
| `SchedulerLockProofs!OneOwner` | `OwnersNeedRace` |
| `HeldLockIsOwned` | `HeldIsOwned` (no run) |
| `LockTypeCorrect` | `LockTypeOK` (no run) |
| `QueryLoopProofs!RequestsArePaired` | `RequestsPaired` |
| `TranscriptIsAnswered` | `TranscriptAnswered` |
| `WithheldIsYielded` | `WithheldSurfaces` |
| `RecoveriesChangeRequests` | `NeverResentUnchanged` |
| `RoundsUseUp` | `RanksFall` (no run) |
| `RanksEnd` | the order of the ranks is well founded |
| `LoopTypeCorrect` | `TypeOK` (no run) |

"No run" marks properties that are proved and need no instance; where a run checks a
module whose types are proved, its invariants are the others.

*Guard.* Lemmas give the minimum of a set of deadlines and bound `LeaseDeadline`
and `ArmedTimer`. `TypeInv` adds to the types that the running generation was
granted. Lease ownership is inductive on top of it; the watchdog invariant needs
both, since a timer stays right only because every operation that changes the
deadlines arms it again; the hard maximum follows from the watchdog invariant: the
clock passes a deadline only at a due timer, which makes it `late`. For the
refinement every step of the guard is a step of the session or a stutter; that
the timer callback settles a query which is not settled yet uses `SettledOnce`.

*Queue.* What a pass of a filter returns is a fact about every length of the array. It is
proved without induction over an operator: the lengths at which the pass is not defined as
the loop says form a set of naturals, and a least one among them leads to a contradiction
(`LeastNatural`, from the library's `WFMin`). So `OnlyIsPass`, and from it `OnlyPicks`: the
result lists, in order, the positions of the array that pass. `Picks` names that relation;
it is kept by every removal, and carries the distinctness and the order of the ids
(`PicksPreserve`). `TakenAndLeft` says that the batch and what stays behind share out the
queue, and that the batch holds the command `peek()` showed.
Of `CommandQueue` three properties are proved as one inductive invariant. A command is read
twice only if it is exposed: a copy is unread or exposed (`CopiesUnread`), a reader has one
current loop (`OneCurrent`), and what all other loops hold is exposed (`OthersExposed`). So
when two loops hold copies of one command, which are then for the same reader, one of them
has exposed it; and the processor runs only while the main thread has no current loop, so
every copy of what it takes is exposed. This needs that an id names one command in the
queue and in all copies (`IdsName`), since removal is by identity and `taken` counts ids.
`NeverStalls` and `MostUrgentGoes` follow from the order of the ids and from `TakenAndLeft`.

*Turns.* `ActiveHasTurn` is inductive relative to `Shape`, which says where the
guard and the turns can be at all. A turn that leaves "processing" ends the
reservation, by starting its query or by cancelling, whosever reservation it was;
so a reserved guard always has a turn behind it, in "processing" or unwinding. A
running guard has a turn that queries with the guard's own generation, and only
that turn's `end()` or a `forceEnd()` takes it away: the first makes the guard idle,
the second makes it idle and increments the generation.

The theorems about turns that nothing interrupted assume that React's effects wait for
the continuations that are due; with eager effects a queue effect may start a turn whose
reservation the previous turn's `finally` then cancels. `Calm` says that, while nothing
was interrupted, at most one slot is in use, that the guard's status is determined by what
the turn in it does, and that the REPL holds its controller. `OneExecution` and
`FirstInterruptReaches` follow. The first interruption then finds the owner's controller
and aborts it; afterwards `Distinct` (generations tell the queries apart) keeps
`LosersAborted`, because a guard that is given to a new query was free, so those that
query without it had lost it before.

`CommandsAccounted` follows from `Places`: the commands of the queue have distinct ids, so
have those of a batch that is being processed, queue and batches are disjoint, and what is
in none of them is delivered or dropped. Each action moves the ids of a set of commands from
one place to the next (`Onward`) or out of all of them (`Gone`); no assumption about effects
or interruptions is needed, since a turn that was cancelled still processes what it took.
`DeliveredOnce` also has to tell what is *about* to be delivered: `Deliveries` adds that
the ids of the queue and of batches in process were not delivered, and that a query's copies
are still in the queue. The last holds only while `Calm` does: after an interruption another
turn may take from the queue what the cancelled query copied, and both deliver it.
`TypeCorrect` needs `Bounds`: a query that starts leaves generations for the interruptions
to come, and an interruption uses up at most one of them.

*Executor.* `Exclusive` and `StartedInOrder` are the outer parts of `Schedule`, which
adds the shape of the array and what a suspended pass has passed: nothing before
its position is queued unless it may stay behind, which is what lets passes overtake
each other. Its key lemma, `NothingSkipped`, says that a pass that starts a tool
leaves no queued tool behind it. `Answered` counts the answers each stage implies;
`FailedAnsweredOnce` follows since a pass answers only tools that have not begun.
`ContextInOrder` adds that every modifier applied belongs to a finished tool that
was received before any tool executing alone. `TypeCorrect` adds the types of the
control state (the passes and the drain). `NothingLeftBehind` adds `YieldedOnce` (the
sequence of what was yielded has each yielded tool once; a tool that has not begun or was
yielded has no progress to show) and `DrainOver`; that as many results were yielded as there
are tools follows since the sequence is a bijection (`FS_CountingElements`).
`NobodyForgotten` is the safe part of `NeverStranded` and `DrainOfKnownReturns`: nobody polls,
so whoever waits needs an event that is still to come. It rests on `Attended`: while a tool is
queued another one executes or the end of one has yet to begin a pass. A pass over the whole
array starts something if nothing executes, since the first queued tool (`FirstQueued`, the
least of a set of naturals) may then execute whatever it is; and a tool that ends leaves a
pass due. A suspended pass is not enough, as it may have gone by the tool that waits.

*Uploader.* `TakeBatch` says what `takeBatch()` does to a queue: it takes events from
the front, keeps the order of both parts, and removes only what cannot be
serialized, which it checks only if the size of a batch in bytes is limited (`BytesLimited`). `LoopKeeps` and `PushKeeps` carry `Places` (every event is in the batch,
in the queue, sent, given up or abandoned, and the batch precedes the queue) through
a stretch of `drain()` and a call that pushes. The inductive invariant adds that
what was abandoned came after the batch, which keeps the batch the next thing the
server has to see when it is requeued after `close()`, and that an idle `drain()` has
left nothing behind. `ServerPrefix`, `QueueBound` and `FlushSound` are inductive
relative to it. `CallersNeverStuck` needs that a sleeping `drain()` has something
it can send, since a drain that ends without a send releases no caller of `enqueue()`; the
callers of `flush()` are woken by every end of a `drain()` that leaves the queue empty, and
while the uploader is open no other end exists.

*Scheduler lock.* `OwnersNeedRace` is not inductive. As long as nothing raced: who writes the
lock has the file open that is there, and nobody else alive does (`WritersAgree`); the lock
names the process that takes itself for its owner (`HoldersNamed`); and the file somebody is
about to replace belongs to no live process (`ReplacedStale`). So two owners would both be
named by one file. The three need each other: a takeover keeps `HoldersNamed` because of
`ReplacedStale`, which a writer keeps because of `WritersAgree`.
`HeldIsOwned` is inductive by itself, races or not: a lock that names a live process was
written by it, on its way to owning the scheduler, and it removes the lock before it stops
being the owner. So the others stay passive only on behalf of a live session that schedules
or is about to let go, which is the safe part of `SchedulerServed`.

*Query loop.* `LoopIInv` has one part per property. `Answers`: a use of the current response
has a result, is with the executor, or is among the unanswered, and what is unanswered is a
use of the response or late; the pairing of the next request is what `NextTurn` makes of it.
`Withholds`: a response that ends in a withheld error, and has no tool uses, ends in one
that is yielded if no recovery takes it; the gate and the recoveries read the same state.
`Resends`: what was sent is what the state asks for, so a request that repeats the messages of
its predecessor has another limit or provider: a cap lowers the effective limit, the
escalation sets it where there was none, and a switch leaves a shorter chain.
`RanksFall` is the safe part of `QueryReturns`. Nearly every recovery resets the counter, limit
or flag that bounds another one, so no bound holds alone. `Rank` lists, most important first,
what a query has left: what happens around it and the token budget; turns; nudges and
continuations; attempts to resume; the limit on the output; its escalation. Each of the nine
`continue`s lowers one place and resets only later ones (`RankStep`); the caps fall because a
cap is tried only if it lowers the effective limit. `RanksEnd` proves the order well founded
without induction: from any set of ranks keep those that are least in the first place, of these
the least in the second, and so on. What remains for TLC is that a round itself ends, which is
the fairness of the stream. Blocks by hooks and overloads are a supply of any size.

*Model-checked only.* Liveness under fairness (`WatchdogEndsQuery`,
`QueueServed`, `DrainOfKnownReturns`, `NeverStranded`, `FlushReturns`,
`EnqueueReturns`, `SchedulerServed`, `QueryReturns`): the provers do not treat `ENABLED`.
All other properties of the passing runs are proved.

## 5. Not modelled, and what would come next

* *Firing of scheduled tasks.* A composition of the lock with `check()` of
  `cronScheduler.ts` was tried; its liveness takes TLC longer than is useful beside the
  code. One thing seen there: a one-shot task leaves `inFlight` when its removal from
  the file ends (`cronScheduler.ts:333`), which may be before the file's watcher reloads
  the tasks, so it may fire twice.
* *Tool streams.* `ToolExecutor` takes it that `runToolUse()` answers. An error of a stream
  that is followed by `done()` while nobody reads is swallowed by `Stream.next()`
  (`stream.ts:26`); whether it can come to that depends on microtasks of several
  nested generators, finer than the steps modelled here.
* *Batched orchestration*, of which `QueryLoop` uses that all uses are answered. It could
  share the exclusiveness of `ToolExecutor` as a common abstract specification.
* *Other files shared by processes*: the task list and the mailbox use a lock of an external
  package; the consolidation lock has the scheduler's races and a roll-back.
* *Transports* above the uploader (the buffer of stream events, the race of the last flush
  with the grace period), the flush gate, the worker-state uploader.
* *The permission race* (`resolveOnce` between dialog, hooks, classifier and bridge).
* *Retries, compaction thresholds, goals, hook chains, language servers, team memory, file
  history, background tasks, the provider router*: counters and clocks with little
  interaction, or processes and services outside the repository.
* *User interface, parsers, providers, tools, editor and web parts*: rendering, parsing and
  input or output; most of the repository's lines are there.

## 6. How to run

    tlc -workers 2 -config MCQueryGuard.cfg MCQueryGuard
    tlapm QueryGuardProofs.tla

Each `.cfg` belongs to the `MC` module whose name it begins with.
