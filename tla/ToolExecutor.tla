---------------------------- MODULE ToolExecutor ----------------------------
(***************************************************************************)
(* services/tools/StreamingToolExecutor.ts: the tools of one response of   *)
(* the model, started while the response still streams in.                 *)
(*                                                                         *)
(* Three kinds of asynchronous activity share the array of tools:          *)
(*   - the passes of processQueue(): one is begun by every addTool(), by   *)
(*     the end of every tool and by every round of getRemainingResults(),  *)
(*     and each is suspended for a microtask after every tool it starts;   *)
(*   - collectResults() of every tool that is executing;                   *)
(*   - the query loop (query.ts), which adds the tools, polls              *)
(*     getCompletedResults() during the stream and drains                  *)
(*     getRemainingResults() after it.  Both are generators: the loop is   *)
(*     suspended at every message it yields.                               *)
(*                                                                         *)
(* Messages are abstracted to what they are: progress, or an answer (a     *)
(* tool_result block).  No tool of this repository implements              *)
(* interruptBehavior, so every tool has the default, "block".              *)
(***************************************************************************)
EXTENDS Naturals, Sequences

CONSTANTS
  Kinds,      \* the tool_use blocks the model may send
  MaxTools,   \* bound on the blocks of one response
  Extras,     \* what tools send besides their answer: "progress" before it,
              \* messages of their "hooks" after it
  Aborts      \* the reasons the turn may be aborted for

Tools == 1..MaxTools

ASSUME KindsAssumption ==
  Kinds \subseteq [known : BOOLEAN, safe : BOOLEAN, bash : BOOLEAN, modifies : BOOLEAN]
ASSUME BoundAssumption == MaxTools \in Nat
ASSUME ExtrasAssumption == Extras \subseteq {"progress", "hooks"}
ASSUME AbortsAssumption == Aborts \subseteq {"user", "interrupt"}

VARIABLES
  block,       \* the tool_use blocks received, in the order of this.tools
  status,      \* tool.status; "absent" before addTool
  stage,       \* where collectResults() of the tool is
  answers,     \* the tool_result blocks in tool.results
  progress,    \* tool.pendingProgress; bound: a tool reports progress once
  hasErrored,  \* this.hasErrored; siblingAbortController aborts with it
  discarded,   \* this.discarded
  parent,      \* the abort of toolUseContext.abortController, or "none"
  paused,      \* the passes of processQueue suspended after starting this tool
  settled,     \* the tools whose promise settled and whose finally() is due
  loop,        \* where the query loop is
  at,          \* the tool getCompletedResults() looks at next
  fill,        \* the suspended pass getRemainingResults() awaits, or 0
  awaited,     \* the tools in its Promise.race
  context,     \* the tools whose context modifiers were applied, in order
  emitted      \* history: the tools whose results were yielded, in order

toolVars == <<stage, answers, progress>>
abortVars == <<hasErrored, discarded, parent>>
loopVars == <<loop, at, fill, awaited>>
vars == <<block, status, toolVars, abortVars, paused, settled, loopVars,
          context, emitted>>

Statuses == {"absent", "queued", "executing", "completed", "yielded"}
Stages == {"idle", "running", "rejected", "answered", "errored", "closing"}
Progress == {"none", "pending", "shown"}
Finished == {"completed", "yielded"}

Init ==
  /\ block = <<>>
  /\ status = [t \in Tools |-> "absent"]
  /\ stage = [t \in Tools |-> "idle"]
  /\ answers = [t \in Tools |-> 0]
  /\ progress = [t \in Tools |-> "none"]
  /\ hasErrored = FALSE /\ discarded = FALSE /\ parent = "none"
  /\ paused = {} /\ settled = {}
  /\ loop = "streaming" /\ at = 1 /\ fill = 0 /\ awaited = {}
  /\ context = <<>> /\ emitted = <<>>

-----------------------------------------------------------------------------
(* The scheduling of tools.  blk and st are the blocks and statuses a pass *)
(* of processQueue finds.                                                  *)

\* tool.isConcurrencySafe: a tool that does not exist counts as safe.
SafeIn(blk, t) == blk[t].known => blk[t].safe

Executing(st) == {t \in Tools : st[t] = "executing"}

\* A mistake: a tool that is safe executes beside one that is not.
CanExecuteIfSafe(blk, st, t) == Executing(st) = {} \/ SafeIn(blk, t)

CanExecute(blk, st, t) ==
  \/ Executing(st) = {}
  \/ SafeIn(blk, t) /\ \A u \in Executing(st) : SafeIn(blk, u)

\* getAbortReason(tool) # null.  An "interrupt" cancels no tool that blocks.
Cancelled == discarded \/ hasErrored \/ parent = "user"

\* A pass that goes on at tool "from" skips queued tools that must wait, stops
\* at one that is not concurrency-safe, and starts the first that may execute.
Starts(from, blk, st, t) ==
  /\ t \in from..Len(blk)
  /\ st[t] = "queued"
  /\ CanExecute(blk, st, t)
  /\ \A u \in Tools : from <= u /\ u < t /\ st[u] = "queued" =>
       ~ CanExecute(blk, st, u) /\ SafeIn(blk, u)

\* A mistake: a tool that is cancelled before it runs is not answered.
ExecuteUnanswered(blk, st, t, due) ==
  IF Cancelled
  THEN /\ status' = [st EXCEPT ![t] = "completed"]
       /\ settled' = due \cup {t}
       /\ UNCHANGED <<stage, answers>>
  ELSE /\ status' = [st EXCEPT ![t] = "executing"]
       /\ stage' = [stage EXCEPT ![t] = "running"]
       /\ settled' = due
       /\ UNCHANGED answers

\* executeTool(): a tool that is cancelled before it runs is answered at once.
Execute(blk, st, t, due) ==
  IF Cancelled
  THEN /\ status' = [st EXCEPT ![t] = "completed"]
       /\ answers' = [answers EXCEPT ![t] = 1]
       /\ settled' = due \cup {t}
       /\ UNCHANGED stage
  ELSE /\ status' = [st EXCEPT ![t] = "executing"]
       /\ stage' = [stage EXCEPT ![t] = "running"]
       /\ settled' = due
       /\ UNCHANGED answers

\* What getRemainingResults() does when the pass it awaits starts a tool, and
\* when it ends; other passes leave it alone.
FillGoesOn(mine, t) ==
  IF mine THEN loop' = "filling" /\ fill' = t /\ UNCHANGED at
          ELSE UNCHANGED <<loop, fill, at>>
FillEnds(mine) ==
  IF mine THEN loop' = "draining" /\ fill' = 0 /\ at' = 1
          ELSE UNCHANGED <<loop, fill, at>>

\* One stretch of processQueue() without a suspension.  others and due are the
\* passes and the finally() callbacks that remain pending.
ProcessQueue(from, blk, st, others, due, mine) ==
  \/ \E t \in Tools :
       /\ Starts(from, blk, st, t)
       /\ Execute(blk, st, t, due)
       /\ paused' = others \cup {t}
       /\ FillGoesOn(mine, t)
  \/ /\ ~ \E t \in Tools : Starts(from, blk, st, t)
     /\ status' = st /\ paused' = others /\ settled' = due
     /\ FillEnds(mine)
     /\ UNCHANGED <<stage, answers>>

-----------------------------------------------------------------------------
(* The query loop.                                                         *)

\* addTool() while the response streams in and the turn is not aborted.
AddTool(kind) ==
  LET t   == Len(block) + 1
      blk == Append(block, kind)
  IN  /\ loop = "streaming" /\ parent = "none" /\ Len(block) < MaxTools
      /\ block' = blk
      /\ \/ /\ ~ kind.known
            /\ status' = [status EXCEPT ![t] = "completed"]
            /\ answers' = [answers EXCEPT ![t] = 1]
            /\ UNCHANGED <<stage, paused, settled, loop, fill, at>>
         \/ /\ kind.known
            /\ ProcessQueue(1, blk, [status EXCEPT ![t] = "queued"], paused,
                            settled, FALSE)
      /\ UNCHANGED <<progress, abortVars, awaited, context, emitted>>

\* getCompletedResults() after a streamed message.
Poll ==
  /\ loop = "streaming" /\ parent = "none"
  /\ loop' = "polling" /\ at' = 1
  /\ UNCHANGED <<block, status, toolVars, abortVars, paused, settled, fill,
                 awaited, context, emitted>>

\* A fallback to another request abandons this executor.
Discard ==
  /\ loop = "streaming"
  /\ discarded' = TRUE /\ loop' = "returned"
  /\ UNCHANGED <<block, status, toolVars, hasErrored, parent, paused, settled,
                 at, fill, awaited, context, emitted>>

\* A mistake: the drain ends when no tool executes.
HasExecuting == Executing(status) # {}

HasUnfinished == \E t \in 1..Len(block) : status[t] # "yielded"

\* The head of the loop of getRemainingResults().
Round ==
  \/ /\ HasUnfinished
     /\ ProcessQueue(1, block, status, paused, settled, TRUE)
  \/ /\ ~ HasUnfinished
     /\ loop' = "returned" /\ at' = 1
     /\ UNCHANGED <<status, stage, answers, paused, settled, fill>>

\* The response ended, or the turn was aborted: the loop drains what remains.
EndStream ==
  /\ loop = "streaming"
  /\ Round
  /\ UNCHANGED <<block, progress, abortVars, awaited, context, emitted>>

\* What getCompletedResults() stops at: it passes over the rest.
Stop(t) ==
  \/ progress[t] = "pending"
  \/ status[t] = "completed"
  \/ status[t] = "executing" /\ ~ SafeIn(block, t)

FirstStop(t) ==
  /\ loop \in {"polling", "draining"}
  /\ t \in at..Len(block) /\ Stop(t)
  /\ \A u \in Tools : at <= u /\ u < t => ~ Stop(u)

\* It yields the progress of a tool...
EmitProgress(t) ==
  /\ FirstStop(t) /\ progress[t] = "pending"
  /\ progress' = [progress EXCEPT ![t] = "shown"]
  /\ at' = t
  /\ UNCHANGED <<block, status, stage, answers, abortVars, paused, settled,
                 loop, fill, awaited, context, emitted>>

\* ...or the results of a tool that completed...
EmitResults(t) ==
  /\ FirstStop(t) /\ progress[t] # "pending" /\ status[t] = "completed"
  /\ status' = [status EXCEPT ![t] = "yielded"]
  /\ emitted' = Append(emitted, t)
  /\ at' = t + 1
  /\ UNCHANGED <<block, toolVars, abortVars, paused, settled, loop, fill,
                 awaited, context>>

\* ...or ends, at the last tool or at one that executes alone.
NothingToEmit ==
  ~ \E t \in Tools :
      FirstStop(t) /\ (progress[t] = "pending" \/ status[t] = "completed")

EndPoll ==
  /\ loop = "polling" /\ NothingToEmit
  /\ loop' = "streaming" /\ at' = 1
  /\ UNCHANGED <<block, status, toolVars, abortVars, paused, settled, fill,
                 awaited, context, emitted>>

\* A mistake: the loop waits even if nothing executes.
MustWaitAnyway == \A t \in Tools : status[t] # "completed" /\ progress[t] # "pending"

MustWait ==
  /\ Executing(status) # {}
  /\ \A t \in Tools : status[t] # "completed" /\ progress[t] # "pending"

\* At the end of a round the loop waits for an executing tool, if it must...
EndRound ==
  /\ loop = "draining" /\ NothingToEmit
  /\ \/ /\ MustWait
        /\ loop' = "racing" /\ awaited' = Executing(status) /\ at' = 1
        /\ UNCHANGED <<status, stage, answers, paused, settled, fill>>
     \/ /\ ~ MustWait
        /\ Round
        /\ UNCHANGED awaited
  /\ UNCHANGED <<block, progress, abortVars, context, emitted>>

RaceWon ==
  \/ \E t \in awaited : status[t] # "executing"
  \/ \E t \in Tools : progress[t] = "pending"

\* ...until one of them ends or reports progress.
Wake ==
  /\ loop = "racing" /\ RaceWon
  /\ awaited' = {}
  /\ Round
  /\ UNCHANGED <<block, progress, abortVars, context, emitted>>

-----------------------------------------------------------------------------
(* Microtasks: passes of processQueue() that go on, or are begun by the    *)
(* finally() of a tool.                                                    *)

Resume(t) ==
  /\ t \in paused
  /\ ProcessQueue(t + 1, block, status, paused \ {t}, settled, fill = t)
  /\ UNCHANGED <<block, progress, abortVars, awaited, context, emitted>>

ProcessAgain(t) ==
  /\ t \in settled
  /\ ProcessQueue(1, block, status, paused, settled \ {t}, FALSE)
  /\ UNCHANGED <<block, progress, abortVars, awaited, context, emitted>>

-----------------------------------------------------------------------------
(* A tool that executes: the updates of runToolUse(), each checked for a   *)
(* cancellation before it is used.                                         *)

Running(t, where) == status[t] = "executing" /\ stage[t] \in where

toolRest == <<block, status, paused, settled, loopVars, context, emitted>>

\* A mistake: the tool that failed is answered again.
UpdatesEvenIfErrored == {"running", "rejected"} \cup
  IF "hooks" \in Extras THEN {"answered", "errored"} ELSE {}

\* Where the next update of a tool may find it cancelled: its own failure is
\* not a reason to give it up.
UpdatesIn == {"running", "rejected"} \cup
  IF "hooks" \in Extras THEN {"answered"} ELSE {}

\* The tool is answered in its place.
GiveUp(t) ==
  /\ Running(t, UpdatesIn)
  /\ Cancelled
  /\ answers' = [answers EXCEPT ![t] = @ + 1]
  /\ stage' = [stage EXCEPT ![t] = "closing"]
  /\ UNCHANGED <<toolRest, progress, abortVars>>

Report(t) ==
  /\ "progress" \in Extras /\ progress[t] = "none"
  /\ Running(t, {"running"}) /\ ~ Cancelled
  /\ progress' = [progress EXCEPT ![t] = "pending"]
  /\ UNCHANGED <<toolRest, stage, answers, abortVars>>

Succeed(t) ==
  /\ Running(t, {"running"}) /\ ~ Cancelled
  /\ answers' = [answers EXCEPT ![t] = @ + 1]
  /\ stage' = [stage EXCEPT ![t] = "answered"]
  /\ UNCHANGED <<toolRest, progress, abortVars>>

\* Only the failure of a Bash tool cancels its siblings.
Fail(t) ==
  /\ Running(t, {"running", "rejected"}) /\ ~ Cancelled
  /\ answers' = [answers EXCEPT ![t] = @ + 1]
  /\ stage' = [stage EXCEPT ![t] = "errored"]
  /\ hasErrored' = (hasErrored \/ block[t].bash)
  /\ UNCHANGED <<toolRest, progress, discarded, parent>>

\* A mistake: modifiers of tools that run concurrently are applied, too.
ContextAfterAny(t) ==
  IF block[t].modifies /\ (stage[t] = "answered" \/ answers[t] = 2)
  THEN Append(context, t) ELSE context

\* The context modifiers that came with an answer are applied if the tool ran
\* alone.
ContextAfter(t) ==
  IF /\ ~ SafeIn(block, t) /\ block[t].modifies
     /\ stage[t] = "answered" \/ answers[t] = 2
  THEN Append(context, t) ELSE context

\* A mistake: the end of a tool begins no pass of processQueue().
CompleteSilently(t) ==
  /\ Running(t, {"answered", "errored", "closing"})
  /\ status' = [status EXCEPT ![t] = "completed"]
  /\ context' = ContextAfter(t)
  /\ UNCHANGED <<block, toolVars, abortVars, paused, settled, loopVars, emitted>>

\* The updates ended, or the loop over them was left.
Complete(t) ==
  /\ Running(t, {"answered", "errored", "closing"})
  /\ status' = [status EXCEPT ![t] = "completed"]
  /\ settled' = settled \cup {t}
  /\ context' = ContextAfter(t)
  /\ UNCHANGED <<block, toolVars, abortVars, paused, loopVars, emitted>>

\* A rejected permission request aborts the controller of the tool, which has
\* no effect if it is aborted already; the abort bubbles up to the turn.
Reject(t) ==
  /\ Running(t, {"running"})
  /\ stage' = [stage EXCEPT ![t] = "rejected"]
  /\ parent' = IF parent = "none" /\ ~ hasErrored /\ ~ discarded
               THEN "user" ELSE parent
  /\ UNCHANGED <<toolRest, answers, progress, hasErrored, discarded>>

\* The turn is aborted by the user ("user") or, with reason "interrupt", by a
\* command of priority 'now'.
Abort(reason) ==
  /\ parent = "none"
  /\ parent' = reason
  /\ UNCHANGED <<toolRest, toolVars, hasErrored, discarded>>

-----------------------------------------------------------------------------
QueryLoop ==
  \/ \E kind \in Kinds : AddTool(kind)
  \/ Poll
  \/ Discard
  \/ EndStream
  \/ \E t \in Tools : EmitProgress(t) \/ EmitResults(t)
  \/ EndPoll
  \/ EndRound
  \/ Wake

ToolSteps ==
  \E t \in Tools :
    GiveUp(t) \/ Report(t) \/ Succeed(t) \/ Fail(t) \/ Complete(t) \/ Reject(t)

Next ==
  \/ QueryLoop
  \/ \E t \in Tools : Resume(t) \/ ProcessAgain(t)
  \/ ToolSteps
  \/ \E reason \in Aborts : Abort(reason)

Spec == Init /\ [][Next]_vars

\* No microtask is pending: only then does the event loop turn to the timers,
\* processes and sockets the tools wait for.
Idle ==
  /\ paused = {} /\ settled = {}
  /\ loop \in {"streaming", "racing", "returned"}
  /\ loop = "racing" => ~ RaceWon

\* Microtasks run, the end of an answered tool among them; the consumer of the
\* query loop takes what it is given; and a tool answers if the event loop is
\* free again and again.
Fairness ==
  /\ WF_vars(\E t \in Tools : Resume(t))
  /\ WF_vars(\E t \in Tools : ProcessAgain(t))
  /\ WF_vars(\E t \in Tools : EmitProgress(t) \/ EmitResults(t))
  /\ WF_vars(EndPoll) /\ WF_vars(EndRound) /\ WF_vars(Wake)
  /\ \A t \in Tools :
       /\ WF_vars(Complete(t))
       /\ SF_vars(Idle /\ (GiveUp(t) \/ Succeed(t) \/ Fail(t)))

FairSpec == Spec /\ Fairness

-----------------------------------------------------------------------------
TypeOK ==
  /\ block \in Seq(Kinds) /\ Len(block) <= MaxTools
  /\ status \in [Tools -> Statuses]
  /\ \A t \in Tools : status[t] = "absent" <=> t > Len(block)
  /\ stage \in [Tools -> Stages]
  /\ answers \in [Tools -> 0..2]
  /\ progress \in [Tools -> Progress]
  /\ hasErrored \in BOOLEAN /\ discarded \in BOOLEAN
  /\ parent \in {"none", "user", "interrupt"}
  /\ paused \subseteq Tools /\ settled \subseteq Tools /\ awaited \subseteq Tools
  /\ loop \in {"streaming", "polling", "filling", "draining", "racing", "returned"}
  /\ at \in 1..(MaxTools + 1) /\ fill \in 0..MaxTools
  /\ context \in Seq(Tools) /\ emitted \in Seq(Tools)

\* A tool that is not concurrency-safe executes alone, whichever of the
\* interleaved passes of processQueue() started it
\* ("Non-concurrent tools must execute alone").
Exclusive ==
  \A t, u \in Executing(status) :
    t = u \/ (SafeIn(block, t) /\ SafeIn(block, u))

\* No tool starts before an earlier one, although a pass skips tools and
\* passes overtake each other ("we need to maintain order for non-concurrent
\* tools, stop here").
StartedInOrder ==
  \A t, u \in 1..Len(block) :
    t < u /\ block[u].known /\ status[t] = "queued" => status[u] = "queued"

\* Context modifiers are applied in the order of the tools they belong to:
\* the next tool sees the context the ones before it left.
ContextInOrder ==
  \A i, j \in DOMAIN context : i < j => context[i] < context[j]

\* Every tool that finished was answered, and none twice but one that was
\* cancelled after it had succeeded.
Answered ==
  \A t \in 1..Len(block) :
    status[t] \in Finished =>
      /\ answers[t] >= 1
      /\ answers[t] = 2 => Cancelled /\ stage[t] = "closing"

\* The tool that failed is never answered again, although its failure cancels
\* every tool, itself included, while its updates go on ("This prevents the
\* tool from receiving a duplicate").
FailedAnsweredOnce ==
  [][\A t \in Tools : stage[t] = "errored" => answers'[t] = answers[t]]_vars

\* When the drain is over every tool has been yielded, once, and no progress
\* of any tool was left behind.
DrainedCompletely ==
  loop = "returned" /\ ~ discarded =>
    /\ \A t \in 1..Len(block) : \E i \in DOMAIN emitted : emitted[i] = t
    /\ Len(emitted) = Len(block)
    /\ \A t \in Tools : progress[t] # "pending"

\* Nobody waits for something that will not come: while a tool is queued another
\* one executes, or the end of one has yet to begin a pass ("Process the queue
\* when tools complete"); the drain awaits a pass that is suspended, or a race
\* that a tool still takes part in or has decided.
NobodyForgotten ==
  /\ (\E t \in Tools : status[t] = "queued") =>
       Executing(status) # {} \/ settled # {}
  /\ loop = "filling" => fill \in paused
  /\ loop = "racing" => RaceWon \/ \E t \in awaited : t \in Executing(status)

Draining == loop \in {"filling", "draining", "racing"}

\* getRemainingResults() returns: "Wait for remaining tools and yield their
\* results as they complete" (StreamingToolExecutor.ts:450).
DrainReturns == Draining ~> (loop = "returned")

AllKnown == \A t \in 1..Len(block) : block[t].known

\* It returns if the model asked for tools that exist: it neither misses the
\* end, or the progress, of the tool it waits for nor keeps the event loop
\* from reaching it.
DrainOfKnownReturns == (Draining /\ AllKnown) ~> (loop = "returned")

\* Unless the drain spins over a tool that does not exist, no tool stays in the
\* queue, not even in an executor nobody drains.
NeverStranded ==
  \A t \in Tools :
    (status[t] = "queued") ~> (status[t] \in Finished \/ ~ AllKnown)

\* A rejected permission request ends the turn: "that abort must bubble up to
\* the query controller" (StreamingToolExecutor.ts:298).
RejectionEndsTurn ==
  (\E t \in Tools : Running(t, {"rejected"})) /\ ~ discarded => parent # "none"
=============================================================================
