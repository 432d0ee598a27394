---------------------------- MODULE CommandQueue ----------------------------
(***************************************************************************)
(* The command queue as a shared object: user input, scheduled prompts and *)
(* task notifications are pushed by anyone, and taken out by the processor *)
(* between turns, by the loops of the main thread and of subagents in the  *)
(* middle of a turn, and by the user.                                      *)
(*                                                                         *)
(* A mid-turn drain is not atomic (query.ts): it copies the commands, then *)
(* awaits while they are attached, then removes them from the queue.       *)
(*                                                                         *)
(* A query loop is a call of query().  The main thread's loops succeed one *)
(* another under the guard, which says that one of them is active; a loop  *)
(* that was cancelled goes on until it notices, while the processor and    *)
(* the loop of the next turn already read the queue.  A loop of a subagent *)
(* that was killed, or that is replaced by another run of the same agent,  *)
(* goes on likewise.                                                       *)
(***************************************************************************)
EXTENDS CommandQueueOps

CONSTANTS
  Kinds,      \* the records that describe what may be enqueued, without id
  Agents,     \* the subagents
  Loops,      \* slots for query loops
  Addressee,  \* per loop: whom the commands it reads are addressed to
  MaxPushes   \* bound on the commands ever enqueued

VARIABLES
  queue,      \* commandQueue
  pushes,     \* the commands enqueued so far; the last one has this id
  current,    \* the loop that holds the guard; per agent, its latest run
  live,       \* the loops that were not aborted and did not return
  snapshot,   \* per loop: queuedCommandsSnapshot, {} outside a drain
  taken,      \* history: how often each id was handed to a reader
  withdrawn,  \* history: the ids the user took back or cleared
  exposed     \* history: the ids a loop held copies of when it was not current

loopVars == <<current, live, exposed>>

vars == <<queue, pushes, loopVars, snapshot, taken, withdrawn>>

Readers == Agents \cup {MainThread}

ASSUME KindsAssumption ==
  Kinds \subseteq [mode : Modes, priority : Priorities, agent : Readers,
                   slash : BOOLEAN, skipSlash : BOOLEAN, meta : BOOLEAN]
ASSUME LoopsAssumption == Addressee \in [Loops -> Readers]
ASSUME BoundAssumption == MaxPushes \in Nat

Init ==
  /\ queue = <<>>
  /\ pushes = 0
  /\ current = {}
  /\ live = {}
  /\ exposed = {}
  /\ snapshot = [l \in Loops |-> {}]
  /\ taken = [id \in 1..MaxPushes |-> 0]
  /\ withdrawn = {}

Ids(cmds) == {cmd.id : cmd \in cmds}

Take(cmds) ==
  taken' = [id \in DOMAIN taken |->
              taken[id] + (IF id \in Ids(cmds) THEN 1 ELSE 0)]

Withdraw(cmds) == withdrawn' = withdrawn \cup Ids(cmds)

\* enqueue() and enqueuePendingNotification(); the kind carries the priority
\* each of them defaults to.
Enqueue(kind) ==
  /\ pushes < MaxPushes
  /\ pushes' = pushes + 1
  /\ queue' = Append(queue, [id |-> pushes', mode |-> kind.mode,
                             priority |-> kind.priority, slash |-> kind.slash,
                             skipSlash |-> kind.skipSlash, meta |-> kind.meta,
                             agent |-> kind.agent])
  /\ UNCHANGED <<loopVars, snapshot, taken, withdrawn>>

CurrentOf(reader) == {loop \in current : Addressee[loop] = reader}

Copied(loops) == UNION {Ids(snapshot[loop]) : loop \in loops}

\* A loop begins in a slot that is free, and takes the place of the loop that
\* was current for its addressee, if any.
StartLoop(loop) ==
  LET displaced == CurrentOf(Addressee[loop])
  IN  /\ loop \notin current \cup live /\ snapshot[loop] = {}
      /\ current' = (current \ displaced) \cup {loop}
      /\ live' = live \cup {loop}
      /\ exposed' = exposed \cup Copied(displaced)

\* A loop is cut off from its addressee, and aborted or not.
StopLoop(loop, aborts) ==
  /\ loop \in current
  /\ current' = current \ {loop}
  /\ live' = IF aborts THEN live \ {loop} ELSE live
  /\ exposed' = exposed \cup Copied({loop})

\* processQueueIfReady(), which useQueueProcessor calls whenever the guard is
\* idle, also while a loop that was cancelled is still in a drain; executeInput
\* reserves the guard before its first await.
ProcessQueue(loop) ==
  /\ Addressee[loop] = MainThread /\ CurrentOf(MainThread) = {}
  /\ StartLoop(loop)
  /\ Taken(queue) # <<>>
  /\ queue' = Left(queue)
  /\ Take(Range(Taken(queue)))
  /\ UNCHANGED <<pushes, snapshot, withdrawn>>

\* Text submitted while the guard is idle starts a turn without the queue.
BeginTurn(loop) ==
  /\ Addressee[loop] = MainThread /\ CurrentOf(MainThread) = {}
  /\ StartLoop(loop)
  /\ UNCHANGED <<queue, pushes, snapshot, taken, withdrawn>>

\* ESC, Ctrl+C or the watchdog frees the guard, wherever the loop is.  The
\* loop is aborted unless the REPL no longer held its controller.  (The late
\* finally of an earlier turn may cancel a reservation, which aborts nothing.)
CancelTurn(loop, aborts) ==
  /\ Addressee[loop] = MainThread
  /\ StopLoop(loop, aborts)
  /\ UNCHANGED <<queue, pushes, snapshot, taken, withdrawn>>

\* A run of an agent starts: the first, one that resumes the agent, or the one
\* that goes on in the background for a run whose generator is yet to be
\* closed.  Two messages may both find the agent stopped and resume it.
StartAgent(loop) ==
  /\ Addressee[loop] \in Agents
  /\ StartLoop(loop)
  /\ UNCHANGED <<queue, pushes, snapshot, taken, withdrawn>>

\* killAsyncAgent()
KillAgent(loop) ==
  /\ Addressee[loop] \in Agents
  /\ StopLoop(loop, TRUE)
  /\ UNCHANGED <<queue, pushes, snapshot, taken, withdrawn>>

\* A loop returns: its turn or its agent is done.
EndLoop(loop) ==
  /\ loop \in live /\ snapshot[loop] = {}
  /\ current' = current \ {loop}
  /\ live' = live \ {loop}
  /\ UNCHANGED <<queue, pushes, exposed, snapshot, taken, withdrawn>>

\* A loop copies what it may attach; 'later' commands only after a Sleep.  It
\* has just seen that it is not aborted.
BeginDrain(loop, threshold) ==
  LET copies == Drainable(queue, Addressee[loop], threshold)
  IN  /\ loop \in live /\ snapshot[loop] = {}
      /\ snapshot' = [snapshot EXCEPT ![loop] = copies]
      /\ exposed' = exposed \cup (IF loop \in current THEN {} ELSE Ids(copies))
      /\ UNCHANGED <<queue, pushes, current, live, taken, withdrawn>>

\* The copies were attached: those that are prompts or notifications leave
\* the queue.  A loop that was aborted meanwhile does it, too.
EndDrain(loop) ==
  LET consumed == {cmd \in snapshot[loop] : cmd.mode # "bash"}
  IN  /\ snapshot[loop] # {}
      /\ queue' = Without(queue, consumed)
      /\ Take(consumed)
      /\ snapshot' = [snapshot EXCEPT ![loop] = {}]
      /\ UNCHANGED <<pushes, loopVars, withdrawn>>

\* The generator of an agent that goes to the background is closed at a yield
\* of the drain: nothing was read, and nothing is removed.
AbandonDrain(loop) ==
  /\ Addressee[loop] \in Agents
  /\ snapshot[loop] # {}
  /\ snapshot' = [snapshot EXCEPT ![loop] = {}]
  /\ current' = current \ {loop}
  /\ live' = live \ {loop}
  /\ UNCHANGED <<queue, pushes, exposed, taken, withdrawn>>

\* ESC or UP at the prompt: the editable commands go back to the input line,
\* even those a drain has already copied.
PopAllEditable ==
  /\ AfterPop(queue) # queue
  /\ queue' = AfterPop(queue)
  /\ Withdraw(Commands(queue) \ Commands(AfterPop(queue)))
  /\ UNCHANGED <<pushes, loopVars, snapshot, taken>>

\* clearCommandQueue(), when the user kills the background agents.
Clear ==
  /\ queue # <<>>
  /\ queue' = <<>>
  /\ Withdraw(Commands(queue))
  /\ UNCHANGED <<pushes, loopVars, snapshot, taken>>

Next ==
  \/ \E kind \in Kinds : Enqueue(kind)
  \/ \E loop \in Loops :
       \/ ProcessQueue(loop) \/ BeginTurn(loop) \/ StartAgent(loop)
       \/ KillAgent(loop) \/ EndLoop(loop)
       \/ EndDrain(loop) \/ AbandonDrain(loop)
  \/ \E loop \in Loops, aborts \in BOOLEAN : CancelTurn(loop, aborts)
  \/ \E loop \in Loops, threshold \in {"next", "later"} : BeginDrain(loop, threshold)
  \/ PopAllEditable
  \/ Clear

Spec == Init /\ [][Next]_vars

-----------------------------------------------------------------------------
TypeOK ==
  /\ \A cmd \in Commands(queue) :
       cmd.id \in 1..pushes /\ cmd.mode \in Modes /\ cmd.priority \in Priorities
  /\ pushes \in 0..MaxPushes
  /\ current \cup live \subseteq Loops
  /\ \A reader \in Readers : \A k, l \in CurrentOf(reader) : k = l
  /\ \A l \in Loops : \A cmd \in snapshot[l] :
       cmd.agent = Addressee[l] /\ cmd.id \in 1..pushes
  /\ withdrawn \cup exposed \subseteq 1..pushes

\* A command is handed to two readers only if one of the loops that copied it
\* was cut off (cancelled, killed or replaced) before it removed it, or copied
\* it after that.  Otherwise the processor and the loops of the main thread and
\* of the subagents, which drain one queue concurrently and in two steps, never
\* read the same command (the agent scoping and the removal of query.ts).
ReadOnce == \A id \in DOMAIN taken : taken[id] > 1 => id \in exposed

\* Every command is in the queue until a reader or the user takes it: no
\* drain removes a command it did not read, and none leaves one behind.
NothingLost ==
  Ids(Commands(queue)) = {id \in 1..pushes : taken[id] = 0} \ withdrawn

\* All removals keep the order of arrival, whatever they take from the middle.
ArrivalOrderKept ==
  \A i, j \in DOMAIN queue : i < j => queue[i].id < queue[j].id

\* The processor never finds a command for the main thread and takes nothing,
\* which would stall the queue for good (the comment at queueProcessor.ts:54).
NeverStalls ==
  ForMainThread(queue) # {} => Taken(queue) # <<>>

\* Nothing for the main thread that stays behind is more urgent, or as urgent
\* and older, than everything the processor took.
MostUrgentGoes ==
  [][(\E loop \in Loops : ProcessQueue(loop)) =>
       \E cmd \in Commands(queue) \ Commands(queue') :
         \A other \in ForMainThread(queue') :
           \/ Rank(cmd) < Rank(other)
           \/ Rank(cmd) = Rank(other) /\ cmd.id < other.id]_vars
=============================================================================
