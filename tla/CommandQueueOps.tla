-------------------------- MODULE CommandQueueOps ---------------------------
(***************************************************************************)
(* The operations of the unified command queue (utils/messageQueueManager) *)
(* and of the between-turns processor (utils/queueProcessor) as operators  *)
(* on the array of queued commands, oldest first.                          *)
(*                                                                         *)
(* A command is a record.  Its text is abstracted to what the queue looks  *)
(* at: slash (the text starts with "/"), skipSlash (the text is meant for  *)
(* the model even so), meta (system-generated), agent (the main thread or  *)
(* a subagent), mode and priority.                                         *)
(***************************************************************************)
EXTENDS Naturals, Sequences, SequencesExt

Modes == {"prompt", "bash", "task-notification"}
Priorities == {"now", "next", "later"}
MainThread == "main"

\* PRIORITY_ORDER
Rank(cmd) == CASE cmd.priority = "now"   -> 0
               [] cmd.priority = "next"  -> 1
               [] cmd.priority = "later" -> 2

IsMainThread(cmd) == cmd.agent = MainThread

\* isSlashCommand of queueProcessor.ts, which does not look at skipSlash...
LooksLikeSlash(cmd) == cmd.slash

\* ...and isSlashCommand of messageQueueManager.ts, which does.
IsSlashCommand(cmd) == cmd.slash /\ ~ cmd.skipSlash

IsEditable(cmd) == cmd.mode # "task-notification" /\ ~ cmd.meta

Commands(queue) == {queue[i] : i \in DOMAIN queue}

ForMainThread(queue) == {cmd \in Commands(queue) : IsMainThread(cmd)}

\* A filter is given as the set of commands it lets through; one pass over the
\* queue pushes them to a new array.
Only(queue, kept) ==
  LET upTo[i \in 0..Len(queue)] ==
        IF i = 0 THEN <<>>
        ELSE IF queue[i] \in kept THEN Append(upTo[i - 1], queue[i])
        ELSE upTo[i - 1]
  IN  upTo[Len(queue)]

Matching(queue, kept) == {i \in DOMAIN queue : queue[i] \in kept}

\* A mistake: the oldest command is chosen, whatever its priority.
OldestIndex(queue, candidates) ==
  CHOOSE i \in candidates : \A j \in candidates : i <= j

\* The index dequeue() and peek() choose among those their filter lets through:
\* the best priority, then the oldest.
BestIndex(queue, candidates) ==
  CHOOSE i \in candidates :
    \A j \in candidates :
      \/ Rank(queue[i]) < Rank(queue[j])
      \/ Rank(queue[i]) = Rank(queue[j]) /\ i <= j

\* peek(filter)
Peek(queue, kept) == queue[BestIndex(queue, Matching(queue, kept))]

\* A mistake: the last command fills the gap.
SwappedOut(queue, best) ==
  [i \in 1..(Len(queue) - 1) |-> IF i = best THEN queue[Len(queue)] ELSE queue[i]]

\* The splice of dequeue(), which closes the gap.
SplicedOut(queue, best) == RemoveAt(queue, best)

\* dequeue(filter) removes what peek(filter) shows.
AfterDequeue(queue, kept) ==
  SplicedOut(queue, BestIndex(queue, Matching(queue, kept)))

\* dequeueAllMatching(predicate): what is returned, and what stays.
Matched(queue, kept) == Only(queue, kept)
Remaining(queue, kept) == Only(queue, Commands(queue) \ kept)

\* A mistake: a loop takes what is addressed to any agent.
DrainableByAnyone(queue, agent, threshold) ==
  {cmd \in Commands(queue) :
     /\ Rank(cmd) <= Rank([priority |-> threshold])
     /\ ~ IsSlashCommand(cmd)}

\* getCommandsByMaxPriority(threshold), then the filter of query.ts for the
\* loop of one agent: the main thread takes what is addressed to it, a
\* subagent only its own notifications.
Drainable(queue, agent, threshold) ==
  {cmd \in Commands(queue) :
     /\ Rank(cmd) <= Rank([priority |-> threshold])
     /\ ~ IsSlashCommand(cmd)
     /\ cmd.agent = agent
     /\ agent # MainThread => cmd.mode = "task-notification"}

\* A mistake: what was read stays in the queue.
WithoutNone(queue, cmds) == queue

\* remove(commands), by identity.
Without(queue, cmds) == Only(queue, Commands(queue) \ cmds)

\* popAllEditable() leaves only what the user may not edit.
AfterPop(queue) == Only(queue, {cmd \in Commands(queue) : ~ IsEditable(cmd)})

(***************************************************************************)
(* processQueueIfReady: the commands handed to executeInput together, and  *)
(* the queue they leave.  A slash or bash command goes alone; otherwise    *)
(* all main-thread commands of the same mode go in one batch.              *)
(***************************************************************************)
Ready(queue) == ForMainThread(queue) # {}

NextUp(queue) == Peek(queue, ForMainThread(queue))

Alone(queue) == LooksLikeSlash(NextUp(queue)) \/ NextUp(queue).mode = "bash"

\* A mistake: the mode is that of a command which may be a subagent's.
BatchOfFirst(queue) ==
  {cmd \in ForMainThread(queue) :
     /\ ~ LooksLikeSlash(cmd)
     /\ cmd.mode = Peek(queue, Commands(queue)).mode}

Batch(queue) ==
  {cmd \in ForMainThread(queue) :
     ~ LooksLikeSlash(cmd) /\ cmd.mode = NextUp(queue).mode}

\* A mistake: one command is handed over although its batch is removed.
TakenOne(queue) == IF Ready(queue) THEN <<NextUp(queue)>> ELSE <<>>

Taken(queue) ==
  IF ~ Ready(queue) THEN <<>>
  ELSE IF Alone(queue) THEN <<NextUp(queue)>>
  ELSE Matched(queue, Batch(queue))

\* A mistake: what is removed is not what was shown.
LeftUnfiltered(queue) ==
  IF ~ Ready(queue) THEN queue
  ELSE IF Alone(queue) THEN AfterDequeue(queue, Commands(queue))
  ELSE Remaining(queue, Batch(queue))

Left(queue) ==
  IF ~ Ready(queue) THEN queue
  ELSE IF Alone(queue) THEN AfterDequeue(queue, ForMainThread(queue))
  ELSE Remaining(queue, Batch(queue))
=============================================================================
