------------------------- MODULE ToolExecutorProofs -------------------------
(***************************************************************************)
(* Proofs about ToolExecutor, for responses of any length, any kinds of    *)
(* tools and any number of suspended passes of processQueue().             *)
(*                                                                         *)
(* A pass may change the schedule after other passes and tools did, so the *)
(* invariants are stated of the blocks, statuses, ... a pass finds, which  *)
(* in addTool() are those after the block was added.                       *)
(***************************************************************************)
EXTENDS ToolExecutor, FiniteSetTheorems, WellFoundedInduction, TLAPS

Shaped(blk, st) ==
  /\ blk \in Seq(Kinds) /\ Len(blk) <= MaxTools
  /\ st \in [Tools -> Statuses]
  /\ \A t \in Tools : st[t] = "absent" <=> t > Len(blk)

ExclusiveIn(blk, st) ==
  \A t, u \in Tools :
    st[t] = "executing" /\ st[u] = "executing" =>
      t = u \/ (SafeIn(blk, t) /\ SafeIn(blk, u))

OrderedIn(blk, st) ==
  \A t, u \in 1..Len(blk) :
    t < u /\ blk[u].known /\ st[t] = "queued" => st[u] = "queued"

\* What a suspended pass has passed is no longer queued.
PassedIn(st, passes) ==
  /\ passes \subseteq Tools
  /\ \A p \in passes : st[p] # "absent"
  /\ \A p \in passes : \A t \in Tools : t <= p => st[t] # "queued"

\* Where a tool stands tells how often it has been answered.
CountedIn(st, stg, ans, cancelled) ==
  /\ stg \in [Tools -> Stages]
  /\ ans \in [Tools -> 0..2]
  /\ \A t \in Tools :
       /\ st[t] \in {"absent", "queued"} => stg[t] = "idle" /\ ans[t] = 0
       /\ st[t] = "executing" => stg[t] # "idle"
       /\ st[t] \in Finished => stg[t] \notin {"running", "rejected"}
       /\ st[t] \in Finished /\ stg[t] = "idle" => ans[t] = 1
       /\ stg[t] \in {"running", "rejected"} => ans[t] = 0
       /\ stg[t] \in {"answered", "errored"} => ans[t] = 1
       /\ stg[t] = "closing" => ans[t] \in {1, 2} /\ cancelled

\* The modifiers applied so far belong to tools that finished, all received
\* before any tool that executes alone.
ContextIn(blk, st, ctx) ==
  /\ ctx \in Seq(Tools)
  /\ \A i \in DOMAIN ctx :
       /\ st[ctx[i]] \in Finished /\ blk[ctx[i]].known
       /\ \A t \in Tools :
            st[t] = "executing" /\ ~ SafeIn(blk, t) => ctx[i] < t
  /\ \A i, j \in DOMAIN ctx : i < j => ctx[i] < ctx[j]

\* The inductive invariant: the first three parts need the fourth, and the
\* last needs the order of starts and the exclusion.
Schedule(blk, st, passes) ==
  Shaped(blk, st) /\ ExclusiveIn(blk, st) /\ OrderedIn(blk, st) /\ PassedIn(st, passes)

IInv ==
  /\ Schedule(block, status, paused)
  /\ CountedIn(status, stage, answers, Cancelled)
  /\ ContextIn(block, status, context)

LEMMA IInvInit == Init => IInv
<1> SUFFICES ASSUME Init PROVE IInv
  OBVIOUS
<1> USE DEF Init
<1>1. Schedule(block, status, paused)
  BY BoundAssumption
     DEF Schedule, Shaped, ExclusiveIn, OrderedIn, PassedIn, Statuses, Tools
<1>2. CountedIn(status, stage, answers, Cancelled)
  BY DEF CountedIn, Stages, Finished
<1>3. ContextIn(block, status, context)
  BY DEF ContextIn
<1> QED
  BY <1>1, <1>2, <1>3 DEF IInv

-----------------------------------------------------------------------------
(* One stretch of a pass.                                                  *)

\* A pass that starts a tool has left no queued tool behind it: one that must
\* wait is safe, so it waits for a tool that is not, and then all must wait.
LEMMA NothingSkipped ==
  ASSUME NEW blk, NEW st, NEW from \in 1..(MaxTools + 1), NEW t \in Tools,
         Shaped(blk, st), Starts(from, blk, st, t),
         \A u \in Tools : u < from => st[u] # "queued"
  PROVE  \A u \in Tools : u < t => st[u] # "queued"
<1> SUFFICES ASSUME NEW u \in Tools, u < t, st[u] = "queued"
             PROVE  FALSE
  OBVIOUS
<1>1. from <= u
  BY BoundAssumption DEF Tools
<1>2. ~ CanExecute(blk, st, u) /\ SafeIn(blk, u)
  BY <1>1 DEF Starts
<1>3. CanExecute(blk, st, t)
  BY DEF Starts
<1> QED
  BY <1>2, <1>3 DEF CanExecute

\* A pass keeps the schedule in order.
LEMMA PassSchedules ==
  ASSUME NEW from \in 1..(MaxTools + 1), NEW st, NEW others, NEW due, NEW mine,
         Schedule(block', st, others),
         \A u \in Tools : u < from => st[u] # "queued",
         ProcessQueue(from, block', st, others, due, mine)
  PROVE  Schedule(block', status', paused')
<1>1. CASE status' = st /\ paused' = others
  BY <1>1
<1>2. ASSUME NEW t \in Tools, NEW s \in {"completed", "executing"},
             Starts(from, block', st, t),
             status' = [st EXCEPT ![t] = s], paused' = others \cup {t}
      PROVE  Schedule(block', status', paused')
  <2> st \in [Tools -> Statuses] /\ Shaped(block', st) /\ st[t] = "queued"
    BY <1>2 DEF Schedule, Shaped, Starts
  <2>1. Shaped(block', status')
    BY <1>2 DEF Shaped, Statuses
  <2>2. ExclusiveIn(block', status')
    <3>1. CanExecute(block', st, t) /\ ExclusiveIn(block', st)
      BY <1>2 DEF Starts, Schedule
    <3> QED
      BY <1>2, <3>1 DEF ExclusiveIn, CanExecute, Executing
  <2>3. \A u \in Tools : u < t => st[u] # "queued"
    BY <1>2, NothingSkipped
  <2>4. OrderedIn(block', status')
    <3>1. OrderedIn(block', st) /\ 1..Len(block') \subseteq Tools
      BY BoundAssumption DEF Schedule, Shaped, Tools
    <3> QED
      BY <1>2, <2>3, <3>1 DEF OrderedIn
  <2>5. PassedIn(status', paused')
    <3>1. PassedIn(st, others)
      BY DEF Schedule
    <3>2. \A u \in Tools : status'[u] = "queued" => st[u] = "queued" /\ u # t
      BY <1>2
    <3>3. \A u \in Tools : u <= t => status'[u] # "queued"
      BY <2>3, <3>2, BoundAssumption DEF Tools
    <3> QED
      BY <1>2, <3>1, <3>2, <3>3 DEF PassedIn
  <2> QED
    BY <2>1, <2>2, <2>4, <2>5 DEF Schedule
<1> QED
  BY <1>1, <1>2 DEF ProcessQueue, Execute

\* A tool starts unanswered, or is answered when it is cancelled at the start.
LEMMA PassCounts ==
  ASSUME NEW from, NEW blk, NEW st \in [Tools -> Statuses], NEW others, NEW due, NEW mine,
         CountedIn(st, stage, answers, Cancelled),
         ProcessQueue(from, blk, st, others, due, mine),
         UNCHANGED abortVars
  PROVE  CountedIn(status', stage', answers', Cancelled')
<1> Cancelled' = Cancelled
  BY DEF Cancelled, abortVars
<1>1. CASE status' = st /\ UNCHANGED <<stage, answers>>
  BY <1>1 DEF CountedIn
<1>2. ASSUME NEW t \in Tools, Starts(from, blk, st, t), Execute(blk, st, t, due)
      PROVE  CountedIn(status', stage', answers', Cancelled')
  <2> st[t] = "queued" /\ stage[t] = "idle" /\ answers[t] = 0
    BY <1>2 DEF Starts, CountedIn
  <2> USE DEF CountedIn, Stages, Finished, Statuses
  <2>1. CASE Cancelled
    BY <1>2, <2>1 DEF Execute
  <2>2. CASE ~ Cancelled
    BY <1>2, <2>2 DEF Execute
  <2> QED
    BY <2>1, <2>2
<1> QED
  BY <1>1, <1>2 DEF ProcessQueue

\* A tool that starts was queued when the tools of the context had finished,
\* so it was received after them.
LEMMA PassContext ==
  ASSUME NEW from \in 1..(MaxTools + 1), NEW st, NEW others, NEW due, NEW mine,
         Schedule(block', st, others),
         ContextIn(block', st, context), UNCHANGED context,
         \A u \in Tools : u < from => st[u] # "queued",
         ProcessQueue(from, block', st, others, due, mine)
  PROVE  ContextIn(block', status', context')
<1>1. CASE status' = st
  BY <1>1 DEF ContextIn
<1>2. ASSUME NEW t \in Tools, NEW s \in {"completed", "executing"},
             Starts(from, block', st, t), status' = [st EXCEPT ![t] = s]
      PROVE  ContextIn(block', status', context')
  <2> /\ st \in [Tools -> Statuses] /\ st[t] = "queued" /\ t \in 1..Len(block')
      /\ Shaped(block', st) /\ OrderedIn(block', st)
    BY <1>2, BoundAssumption DEF Schedule, Shaped, Starts, Tools
  <2>1. \A i \in DOMAIN context :
          /\ context[i] \in Tools /\ context[i] # t
          /\ status'[context[i]] \in Finished /\ block'[context[i]].known
          /\ context[i] \in 1..Len(block')
    <3> TAKE i \in DOMAIN context
    <3>1. context[i] \in Tools /\ st[context[i]] \in Finished /\ block'[context[i]].known
      BY DEF ContextIn
    <3>2. context[i] # t
      BY <3>1 DEF Finished
    <3>3. context[i] \in 1..Len(block')
      BY <3>1, BoundAssumption DEF Shaped, Tools, Finished
    <3> QED
      BY <1>2, <3>1, <3>2, <3>3
  <2>2. \A i \in DOMAIN context : context[i] < t
    <3> TAKE i \in DOMAIN context
    <3>1. st[context[i]] # "queued"
      BY DEF ContextIn, Finished
    <3>2. ~ (t < context[i])
      BY <2>1, <3>1 DEF OrderedIn
    <3> QED
      BY <2>1, <3>2 DEF Tools
  <2>3. \A u \in Tools : status'[u] = "executing" => st[u] = "executing" \/ u = t
    BY <1>2
  <2> QED
    BY <2>1, <2>2, <2>3 DEF ContextIn
<1> QED
  BY <1>1, <1>2 DEF ProcessQueue, Execute

LEMMA PassStep ==
  ASSUME IInv, NEW from \in 1..(MaxTools + 1), NEW others, NEW due, NEW mine,
         others \subseteq paused,
         \A u \in Tools : u < from => status[u] # "queued",
         ProcessQueue(from, block, status, others, due, mine),
         UNCHANGED <<block, context, abortVars>>
  PROVE  IInv'
<1>1. Schedule(block', status, others)
  BY DEF IInv, Schedule, PassedIn
<1>2. ProcessQueue(from, block', status, others, due, mine)
  OBVIOUS
<1>3. Schedule(block', status', paused')
  BY <1>1, <1>2, PassSchedules
<1>4. CountedIn(status', stage', answers', Cancelled')
  <2>1. status \in [Tools -> Statuses] /\ UNCHANGED abortVars
    BY DEF IInv, Schedule, Shaped
  <2>2. CountedIn(status, stage, answers, Cancelled)
    BY DEF IInv
  <2> QED
    BY <2>1, <2>2, PassCounts
<1>5. ContextIn(block', status', context')
  <2>1. ContextIn(block', status, context) /\ UNCHANGED context
    BY DEF IInv
  <2> QED
    BY <1>1, <1>2, <2>1, PassContext
<1> QED
  BY <1>3, <1>4, <1>5 DEF IInv

LEMMA RoundStep ==
  ASSUME IInv, Round, UNCHANGED <<block, context, abortVars>>
  PROVE  IInv'
<1>1. CASE ProcessQueue(1, block, status, paused, settled, TRUE)
  <2>1. 1 \in 1..(MaxTools + 1) /\ \A u \in Tools : u < 1 => status[u] # "queued"
    BY BoundAssumption DEF Tools
  <2> QED
    BY <1>1, <2>1, PassStep
<1>2. CASE UNCHANGED <<status, stage, answers, paused>>
  BY <1>2 DEF IInv, Schedule, Cancelled, abortVars
<1> QED
  BY <1>1, <1>2 DEF Round

-----------------------------------------------------------------------------
(* The steps of the query loop, of the passes and of the tools.            *)

LEMMA AddToolStep ==
  ASSUME IInv, NEW kind \in Kinds, AddTool(kind)
  PROVE  IInv'
<1> DEFINE t == Len(block) + 1
<1>1. /\ block \in Seq(Kinds) /\ t \in Tools /\ Len(block) \in Nat
      /\ status \in [Tools -> Statuses] /\ status[t] = "absent"
      /\ Tools \subseteq Nat /\ t \in 1..(MaxTools + 1)
  BY BoundAssumption DEF AddTool, IInv, Schedule, Shaped, Tools
<1>2. /\ block' \in Seq(Kinds) /\ Len(block') = t
      /\ block'[t] = kind /\ \A u \in 1..Len(block) : block'[u] = block[u]
  BY <1>1 DEF AddTool
<1>3. /\ \A u \in Tools : status[u] # "absent" => u \in 1..Len(block)
      /\ \A u \in 1..Len(block) : u \in Tools /\ SafeIn(block', u) = SafeIn(block, u)
      /\ 1..Len(block') = 1..Len(block) \cup {t}
  BY <1>1, <1>2, BoundAssumption DEF IInv, Schedule, Shaped, Tools, SafeIn
<1>4. UNCHANGED <<context, abortVars>> /\ Cancelled' = Cancelled
  BY DEF AddTool, Cancelled, abortVars
<1>5. ASSUME NEW s \in {"queued", "completed"}, s = "queued" \/ ~ kind.known
      PROVE  LET st == [status EXCEPT ![t] = s]
             IN  Schedule(block', st, paused) /\ ContextIn(block', st, context)
  <2> DEFINE st == [status EXCEPT ![t] = s]
  <2>1. /\ st \in [Tools -> Statuses] /\ st[t] = s
        /\ \A u \in Tools : u # t => st[u] = status[u]
    BY <1>1 DEF Statuses
  <2> HIDE DEF st
  <2>2. Shaped(block', st)
    BY <1>1, <1>2, <2>1 DEF IInv, Schedule, Shaped, Tools, AddTool
  <2>3. ExclusiveIn(block', st)
    <3>1. \A u \in Tools : st[u] = "executing" => u \in 1..Len(block) /\ status[u] = "executing"
      BY <1>3, <2>1
    <3> QED
      BY <1>3, <3>1 DEF IInv, Schedule, ExclusiveIn
  <2>4. OrderedIn(block', st)
    <3> SUFFICES ASSUME NEW u \in 1..Len(block'), NEW v \in 1..Len(block'),
                        u < v, block'[v].known, st[u] = "queued"
                 PROVE  st[v] = "queued"
      BY DEF OrderedIn
    <3>1. CASE v = t
      BY <1>2, <1>5, <2>1, <3>1
    <3>2. CASE v # t
      <4>1. u \in 1..Len(block) /\ v \in 1..Len(block) /\ u # t
        BY <1>1, <1>3, <3>2
      <4> QED
        BY <1>2, <1>3, <2>1, <3>2, <4>1 DEF IInv, Schedule, OrderedIn
    <3> QED
      BY <3>1, <3>2
  <2>5. PassedIn(st, paused)
    <3>1. \A p \in paused : p \in Tools /\ p \in 1..Len(block)
      BY <1>3 DEF IInv, Schedule, PassedIn
    <3>2. \A p \in paused, u \in Tools : u <= p => u # t
      BY <1>1, <3>1
    <3> QED
      BY <2>1, <3>1, <3>2, <1>1 DEF IInv, Schedule, PassedIn
  <2>6. ContextIn(block', st, context)
    <3>1. \A i \in DOMAIN context :
            /\ context[i] \in 1..Len(block) /\ context[i] # t
            /\ context[i] \in Tools
      <4> TAKE i \in DOMAIN context
      <4>1. context[i] \in Tools /\ status[context[i]] # "absent"
        BY DEF IInv, ContextIn, Finished
      <4> QED
        BY <1>1, <1>3, <4>1
    <3>2. \A u \in Tools : st[u] = "executing" => u \in 1..Len(block) /\ status[u] = "executing"
      BY <1>3, <2>1
    <3> QED
      BY <1>2, <1>3, <2>1, <3>1, <3>2 DEF IInv, ContextIn
  <2> QED
    BY <2>2, <2>3, <2>4, <2>5, <2>6 DEF Schedule, st
<1>6. CASE kind.known
  <2> DEFINE st == [status EXCEPT ![t] = "queued"]
  <2>1. ProcessQueue(1, block', st, paused, settled, FALSE)
    BY <1>6 DEF AddTool
  <2>2. Schedule(block', st, paused) /\ ContextIn(block', st, context)
    BY <1>5
  <2>3. CountedIn(st, stage, answers, Cancelled)
    BY <1>1 DEF IInv, CountedIn, Finished
  <2>4. /\ 1 \in 1..(MaxTools + 1) /\ \A u \in Tools : u < 1 => st[u] # "queued"
        /\ st \in [Tools -> Statuses]
    BY <1>1, BoundAssumption DEF Tools, Statuses
  <2> HIDE DEF st
  <2>5. Schedule(block', status', paused')
    BY <2>1, <2>2, <2>4, PassSchedules
  <2>6. CountedIn(status', stage', answers', Cancelled')
    BY <1>4, <2>1, <2>3, <2>4, PassCounts
  <2>7. ContextIn(block', status', context')
    BY <1>4, <2>1, <2>2, <2>4, PassContext
  <2> QED
    BY <2>5, <2>6, <2>7 DEF IInv
<1>7. CASE ~ kind.known
  <2>1. /\ status' = [status EXCEPT ![t] = "completed"]
        /\ answers' = [answers EXCEPT ![t] = 1]
        /\ UNCHANGED <<stage, paused>>
    BY <1>7 DEF AddTool
  <2>2. Schedule(block', status', paused') /\ ContextIn(block', status', context')
    BY <1>4, <1>5, <1>7, <2>1
  <2>3. CountedIn(status', stage', answers', Cancelled')
    BY <1>1, <1>4, <2>1 DEF IInv, CountedIn, Finished
  <2> QED
    BY <2>2, <2>3 DEF IInv
<1> QED
  BY <1>6, <1>7

\* A suspended pass goes on behind the tool it started.
LEMMA ResumeStep ==
  ASSUME IInv, NEW t \in Tools, Resume(t)
  PROVE  IInv'
<1>1. t + 1 \in 1..(MaxTools + 1) /\ paused \ {t} \subseteq paused
  BY BoundAssumption DEF Tools
<1>2. \A u \in Tools : u < t + 1 => status[u] # "queued"
  BY BoundAssumption DEF Resume, IInv, Schedule, PassedIn, Tools
<1>3. UNCHANGED <<block, context, abortVars>>
  BY DEF Resume
<1> QED
  BY <1>1, <1>2, <1>3, PassStep DEF Resume

LEMMA ProcessAgainStep ==
  ASSUME IInv, NEW t \in Tools, ProcessAgain(t)
  PROVE  IInv'
<1>1. 1 \in 1..(MaxTools + 1) /\ \A u \in Tools : u < 1 => status[u] # "queued"
  BY BoundAssumption DEF Tools
<1> QED
  BY <1>1, PassStep DEF ProcessAgain

\* Results are yielded only of tools that completed.
LEMMA EmitResultsStep ==
  ASSUME IInv, NEW t \in Tools, EmitResults(t)
  PROVE  IInv'
<1>1. /\ status \in [Tools -> Statuses] /\ status[t] = "completed"
      /\ status' = [status EXCEPT ![t] = "yielded"]
      /\ UNCHANGED <<block, stage, answers, paused, context>> /\ Cancelled' = Cancelled
  BY DEF EmitResults, toolVars, abortVars, Cancelled, IInv, Schedule, Shaped
<1>2. Schedule(block', status', paused')
  BY <1>1 DEF IInv, Schedule, Shaped, ExclusiveIn, OrderedIn, PassedIn, Statuses, Tools
<1>3. CountedIn(status', stage', answers', Cancelled')
  BY <1>1 DEF IInv, CountedIn, Finished
<1>4. ContextIn(block', status', context')
  BY <1>1 DEF IInv, ContextIn, Finished
<1> QED
  BY <1>2, <1>3, <1>4 DEF IInv

\* A tool that ends executed; if it has modifiers to apply it executed alone,
\* and the tools of the context were received before it.
LEMMA CompleteStep ==
  ASSUME IInv, NEW t \in Tools, Complete(t)
  PROVE  IInv'
<1>1. /\ status \in [Tools -> Statuses] /\ status[t] = "executing"
      /\ stage[t] \in {"answered", "errored", "closing"}
      /\ status' = [status EXCEPT ![t] = "completed"]
      /\ UNCHANGED <<block, stage, answers, paused>> /\ Cancelled' = Cancelled
      /\ context \in Seq(Tools)
  BY DEF Complete, ContextAfter, Running, toolVars, abortVars, Cancelled, IInv, Schedule, Shaped, ContextIn
<1>2. Schedule(block', status', paused')
  BY <1>1 DEF IInv, Schedule, Shaped, ExclusiveIn, OrderedIn, PassedIn, Statuses, Tools
<1>3. CountedIn(status', stage', answers', Cancelled')
  BY <1>1 DEF IInv, CountedIn, Finished
<1>4. ContextIn(block', status', context)
  BY <1>1 DEF IInv, ContextIn, Finished
<1>5. ContextIn(block', status', context')
  <2>1. CASE context' = context
    BY <1>4, <2>1
  <2>2. CASE context' = Append(context, t) /\ ~ SafeIn(block, t)
    <3>1. \A i \in DOMAIN context : context[i] < t
      BY <1>1, <2>2 DEF IInv, ContextIn
    <3>2. \A u \in Tools : status'[u] # "executing" \/ SafeIn(block, u)
      BY <1>1, <2>2 DEF IInv, Schedule, ExclusiveIn
    <3>3. /\ context' \in Seq(Tools) /\ DOMAIN context' = 1..(Len(context) + 1)
          /\ DOMAIN context = 1..Len(context) /\ Len(context) \in Nat
          /\ context'[Len(context) + 1] = t
          /\ \A i \in DOMAIN context : context'[i] = context[i]
      BY <1>1, <2>2
    <3>4. status'[t] = "completed" /\ block[t].known
      BY <1>1, <2>2 DEF SafeIn
    <3>5. \A i \in DOMAIN context' :
            status'[context'[i]] \in Finished /\ block'[context'[i]].known
      BY <1>1, <1>4, <3>3, <3>4 DEF ContextIn, Finished
    <3>6. \A i, j \in DOMAIN context' : i < j => context'[i] < context'[j]
      BY <1>4, <3>1, <3>3 DEF ContextIn
    <3> QED
      BY <1>1, <3>2, <3>3, <3>5, <3>6 DEF ContextIn, SafeIn
  <2> QED
    BY <2>1, <2>2 DEF Complete, ContextAfter
<1> QED
  BY <1>2, <1>3, <1>5 DEF IInv

\* The other steps of a tool move it, and may cancel tools.
LEMMA ToolStep ==
  ASSUME IInv, NEW t \in Tools,
         GiveUp(t) \/ Report(t) \/ Succeed(t) \/ Fail(t) \/ Reject(t)
  PROVE  IInv'
<1>1. UNCHANGED <<block, status, paused, context>> /\ (Cancelled => Cancelled')
  BY DEF GiveUp, Report, Succeed, Fail, Reject, toolRest, abortVars, Cancelled, UpdatesIn
<1>2. CountedIn(status', stage', answers', Cancelled')
  <2> USE DEF IInv, CountedIn, Running, Stages, Finished
  <2>1. CASE GiveUp(t)
    BY <1>1, <2>1 DEF GiveUp, UpdatesIn
  <2>2. CASE Report(t)
    BY <1>1, <2>2 DEF Report
  <2>3. CASE Succeed(t)
    BY <1>1, <2>3 DEF Succeed
  <2>4. CASE Fail(t)
    BY <1>1, <2>4 DEF Fail
  <2>5. CASE Reject(t)
    BY <1>1, <2>5 DEF Reject
  <2> QED
    BY <2>1, <2>2, <2>3, <2>4, <2>5
<1> QED
  BY <1>1, <1>2 DEF IInv

LEMMA IInvStep == IInv /\ [Next]_vars => IInv'
<1> SUFFICES ASSUME IInv, [Next]_vars PROVE IInv'
  OBVIOUS
<1>1. CASE \E kind \in Kinds : AddTool(kind)
  BY <1>1, AddToolStep
<1>2. CASE EndStream \/ Wake
  BY <1>2, RoundStep DEF EndStream, Wake
<1>3. CASE EndRound
  <2>1. CASE UNCHANGED <<status, stage, answers, paused>>
    BY <1>3, <2>1 DEF EndRound, IInv, Cancelled, abortVars
  <2> QED
    BY <1>3, <2>1, RoundStep DEF EndRound
<1>4. CASE \E t \in Tools : Resume(t)
  BY <1>4, ResumeStep
<1>5. CASE \E t \in Tools : ProcessAgain(t)
  BY <1>5, ProcessAgainStep
<1>6. CASE \E t \in Tools : EmitResults(t)
  BY <1>6, EmitResultsStep
<1>7. CASE \E t \in Tools : Complete(t)
  BY <1>7, CompleteStep
<1>8. CASE \E t \in Tools : GiveUp(t) \/ Report(t) \/ Succeed(t) \/ Fail(t) \/ Reject(t)
  BY <1>8, ToolStep
<1>9. CASE /\ UNCHANGED <<block, status, stage, answers, paused, context>>
           /\ Cancelled => Cancelled'
  BY <1>9 DEF IInv, CountedIn
<1>10. CASE Poll \/ EndPoll \/ Discard \/ UNCHANGED vars
  BY <1>9, <1>10 DEF Poll, EndPoll, Discard, vars, toolVars, abortVars, Cancelled
<1>11. CASE \E t \in Tools : EmitProgress(t)
  BY <1>9, <1>11 DEF EmitProgress, abortVars, Cancelled
<1>12. CASE \E reason \in Aborts : Abort(reason)
  BY <1>9, <1>12 DEF Abort, toolRest, toolVars, Cancelled
<1> QED
  BY <1>1, <1>2, <1>3, <1>4, <1>5, <1>6, <1>7, <1>8, <1>10, <1>11, <1>12
     DEF Next, QueryLoop, ToolSteps

LEMMA IInvAlways == Spec => []IInv
<1> QED
  BY IInvInit, IInvStep, PTL DEF Spec

-----------------------------------------------------------------------------
\* A tool that is not concurrency-safe executes alone, whatever passes of
\* processQueue() interleave and however many tools the response has.
THEOREM ToolsExclusive == Spec => []Exclusive
<1>1. IInv => Exclusive
  BY DEF IInv, Schedule, ExclusiveIn, Exclusive, Executing
<1> QED
  BY <1>1, IInvAlways, PTL

\* Tools start in the order received.
THEOREM ToolsStartInOrder == Spec => []StartedInOrder
<1>1. IInv => StartedInOrder
  BY DEF IInv, Schedule, OrderedIn, StartedInOrder
<1> QED
  BY <1>1, IInvAlways, PTL

\* The context is modified in the order received.
THEOREM ContextModifiedInOrder == Spec => []ContextInOrder
<1>1. IInv => ContextInOrder
  BY DEF IInv, ContextIn, ContextInOrder
<1> QED
  BY <1>1, IInvAlways, PTL

\* Every finished tool has an answer, and a second one only when it was
\* cancelled after it had succeeded.
THEOREM ToolsAnswered == Spec => []Answered
<1>1. IInv => Answered
  <2> SUFFICES ASSUME IInv, NEW t \in 1..Len(block), status[t] \in Finished
               PROVE  answers[t] >= 1 /\ (answers[t] = 2 => Cancelled /\ stage[t] = "closing")
    BY DEF Answered
  <2>1. t \in Tools
    BY BoundAssumption DEF IInv, Schedule, Shaped, Tools
  <2>2. stage[t] \in Stages /\ answers[t] \in 0..2
    BY <2>1 DEF IInv, CountedIn
  <2> QED
    BY <2>1, <2>2 DEF IInv, CountedIn, Stages
<1> QED
  BY <1>1, IInvAlways, PTL

\* A pass answers only a tool that has not begun.
LEMMA PassAnswers ==
  ASSUME NEW from, NEW blk, NEW st, NEW others, NEW due, NEW mine,
         CountedIn(st, stage, answers, Cancelled),
         ProcessQueue(from, blk, st, others, due, mine),
         NEW t \in Tools, stage[t] = "errored"
  PROVE  answers'[t] = answers[t]
<1>1. CASE UNCHANGED answers
  BY <1>1
<1>2. ASSUME NEW u \in Tools, st[u] = "queued",
             answers' = [answers EXCEPT ![u] = 1]
      PROVE  answers'[t] = answers[t]
  BY <1>2 DEF CountedIn
<1> QED
  BY <1>1, <1>2 DEF ProcessQueue, Execute, Starts

\* The failure of a tool is its only answer, although the failure of a Bash
\* tool cancels all tools of the response.
THEOREM FailuresAnsweredOnce == Spec => FailedAnsweredOnce
<1>1. ASSUME IInv, [Next]_vars, NEW t \in Tools, stage[t] = "errored"
      PROVE  answers'[t] = answers[t]
  <2>1. CountedIn(status, stage, answers, Cancelled)
    BY <1>1 DEF IInv
  <2>2. CASE \E kind \in Kinds : AddTool(kind)
    <3> PICK kind \in Kinds : AddTool(kind)
      BY <2>2
    <3> DEFINE new == Len(block) + 1
    <3>1. /\ new \in Tools /\ status[new] = "absent"
          /\ status \in [Tools -> Statuses]
      BY <1>1, BoundAssumption DEF AddTool, IInv, Schedule, Shaped, Tools
    <3>2. new # t
      BY <1>1, <2>1, <3>1 DEF CountedIn
    <3>3. CASE kind.known
      <4>1. CountedIn([status EXCEPT ![new] = "queued"], stage, answers, Cancelled)
        BY <2>1, <3>1 DEF CountedIn, Finished
      <4>2. ProcessQueue(1, block', [status EXCEPT ![new] = "queued"], paused, settled, FALSE)
        BY <3>3 DEF AddTool
      <4> QED
        BY <1>1, <4>1, <4>2, PassAnswers
    <3>4. CASE ~ kind.known
      <4>1. answers' = [answers EXCEPT ![new] = 1]
        BY <3>4 DEF AddTool
      <4>2. t # new
        BY <3>2
      <4> HIDE DEF new
      <4> QED
        BY <4>1, <4>2
    <3> QED
      BY <3>3, <3>4
  <2>3. CASE Round \/ \E u \in Tools : Resume(u) \/ ProcessAgain(u)
    <3>1. CASE UNCHANGED answers
      BY <3>1
    <3>2. ASSUME NEW from, NEW others, NEW due, NEW mine,
                 ProcessQueue(from, block, status, others, due, mine)
          PROVE  answers'[t] = answers[t]
      BY <1>1, <2>1, <3>2, PassAnswers
    <3> QED
      BY <2>3, <3>1, <3>2 DEF Round, Resume, ProcessAgain
  <2>4. CASE EndStream \/ EndRound \/ Wake
    BY <2>3, <2>4 DEF EndStream, EndRound, Wake
  <2>5. CASE ToolSteps
    <3> PICK u \in Tools : GiveUp(u) \/ Report(u) \/ Succeed(u) \/ Fail(u) \/ Complete(u) \/ Reject(u)
      BY <2>5 DEF ToolSteps
    <3>1. CASE GiveUp(u) \/ Succeed(u) \/ Fail(u)
      <4>1. stage[u] # "errored" /\ answers' = [answers EXCEPT ![u] = @ + 1]
        BY <3>1 DEF GiveUp, Succeed, Fail, Running, UpdatesIn
      <4> QED
        BY <1>1, <4>1
    <3>2. CASE UNCHANGED answers
      BY <3>2
    <3> QED
      BY <3>1, <3>2 DEF Report, Complete, Reject, toolVars
  <2>6. CASE UNCHANGED answers
    BY <2>6
  <2> QED
    BY <1>1, <2>2, <2>3, <2>4, <2>5, <2>6
       DEF Next, QueryLoop, Poll, Discard, EmitProgress, EmitResults, EndPoll,
           Abort, toolVars, vars
<1>2. IInv /\ [Next]_vars =>
        [\A t \in Tools : stage[t] = "errored" => answers'[t] = answers[t]]_vars
  BY <1>1
<1> QED
  BY <1>2, IInvAlways, PTL DEF Spec, FailedAnsweredOnce

-----------------------------------------------------------------------------
(* The remaining types.                                                    *)

Control ==
  /\ progress \in [Tools -> Progress]
  /\ hasErrored \in BOOLEAN /\ discarded \in BOOLEAN
  /\ parent \in {"none", "user", "interrupt"}
  /\ settled \subseteq Tools /\ awaited \subseteq Tools
  /\ loop \in {"streaming", "polling", "filling", "draining", "racing", "returned"}
  /\ at \in 1..(MaxTools + 1) /\ fill \in 0..MaxTools
  /\ emitted \in Seq(Tools)

LEMMA ControlInit == Init => Control
<1> SUFFICES ASSUME Init PROVE Control
  OBVIOUS
<1>1. progress \in [Tools -> Progress] /\ settled \subseteq Tools /\ awaited \subseteq Tools
  BY DEF Init, Progress
<1>2. at \in 1..(MaxTools + 1) /\ fill \in 0..MaxTools /\ emitted \in Seq(Tools)
  BY BoundAssumption DEF Init
<1> QED
  BY <1>1, <1>2 DEF Init, Control

\* A stretch of a pass, or the end of the drain, moves only the control.
LEMMA ControlPass ==
  ASSUME Control, NEW from, NEW blk, NEW st, NEW others, NEW due \in SUBSET Tools,
         NEW mine, ProcessQueue(from, blk, st, others, due, mine),
         UNCHANGED <<progress, abortVars, emitted>>, awaited' \subseteq Tools
  PROVE  Control'
<1>1. settled' \subseteq Tools
  BY DEF ProcessQueue, Execute
<1>2. /\ loop' \in {loop, "filling", "draining"}
      /\ at' \in {at, 1} /\ fill' \in {fill, 0} \cup Tools
  BY DEF ProcessQueue, FillGoesOn, FillEnds
<1> QED
  BY <1>1, <1>2, BoundAssumption DEF Control, abortVars, Tools

LEMMA ControlRound ==
  ASSUME Control, Round, UNCHANGED <<progress, abortVars, emitted>>,
         awaited' \subseteq Tools
  PROVE  Control'
<1>1. CASE ProcessQueue(1, block, status, paused, settled, TRUE)
  <2>1. settled \in SUBSET Tools
    BY DEF Control
  <2> QED
    BY <1>1, <2>1, ControlPass
<1>2. CASE loop' = "returned" /\ at' = 1 /\ UNCHANGED <<settled, fill>>
  BY <1>2, BoundAssumption DEF Control, abortVars
<1> QED
  BY <1>1, <1>2 DEF Round

LEMMA ControlStep == IInv /\ Control /\ [Next]_vars => Control'
<1> SUFFICES ASSUME IInv, Control, [Next]_vars PROVE Control'
  OBVIOUS
<1> Tools \in SUBSET Nat /\ 1 \in 1..(MaxTools + 1)
  BY BoundAssumption DEF Tools
<1>1. CASE \E kind \in Kinds : AddTool(kind)
  <2> PICK kind \in Kinds : AddTool(kind)
    BY <1>1
  <2> DEFINE t == Len(block) + 1
  <2>1. CASE kind.known
    <3>1. /\ UNCHANGED <<progress, abortVars, emitted>> /\ awaited' \subseteq Tools
          /\ ProcessQueue(1, block', [status EXCEPT ![t] = "queued"], paused, settled, FALSE)
          /\ settled \in SUBSET Tools
      BY <2>1 DEF AddTool, Control
    <3> QED
      BY <3>1, ControlPass
  <2>2. CASE ~ kind.known
    BY <2>2 DEF AddTool, Control, abortVars
  <2> QED
    BY <2>1, <2>2
<1>2. CASE Poll \/ EndPoll \/ Discard
  BY <1>2 DEF Poll, EndPoll, Discard, Control, toolVars, abortVars
<1>3. CASE EndStream \/ Wake
  <2>1. Round /\ UNCHANGED <<progress, abortVars, emitted>> /\ awaited' \subseteq Tools
    BY <1>3 DEF EndStream, Wake, Control
  <2> QED
    BY <2>1, ControlRound
<1>4. CASE EndRound
  <2>1. CASE Round /\ UNCHANGED awaited
    BY <1>4, <2>1, ControlRound DEF EndRound, Control
  <2>2. CASE loop' = "racing" /\ awaited' = Executing(status) /\ at' = 1 /\ UNCHANGED <<settled, fill>>
    BY <1>4, <2>2 DEF EndRound, Control, Executing, abortVars
  <2> QED
    BY <1>4, <2>1, <2>2 DEF EndRound
<1>5. CASE \E t \in Tools : EmitProgress(t)
  BY <1>5, BoundAssumption DEF EmitProgress, Control, Progress, abortVars, Tools
<1>6. CASE \E t \in Tools : EmitResults(t)
  BY <1>6, BoundAssumption DEF EmitResults, Control, toolVars, abortVars, Tools
<1>7. CASE \E t \in Tools : Resume(t) \/ ProcessAgain(t)
  <2> PICK t \in Tools : Resume(t) \/ ProcessAgain(t)
    BY <1>7
  <2>1. /\ settled \in SUBSET Tools /\ settled \ {t} \in SUBSET Tools
        /\ UNCHANGED <<progress, abortVars, emitted>> /\ awaited' \subseteq Tools
    BY DEF Resume, ProcessAgain, Control
  <2> QED
    BY <2>1, ControlPass DEF Resume, ProcessAgain
<1>8. CASE ToolSteps
  <2> PICK t \in Tools :
        GiveUp(t) \/ Report(t) \/ Succeed(t) \/ Fail(t) \/ Complete(t) \/ Reject(t)
    BY <1>8 DEF ToolSteps
  <2> USE DEF Control, toolRest, toolVars, abortVars, loopVars
  <2>1. CASE GiveUp(t) \/ Succeed(t)
    BY <2>1 DEF GiveUp, Succeed, UpdatesIn
  <2>2. CASE Report(t)
    BY <2>2 DEF Report, Progress
  <2>3. CASE Fail(t)
    BY <2>3 DEF Fail
  <2>4. CASE Complete(t)
    BY <2>4 DEF Complete, ContextAfter
  <2>5. CASE Reject(t)
    BY <2>5 DEF Reject
  <2> QED
    BY <2>1, <2>2, <2>3, <2>4, <2>5
<1>9. CASE \E reason \in Aborts : Abort(reason)
  BY <1>9, AbortsAssumption DEF Abort, Control, toolRest, toolVars, loopVars
<1>10. CASE UNCHANGED vars
  BY <1>10 DEF vars, Control, toolVars, abortVars, loopVars
<1> QED
  BY <1>1, <1>2, <1>3, <1>4, <1>5, <1>6, <1>7, <1>8, <1>9, <1>10 DEF Next, QueryLoop

\* Every variable keeps its type; a tool is answered at most twice.
THEOREM TypeCorrect == Spec => []TypeOK
<1>1. IInv /\ Control => TypeOK
  BY DEF IInv, Schedule, Shaped, PassedIn, CountedIn, ContextIn, Control, TypeOK
<1> QED
  BY <1>1, ControlInit, ControlStep, IInvAlways, PTL DEF Spec

-----------------------------------------------------------------------------
(* What is yielded, and the end of the drain.                              *)

\* The results yielded so far are those of the tools marked so, each once;
\* and a tool that has not begun, or was yielded, has no progress to show.
YieldedOnce ==
  /\ \A i \in 1..Len(emitted) : status[emitted[i]] = "yielded"
  /\ \A t \in Tools :
       status[t] = "yielded" => \E i \in 1..Len(emitted) : emitted[i] = t
  /\ \A i, j \in 1..Len(emitted) : emitted[i] = emitted[j] => i = j
  /\ \A t \in Tools :
       status[t] \notin {"executing", "completed"} => progress[t] # "pending"

\* The drain awaits a pass only while it fills; it returns when all is yielded,
\* and what was yielded stays so.
DrainOver ==
  /\ loop # "filling" => fill = 0
  /\ loop = "returned" /\ ~ discarded =>
       \A t \in 1..Len(block) : status[t] = "yielded"

LEMMA DrainInit == Init => YieldedOnce /\ DrainOver
<1> SUFFICES ASSUME Init PROVE YieldedOnce /\ DrainOver
  OBVIOUS
<1> QED  BY DEF Init, YieldedOnce, DrainOver

\* A stretch of a pass only takes tools out of "queued".
LEMMA PassMoves ==
  ASSUME NEW from, NEW blk, NEW st \in [Tools -> Statuses], NEW others, NEW due,
         NEW mine, ProcessQueue(from, blk, st, others, due, mine), NEW u \in Tools
  PROVE  \/ status'[u] = st[u]
         \/ st[u] = "queued" /\ status'[u] \in {"executing", "completed"}
BY DEF ProcessQueue, Execute, Starts

LEMMA YieldedKept ==
  ASSUME Control, YieldedOnce, emitted' = emitted, progress' = progress,
         \A t \in Tools :
           \/ status'[t] = status[t]
           \/ status[t] # "yielded" /\ status'[t] \in {"executing", "completed"}
           \/ status[t] = "absent" /\ status'[t] = "queued"
  PROVE  YieldedOnce'
<1>1. \A i \in 1..Len(emitted) : emitted[i] \in Tools
  BY DEF Control
<1>2. \A t \in Tools : status'[t] = "yielded" <=> status[t] = "yielded"
  OBVIOUS
<1>3. \A t \in Tools :
        status'[t] \notin {"executing", "completed"} => progress'[t] # "pending"
  BY DEF YieldedOnce
<1> QED  BY <1>1, <1>2, <1>3 DEF YieldedOnce

\* A round of the drain, and with it the end of the drain.
LEMMA RoundDrains ==
  ASSUME IInv, Control, YieldedOnce, DrainOver, Round, loop # "filling",
         UNCHANGED <<block, discarded, progress, emitted>>
  PROVE  YieldedOnce' /\ DrainOver'
<1>0. status \in [Tools -> Statuses]
  BY DEF IInv, Schedule, Shaped
<1>1. CASE ProcessQueue(1, block, status, paused, settled, TRUE)
  <2>1. \A t \in Tools :
          \/ status'[t] = status[t]
          \/ status[t] = "queued" /\ status'[t] \in {"executing", "completed"}
    BY <1>0, <1>1, PassMoves
  <2>2. YieldedOnce'
    BY <2>1, YieldedKept
  <2>3. loop' = "filling" \/ (loop' = "draining" /\ fill' = 0)
    BY <1>1 DEF ProcessQueue, FillGoesOn, FillEnds
  <2> QED  BY <2>2, <2>3 DEF DrainOver
<1>2. CASE ~ HasUnfinished /\ loop' = "returned" /\ UNCHANGED <<status, fill>>
  BY <1>2, YieldedKept DEF HasUnfinished, DrainOver
<1> QED
  BY <1>1, <1>2 DEF Round

\* A step beside the drain: nothing yielded changes.
LEMMA DrainKept ==
  ASSUME IInv, Control, YieldedOnce, DrainOver,
         UNCHANGED <<block, discarded, progress, emitted>>,
         \A t \in Tools :
           \/ status'[t] = status[t]
           \/ status[t] # "yielded" /\ status'[t] \in {"executing", "completed"},
         \/ UNCHANGED <<loop, fill>>
         \/ fill # 0 /\ loop' = "filling"
         \/ fill # 0 /\ loop' = "draining" /\ fill' = 0
  PROVE  YieldedOnce' /\ DrainOver'
<1>1. YieldedOnce'
  BY YieldedKept
<1>2. 1..Len(block) \subseteq Tools
  BY BoundAssumption DEF IInv, Schedule, Shaped, Tools
<1>3. DrainOver'
  BY <1>2 DEF DrainOver
<1> QED  BY <1>1, <1>3

LEMMA DrainStep ==
  IInv /\ Control /\ YieldedOnce /\ DrainOver /\ [Next]_vars
  => YieldedOnce' /\ DrainOver'
<1> SUFFICES ASSUME IInv, Control, YieldedOnce, DrainOver, [Next]_vars
             PROVE  YieldedOnce' /\ DrainOver'
  OBVIOUS
<1>0. /\ status \in [Tools -> Statuses] /\ progress \in [Tools -> Progress]
      /\ emitted \in Seq(Tools)
  BY DEF IInv, Schedule, Shaped, Control
<1>1. ASSUME NEW kind \in Kinds, AddTool(kind)
      PROVE  YieldedOnce' /\ DrainOver'
  <2> DEFINE t == Len(block) + 1
  <2>1. t \in Tools /\ status[t] = "absent"
    BY <1>1, BoundAssumption DEF AddTool, IInv, Schedule, Shaped, Tools
  <2>2. loop = "streaming" /\ UNCHANGED <<loop, fill, progress, emitted>>
    BY <1>1 DEF AddTool, ProcessQueue, FillGoesOn, FillEnds
  <2>3. \A u \in Tools :
          \/ status'[u] = status[u]
          \/ status[u] # "yielded" /\ status'[u] \in {"executing", "completed"}
          \/ status[u] = "absent" /\ status'[u] = "queued"
    <3>1. CASE ~ kind.known
      BY <1>0, <1>1, <2>1, <3>1 DEF AddTool
    <3>2. CASE kind.known
      <4> DEFINE st == [status EXCEPT ![t] = "queued"]
      <4>1. st \in [Tools -> Statuses]
        BY <1>0 DEF Statuses
      <4>2. ProcessQueue(1, Append(block, kind), st, paused, settled, FALSE)
        BY <1>1, <3>2 DEF AddTool
      <4> HIDE DEF st
      <4>3. \A u \in Tools :
              \/ status'[u] = st[u]
              \/ st[u] = "queued" /\ status'[u] \in {"executing", "completed"}
        BY <4>1, <4>2, PassMoves
      <4>4. st[t] = "queued" /\ \A u \in Tools : u # t => st[u] = status[u]
        BY <1>0, <2>1 DEF st
      <4> QED  BY <2>1, <4>3, <4>4
    <3> QED  BY <3>1, <3>2
  <2>4. YieldedOnce'
    BY <2>2, <2>3, YieldedKept
  <2> QED  BY <2>2, <2>4 DEF DrainOver
<1>2. CASE Poll \/ EndPoll \/ Discard
  <2>1. /\ UNCHANGED <<status, progress, emitted, fill>>
        /\ loop' = "returned" => discarded'
        /\ loop # "filling" /\ loop' # "filling"
    BY <1>2 DEF Poll, EndPoll, Discard, toolVars, abortVars
  <2> QED  BY <2>1, YieldedKept DEF DrainOver
<1>3. CASE EndStream \/ Wake
  BY <1>3, RoundDrains DEF EndStream, Wake, abortVars
<1>4. CASE EndRound
  <2>1. CASE Round
    BY <1>4, <2>1, RoundDrains DEF EndRound, abortVars
  <2>2. CASE loop' = "racing" /\ UNCHANGED <<status, fill>>
    BY <1>4, <2>2, YieldedKept DEF EndRound, DrainOver
  <2> QED  BY <1>4, <2>1, <2>2 DEF EndRound
\* Progress is shown while the tool executes or has completed.
<1>5. ASSUME NEW t \in Tools, EmitProgress(t)
      PROVE  YieldedOnce' /\ DrainOver'
  <2>1. /\ UNCHANGED <<status, emitted, loop, fill, block, discarded>>
        /\ \A u \in Tools : progress'[u] = "pending" => progress[u] = "pending"
    BY <1>0, <1>5 DEF EmitProgress, abortVars
  <2> QED  BY <2>1 DEF YieldedOnce, DrainOver
\* The results of a tool join those yielded before.
<1>6. ASSUME NEW t \in Tools, EmitResults(t)
      PROVE  YieldedOnce' /\ DrainOver'
  <2>1. /\ UNCHANGED <<progress, loop, fill>>
        /\ loop \in {"polling", "draining"}
        /\ status[t] = "completed" /\ progress[t] # "pending"
        /\ status'[t] = "yielded"
        /\ \A u \in Tools : u # t => status'[u] = status[u]
        /\ emitted' = Append(emitted, t)
    BY <1>0, <1>6 DEF EmitResults, FirstStop, toolVars
  <2>2. /\ Len(emitted) \in Nat /\ Len(emitted') = Len(emitted) + 1
        /\ emitted'[Len(emitted) + 1] = t
        /\ \A i \in 1..Len(emitted) : emitted'[i] = emitted[i] /\ emitted[i] \in Tools
    BY <1>0, <2>1
  <2>3. \A i \in 1..Len(emitted) : emitted[i] # t /\ status'[emitted[i]] = "yielded"
    BY <2>1, <2>2 DEF YieldedOnce
  <2>4. \A i \in 1..Len(emitted') : i \in 1..Len(emitted) \/ i = Len(emitted) + 1
    BY <2>2
  <2>5. \A i \in 1..Len(emitted') : status'[emitted'[i]] = "yielded"
    BY <2>1, <2>2, <2>3, <2>4
  <2>6. ASSUME NEW u \in Tools, status'[u] = "yielded"
        PROVE  \E i \in 1..Len(emitted') : emitted'[i] = u
    <3>1. CASE u = t
      <4>1. Len(emitted) + 1 \in 1..Len(emitted')
        BY <2>2
      <4> QED  BY <2>2, <3>1, <4>1
    <3>2. CASE u # t
      <4>1. PICK i \in 1..Len(emitted) : emitted[i] = u
        BY <2>1, <2>6, <3>2 DEF YieldedOnce
      <4>2. i \in 1..Len(emitted') /\ emitted'[i] = u
        BY <2>2, <4>1
      <4> QED  BY <4>2
    <3> QED  BY <3>1, <3>2
  <2>7. \A i, j \in 1..Len(emitted') : emitted'[i] = emitted'[j] => i = j
    BY <2>2, <2>3, <2>4 DEF YieldedOnce
  <2>8. \A u \in Tools :
          status'[u] \notin {"executing", "completed"} => progress'[u] # "pending"
    BY <2>1 DEF YieldedOnce
  <2> QED  BY <2>1, <2>5, <2>6, <2>7, <2>8 DEF YieldedOnce, DrainOver
<1>7. ASSUME NEW t \in Tools, Resume(t) \/ ProcessAgain(t)
      PROVE  YieldedOnce' /\ DrainOver'
  <2>1. PICK from, others, due, mine :
          /\ ProcessQueue(from, block, status, others, due, mine)
          /\ mine \in BOOLEAN /\ (mine => fill = t)
    BY <1>7 DEF Resume, ProcessAgain
  <2>2. \A u \in Tools :
          \/ status'[u] = status[u]
          \/ status[u] = "queued" /\ status'[u] \in {"executing", "completed"}
    BY <1>0, <2>1, PassMoves
  <2>3. \/ UNCHANGED <<loop, fill>>
        \/ fill # 0 /\ loop' = "filling"
        \/ fill # 0 /\ loop' = "draining" /\ fill' = 0
    <3>1. t # 0
      BY BoundAssumption DEF Tools
    <3> QED  BY <2>1, <3>1 DEF ProcessQueue, FillGoesOn, FillEnds
  <2>4. UNCHANGED <<block, discarded, progress, emitted>>
    BY <1>7 DEF Resume, ProcessAgain, abortVars
  <2> QED  BY <2>2, <2>3, <2>4, DrainKept
<1>8. ASSUME NEW t \in Tools,
             GiveUp(t) \/ Succeed(t) \/ Fail(t) \/ Reject(t) \/ Complete(t)
      PROVE  YieldedOnce' /\ DrainOver'
  <2>1. /\ UNCHANGED <<block, discarded, progress, emitted, loop, fill>>
        /\ \A u \in Tools :
             \/ status'[u] = status[u]
             \/ status[u] # "yielded" /\ status'[u] \in {"executing", "completed"}
    BY <1>0, <1>8 DEF GiveUp, Succeed, Fail, Reject, Complete, Running, toolRest,
       toolVars, abortVars, loopVars
  <2> QED  BY <2>1, DrainKept
<1>9. ASSUME NEW t \in Tools, Report(t)
      PROVE  YieldedOnce' /\ DrainOver'
  <2>1. /\ UNCHANGED <<block, status, emitted, loop, fill, discarded>>
        /\ status[t] = "executing"
        /\ \A u \in Tools : u # t => progress'[u] = progress[u]
    BY <1>0, <1>9 DEF Report, Running, toolRest, loopVars, abortVars
  <2> QED  BY <2>1 DEF YieldedOnce, DrainOver
<1>10. CASE (\E reason \in Aborts : Abort(reason)) \/ UNCHANGED vars
  <2>1. UNCHANGED <<block, status, progress, emitted, loop, fill, discarded>>
    BY <1>10 DEF Abort, vars, toolRest, toolVars, loopVars, abortVars
  <2> QED  BY <2>1, DrainKept
<1> QED
  BY <1>1, <1>2, <1>3, <1>4, <1>5, <1>6, <1>7, <1>8, <1>9, <1>10
     DEF Next, QueryLoop, ToolSteps

\* As many results were yielded as there are tools: the sequence of what was
\* yielded is a bijection.
LEMMA YieldedAll ==
  ASSUME IInv, Control, YieldedOnce,
         \A t \in 1..Len(block) : status[t] = "yielded"
  PROVE  Len(emitted) = Len(block)
<1> DEFINE n == Len(emitted)
           S == 1..Len(block)
<1>1. n \in Nat /\ Len(block) \in Nat /\ S \subseteq Tools
  BY BoundAssumption DEF IInv, Schedule, Shaped, Control, Tools
<1>2. \A i \in 1..n : emitted[i] \in S
  <2>1. ASSUME NEW i \in 1..n PROVE emitted[i] \in S
    <3>1. emitted[i] \in Tools /\ status[emitted[i]] = "yielded"
      BY DEF Control, YieldedOnce
    <3>2. ~ (emitted[i] > Len(block))
      BY <3>1 DEF IInv, Schedule, Shaped
    <3> QED  BY <1>1, <3>1, <3>2 DEF Tools
  <2> QED  BY <2>1
<1>3. emitted \in Bijection(1..n, S)
  <2>1. emitted \in [1..n -> S]
    BY <1>2 DEF Control
  <2>2. \A i, j \in 1..n : emitted[i] = emitted[j] => i = j
    BY DEF YieldedOnce
  <2>3. \A t \in S : \E i \in 1..n : emitted[i] = t
    BY <1>1 DEF YieldedOnce
  <2> QED  BY <2>1, <2>2, <2>3 DEF Bijection, Injection, Surjection, IsInjective
<1>4. Cardinality(S) = n
  <2>1. ExistsBijection(1..n, S)
    BY <1>3 DEF ExistsBijection
  <2> HIDE DEF n, S
  <2> QED  BY <1>1, <2>1, FS_CountingElements
<1>5. Cardinality(S) = Len(block)
  <2>1. 1 \in Int /\ Len(block) \in Int
    BY <1>1
  <2>2. Cardinality(S) = IF 1 > Len(block) THEN 0 ELSE Len(block) - 1 + 1
    BY <2>1, FS_Interval
  <2> QED  BY <1>1, <2>2
<1> QED  BY <1>4, <1>5

\* When the drain of a response is over, the results of every tool have been
\* yielded, once, and no progress was left behind.
THEOREM NothingLeftBehind == Spec => []DrainedCompletely
<1>1. IInv /\ Control /\ YieldedOnce /\ DrainOver => DrainedCompletely
  <2> SUFFICES ASSUME IInv, Control, YieldedOnce, DrainOver,
                      loop = "returned", ~ discarded
               PROVE  /\ \A t \in 1..Len(block) :
                           \E i \in DOMAIN emitted : emitted[i] = t
                      /\ Len(emitted) = Len(block)
                      /\ \A t \in Tools : progress[t] # "pending"
    BY DEF DrainedCompletely
  <2>1. \A t \in 1..Len(block) : t \in Tools /\ status[t] = "yielded"
    BY BoundAssumption DEF DrainOver, IInv, Schedule, Shaped, Tools
  <2>2. \A t \in Tools : t \in 1..Len(block) \/ status[t] = "absent"
    BY BoundAssumption DEF IInv, Schedule, Shaped, Tools
  <2>3. DOMAIN emitted = 1..Len(emitted)
    BY DEF Control
  <2> QED  BY <2>1, <2>2, <2>3, YieldedAll DEF YieldedOnce
<1> QED
  BY <1>1, DrainInit, DrainStep, ControlInit, ControlStep, IInvAlways, PTL DEF Spec

-----------------------------------------------------------------------------
(* Nobody waits for something that will not come.                          *)

\* A queued tool has a tool that executes, or one that ended and has yet to begin
\* a pass over the array.
Attended(st, due) ==
  (\E t \in Tools : st[t] = "queued") => Executing(st) # {} \/ due # {}

Awaits ==
  /\ loop = "filling" => fill \in paused
  /\ loop = "racing" => awaited # {}

LEMMA FirstQueued ==
  ASSUME NEW st, \E t \in Tools : st[t] = "queued"
  PROVE  \E t \in Tools :
           st[t] = "queued" /\ \A u \in Tools : u < t => st[u] # "queued"
<1> DEFINE Q == {t \in Tools : st[t] = "queued"}
           less == OpToRel(<, Nat)
<1>1. Q \in SUBSET Nat /\ Q # {}
  BY DEF Tools
<1>2. IsWellFoundedOn(less, Nat)
  BY NatLessThanWellFounded
<1>3. \A m, n \in Nat : <<m, n>> \in less <=> m < n
  BY DEF OpToRel
<1> HIDE DEF less
<1>4. PICK t \in Q : \A u \in Q : ~ (<<u, t>> \in less)
  <2> HIDE DEF Q
  <2> QED
    BY <1>1, <1>2, WFMin, Zenon
<1>5. \A u \in Q : ~ (u < t)
  BY <1>1, <1>3, <1>4
<1> QED
  BY <1>4, <1>5

\* A pass over the whole array starts a queued tool if nothing executes.
LEMMA PassFromStartStarts ==
  ASSUME NEW blk, NEW st, Shaped(blk, st), Executing(st) = {},
         \E t \in Tools : st[t] = "queued"
  PROVE  \E t \in Tools : Starts(1, blk, st, t)
<1>1. PICK t \in Tools :
         st[t] = "queued" /\ \A u \in Tools : u < t => st[u] # "queued"
  BY FirstQueued
<1>2. t \in 1..Len(blk)
  <2>1. Len(blk) \in Nat /\ t \in Nat /\ 1 <= t
    BY DEF Shaped, Tools
  <2>2. ~ (t > Len(blk))
    BY <1>1 DEF Shaped
  <2> QED
    BY <2>1, <2>2
<1> QED
  BY <1>1, <1>2 DEF Starts, CanExecute

\* A pass that goes on from the middle may rely on those who wait already; one
\* that it starts will be followed by a pass when it ends.
LEMMA PassAttends ==
  ASSUME NEW from, NEW blk, NEW st, NEW others, NEW due, NEW mine,
         Shaped(blk, st), from = 1 \/ Attended(st, due),
         ProcessQueue(from, blk, st, others, due, mine)
  PROVE  Attended(status', settled')
<1>1. CASE \E t \in Tools : Starts(from, blk, st, t) /\ Execute(blk, st, t, due)
  <2>1. PICK t \in Tools : Execute(blk, st, t, due)
    BY <1>1
  <2>2. status'[t] = "executing" \/ t \in settled'
    BY <2>1 DEF Execute, Shaped
  <2> QED
    BY <2>2 DEF Attended, Executing
<1>2. CASE status' = st /\ settled' = due /\ ~ \E t \in Tools : Starts(from, blk, st, t)
  BY <1>2, PassFromStartStarts DEF Attended
<1> QED
  BY <1>1, <1>2 DEF ProcessQueue

LEMMA PassAwaits ==
  ASSUME Awaits, NEW from, NEW blk, NEW st, NEW others, NEW due, NEW mine \in BOOLEAN,
         ProcessQueue(from, blk, st, others, due, mine),
         ~ mine => UNCHANGED awaited /\ (loop = "filling" => fill \in others)
  PROVE  Awaits'
<1>1. CASE \E t \in Tools : paused' = others \cup {t} /\ FillGoesOn(mine, t)
  BY <1>1 DEF Awaits, FillGoesOn
<1>2. CASE paused' = others /\ FillEnds(mine)
  BY <1>2 DEF Awaits, FillEnds
<1> QED
  BY <1>1, <1>2 DEF ProcessQueue

LEMMA RoundAttends ==
  ASSUME IInv, Attended(status, settled), Awaits, Round
  PROVE  Attended(status', settled') /\ Awaits'
<1>1. CASE ProcessQueue(1, block, status, paused, settled, TRUE)
  BY <1>1, PassAttends, PassAwaits DEF IInv, Schedule
<1>2. CASE loop' = "returned" /\ UNCHANGED <<status, settled>>
  BY <1>2 DEF Awaits
<1> QED
  BY <1>1, <1>2 DEF Round

LEMMA AddToolAttends ==
  ASSUME IInv, Attended(status, settled), Awaits, NEW kind \in Kinds, AddTool(kind)
  PROVE  Attended(status', settled') /\ Awaits'
<1> DEFINE t == Len(block) + 1
           blk == Append(block, kind)
<1>1. /\ block \in Seq(Kinds) /\ Len(block) \in Nat /\ t \in Tools
      /\ status \in [Tools -> Statuses] /\ status[t] = "absent"
  BY BoundAssumption DEF AddTool, IInv, Schedule, Shaped, Tools
<1>2. CASE kind.known
  <2> DEFINE st == [status EXCEPT ![t] = "queued"]
  <2>1. ProcessQueue(1, blk, st, paused, settled, FALSE) /\ UNCHANGED awaited
    BY <1>2 DEF AddTool
  <2>2. Shaped(blk, st)
    <3>1. /\ blk \in Seq(Kinds) /\ Len(blk) = t /\ t <= MaxTools
      BY <1>1, BoundAssumption DEF Tools
    <3>2. \A u \in Tools : st[u] = "absent" <=> u > t
      <4>1. \A u \in Tools : u \in Nat /\ (status[u] = "absent" <=> u > Len(block))
        BY DEF IInv, Schedule, Shaped, Tools
      <4> QED
        BY <1>1, <4>1
    <3> QED
      BY <1>1, <3>1, <3>2 DEF Shaped, Statuses
  <2> HIDE DEF st, blk
  <2> QED
    BY <2>1, <2>2, PassAttends, PassAwaits DEF Awaits
<1>3. CASE ~ kind.known
  <2>1. /\ status' = [status EXCEPT ![t] = "completed"]
        /\ UNCHANGED <<settled, paused, loop, fill, awaited>>
    BY <1>3 DEF AddTool
  <2>2. /\ \A u \in Tools : status'[u] = "queued" => status[u] = "queued"
        /\ \A u \in Executing(status) : u \in Executing(status')
    BY <1>1, <2>1 DEF Executing
  <2> QED
    BY <2>1, <2>2 DEF Attended, Awaits
<1> QED
  BY <1>2, <1>3

\* The steps that start no pass: tools that are not queued end or are yielded,
\* and the end of a tool leaves a pass to be begun.
LEMMA AttendedKept ==
  ASSUME IInv, Attended(status, settled),
         \A t \in Tools : status'[t] = "queued" => status[t] = "queued",
         \/ \A t \in Executing(status) : t \in Executing(status')
         \/ settled' # {},
         settled \subseteq settled'
  PROVE  Attended(status', settled')
BY DEF Attended

LEMMA AttendStep ==
  ASSUME IInv, Attended(status, settled), Awaits, [Next]_vars
  PROVE  Attended(status', settled') /\ Awaits'
<1> status \in [Tools -> Statuses] /\ Shaped(block, status)
  BY DEF IInv, Schedule, Shaped
<1>1. CASE \E kind \in Kinds : AddTool(kind)
  BY <1>1, AddToolAttends
<1>2. CASE Poll \/ EndPoll \/ Discard
  BY <1>2 DEF Poll, EndPoll, Discard, Awaits
<1>3. CASE EndStream \/ Wake
  BY <1>3, RoundAttends DEF EndStream, Wake
<1>4. CASE EndRound
  <2>1. CASE Round
    BY <2>1, RoundAttends
  <2>2. CASE /\ MustWait /\ loop' = "racing" /\ awaited' = Executing(status)
             /\ UNCHANGED <<status, settled>>
    BY <2>2 DEF MustWait, Awaits
  <2> QED
    BY <1>4, <2>1, <2>2 DEF EndRound
<1>5. CASE \E t \in Tools : EmitProgress(t)
  BY <1>5 DEF EmitProgress, Awaits
<1>6. CASE \E t \in Tools : EmitResults(t)
  <2>1. /\ \A t \in Tools : status'[t] = "queued" => status[t] = "queued"
        /\ \A t \in Executing(status) : t \in Executing(status')
        /\ UNCHANGED <<settled, paused, loop, fill, awaited>>
    BY <1>6 DEF EmitResults, Executing
  <2> QED
    BY <2>1, AttendedKept DEF Awaits
<1>7. ASSUME NEW t \in Tools, Resume(t)
      PROVE  Attended(status', settled') /\ Awaits'
  <2>1. /\ ProcessQueue(t + 1, block, status, paused \ {t}, settled, fill = t)
        /\ UNCHANGED awaited
    BY <1>7 DEF Resume
  <2>2. fill # t => (loop = "filling" => fill \in paused \ {t})
    BY DEF Awaits
  <2> QED
    BY <2>1, <2>2, PassAttends, PassAwaits
<1>8. ASSUME NEW t \in Tools, ProcessAgain(t)
      PROVE  Attended(status', settled') /\ Awaits'
  <2>1. /\ ProcessQueue(1, block, status, paused, settled \ {t}, FALSE)
        /\ UNCHANGED awaited
    BY <1>8 DEF ProcessAgain
  <2> QED
    BY <2>1, PassAttends, PassAwaits DEF Awaits
<1>9. ASSUME NEW t \in Tools, Complete(t)
      PROVE  Attended(status', settled') /\ Awaits'
  <2>1. /\ \A u \in Tools : status'[u] = "queued" => status[u] = "queued"
        /\ t \in settled' /\ settled \subseteq settled'
        /\ UNCHANGED <<paused, loopVars>>
    BY <1>9 DEF Complete
  <2> QED
    BY <2>1, AttendedKept DEF Awaits, loopVars
<1>10. CASE \E t \in Tools : GiveUp(t) \/ Report(t) \/ Succeed(t) \/ Fail(t) \/ Reject(t)
  BY <1>10 DEF GiveUp, Report, Succeed, Fail, Reject, toolRest, loopVars, Awaits
<1>11. CASE \E reason \in Aborts : Abort(reason)
  BY <1>11 DEF Abort, toolRest, loopVars, Awaits
<1>12. CASE UNCHANGED vars
  BY <1>12 DEF vars, loopVars, Awaits
<1> QED
  BY <1>1, <1>2, <1>3, <1>4, <1>5, <1>6, <1>7, <1>8, <1>9, <1>10, <1>11, <1>12
     DEF Next, QueryLoop, ToolSteps

\* Nobody waits for nothing: what is queued has an executing tool or a due pass
\* that will come to it, and the drain awaits what is still under way.
THEOREM NobodyIsForgotten == Spec => []NobodyForgotten
<1>1. Init => Attended(status, settled) /\ Awaits
  BY DEF Init, Attended, Awaits
<1>2. IInv /\ Control /\ Attended(status, settled) /\ Awaits => NobodyForgotten
  <2> SUFFICES ASSUME IInv, Control, Attended(status, settled), Awaits
               PROVE  NobodyForgotten
    OBVIOUS
  <2>1. ASSUME loop = "racing"
        PROVE  RaceWon \/ \E t \in awaited : t \in Executing(status)
    BY <2>1 DEF Awaits, Control, RaceWon, Executing
  <2> QED
    BY <2>1 DEF Attended, Awaits, NobodyForgotten
<1> DEFINE Waits == Attended(status, settled) /\ Awaits
<1>3. IInv /\ Waits /\ [Next]_vars => Waits'
  BY AttendStep
<1>4. Init => Waits
  BY <1>1
<1>5. IInv /\ Control /\ Waits => NobodyForgotten
  BY <1>2
<1> HIDE DEF Waits
<1> QED
  BY <1>3, <1>4, <1>5, ControlInit, ControlStep, IInvAlways, PTL DEF Spec
=============================================================================
