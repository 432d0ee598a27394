------------------------- MODULE TurnLifecycleProofs ------------------------
(***************************************************************************)
(* Proofs about TurnLifecycle for any number of turns and commands, any    *)
(* number of interruptions, and both orders of effects and continuations.  *)
(***************************************************************************)
EXTENDS TurnLifecycle, CommandQueueOpsProofs, FiniteSetTheorems, TLAPS

\* The part of the type invariant the argument needs.
Shape ==
  /\ status \in {"idle", "dispatching", "running"}
  /\ pc \in [Turns -> Phases]
  /\ DOMAIN gen = Turns

LEMMA ShapeInit == Init => Shape
BY DEF Init, Shape, Phases

LEMMA ShapeStep == Shape /\ [Next]_vars => Shape'
<1> SUFFICES ASSUME Shape, [Next]_vars
             PROVE  Shape'
  OBVIOUS
<1> USE DEF Shape, Phases, guardVars, turnVars, Unreserved
<1>1. CASE \E t \in Turns, cmd \in UserCommands : SubmitIdle(t, cmd)
  BY <1>1 DEF SubmitIdle, StartExecution, Reserved
<1>2. CASE \E t \in Turns : ProcessQueue(t)
  BY <1>2 DEF ProcessQueue, StartExecution, Reserved
<1>3. CASE \E t \in Turns, cmd \in TeammateMessages : IncomingPrompt(t, cmd)
  BY <1>3 DEF IncomingPrompt, TryStart
<1>4. CASE \E t \in Turns : ProcessingThrows(t)
  BY <1>4 DEF ProcessingThrows
<1>5. CASE \E t \in Turns : ProcessingIsLocal(t)
  BY <1>5 DEF ProcessingIsLocal
<1>6. CASE \E t \in Turns : QueryStarts(t)
  BY <1>6 DEF QueryStarts, TryStart
<1>7. CASE \E t \in Turns : QueryRefused(t)
  BY <1>7 DEF QueryRefused
<1>8. CASE \E t \in Turns, local \in BOOLEAN : QueryEnds(t, local)
  BY <1>8 DEF QueryEnds, Vacate
<1>9. CASE \E t \in Turns : Settle(t)
  BY <1>9 DEF Settle, Vacate
<1>10. CASE \E t \in Turns, followUps \in FollowUps : Return(t, followUps)
  BY <1>10 DEF Return, Vacate
<1>11. CASE \E t \in Turns : Unwind(t)
  BY <1>11 DEF Unwind, Vacate
<1>12. CASE Cancel \/ Timeout
  BY <1>12 DEF Cancel, Timeout, ForceEnd
<1>13. CASE UNCHANGED <<status, pc, gen>>
  BY <1>13
<1>14. ASSUME NEW cmd, SubmitActive(cmd) \/ Notify(cmd) \/ KillAgents(cmd)
       PROVE  UNCHANGED <<status, pc, gen>>
  BY <1>14 DEF SubmitActive, Notify, KillAgents
<1>15. ASSUME NEW t, NEW threshold, BeginDrain(t, threshold) \/ EndDrain(t)
       PROVE  UNCHANGED <<status, pc, gen>>
  BY <1>15 DEF BeginDrain, EndDrain
<1>16. CASE PopQueue \/ AbortForUrgent \/ UNCHANGED vars
  BY <1>13, <1>16 DEF PopQueue, AbortForUrgent, vars
<1> QED
  BY <1>1, <1>2, <1>3, <1>4, <1>5, <1>6, <1>7, <1>8, <1>9, <1>10, <1>11, <1>12,
     <1>13, <1>14, <1>15, <1>16 DEF Next

-----------------------------------------------------------------------------
(* The guard is never stuck.                                               *)

\* The turn that keeps a running guard from being stuck.
Owner(t) == pc[t] = "querying" /\ gen[t] = generation

\* A turn that leaves "processing" ends the reservation, by starting its query
\* or by cancelling; so a reservation always has a turn behind it, whosever
\* it was to begin with.
LEMMA ActiveHasTurnStep ==
  Shape /\ ActiveHasTurn /\ [Next]_vars => ActiveHasTurn'
<1> SUFFICES ASSUME Shape, ActiveHasTurn, [Next]_vars
             PROVE  ActiveHasTurn'
  OBVIOUS
<1>0. Shape'
  BY ShapeStep
<1> USE DEF Shape, Phases, ActiveHasTurn, guardVars, turnVars, Unreserved
<1>1. ASSUME NEW t \in Turns, NEW cmds, status = "idle",
             StartExecution(t, cmds)
      PROVE  ActiveHasTurn'
  <2>1. status' = "dispatching" /\ pc'[t] = "processing"
    BY <1>1 DEF StartExecution, Reserved
  <2> QED  BY <2>1
<1>2. CASE \E t \in Turns, cmd \in UserCommands : SubmitIdle(t, cmd)
  BY <1>1, <1>2 DEF SubmitIdle
<1>3. CASE \E t \in Turns : ProcessQueue(t)
  BY <1>1, <1>3 DEF ProcessQueue
<1>4. ASSUME NEW t \in Turns, TryStart(t),
             pc' = [pc EXCEPT ![t] = "querying"]
      PROVE  ActiveHasTurn'
  <2>1. status' = "running" /\ pc'[t] = "querying" /\ gen'[t] = generation'
    BY <1>4 DEF TryStart
  <2> QED  BY <2>1
<1>5. CASE \E t \in Turns, cmd \in TeammateMessages : IncomingPrompt(t, cmd)
  BY <1>4, <1>5 DEF IncomingPrompt
<1>6. CASE \E t \in Turns : QueryStarts(t)
  BY <1>4, <1>6 DEF QueryStarts
\* The status, the generation and the turns that query stay as they are, and
\* the reservation, if it stays, keeps the turns that process their input.
<1>7. ASSUME NEW t \in Turns, pc[t] # "querying",
             generation' = generation,
             pc' = [pc EXCEPT ![t] = pc'[t]],
             gen' = gen \/ gen' = [gen EXCEPT ![t] = 0],
             \/ status' = status /\ status # "dispatching"
             \/ status' = Unreserved
             \/ status' = status /\ pc'[t] = "unwinding"
      PROVE  ActiveHasTurn'
  <2>1. ASSUME status' = "running"
        PROVE  \E u \in Turns : pc'[u] = "querying" /\ gen'[u] = generation'
    <3>1. PICK u \in Turns : Owner(u)
      BY <2>1, <1>7 DEF Owner
    <3>2. u # t
      BY <3>1, <1>7 DEF Owner
    <3> QED  BY <3>1, <3>2, <1>7 DEF Owner
  <2>2. ASSUME status' = "dispatching"
        PROVE  pc'[t] = "unwinding"
    BY <2>2, <1>7
  <2> QED  BY <2>1, <2>2
<1>8. CASE \E t \in Turns : ProcessingThrows(t)
  BY <1>7, <1>8 DEF ProcessingThrows
<1>9. CASE \E t \in Turns : ProcessingIsLocal(t)
  BY <1>7, <1>9 DEF ProcessingIsLocal
<1>10. CASE \E t \in Turns : QueryRefused(t)
  BY <1>7, <1>10 DEF QueryRefused
<1>11. ASSUME NEW t \in Turns, NEW local \in BOOLEAN, QueryEnds(t, local)
       PROVE  ActiveHasTurn'
  <2>1. CASE status = "running" /\ gen[t] = generation
    BY <2>1, <1>11 DEF QueryEnds
  <2>2. CASE ~ (status = "running" /\ gen[t] = generation)
    <3>1. /\ status' = status /\ generation' = generation
          /\ pc[t] = "querying" /\ pc'[t] # "processing" /\ pc'[t] # "unwinding"
          /\ \A u \in Turns \ {t} : pc'[u] = pc[u] /\ gen'[u] = gen[u]
      BY <2>2, <1>11 DEF QueryEnds, Vacate
    <3>2. ASSUME status' = "running"
          PROVE  \E u \in Turns : pc'[u] = "querying" /\ gen'[u] = generation'
      <4>1. PICK u \in Turns : Owner(u)
        BY <3>1, <3>2 DEF Owner
      <4>2. u # t
        BY <4>1, <3>1, <3>2, <2>2 DEF Owner
      <4> QED  BY <4>1, <4>2, <3>1 DEF Owner
    <3>3. ASSUME status' = "dispatching"
          PROVE  \E u \in Turns : pc'[u] \in {"processing", "unwinding"}
      BY <3>1, <3>3
    <3> QED  BY <3>2, <3>3
  <2> QED  BY <2>1, <2>2
<1>12. ASSUME NEW t \in Turns, Settle(t) PROVE ActiveHasTurn'
  <2>1. /\ status' = status /\ generation' = generation
        /\ \A u \in Turns : u # t => pc'[u] = pc[u] /\ gen'[u] = gen[u]
        /\ pc[t] = "settling"
    BY <1>12 DEF Settle, Vacate
  <2> QED  BY <2>1
<1>13. CASE \E t \in Turns, followUps \in FollowUps : Return(t, followUps)
  BY <1>7, <1>13 DEF Return, Vacate
<1>14. CASE \E t \in Turns : Unwind(t)
  BY <1>7, <1>14 DEF Unwind, Vacate
<1>15. CASE Cancel \/ Timeout
  BY <1>15 DEF Cancel, Timeout, ForceEnd
<1>16. CASE UNCHANGED <<status, generation, pc, gen>>
  BY <1>16
<1>17. ASSUME NEW cmd, SubmitActive(cmd) \/ Notify(cmd) \/ KillAgents(cmd)
       PROVE  UNCHANGED <<status, generation, pc, gen>>
  BY <1>17 DEF SubmitActive, Notify, KillAgents
<1>18. ASSUME NEW t, NEW threshold, BeginDrain(t, threshold) \/ EndDrain(t)
       PROVE  UNCHANGED <<status, generation, pc, gen>>
  BY <1>18 DEF BeginDrain, EndDrain
<1>19. CASE PopQueue \/ AbortForUrgent \/ UNCHANGED vars
  BY <1>16, <1>19 DEF PopQueue, AbortForUrgent, vars
<1> QED
  BY <1>2, <1>3, <1>5, <1>6, <1>8, <1>9, <1>10, <1>11, <1>12, <1>13, <1>14,
     <1>15, <1>16, <1>17, <1>18, <1>19 DEF Next

\* A reserved guard always has a call that will start the query or cancel the
\* reservation, and a running one the call that will end it, however turns
\* overlap, throw, lose the guard or are cancelled.
THEOREM GuardNeverStuck == Spec => []ActiveHasTurn
<1>1. Init => ActiveHasTurn
  BY DEF Init, ActiveHasTurn
<1> QED
  BY <1>1, ShapeInit, ShapeStep, ActiveHasTurnStep, PTL DEF Spec

-----------------------------------------------------------------------------
(* Turns before and after the first interruption, when React's effects wait *)
(* for the continuations that are due.                                     *)

\* Numbers and functions the arguments below compute with.
Numbers ==
  /\ generation \in Nat
  /\ gen \in [Turns -> Nat]
  /\ interrupts \in Nat

LEMMA NumbersInit == Init => Numbers
BY DEF Init, Numbers

LEMMA NumbersStep == Shape /\ Numbers /\ [Next]_vars => Numbers'
<1> SUFFICES ASSUME Shape, Numbers, [Next]_vars
             PROVE  Numbers'
  OBVIOUS
<1> USE DEF Numbers, guardVars, turnVars
<1>1. ASSUME NEW t \in Turns, NEW cmd, SubmitIdle(t, cmd) \/ ProcessQueue(t)
      PROVE  Numbers'
  BY <1>1 DEF SubmitIdle, ProcessQueue, StartExecution
<1>2. ASSUME NEW t \in Turns, NEW cmd, IncomingPrompt(t, cmd) \/ QueryStarts(t)
      PROVE  Numbers'
  BY <1>2 DEF IncomingPrompt, QueryStarts, TryStart
<1>3. ASSUME NEW t \in Turns,
             ProcessingThrows(t) \/ ProcessingIsLocal(t) \/ QueryRefused(t)
      PROVE  Numbers'
  BY <1>3 DEF ProcessingThrows, ProcessingIsLocal, QueryRefused
<1>4. ASSUME NEW t \in Turns, NEW local, NEW followUps,
             \/ QueryEnds(t, local) \/ Settle(t)
             \/ Return(t, followUps) \/ Unwind(t)
      PROVE  Numbers'
  BY <1>4 DEF QueryEnds, Settle, Return, Unwind, Vacate
<1>5. CASE Cancel \/ Timeout
  BY <1>5 DEF Cancel, Timeout, ForceEnd
<1>6. ASSUME NEW cmd, SubmitActive(cmd) \/ Notify(cmd) \/ KillAgents(cmd)
      PROVE  Numbers'
  BY <1>6 DEF SubmitActive, Notify, KillAgents
<1>7. ASSUME NEW t, NEW threshold, BeginDrain(t, threshold) \/ EndDrain(t)
      PROVE  Numbers'
  BY <1>7 DEF BeginDrain, EndDrain
<1>8. CASE PopQueue \/ AbortForUrgent \/ UNCHANGED vars
  BY <1>8 DEF PopQueue, AbortForUrgent, vars
<1> QED
  BY <1>1, <1>2, <1>3, <1>4, <1>5, <1>6, <1>7, <1>8 DEF Next

\* Until something is interrupted at most one slot is in use, the guard says
\* what the turn in it does, and the REPL holds its controller.
CalmTurn(t) ==
  /\ \A u \in Turns : Busy(t) /\ Busy(u) => u = t
  /\ pc[t] \in {"processing", "unwinding"} <=> Busy(t) /\ status = "dispatching"
  /\ pc[t] = "querying" <=> Busy(t) /\ status = "running"
  /\ pc[t] = "querying" => gen[t] = generation
  /\ pc[t] \in {"processing", "querying"} => controller = t

Calm == Undisturbed => \A t \in Turns : CalmTurn(t)

LEMMA CalmInit == Init => Calm
BY DEF Init, Calm, CalmTurn, Busy

\* While effects wait for continuations, a turn starts only when every slot is
\* free.
LEMMA CalmIdle ==
  ASSUME Shape, Calm, Undisturbed, NoContinuation, status = "idle"
  PROVE  \A t \in Turns : pc[t] = "free"
BY DEF Shape, Phases, Calm, CalmTurn, Busy, NoContinuation, Continuations

LEMMA CalmStep ==
  ~ EagerEffects /\ Shape /\ Numbers /\ Calm /\ [Next]_vars => Calm'
<1> SUFFICES ASSUME ~ EagerEffects, Shape, Numbers, Calm, [Next]_vars,
                    Undisturbed'
             PROVE  \A t \in Turns : CalmTurn(t)'
  BY DEF Calm
<1>0. interrupts' = interrupts \/ interrupts' = interrupts + 1
  <2>1. ASSUME NEW t \in Turns, NEW cmd, NEW threshold, NEW local, NEW followUps,
               \/ SubmitIdle(t, cmd) \/ ProcessQueue(t) \/ IncomingPrompt(t, cmd)
               \/ QueryStarts(t) \/ ProcessingThrows(t) \/ ProcessingIsLocal(t)
               \/ QueryRefused(t) \/ QueryEnds(t, local) \/ Settle(t)
               \/ Return(t, followUps) \/ Unwind(t)
               \/ BeginDrain(t, threshold) \/ EndDrain(t)
        PROVE  interrupts' = interrupts
    BY <2>1 DEF SubmitIdle, ProcessQueue, IncomingPrompt, QueryStarts,
       ProcessingThrows, ProcessingIsLocal, QueryRefused, QueryEnds, Settle,
       Return, Unwind, BeginDrain, EndDrain
  <2>2. ASSUME NEW cmd, SubmitActive(cmd) \/ Notify(cmd)
        PROVE  interrupts' = interrupts
    BY <2>2 DEF SubmitActive, Notify
  <2>3. ASSUME NEW cmd, KillAgents(cmd)
        PROVE  interrupts' = interrupts + 1
    BY <2>3 DEF KillAgents
  <2>4. CASE Cancel \/ Timeout
    BY <2>4 DEF Cancel, Timeout
  <2>5. CASE PopQueue \/ AbortForUrgent \/ UNCHANGED vars
    BY <2>5 DEF PopQueue, AbortForUrgent, vars
  <2> QED  BY <2>1, <2>2, <2>3, <2>4, <2>5 DEF Next
<1>1. interrupts' = interrupts /\ Undisturbed
  BY <1>0 DEF Undisturbed, Numbers
<1>2. \A t \in Turns : CalmTurn(t)
  BY <1>1 DEF Calm
<1> USE DEF Shape, Phases, guardVars, turnVars
\* A turn begins: the others are free.
<1>3. ASSUME NEW t \in Turns, NEW cmds, NoContinuation, status = "idle",
             StartExecution(t, cmds)
      PROVE  \A u \in Turns : CalmTurn(u)'
  <2>1. \A u \in Turns : pc[u] = "free"
    BY <1>1, <1>3, CalmIdle
  <2>2. /\ status' = "dispatching" /\ controller' = t
        /\ pc'[t] = "processing"
        /\ \A u \in Turns : u # t => pc'[u] = "free"
    BY <1>3, <2>1 DEF StartExecution, Reserved
  <2> QED  BY <2>2 DEF CalmTurn, Busy
<1>4. CASE \E t \in Turns, cmd \in UserCommands : SubmitIdle(t, cmd)
  BY <1>3, <1>4 DEF SubmitIdle
<1>5. CASE \E t \in Turns : ProcessQueue(t)
  BY <1>3, <1>5 DEF ProcessQueue
<1>6. ASSUME NEW t \in Turns, NEW cmd \in TeammateMessages,
             IncomingPrompt(t, cmd)
      PROVE  \A u \in Turns : CalmTurn(u)'
  <2>1. \A u \in Turns : pc[u] = "free"
    BY <1>1, <1>6, CalmIdle DEF IncomingPrompt
  <2>2. /\ status' = "running" /\ controller' = t
        /\ pc'[t] = "querying" /\ gen'[t] = generation'
        /\ \A u \in Turns : u # t => pc'[u] = "free"
    BY <1>6, <2>1 DEF IncomingPrompt, TryStart, Numbers
  <2> QED  BY <2>2 DEF CalmTurn, Busy
\* The turn in progress moves on: the other slots stay free.
<1>7. ASSUME NEW t \in Turns, pc[t] # "free"
      PROVE  \A u \in Turns : u # t => pc[u] = "free"
  BY <1>2, <1>7 DEF CalmTurn, Busy
<1>8. ASSUME NEW t \in Turns, QueryStarts(t)
      PROVE  \A u \in Turns : CalmTurn(u)'
  <2>1. /\ status' = "running" /\ controller' = t
        /\ pc'[t] = "querying" /\ gen'[t] = generation'
        /\ \A u \in Turns : u # t => pc'[u] = "free"
    BY <1>2, <1>7, <1>8 DEF QueryStarts, TryStart, Numbers, CalmTurn
  <2> QED  BY <2>1 DEF CalmTurn, Busy
<1>9. ASSUME NEW t \in Turns, ProcessingThrows(t)
      PROVE  \A u \in Turns : CalmTurn(u)'
  <2>1. /\ status' = "dispatching" /\ pc'[t] = "unwinding"
        /\ \A u \in Turns : u # t => pc'[u] = "free"
    BY <1>2, <1>7, <1>9 DEF ProcessingThrows, CalmTurn
  <2> QED  BY <2>1 DEF CalmTurn, Busy
<1>11. ASSUME NEW t \in Turns, QueryRefused(t)
       PROVE  FALSE
  BY <1>2, <1>11 DEF QueryRefused, CalmTurn
\* The guard is idle afterwards, and no turn processes or queries.
<1>12. ASSUME NEW t \in Turns, pc[t] # "free", status' = "idle",
              pc'[t] \in {"settling", "returning", "free"},
              \A u \in Turns : u # t => pc'[u] = pc[u]
       PROVE  \A u \in Turns : CalmTurn(u)'
  BY <1>7, <1>12 DEF CalmTurn, Busy
<1>13. ASSUME NEW t \in Turns, ProcessingIsLocal(t)
       PROVE  \A u \in Turns : CalmTurn(u)'
  <2>1. pc[t] = "processing" /\ status = "dispatching"
    BY <1>2, <1>13 DEF ProcessingIsLocal, CalmTurn
  <2> QED  BY <1>12, <1>13, <2>1 DEF ProcessingIsLocal, Unreserved
<1>14. ASSUME NEW t \in Turns, NEW local \in BOOLEAN, QueryEnds(t, local)
       PROVE  \A u \in Turns : CalmTurn(u)'
  <2>1. pc[t] = "querying" /\ status = "running" /\ gen[t] = generation
    BY <1>2, <1>14 DEF QueryEnds, CalmTurn
  <2> QED  BY <1>12, <1>14, <2>1 DEF QueryEnds
<1>15. ASSUME NEW t \in Turns, Settle(t)
       PROVE  \A u \in Turns : CalmTurn(u)'
  <2>1. pc[t] = "settling" /\ status = "idle"
    BY <1>2, <1>15 DEF Settle, CalmTurn, Busy
  <2> QED  BY <1>12, <1>15, <2>1 DEF Settle, Vacate
<1>16. ASSUME NEW t \in Turns, NEW followUps, Return(t, followUps)
       PROVE  \A u \in Turns : CalmTurn(u)'
  <2>1. pc[t] = "returning" /\ status = "idle"
    BY <1>2, <1>16 DEF Return, CalmTurn, Busy
  <2> QED  BY <1>12, <1>16, <2>1 DEF Return, Vacate, Unreserved
<1>17. ASSUME NEW t \in Turns, Unwind(t)
       PROVE  \A u \in Turns : CalmTurn(u)'
  <2>1. pc[t] = "unwinding" /\ status = "dispatching"
    BY <1>2, <1>17 DEF Unwind, CalmTurn
  <2> QED  BY <1>12, <1>17, <2>1 DEF Unwind, Vacate, Unreserved
\* The rest leaves turns, guard and controller alone.
<1>18. CASE UNCHANGED <<status, generation, pc, gen, controller>>
  BY <1>2, <1>18 DEF CalmTurn, Busy
<1>19. ASSUME NEW cmd, SubmitActive(cmd) \/ Notify(cmd) \/ KillAgents(cmd)
       PROVE  UNCHANGED <<status, generation, pc, gen, controller>>
  BY <1>19 DEF SubmitActive, Notify, KillAgents
<1>20. ASSUME NEW t, NEW threshold, BeginDrain(t, threshold) \/ EndDrain(t)
       PROVE  UNCHANGED <<status, generation, pc, gen, controller>>
  BY <1>20 DEF BeginDrain, EndDrain
<1>21. CASE PopQueue \/ AbortForUrgent \/ UNCHANGED vars
  BY <1>18, <1>21 DEF PopQueue, AbortForUrgent, vars
<1>22. CASE Cancel \/ Timeout
  BY <1>1, <1>22 DEF Cancel, Timeout, Numbers
<1> QED
  BY <1>4, <1>5, <1>6, <1>8, <1>9, <1>11, <1>13, <1>14, <1>15, <1>16, <1>17,
     <1>18, <1>19, <1>20, <1>21, <1>22 DEF Next

\* Generations tell the queries apart, up to and after any interruption.
Distinct ==
  \A t \in Turns :
    pc[t] = "querying" =>
      /\ gen[t] <= generation
      /\ \A u \in Turns : pc[u] = "querying" /\ gen[u] = gen[t] => u = t

LEMMA DistinctInit == Init => Distinct /\ LosersAborted
BY DEF Init, Distinct, LosersAborted

LEMMA DistinctStep ==
  /\ ~ EagerEffects /\ Shape /\ Numbers /\ Calm /\ Distinct /\ LosersAborted
  /\ [Next]_vars
  => Distinct' /\ LosersAborted'
<1> SUFFICES ASSUME ~ EagerEffects, Shape, Numbers, Calm, Distinct,
                    LosersAborted, [Next]_vars
             PROVE  Distinct' /\ LosersAborted'
  OBVIOUS
<1>0. Numbers'
  BY NumbersStep
<1> USE DEF Shape, Numbers, Phases, guardVars, turnVars
\* The guard stays with the query that has it, or with none, and no turn
\* begins to query.
<1>1. ASSUME NEW t \in Turns,
             generation' = generation,
             status' = status \/ status # "running",
             pc'[t] # "querying",
             \A u \in Turns : u # t => pc'[u] = pc[u] /\ gen'[u] = gen[u],
             aborted \ {t} \subseteq aborted',
             interrupts' = interrupts
      PROVE  Distinct' /\ LosersAborted'
  BY <1>1 DEF Distinct, LosersAborted
<1>2. ASSUME NEW t \in Turns, NEW cmds, status = "idle",
             StartExecution(t, cmds), interrupts' = interrupts
      PROVE  Distinct' /\ LosersAborted'
  BY <1>1, <1>2 DEF StartExecution
<1>3. CASE \E t \in Turns, cmd \in UserCommands : SubmitIdle(t, cmd)
  BY <1>2, <1>3 DEF SubmitIdle
<1>4. CASE \E t \in Turns : ProcessQueue(t)
  BY <1>2, <1>4 DEF ProcessQueue
\* A query begins: no other has its generation, and the others have lost the
\* guard already.
<1>5. ASSUME NEW t \in Turns, TryStart(t),
             pc' = [pc EXCEPT ![t] = "querying"],
             aborted \ {t} \subseteq aborted', interrupts' = interrupts
      PROVE  Distinct' /\ LosersAborted'
  <2>1. /\ status # "running" /\ status' = "running"
        /\ generation' = generation + 1
        /\ pc'[t] = "querying" /\ gen'[t] = generation + 1
        /\ \A u \in Turns : u # t => pc'[u] = pc[u] /\ gen'[u] = gen[u]
    BY <1>5 DEF TryStart
  <2>2. \A u \in Turns : u # t /\ pc'[u] = "querying" => gen'[u] <= generation
    BY <2>1 DEF Distinct
  <2>3. Distinct'
    <3>1. ASSUME NEW u \in Turns, pc'[u] = "querying",
                 NEW w \in Turns, pc'[w] = "querying", gen'[w] = gen'[u]
          PROVE  gen'[u] <= generation' /\ w = u
      BY <3>1, <2>1, <2>2 DEF Distinct
    <3> QED  BY <3>1 DEF Distinct
  <2>4. LosersAborted'
    <3>1. \A u \in Turns : u # t /\ pc[u] = "querying" /\ interrupts <= 1
                           => u \in aborted
      BY <2>1 DEF LosersAborted
    <3>2. \A u \in Turns : u # t /\ pc'[u] = "querying" /\ interrupts' <= 1
                           => u \in aborted'
      BY <3>1, <2>1, <1>5
    <3> QED  BY <3>2, <2>1 DEF LosersAborted
  <2> QED  BY <2>3, <2>4
<1>6. CASE \E t \in Turns, cmd \in TeammateMessages : IncomingPrompt(t, cmd)
  BY <1>5, <1>6 DEF IncomingPrompt
<1>7. CASE \E t \in Turns : QueryStarts(t)
  BY <1>5, <1>7 DEF QueryStarts
<1>8. CASE \E t \in Turns : ProcessingThrows(t)
  BY <1>1, <1>8 DEF ProcessingThrows
<1>9. CASE \E t \in Turns : ProcessingIsLocal(t)
  BY <1>1, <1>9 DEF ProcessingIsLocal, Unreserved
<1>10. CASE \E t \in Turns : QueryRefused(t)
  BY <1>1, <1>10 DEF QueryRefused
<1>11. ASSUME NEW t \in Turns, NEW local \in BOOLEAN, QueryEnds(t, local)
       PROVE  Distinct' /\ LosersAborted'
  <2>1. /\ pc[t] = "querying" /\ pc'[t] # "querying"
        /\ generation' = generation /\ interrupts' = interrupts
        /\ \A u \in Turns : u # t => pc'[u] = pc[u] /\ gen'[u] = gen[u]
        /\ aborted \ {t} \subseteq aborted'
    BY <1>11 DEF QueryEnds, Vacate
  <2>2. CASE status' = status
    BY <1>1, <2>1, <2>2
  \* The owner ends: the others had lost the guard before.
  <2>3. CASE gen[t] = generation
    <3>1. \A u \in Turns : u # t /\ pc[u] = "querying" => gen[u] # generation
      BY <2>1, <2>3 DEF Distinct
    <3> QED  BY <2>1, <3>1 DEF Distinct, LosersAborted
  <2> QED  BY <1>11, <2>2, <2>3 DEF QueryEnds
<1>12. CASE \E t \in Turns : Settle(t)
  BY <1>1, <1>12 DEF Settle, Vacate
<1>13. CASE \E t \in Turns, followUps \in FollowUps : Return(t, followUps)
  BY <1>1, <1>13 DEF Return, Vacate, Unreserved
<1>14. CASE \E t \in Turns : Unwind(t)
  BY <1>1, <1>14 DEF Unwind, Vacate, Unreserved
\* The first interruption that takes the guard away aborts the query that has
\* it, because the REPL holds its controller; nothing is said of a second.
<1>15. CASE Cancel \/ Timeout
  <2>1. /\ pc' = pc /\ gen' = gen
        /\ generation <= generation'
        /\ interrupts' = interrupts + 1
        /\ aborted' = IF controller = NoTurn THEN aborted
                      ELSE aborted \cup {controller}
    BY <1>15 DEF Cancel, Timeout, ForceEnd, Abort
  <2>2. Distinct'
    <3>1. generation' \in Nat /\ \A t \in Turns : gen[t] \in Nat
      BY <1>0
    <3>2. \A t \in Turns : gen[t] <= generation => gen[t] <= generation'
      BY <2>1, <3>1
    <3> QED  BY <2>1, <3>2 DEF Distinct
  <2>3. ASSUME interrupts' <= 1, NEW t \in Turns, pc[t] = "querying"
        PROVE  t \in aborted'
    <3>1. Undisturbed
      BY <2>1, <2>3 DEF Undisturbed
    <3>2. controller = t
      BY <2>3, <3>1 DEF Calm, CalmTurn
    <3> QED  BY <2>1, <2>3, <3>2, TurnsAssumption
  <2> QED  BY <2>1, <2>2, <2>3 DEF LosersAborted
\* The rest leaves guard and turns alone, and withdraws no abort.
<1>16. ASSUME UNCHANGED <<status, generation, pc, gen>>,
              aborted \subseteq aborted',
              interrupts' = interrupts \/ interrupts' = interrupts + 1
       PROVE  Distinct' /\ LosersAborted'
  BY <1>16 DEF Distinct, LosersAborted
<1>17. ASSUME NEW cmd, SubmitActive(cmd) \/ Notify(cmd) \/ KillAgents(cmd)
       PROVE  Distinct' /\ LosersAborted'
  BY <1>16, <1>17 DEF SubmitActive, Notify, KillAgents
<1>18. ASSUME NEW t, NEW threshold, BeginDrain(t, threshold) \/ EndDrain(t)
       PROVE  Distinct' /\ LosersAborted'
  BY <1>16, <1>18 DEF BeginDrain, EndDrain
<1>19. CASE PopQueue \/ AbortForUrgent \/ UNCHANGED vars
  BY <1>16, <1>19 DEF PopQueue, AbortForUrgent, Abort, vars
<1> QED
  BY <1>3, <1>4, <1>6, <1>7, <1>8, <1>9, <1>10, <1>11, <1>12, <1>13, <1>14,
     <1>15, <1>17, <1>18, <1>19 DEF Next

LEMMA BeforeAndAfterInterruption ==
  ASSUME ~ EagerEffects
  PROVE  Spec => [](Shape /\ Numbers /\ Calm /\ Distinct /\ LosersAborted)
<1>1. Init => Shape /\ Numbers /\ Calm /\ Distinct /\ LosersAborted
  BY ShapeInit, NumbersInit, CalmInit, DistinctInit
<1>2. /\ Shape /\ Numbers /\ Calm /\ Distinct /\ LosersAborted
      /\ [Next]_vars
      => (Shape /\ Numbers /\ Calm /\ Distinct /\ LosersAborted)'
  BY ShapeStep, NumbersStep, CalmStep, DistinctStep
<1> QED
  BY <1>1, <1>2, PTL DEF Spec

\* If effects wait for continuations, then until something is interrupted two
\* calls of executeUserInput() never process or query together, however many
\* turns, commands and teammates there are.
THEOREM TurnsDoNotOverlap ==
  ASSUME ~ EagerEffects
  PROVE  Spec => []OneExecution
<1>1. Shape /\ Calm => OneExecution
  <2> SUFFICES ASSUME Shape, Calm, Undisturbed
               PROVE  Cardinality({t \in Turns :
                                    pc[t] \in {"processing", "querying"}}) <= 1
    BY DEF OneExecution
  <2> DEFINE executing == {t \in Turns : pc[t] \in {"processing", "querying"}}
  <2>1. \A t, u \in executing : t = u
    BY DEF Calm, CalmTurn, Busy
  <2>2. CASE executing = {}
    BY <2>2, FS_EmptySet
  <2>3. ASSUME NEW t \in executing
        PROVE  Cardinality(executing) = 1
    <3>1. executing = {t}
      BY <2>1
    <3>2. Cardinality({t}) = 1
      BY FS_Singleton
    <3> QED  BY <3>1, <3>2
  <2> QED  BY <2>2, <2>3
<1> QED
  BY <1>1, BeforeAndAfterInterruption, PTL

\* If effects wait for continuations, then the first ESC, Ctrl+C or timeout
\* finds the controller of the query that runs.
THEOREM FirstInterruptFindsQuery ==
  ASSUME ~ EagerEffects
  PROVE  Spec => []FirstInterruptReaches
<1>1. Calm => FirstInterruptReaches
  BY DEF Calm, CalmTurn, FirstInterruptReaches, AlwaysInterruptible
<1> QED
  BY <1>1, BeforeAndAfterInterruption, PTL

\* If effects wait for continuations, then a query that lost the guard to the
\* first interruption was told to stop.
THEOREM FirstLosersAborted ==
  ASSUME ~ EagerEffects
  PROVE  Spec => []LosersAborted
BY BeforeAndAfterInterruption, PTL

-----------------------------------------------------------------------------
(* Where the commands are, whatever is interrupted and whenever effects run. *)

\* Every command that arrived is in one place: queued, in the batch of a turn
\* that has yet to query, or gone, delivered or dropped.
Places ==
  /\ queue \in Seq(Queueable)
  /\ batch \in [Turns -> Seq(Queueable)]
  /\ arrived \subseteq AllIds
  /\ delivered \in [AllIds -> Nat]
  /\ IdsDiffer(queue)
  /\ IdsOf(queue) \subseteq arrived
  /\ \A t \in Turns : pc[t] = "processing" =>
       /\ IdsDiffer(batch[t])
       /\ IdsOf(batch[t]) \subseteq arrived \ IdsOf(queue)
  /\ \A t, u \in Turns :
       pc[t] = "processing" /\ pc[u] = "processing" /\ t # u
       => IdsOf(batch[t]) \cap IdsOf(batch[u]) = {}
  /\ \A id \in arrived :
       \/ id \in IdsOf(queue) \/ delivered[id] > 0 \/ id \in dropped
       \/ \E t \in Turns : pc[t] = "processing" /\ id \in IdsOf(batch[t])

\* What a step may do to the types and to the fates of the commands.
Onward ==
  /\ queue' \in Seq(Queueable)
  /\ batch' \in [Turns -> Seq(Queueable)]
  /\ arrived \subseteq arrived' /\ arrived' \subseteq AllIds
  /\ delivered' \in [AllIds -> Nat]
  /\ \A id \in AllIds : delivered[id] <= delivered'[id]
  /\ dropped \subseteq dropped'

Gone(id) == delivered[id] > 0 \/ id \in dropped

\* A gone command stays gone.
LEMMA GoneForGood ==
  ASSUME Places, Onward, NEW id \in AllIds, Gone(id)
  PROVE  Gone(id)'
<1>1. delivered[id] \in Nat /\ delivered'[id] \in Nat /\ delivered[id] <= delivered'[id]
  BY DEF Places, Onward
<1> QED
  BY <1>1 DEF Gone, Onward

\* The turns that process keep their batches; what leaves the queue is gone,
\* and what enters it is new.
LEMMA PlacesInQueue ==
  ASSUME Places, Onward, IdsDiffer(queue'),
         \A t \in Turns : pc'[t] = "processing" <=> pc[t] = "processing",
         \A t \in Turns : pc[t] = "processing" => batch'[t] = batch[t],
         IdsOf(queue') \subseteq IdsOf(queue) \cup (arrived' \ arrived),
         \A id \in (IdsOf(queue) \cup (arrived' \ arrived)) \ IdsOf(queue') : Gone(id)'
  PROVE  Places'
<1>1. IdsOf(queue') \subseteq arrived'
  BY DEF Places, Onward
<1>2. \A t \in Turns : pc'[t] = "processing" =>
        /\ IdsDiffer(batch'[t])
        /\ IdsOf(batch'[t]) \subseteq arrived' \ IdsOf(queue')
  BY DEF Places, Onward
<1>3. \A t, u \in Turns :
        pc'[t] = "processing" /\ pc'[u] = "processing" /\ t # u
        => IdsOf(batch'[t]) \cap IdsOf(batch'[u]) = {}
  BY DEF Places
<1>4. ASSUME NEW id \in arrived'
      PROVE  \/ id \in IdsOf(queue') \/ Gone(id)'
             \/ \E t \in Turns : pc'[t] = "processing" /\ id \in IdsOf(batch'[t])
  <2>1. CASE id \notin arrived \/ id \in IdsOf(queue)
    BY <2>1
  <2>2. CASE id \in arrived /\ Gone(id)
    BY <2>2, GoneForGood DEF Onward
  <2>3. CASE \E t \in Turns : pc[t] = "processing" /\ id \in IdsOf(batch[t])
    BY <2>3
  <2> QED
    BY <2>1, <2>2, <2>3 DEF Places, Gone
<1> QED
  BY <1>1, <1>2, <1>3, <1>4 DEF Places, Onward, Gone

\* A turn starts with commands from the queue or with a new one.
LEMMA PlacesStart ==
  ASSUME Places, Onward, IdsDiffer(queue'), NEW t \in Turns,
         pc[t] # "processing", IdsDiffer(batch'[t]),
         \A u \in Turns \ {t} : pc'[u] = pc[u] /\ batch'[u] = batch[u],
         pc'[t] = "processing",
         IdsOf(queue') \cap IdsOf(batch'[t]) = {},
         IdsOf(queue') \subseteq IdsOf(queue),
         IdsOf(queue') \cup IdsOf(batch'[t]) = IdsOf(queue) \cup (arrived' \ arrived)
  PROVE  Places'
<1>1. IdsOf(queue') \subseteq arrived'
  BY DEF Places, Onward
<1>2. \A u \in Turns : pc'[u] = "processing" =>
        /\ IdsDiffer(batch'[u])
        /\ IdsOf(batch'[u]) \subseteq arrived' \ IdsOf(queue')
  <2> SUFFICES ASSUME NEW u \in Turns, pc'[u] = "processing"
               PROVE  /\ IdsDiffer(batch'[u])
                      /\ IdsOf(batch'[u]) \subseteq arrived' \ IdsOf(queue')
    OBVIOUS
  <2>1. CASE u = t
    BY <2>1 DEF Places, Onward
  <2>2. CASE u # t
    BY <2>2 DEF Places, Onward
  <2> QED
    BY <2>1, <2>2
<1>3. \A u \in Turns : pc[u] = "processing" /\ u # t
        => IdsOf(batch'[u]) \cap IdsOf(batch'[t]) = {}
  BY DEF Places
<1>4. \A u, v \in Turns :
        pc'[u] = "processing" /\ pc'[v] = "processing" /\ u # v
        => IdsOf(batch'[u]) \cap IdsOf(batch'[v]) = {}
  <2> SUFFICES ASSUME NEW u \in Turns, NEW v \in Turns, u # v,
                      pc'[u] = "processing", pc'[v] = "processing"
               PROVE  IdsOf(batch'[u]) \cap IdsOf(batch'[v]) = {}
    OBVIOUS
  <2>1. CASE u = t \/ v = t
    BY <1>3, <2>1
  <2>2. CASE u # t /\ v # t
    BY <2>2 DEF Places
  <2> QED
    BY <2>1, <2>2
<1>5. ASSUME NEW id \in arrived'
      PROVE  \/ id \in IdsOf(queue') \/ Gone(id)'
             \/ \E u \in Turns : pc'[u] = "processing" /\ id \in IdsOf(batch'[u])
  <2>1. CASE id \notin arrived \/ id \in IdsOf(queue)
    BY <2>1
  <2>2. CASE id \in arrived /\ Gone(id)
    BY <2>2, GoneForGood DEF Onward
  <2>3. ASSUME NEW u \in Turns, pc[u] = "processing", id \in IdsOf(batch[u])
        PROVE  pc'[u] = "processing" /\ id \in IdsOf(batch'[u])
    BY <2>3
  <2> QED
    BY <2>1, <2>2, <2>3 DEF Places, Gone
<1> QED
  BY <1>1, <1>2, <1>4, <1>5 DEF Places, Onward, Gone

\* A turn is done with processing: its commands are gone, or back in the queue.
LEMMA PlacesDone ==
  ASSUME Places, Onward, IdsDiffer(queue'), NEW t \in Turns,
         pc[t] = "processing", pc'[t] # "processing",
         \A u \in Turns \ {t} : pc'[u] = pc[u] /\ batch'[u] = batch[u],
         arrived' = arrived,
         IdsOf(queue) \subseteq IdsOf(queue'),
         IdsOf(queue') \subseteq IdsOf(queue) \cup IdsOf(batch[t]),
         \A id \in IdsOf(batch[t]) \ IdsOf(queue') : Gone(id)'
  PROVE  Places'
<1>1. IdsOf(queue') \subseteq arrived'
  BY DEF Places, Onward
<1>2. \A u \in Turns : pc'[u] = "processing" =>
        /\ IdsDiffer(batch'[u])
        /\ IdsOf(batch'[u]) \subseteq arrived' \ IdsOf(queue')
  BY DEF Places
<1>3. \A u, v \in Turns :
        pc'[u] = "processing" /\ pc'[v] = "processing" /\ u # v
        => IdsOf(batch'[u]) \cap IdsOf(batch'[v]) = {}
  BY DEF Places
<1>4. ASSUME NEW id \in arrived'
      PROVE  \/ id \in IdsOf(queue') \/ Gone(id)'
             \/ \E u \in Turns : pc'[u] = "processing" /\ id \in IdsOf(batch'[u])
  <2>1. CASE id \in IdsOf(queue) \/ id \in IdsOf(batch[t])
    BY <2>1
  <2>2. CASE Gone(id)
    BY <2>2, GoneForGood DEF Onward
  <2>3. ASSUME NEW u \in Turns, u # t, pc[u] = "processing", id \in IdsOf(batch[u])
        PROVE  pc'[u] = "processing" /\ id \in IdsOf(batch'[u])
    BY <2>3
  <2> QED
    BY <2>1, <2>2, <2>3 DEF Places, Gone
<1> QED
  BY <1>1, <1>2, <1>3, <1>4 DEF Places, Onward, Gone

LEMMA IdsOfCommands ==
  ASSUME NEW cmds
  PROVE  IdsOf(cmds) = {cmd.id : cmd \in Commands(cmds)}
BY DEF IdsOf, Commands

LEMMA DeliverAdds ==
  ASSUME delivered \in [AllIds -> Nat], NEW ids, Deliver(ids)
  PROVE  /\ delivered' \in [AllIds -> Nat]
         /\ \A id \in AllIds : delivered[id] <= delivered'[id]
         /\ \A id \in AllIds \cap ids : delivered'[id] = delivered[id] + 1
         /\ \A id \in AllIds \ ids : delivered'[id] = delivered[id]
<1>1. \A id \in AllIds : delivered[id] \in Nat
  OBVIOUS
<1>2. \A id \in AllIds :
        delivered'[id] = delivered[id] + (IF id \in ids THEN 1 ELSE 0)
  BY DEF Deliver
<1>3. \A id \in AllIds : /\ id \in ids => delivered'[id] = delivered[id] + 1
                         /\ id \notin ids => delivered'[id] = delivered[id]
  BY <1>1, <1>2
<1>4. delivered' \in [AllIds -> Nat]
  BY <1>1 DEF Deliver
<1>5. \A id \in AllIds : delivered[id] <= delivered'[id]
  BY <1>1, <1>3
<1> QED
  BY <1>3, <1>4, <1>5

LEMMA UndeliveredStays ==
  ASSUME Places, delivered' = delivered
  PROVE  /\ delivered' \in [AllIds -> Nat]
         /\ \A id \in AllIds : delivered[id] <= delivered'[id]
<1>1. \A id \in AllIds : delivered[id] \in Nat
  BY DEF Places
<1> QED
  BY <1>1 DEF Places

LEMMA ArrivingCommand ==
  ASSUME NEW cmd \in AllCommands
  PROVE  cmd \in Queueable /\ cmd.id \in AllIds
BY CommandsAssumption DEF AllIds

\* The steps that move no command.
LEMMA PlacesUntouched ==
  ASSUME Places, UNCHANGED <<queue, arrived, delivered, dropped>>,
         batch' \in [Turns -> Seq(Queueable)],
         \A t \in Turns : pc'[t] = "processing" <=> pc[t] = "processing",
         \A t \in Turns : pc[t] = "processing" => batch'[t] = batch[t]
  PROVE  Places'
<1>1. Onward
  BY UndeliveredStays DEF Places, Onward
<1> QED
  BY <1>1, PlacesInQueue DEF Places

LEMMA VacateUntouched ==
  ASSUME Shape, Places, NEW t \in Turns, pc[t] # "processing", Vacate(t)
  PROVE  /\ batch' \in [Turns -> Seq(Queueable)]
         /\ \A u \in Turns : pc'[u] = "processing" <=> pc[u] = "processing"
         /\ \A u \in Turns : pc[u] = "processing" => batch'[u] = batch[u]
BY DEF Shape, Places, Vacate

\* The steps that only add one new command to the queue, or replace it.
LEMMA PlacesArrive ==
  ASSUME Shape, Places, NEW cmd \in AllCommands,
         SubmitActive(cmd) \/ Notify(cmd) \/ KillAgents(cmd)
  PROVE  Places'
<1>1. /\ cmd.id \notin arrived /\ arrived' = arrived \cup {cmd.id}
      /\ pc' = pc /\ batch' = batch /\ delivered' = delivered
  BY DEF SubmitActive, Notify, KillAgents, Arrive, turnVars, fateVars
<1>2. cmd \in Queueable /\ cmd.id \in AllIds
  BY ArrivingCommand
<1>3. \A c \in Commands(queue) : c.id # cmd.id
  BY <1>1, IdsOfCommands DEF Places
<1>4. /\ queue' \in Seq(Queueable) /\ IdsDiffer(queue') /\ dropped \subseteq dropped'
      /\ \/ IdsOf(queue') = IdsOf(queue) \cup {cmd.id}
         \/ IdsOf(queue') = {cmd.id} /\ IdsOf(queue) \subseteq dropped'
  <2>1. CASE queue' = Append(queue, cmd) /\ dropped' = dropped
    <3>1. /\ queue' \in Seq(Queueable) /\ IdsDiffer(queue')
          /\ Commands(queue') = Commands(queue) \cup {cmd}
      BY <1>2, <1>3, <2>1, AppendPreserves DEF Places
    <3>2. IdsOf(queue') = IdsOf(queue) \cup {cmd.id}
      BY <3>1, IdsOfCommands
    <3> QED
      BY <2>1, <3>1, <3>2
  <2>2. CASE queue' = <<cmd>> /\ dropped' = dropped \cup IdsOf(queue)
    <3>1. /\ queue' \in Seq(Queueable) /\ DOMAIN queue' = {1} /\ queue'[1] = cmd
      BY <1>2, <2>2
    <3>2. IdsOf(queue') = {cmd.id} /\ IdsDiffer(queue')
      BY <3>1 DEF IdsOf, IdsDiffer
    <3> QED
      BY <2>2, <3>1, <3>2
  <2> QED
    BY <2>1, <2>2 DEF SubmitActive, Notify, KillAgents, fateVars
<1>5. Onward
  BY <1>1, <1>2, <1>4, UndeliveredStays DEF Places, Onward
<1>6. \A id \in (IdsOf(queue) \cup (arrived' \ arrived)) \ IdsOf(queue') : Gone(id)'
  BY <1>1, <1>4 DEF Gone
<1>7. IdsOf(queue') \subseteq IdsOf(queue) \cup (arrived' \ arrived)
  BY <1>1, <1>4
<1> QED
  BY <1>1, <1>4, <1>5, <1>6, <1>7, PlacesInQueue

LEMMA PlacesIncoming ==
  ASSUME Shape, Places, NEW t \in Turns, NEW cmd \in TeammateMessages,
         IncomingPrompt(t, cmd)
  PROVE  Places'
<1>1. /\ cmd.id \notin arrived /\ arrived' = arrived \cup {cmd.id}
      /\ pc[t] = "free" /\ pc' = [pc EXCEPT ![t] = "querying"]
      /\ batch' = [batch EXCEPT ![t] = <<cmd>>] /\ Deliver({cmd.id})
      /\ queue' = queue /\ dropped' = dropped
  BY DEF IncomingPrompt, Arrive, Busy
<1>2. cmd \in Queueable /\ cmd.id \in AllIds /\ <<cmd>> \in Seq(Queueable)
  BY ArrivingCommand DEF AllCommands
<1>3. /\ delivered' \in [AllIds -> Nat]
      /\ \A id \in AllIds : delivered[id] <= delivered'[id]
      /\ delivered'[cmd.id] = delivered[cmd.id] + 1 /\ delivered[cmd.id] \in Nat
  BY <1>1, <1>2, DeliverAdds DEF Places
<1>4. batch' \in [Turns -> Seq(Queueable)]
  BY <1>1, <1>2 DEF Places
<1>5. Onward
  BY <1>1, <1>2, <1>3, <1>4 DEF Places, Onward
<1>6. Gone(cmd.id)'
  BY <1>3 DEF Gone
<1>7. IdsDiffer(queue')
  BY <1>1 DEF Places
<1>8. /\ \A u \in Turns : pc'[u] = "processing" <=> pc[u] = "processing"
      /\ \A u \in Turns : pc[u] = "processing" => batch'[u] = batch[u]
  BY <1>1 DEF Shape, Places
<1>9. /\ \A id \in (IdsOf(queue) \cup (arrived' \ arrived)) \ IdsOf(queue') : Gone(id)'
      /\ IdsOf(queue') \subseteq IdsOf(queue) \cup (arrived' \ arrived)
  BY <1>1, <1>6
<1> QED
  BY <1>5, <1>7, <1>8, <1>9, PlacesInQueue

LEMMA PlacesSubmit ==
  ASSUME Shape, Places, NEW t \in Turns, NEW cmd \in UserCommands, SubmitIdle(t, cmd)
  PROVE  Places'
<1>1. /\ cmd.id \notin arrived /\ arrived' = arrived \cup {cmd.id}
      /\ pc[t] = "free" /\ pc' = [pc EXCEPT ![t] = "processing"]
      /\ batch' = [batch EXCEPT ![t] = <<cmd>>]
      /\ queue' = queue /\ delivered' = delivered /\ dropped' = dropped
  BY DEF SubmitIdle, StartExecution, Arrive, Busy, fateVars
<1>2. cmd \in Queueable /\ cmd.id \in AllIds /\ <<cmd>> \in Seq(Queueable)
  BY ArrivingCommand DEF AllCommands
<1>3. batch' \in [Turns -> Seq(Queueable)] /\ batch'[t] = <<cmd>>
  BY <1>1, <1>2 DEF Places
<1>4. Onward
  BY <1>1, <1>2, <1>3, UndeliveredStays DEF Places, Onward
<1>5. DOMAIN batch'[t] = {1} /\ batch'[t][1] = cmd
  BY <1>3
<1>6. IdsOf(batch'[t]) = {cmd.id} /\ IdsDiffer(batch'[t])
  BY <1>5 DEF IdsOf, IdsDiffer
<1>7. IdsOf(queue') \cap IdsOf(batch'[t]) = {} /\ IdsDiffer(queue')
  BY <1>1, <1>6 DEF Places
<1>8. /\ \A u \in Turns \ {t} : pc'[u] = pc[u] /\ batch'[u] = batch[u]
      /\ pc'[t] = "processing"
  BY <1>1 DEF Shape, Places
<1>9. /\ IdsOf(queue') \subseteq IdsOf(queue)
      /\ IdsOf(queue') \cup IdsOf(batch'[t]) = IdsOf(queue) \cup (arrived' \ arrived)
  BY <1>1, <1>6
<1> QED
  BY <1>1, <1>4, <1>6, <1>7, <1>8, <1>9, PlacesStart

LEMMA PlacesProcessQueue ==
  ASSUME Shape, Places, NEW t \in Turns, ProcessQueue(t)
  PROVE  Places'
<1>1. /\ pc[t] = "free" /\ pc' = [pc EXCEPT ![t] = "processing"]
      /\ batch' = [batch EXCEPT ![t] = Taken(queue)]
      /\ queue' = Left(queue)
      /\ UNCHANGED <<arrived, delivered, dropped>>
  BY DEF ProcessQueue, StartExecution, Busy, fateVars
<1>2. \A cmd \in Commands(queue) : cmd.priority \in Priorities
  <2>1. Commands(queue) \subseteq Queueable
    BY DEF Places, Commands
  <2> QED
    BY <2>1 DEF Queueable
<1>3. /\ Taken(queue) \in Seq(Queueable) /\ Left(queue) \in Seq(Queueable)
      /\ \E at : Picks(at, Taken(queue), queue)
      /\ \E at : Picks(at, Left(queue), queue)
      /\ Commands(Left(queue)) = Commands(queue) \ Commands(Taken(queue))
      /\ Commands(Taken(queue)) \subseteq Commands(queue)
  BY <1>2, TakenAndLeft DEF Places, ForMainThread
<1>4. IdsDiffer(Taken(queue)) /\ IdsDiffer(Left(queue))
  BY <1>3, PicksPreserve DEF Places
<1>5. batch' \in [Turns -> Seq(Queueable)] /\ batch'[t] = Taken(queue)
  BY <1>1, <1>3 DEF Places
<1>6. Onward
  BY <1>1, <1>3, <1>5, UndeliveredStays DEF Places, Onward
<1>7. \A c, d \in Commands(queue) : c.id = d.id => c = d
  BY DEF Places, IdsDiffer, Commands
<1>8. IdsOf(queue') \cap IdsOf(batch'[t]) = {}
  BY <1>1, <1>3, <1>5, <1>7, IdsOfCommands
<1>9. /\ IdsOf(queue') \subseteq IdsOf(queue)
      /\ IdsOf(queue') \cup IdsOf(batch'[t]) = IdsOf(queue) \cup (arrived' \ arrived)
  BY <1>1, <1>3, <1>5, IdsOfCommands
<1>10. /\ \A u \in Turns \ {t} : pc'[u] = pc[u] /\ batch'[u] = batch[u]
       /\ pc'[t] = "processing"
  BY <1>1 DEF Shape, Places
<1> QED
  BY <1>1, <1>4, <1>5, <1>6, <1>8, <1>9, <1>10, PlacesStart

\* The steps that end the processing of a batch and leave the queue alone.
LEMMA PlacesProcessed ==
  ASSUME Shape, Places, NEW t \in Turns,
         ProcessingThrows(t) \/ ProcessingIsLocal(t) \/ QueryStarts(t)
  PROVE  Places'
<1>1. /\ pc[t] = "processing" /\ pc'[t] # "processing"
      /\ \A u \in Turns \ {t} : pc'[u] = pc[u]
      /\ batch' = batch /\ queue' = queue /\ arrived' = arrived
  BY DEF Shape, ProcessingThrows, ProcessingIsLocal, QueryStarts
<1>2. IdsOf(batch[t]) \subseteq AllIds
  BY <1>1 DEF Places
<1>3. /\ delivered' \in [AllIds -> Nat]
      /\ \A id \in AllIds : delivered[id] <= delivered'[id]
      /\ dropped \subseteq dropped'
      /\ \A id \in IdsOf(batch[t]) : Gone(id)'
  <2>1. CASE delivered' = delivered /\ dropped' = dropped \cup IdsOf(batch[t])
    BY <2>1, UndeliveredStays DEF Gone
  <2>2. CASE Deliver(IdsOf(batch[t])) /\ dropped' = dropped
    <3>1. /\ delivered \in [AllIds -> Nat] /\ delivered' \in [AllIds -> Nat]
          /\ \A id \in AllIds : delivered[id] <= delivered'[id]
          /\ \A id \in AllIds \cap IdsOf(batch[t]) : delivered'[id] = delivered[id] + 1
      BY <2>2, DeliverAdds DEF Places
    <3>2. \A id \in IdsOf(batch[t]) : delivered[id] \in Nat /\ delivered'[id] > 0
      BY <1>2, <3>1
    <3> QED
      BY <2>2, <3>1, <3>2 DEF Gone
  <2> QED
    BY <2>1, <2>2 DEF ProcessingThrows, ProcessingIsLocal, QueryStarts
<1>4. Onward
  BY <1>1, <1>3 DEF Places, Onward
<1> QED
  BY <1>1, <1>3, <1>4, PlacesDone DEF Places

\* The mode and the priority of what is put back do not matter.
LEMMA PutBack ==
  ASSUME NEW own \in Seq(Queueable)
  PROVE  LET back == [i \in DOMAIN own |->
                        [own[i] EXCEPT !.mode = "prompt", !.priority = "next"]]
         IN  /\ back \in Seq(Queueable)
             /\ IdsOf(back) = IdsOf(own)
             /\ IdsDiffer(own) => IdsDiffer(back)
<1> DEFINE back == [i \in DOMAIN own |->
                      [own[i] EXCEPT !.mode = "prompt", !.priority = "next"]]
<1>1. DOMAIN own = 1..Len(own) /\ Len(own) \in Nat /\ DOMAIN back = DOMAIN own
  OBVIOUS
<1>2. ASSUME NEW i \in DOMAIN own
      PROVE  back[i] \in Queueable /\ back[i].id = own[i].id
  <2>1. own[i] \in Queueable
    BY <1>1
  <2>2. back[i] = [own[i] EXCEPT !.mode = "prompt", !.priority = "next"]
    OBVIOUS
  <2> QED
    BY <2>1, <2>2 DEF Queueable, Modes, Priorities
<1> HIDE DEF back
<1>3. back \in Seq(Queueable)
  <2>1. back = [i \in 1..Len(own) |-> back[i]]
    BY <1>1 DEF back
  <2> QED
    BY <1>1, <1>2, <2>1
<1>4. IdsOf(back) = IdsOf(own)
  BY <1>1, <1>2 DEF IdsOf
<1>5. IdsDiffer(own) => IdsDiffer(back)
  BY <1>1, <1>2 DEF IdsDiffer
<1> QED
  BY <1>3, <1>4, <1>5 DEF back

LEMMA PlacesRefused ==
  ASSUME Shape, Places, NEW t \in Turns, QueryRefused(t)
  PROVE  Places'
<1> DEFINE kept == {cmd \in Commands(batch[t]) : ~ cmd.meta}
           own == Only(batch[t], kept)
           back == [i \in DOMAIN own |->
                      [own[i] EXCEPT !.mode = "prompt", !.priority = "next"]]
<1>1. /\ pc[t] = "processing" /\ pc'[t] # "processing"
      /\ \A u \in Turns \ {t} : pc'[u] = pc[u]
      /\ batch' = batch /\ arrived' = arrived /\ delivered' = delivered
      /\ queue' = queue \o back
      /\ dropped' = dropped \cup (IdsOf(batch[t]) \ IdsOf(own))
  BY DEF Shape, QueryRefused
<1>2. /\ batch[t] \in Seq(Queueable) /\ IdsDiffer(batch[t])
      /\ IdsOf(batch[t]) \cap IdsOf(queue) = {}
      /\ queue \in Seq(Queueable) /\ IdsDiffer(queue)
  BY <1>1 DEF Places
<1> HIDE DEF kept
<1>3. /\ own \in Seq(Queueable) /\ Commands(own) \subseteq Commands(batch[t])
      /\ \E at : Picks(at, own, batch[t])
  BY <1>2, OnlyKeeps
<1> HIDE DEF own
<1>4. IdsDiffer(own) /\ IdsOf(own) \subseteq IdsOf(batch[t])
  BY <1>2, <1>3, PicksPreserve, IdsOfCommands
<1>5. back \in Seq(Queueable) /\ IdsOf(back) = IdsOf(own) /\ IdsDiffer(back)
  BY <1>3, <1>4, PutBack
<1> HIDE DEF back
<1>6. \A c \in Commands(queue), d \in Commands(back) : c.id # d.id
  BY <1>2, <1>4, <1>5, IdsOfCommands
<1>7. /\ queue' \in Seq(Queueable) /\ IdsDiffer(queue')
      /\ Commands(queue') = Commands(queue) \cup Commands(back)
  BY <1>1, <1>2, <1>5, <1>6, ConcatPreserves
<1>8. IdsOf(queue') = IdsOf(queue) \cup IdsOf(own)
  BY <1>5, <1>7, IdsOfCommands
<1>9. Onward
  BY <1>1, <1>7, UndeliveredStays DEF Places, Onward
<1>10. \A id \in IdsOf(batch[t]) \ IdsOf(queue') : Gone(id)'
  BY <1>1, <1>8 DEF Gone
<1> QED
  BY <1>1, <1>4, <1>7, <1>8, <1>9, <1>10, PlacesDone

LEMMA PlacesEndDrain ==
  ASSUME Shape, Places, NEW t \in Turns, EndDrain(t)
  PROVE  Places'
<1> DEFINE consumed == {cmd \in snapshot[t] : cmd.mode # "bash"}
           ids == {cmd.id : cmd \in consumed}
           kept == Commands(queue) \ consumed
<1>1. /\ pc' = pc /\ batch' = batch /\ arrived' = arrived /\ dropped' = dropped
      /\ Deliver(ids) /\ queue' = Only(queue, kept)
  BY DEF EndDrain, Without
<1> HIDE DEF consumed
<1>2. /\ queue' \in Seq(Queueable) /\ Commands(queue') = Commands(queue) \cap kept
      /\ \E at : Picks(at, queue', queue)
  <2> HIDE DEF kept
  <2> QED
    BY <1>1, OnlyKeeps DEF Places
<1>3. IdsDiffer(queue')
  BY <1>2, PicksPreserve DEF Places
<1>4. /\ delivered \in [AllIds -> Nat] /\ delivered' \in [AllIds -> Nat]
      /\ \A id \in AllIds : delivered[id] <= delivered'[id]
      /\ \A id \in AllIds \cap ids : delivered'[id] = delivered[id] + 1
  BY <1>1, DeliverAdds DEF Places
<1>5. Onward
  BY <1>1, <1>2, <1>4 DEF Places, Onward
<1>6. IdsOf(queue') \subseteq IdsOf(queue)
  BY <1>2, IdsOfCommands
<1>7. ASSUME NEW id \in IdsOf(queue) \ IdsOf(queue')
      PROVE  Gone(id)'
  <2>1. PICK cmd \in Commands(queue) : cmd.id = id
    BY IdsOfCommands
  <2>2. cmd \in consumed
    BY <1>2, <2>1, IdsOfCommands
  <2>3. id \in ids /\ id \in AllIds
    BY <2>1, <2>2 DEF Places
  <2>4. delivered[id] \in Nat /\ delivered'[id] = delivered[id] + 1
    BY <1>4, <2>3
  <2> QED
    BY <2>4 DEF Gone
<1> QED
  BY <1>1, <1>3, <1>5, <1>6, <1>7, PlacesInQueue

LEMMA PlacesPop ==
  ASSUME Places, PopQueue
  PROVE  Places'
<1> DEFINE kept == {cmd \in Commands(queue) : ~ IsEditable(cmd)}
<1>1. /\ pc' = pc /\ batch' = batch /\ arrived' = arrived /\ delivered' = delivered
      /\ queue' = Only(queue, kept)
      /\ dropped' = dropped \cup (IdsOf(queue) \ IdsOf(queue'))
  BY DEF PopQueue, AfterPop, turnVars
<1> HIDE DEF kept
<1>2. /\ queue' \in Seq(Queueable) /\ Commands(queue') = Commands(queue) \cap kept
      /\ \E at : Picks(at, queue', queue)
  BY <1>1, OnlyKeeps DEF Places
<1>3. IdsDiffer(queue')
  BY <1>2, PicksPreserve DEF Places
<1>4. Onward
  BY <1>1, <1>2, UndeliveredStays DEF Places, Onward
<1>5. IdsOf(queue') \subseteq IdsOf(queue)
  BY <1>2, IdsOfCommands
<1> QED
  BY <1>1, <1>3, <1>4, <1>5, PlacesInQueue DEF Gone

LEMMA FollowUpsTyped ==
  ASSUME NEW followUps \in FollowUps
  PROVE  /\ followUps \in Seq(Queueable) /\ IdsDiffer(followUps)
         /\ IdsOf(followUps) \subseteq AllIds
<1>1. CASE followUps = <<>>
  <2>1. DOMAIN followUps = {} /\ followUps \in Seq(Queueable)
    BY <1>1
  <2> QED
    BY <2>1 DEF IdsDiffer, IdsOf
<1>2. ASSUME NEW cmd \in OtherCommands, followUps = <<cmd>>
      PROVE  /\ followUps \in Seq(Queueable) /\ IdsDiffer(followUps)
             /\ IdsOf(followUps) \subseteq AllIds
  <2>1. cmd \in Queueable /\ cmd.id \in AllIds
    BY ArrivingCommand DEF AllCommands
  <2>2. followUps \in Seq(Queueable) /\ DOMAIN followUps = {1} /\ followUps[1] = cmd
    BY <1>2, <2>1
  <2> QED
    BY <2>1, <2>2 DEF IdsDiffer, IdsOf
<1> QED
  BY <1>1, <1>2 DEF FollowUps

LEMMA PlacesReturn ==
  ASSUME Shape, Places, NEW t \in Turns, NEW followUps \in FollowUps,
         Return(t, followUps)
  PROVE  Places'
<1>1. /\ pc[t] = "returning" /\ Vacate(t)
      /\ IdsOf(followUps) \cap arrived = {}
      /\ queue' = queue \o followUps
      /\ arrived' = arrived \cup IdsOf(followUps)
      /\ delivered' = delivered /\ dropped' = dropped
  BY DEF Return, fateVars
<1>2. /\ followUps \in Seq(Queueable) /\ IdsDiffer(followUps)
      /\ IdsOf(followUps) \subseteq AllIds
  BY FollowUpsTyped
<1>3. \A c \in Commands(queue), d \in Commands(followUps) : c.id # d.id
  <2>1. IdsOf(queue) \cap IdsOf(followUps) = {}
    BY <1>1 DEF Places
  <2> QED
    BY <2>1, IdsOfCommands
<1>4. /\ queue' \in Seq(Queueable) /\ IdsDiffer(queue')
      /\ Commands(queue') = Commands(queue) \cup Commands(followUps)
  BY <1>1, <1>2, <1>3, ConcatPreserves DEF Places
<1>5. IdsOf(queue') = IdsOf(queue) \cup IdsOf(followUps)
  BY <1>4, IdsOfCommands
<1>6. /\ batch' \in [Turns -> Seq(Queueable)]
      /\ \A u \in Turns : pc'[u] = "processing" <=> pc[u] = "processing"
      /\ \A u \in Turns : pc[u] = "processing" => batch'[u] = batch[u]
  BY <1>1, VacateUntouched
<1>7. Onward
  BY <1>1, <1>2, <1>4, <1>6, UndeliveredStays DEF Places, Onward
<1>8. /\ IdsOf(queue') \subseteq IdsOf(queue) \cup (arrived' \ arrived)
      /\ (IdsOf(queue) \cup (arrived' \ arrived)) \ IdsOf(queue') = {}
  BY <1>1, <1>5
<1> QED
  BY <1>4, <1>6, <1>7, <1>8, PlacesInQueue

LEMMA PlacesInit == Init => Places
<1> SUFFICES ASSUME Init
             PROVE  Places
  OBVIOUS
<1>1. IdsOf(queue) = {} /\ DOMAIN queue = {} /\ queue \in Seq(Queueable)
  BY DEF Init, IdsOf
<1> QED
  BY <1>1 DEF Init, Places, IdsDiffer

LEMMA PlacesStep == Shape /\ Places /\ [Next]_vars => Places'
<1> SUFFICES ASSUME Shape, Places, [Next]_vars
             PROVE  Places'
  OBVIOUS
<1>1. CASE \E t \in Turns, cmd \in UserCommands : SubmitIdle(t, cmd)
  BY <1>1, PlacesSubmit
<1>2. CASE \E t \in Turns : ProcessQueue(t)
  BY <1>2, PlacesProcessQueue
<1>3. CASE \E t \in Turns, cmd \in TeammateMessages : IncomingPrompt(t, cmd)
  BY <1>3, PlacesIncoming
<1>4. ASSUME NEW t \in Turns,
             ProcessingThrows(t) \/ ProcessingIsLocal(t) \/ QueryStarts(t)
      PROVE  Places'
  BY <1>4, PlacesProcessed
<1>5. CASE \E t \in Turns : QueryRefused(t)
  BY <1>5, PlacesRefused
<1>6. CASE \E t \in Turns : EndDrain(t)
  BY <1>6, PlacesEndDrain
<1>7. CASE \E t \in Turns, followUps \in FollowUps : Return(t, followUps)
  BY <1>7, PlacesReturn
<1>8. CASE PopQueue
  BY <1>8, PlacesPop
<1>9. ASSUME NEW cmd \in AllCommands, SubmitActive(cmd) \/ Notify(cmd) \/ KillAgents(cmd)
      PROVE  Places'
  BY <1>9, PlacesArrive
<1>10. ASSUME UNCHANGED <<queue, pc, batch, arrived, delivered, dropped>>
       PROVE  Places'
  BY <1>10, PlacesUntouched DEF Places
<1>11. ASSUME NEW t, NEW threshold,
              \/ BeginDrain(t, threshold) \/ Cancel \/ Timeout \/ AbortForUrgent
              \/ UNCHANGED vars
       PROVE  Places'
  BY <1>10, <1>11
     DEF BeginDrain, Cancel, Timeout, AbortForUrgent, vars, turnVars, fateVars
<1>12. ASSUME NEW t \in Turns, NEW local \in BOOLEAN, QueryEnds(t, local)
       PROVE  Places'
  <2>1. /\ UNCHANGED <<queue, arrived, delivered, dropped>>
        /\ pc[t] = "querying"
    BY <1>12 DEF QueryEnds, fateVars
  <2>2. CASE Vacate(t)
    BY <2>1, <2>2, VacateUntouched, PlacesUntouched
  <2>3. CASE /\ batch' = batch
             /\ \E phase \in {"settling", "returning"} : pc' = [pc EXCEPT ![t] = phase]
    <3>1. \A u \in Turns : pc'[u] = "processing" <=> pc[u] = "processing"
      BY <2>1, <2>3 DEF Shape
    <3> QED
      BY <2>1, <2>3, <3>1, PlacesUntouched DEF Places
  <2>4. \/ Vacate(t)
        \/ /\ batch' = batch
           /\ \E phase \in {"settling", "returning"} : pc' = [pc EXCEPT ![t] = phase]
    BY <1>12 DEF QueryEnds
  <2> QED
    BY <2>2, <2>3, <2>4
<1>13. ASSUME NEW t \in Turns, Settle(t)
       PROVE  Places'
  <2>1. /\ UNCHANGED <<queue, arrived, delivered, dropped>>
        /\ pc[t] = "settling"
    BY <1>13 DEF Settle, fateVars
  <2>2. CASE Vacate(t)
    BY <2>1, <2>2, VacateUntouched, PlacesUntouched
  <2>3. CASE batch' = batch /\ pc' = [pc EXCEPT ![t] = "returning"]
    <3>1. \A u \in Turns : pc'[u] = "processing" <=> pc[u] = "processing"
      BY <2>1, <2>3 DEF Shape
    <3> QED
      BY <2>1, <2>3, <3>1, PlacesUntouched DEF Places
  <2> QED
    BY <1>13, <2>2, <2>3 DEF Settle
<1>14. ASSUME NEW t \in Turns, Unwind(t)
       PROVE  Places'
  <2>1. /\ UNCHANGED <<queue, arrived, delivered, dropped>>
        /\ pc[t] = "unwinding" /\ Vacate(t)
    BY <1>14 DEF Unwind, fateVars
  <2> QED
    BY <2>1, VacateUntouched, PlacesUntouched
<1> QED
  BY <1>1, <1>2, <1>3, <1>4, <1>5, <1>6, <1>7, <1>8, <1>9, <1>11, <1>12, <1>13,
     <1>14 DEF Next, AllCommands

LEMMA AtMostOne ==
  ASSUME NEW S, \A x, y \in S : x = y
  PROVE  /\ Cardinality(S) \in {0, 1}
         /\ Cardinality(S) = 0 <=> S = {}
<1>1. CASE S = {}
  BY <1>1, FS_EmptySet
<1>2. ASSUME NEW x \in S
      PROVE  Cardinality(S) = 1
  <2>1. S = {x}
    BY <1>2
  <2>2. Cardinality({x}) = 1
    BY FS_Singleton
  <2> QED
    BY <2>1, <2>2
<1> QED
  BY <1>1, <1>2

LEMMA PlacesMeansAccounted == Shape /\ Places => CommandsAccounted
<1> SUFFICES ASSUME Shape, Places
             PROVE  CommandsAccounted
  OBVIOUS
<1> DEFINE waiting(id) == {i \in DOMAIN queue : queue[i].id = id}
           inTurn(id) == {t \in Turns : pc[t] = "processing" /\ id \in IdsOf(batch[t])}
           places(id) == Cardinality(waiting(id)) + Cardinality(inTurn(id))
<1> SUFFICES ASSUME NEW id \in arrived
             PROVE  /\ places(id) <= 1
                    /\ places(id) = 0 => delivered[id] > 0 \/ id \in dropped
  BY DEF CommandsAccounted
<1>1. \A i, j \in waiting(id) : i = j
  BY DEF Places, IdsDiffer
<1>2. \A t, u \in inTurn(id) : t = u
  BY DEF Places
<1>3. waiting(id) = {} \/ inTurn(id) = {}
  BY DEF Places, IdsOf
<1>4. waiting(id) = {} /\ inTurn(id) = {} => delivered[id] > 0 \/ id \in dropped
  BY DEF Places, IdsOf
<1> HIDE DEF waiting, inTurn
<1>5. /\ Cardinality(waiting(id)) \in {0, 1}
      /\ Cardinality(waiting(id)) = 0 <=> waiting(id) = {}
  BY <1>1, AtMostOne
<1>6. /\ Cardinality(inTurn(id)) \in {0, 1}
      /\ Cardinality(inTurn(id)) = 0 <=> inTurn(id) = {}
  BY <1>2, AtMostOne
<1> QED
  BY <1>3, <1>4, <1>5, <1>6

\* For any turns and commands, any interruptions and any order of effects and
\* continuations, no command vanishes and none is in two places.
THEOREM NoCommandVanishes == Spec => []CommandsAccounted
BY ShapeInit, ShapeStep, PlacesInit, PlacesStep, PlacesMeansAccounted, PTL DEF Spec

-----------------------------------------------------------------------------
(* How often a command is delivered, until something is interrupted.       *)

\* The commands that may still be delivered.
Pending(id) ==
  \/ id \notin arrived
  \/ id \in IdsOf(queue)
  \/ \E t \in Turns : pc[t] = "processing" /\ id \in IdsOf(batch[t])
  \/ \E t \in Turns : \E cmd \in snapshot[t] : cmd.id = id

\* Only a query has copies, of commands that arrived; as long as a command
\* stays in the queue it is the one that was copied.
Copies ==
  \A t \in Turns :
    /\ snapshot[t] # {} => pc[t] = "querying"
    /\ \A cmd \in snapshot[t] :
         /\ cmd.id \in arrived
         /\ \A c \in Commands(queue) : c.id = cmd.id => c = cmd

Deliveries ==
  /\ DOMAIN snapshot = Turns
  /\ Undisturbed =>
       /\ Copies
       /\ \A id \in AllIds : delivered[id] <= 1
       /\ \A id \in AllIds : Pending(id) => delivered[id] = 0

LEMMA DeliveriesInit == Init => Deliveries
<1> SUFFICES ASSUME Init
             PROVE  Deliveries
  OBVIOUS
<1>1. /\ \A id \in AllIds : delivered[id] = 0
      /\ \A t \in Turns : snapshot[t] = {}
      /\ DOMAIN snapshot = Turns
  BY DEF Init
<1> QED
  BY <1>1 DEF Deliveries, Copies

\* The steps that deliver nothing: what is pending afterwards was pending
\* before, and the copies, if any, are old or were taken from the queue.
LEMMA NothingDelivered ==
  ASSUME Deliveries, Undisturbed, delivered' = delivered,
         DOMAIN snapshot' = Turns, Copies',
         \A id \in AllIds : Pending(id)' => Pending(id)
  PROVE  Deliveries'
BY DEF Deliveries

\* Until something is interrupted, the copies belong to the only turn there is.
LEMMA OnlyTurnCopies ==
  ASSUME Calm, Deliveries, Undisturbed, NEW t \in Turns, pc[t] # "free"
  PROVE  \A u \in Turns : u # t => pc[u] = "free" /\ snapshot[u] = {}
BY DEF Calm, CalmTurn, Busy, Deliveries, Copies

LEMMA IdleNoCopies ==
  ASSUME Shape, Calm, Deliveries, Undisturbed, NoContinuation, status = "idle"
  PROVE  \A u \in Turns : pc[u] = "free" /\ snapshot[u] = {}
BY CalmIdle DEF Deliveries, Copies

LEMMA DeliveriesSubmit ==
  ASSUME Shape, Calm, Places, Deliveries, Undisturbed,
         NEW t \in Turns, NEW cmd \in UserCommands, SubmitIdle(t, cmd)
  PROVE  Deliveries'
<1>1. \A u \in Turns : pc[u] = "free" /\ snapshot[u] = {}
  BY IdleNoCopies DEF SubmitIdle
<1>2. /\ cmd.id \notin arrived /\ arrived' = arrived \cup {cmd.id}
      /\ pc' = [pc EXCEPT ![t] = "processing"]
      /\ batch' = [batch EXCEPT ![t] = <<cmd>>]
      /\ queue' = queue /\ delivered' = delivered /\ snapshot' = snapshot
  BY DEF SubmitIdle, StartExecution, Arrive, fateVars
<1>3. Copies' /\ DOMAIN snapshot' = Turns
  BY <1>1, <1>2 DEF Copies, Deliveries
<1>4. batch'[t] = <<cmd>> /\ DOMAIN <<cmd>> = {1} /\ <<cmd>>[1] = cmd
  BY <1>2 DEF Places
<1>5. IdsOf(batch'[t]) = {cmd.id}
  BY <1>4 DEF IdsOf
<1>6. \A u \in Turns : u # t => pc'[u] = "free"
  BY <1>1, <1>2 DEF Shape
<1>7. \A id \in AllIds : Pending(id)' => Pending(id)
  BY <1>2, <1>5, <1>6 DEF Pending
<1> QED
  BY <1>2, <1>3, <1>7, NothingDelivered

LEMMA DeliveriesProcessQueue ==
  ASSUME ~ EagerEffects, Shape, Calm, Places, Deliveries, Undisturbed,
         NEW t \in Turns, ProcessQueue(t)
  PROVE  Deliveries'
<1>1. \A u \in Turns : pc[u] = "free" /\ snapshot[u] = {}
  BY IdleNoCopies DEF ProcessQueue
<1>2. /\ pc' = [pc EXCEPT ![t] = "processing"]
      /\ batch' = [batch EXCEPT ![t] = Taken(queue)]
      /\ queue' = Left(queue)
      /\ arrived' = arrived /\ delivered' = delivered /\ snapshot' = snapshot
  BY DEF ProcessQueue, StartExecution, fateVars
<1>3. Copies' /\ DOMAIN snapshot' = Turns
  BY <1>1, <1>2 DEF Copies, Deliveries
<1>4. \A cmd \in Commands(queue) : cmd.priority \in Priorities
  <2>1. Commands(queue) \subseteq Queueable
    BY DEF Places, Commands
  <2> QED
    BY <2>1 DEF Queueable
<1>5. /\ Commands(Left(queue)) = Commands(queue) \ Commands(Taken(queue))
      /\ Commands(Taken(queue)) \subseteq Commands(queue)
  BY <1>4, TakenAndLeft DEF Places, ForMainThread
<1>6. batch'[t] = Taken(queue) /\ \A u \in Turns : u # t => pc'[u] = "free"
  BY <1>1, <1>2 DEF Shape, Places
<1>7. IdsOf(queue') \subseteq IdsOf(queue) /\ IdsOf(batch'[t]) \subseteq IdsOf(queue)
  BY <1>2, <1>5, <1>6, IdsOfCommands
<1>8. \A id \in AllIds : Pending(id)' => Pending(id)
  BY <1>2, <1>6, <1>7 DEF Pending
<1> QED
  BY <1>2, <1>3, <1>8, NothingDelivered

\* The steps that deliver.
LEMMA SomeDelivered ==
  ASSUME Places, Deliveries, Undisturbed, NEW ids, Deliver(ids),
         DOMAIN snapshot' = Turns, Copies',
         \A id \in AllIds \cap ids : Pending(id),
         \A id \in AllIds : Pending(id)' => Pending(id) /\ id \notin ids
  PROVE  Deliveries'
<1>1. /\ \A id \in AllIds \cap ids : delivered'[id] = delivered[id] + 1
      /\ \A id \in AllIds \ ids : delivered'[id] = delivered[id]
  BY DeliverAdds DEF Places
<1>2. \A id \in AllIds : delivered'[id] <= 1
  BY <1>1 DEF Deliveries
<1>3. \A id \in AllIds : Pending(id)' => delivered'[id] = 0
  BY <1>1 DEF Deliveries
<1> QED
  BY <1>2, <1>3 DEF Deliveries

LEMMA DeliveriesIncoming ==
  ASSUME Shape, Calm, Places, Deliveries, Undisturbed,
         NEW t \in Turns, NEW cmd \in TeammateMessages, IncomingPrompt(t, cmd)
  PROVE  Deliveries'
<1>1. \A u \in Turns : pc[u] = "free" /\ snapshot[u] = {}
  BY IdleNoCopies DEF IncomingPrompt
<1>2. /\ cmd.id \notin arrived /\ arrived' = arrived \cup {cmd.id}
      /\ pc' = [pc EXCEPT ![t] = "querying"]
      /\ queue' = queue /\ snapshot' = snapshot /\ Deliver({cmd.id})
  BY DEF IncomingPrompt, Arrive
<1>3. Copies' /\ DOMAIN snapshot' = Turns
  BY <1>1, <1>2 DEF Copies, Deliveries
<1>4. \A u \in Turns : pc'[u] # "processing"
  BY <1>1, <1>2 DEF Shape
<1>5. cmd.id \notin IdsOf(queue)
  BY <1>2 DEF Places
<1>6. \A id \in AllIds : Pending(id)' => Pending(id) /\ id # cmd.id
  BY <1>1, <1>2, <1>4, <1>5 DEF Pending
<1>7. Pending(cmd.id)
  BY <1>2 DEF Pending
<1> QED
  BY <1>2, <1>3, <1>6, <1>7, SomeDelivered

LEMMA DeliveriesQueryStarts ==
  ASSUME Shape, Calm, Places, Deliveries, Undisturbed,
         NEW t \in Turns, QueryStarts(t)
  PROVE  Deliveries'
<1>1. /\ pc[t] = "processing" /\ pc' = [pc EXCEPT ![t] = "querying"]
      /\ Deliver(IdsOf(batch[t]))
      /\ queue' = queue /\ snapshot' = snapshot /\ arrived' = arrived
      /\ batch' = batch
  BY DEF QueryStarts
<1>2. \A u \in Turns : snapshot[u] = {} /\ (u # t => pc[u] = "free")
  BY <1>1, OnlyTurnCopies DEF Deliveries, Copies
<1>3. Copies' /\ DOMAIN snapshot' = Turns
  BY <1>1, <1>2 DEF Copies, Deliveries
<1>4. \A u \in Turns : pc'[u] # "processing"
  BY <1>1, <1>2 DEF Shape
<1>5. IdsOf(batch[t]) \subseteq arrived \ IdsOf(queue)
  BY <1>1 DEF Places
<1>6. \A id \in AllIds : Pending(id)' => Pending(id) /\ id \notin IdsOf(batch[t])
  BY <1>1, <1>2, <1>4, <1>5 DEF Pending
<1>7. \A id \in IdsOf(batch[t]) : Pending(id)
  BY <1>1 DEF Pending
<1> QED
  BY <1>1, <1>3, <1>6, <1>7, SomeDelivered

LEMMA DeliveriesBeginDrain ==
  ASSUME Places, Deliveries, Undisturbed,
         NEW t \in Turns, NEW threshold, BeginDrain(t, threshold)
  PROVE  Deliveries'
<1> DEFINE copied == Drainable(queue, MainThread, threshold)
<1>1. /\ pc[t] = "querying" /\ snapshot' = [snapshot EXCEPT ![t] = copied]
      /\ UNCHANGED <<queue, pc, batch, arrived, delivered>>
  BY DEF BeginDrain, fateVars
<1>2. copied \subseteq Commands(queue)
  BY DEF Drainable
<1> HIDE DEF copied
<1>3. /\ DOMAIN snapshot' = Turns /\ snapshot'[t] = copied
      /\ \A u \in Turns : u # t => snapshot'[u] = snapshot[u]
  BY <1>1 DEF Deliveries
<1>4. \A c, d \in Commands(queue) : c.id = d.id => c = d
  BY DEF Places, IdsDiffer, Commands
<1>5. \A c \in Commands(queue) : c.id \in IdsOf(queue) /\ c.id \in arrived
  BY IdsOfCommands DEF Places
<1>6. Copies'
  BY <1>1, <1>2, <1>3, <1>4, <1>5 DEF Copies, Deliveries
<1>7. \A id \in AllIds : Pending(id)' => Pending(id)
  <2> SUFFICES ASSUME NEW id \in AllIds, Pending(id)'
               PROVE  Pending(id)
    OBVIOUS
  <2>1. CASE \E u \in Turns : \E cmd \in snapshot'[u] : cmd.id = id
    BY <1>2, <1>3, <1>5, <2>1 DEF Pending
  <2>2. CASE ~ \E u \in Turns : \E cmd \in snapshot'[u] : cmd.id = id
    BY <1>1, <2>2 DEF Pending
  <2> QED
    BY <2>1, <2>2
<1> QED
  BY <1>1, <1>3, <1>6, <1>7, NothingDelivered

LEMMA DeliveriesEndDrain ==
  ASSUME Calm, Places, Deliveries, Undisturbed, NEW t \in Turns, EndDrain(t)
  PROVE  Deliveries'
<1> DEFINE consumed == {cmd \in snapshot[t] : cmd.mode # "bash"}
           ids == {cmd.id : cmd \in consumed}
           kept == Commands(queue) \ consumed
<1>1. /\ pc[t] = "querying" /\ pc' = pc /\ batch' = batch /\ arrived' = arrived
      /\ snapshot' = [snapshot EXCEPT ![t] = {}]
      /\ Deliver(ids) /\ queue' = Only(queue, kept)
  BY DEF EndDrain, Without
<1>2. \A u \in Turns : u # t => pc[u] = "free" /\ snapshot[u] = {}
  BY <1>1, OnlyTurnCopies
<1>3. consumed \subseteq snapshot[t]
  OBVIOUS
<1> HIDE DEF consumed
<1>4. DOMAIN snapshot' = Turns /\ \A u \in Turns : snapshot'[u] = {}
  BY <1>1, <1>2 DEF Deliveries
<1>5. Copies'
  BY <1>4 DEF Copies
<1>6. Commands(queue') = Commands(queue) \ consumed
  <2>1. Commands(queue') = Commands(queue) \cap kept
    <3> HIDE DEF kept
    <3> QED
      BY <1>1, OnlyKeeps DEF Places
  <2> QED
    BY <2>1
<1>7. \A u \in Turns : pc'[u] # "processing"
  BY <1>1, <1>2
<1>8. \A cmd \in consumed :
        cmd.id \in arrived /\ \A c \in Commands(queue) : c.id = cmd.id => c = cmd
  BY <1>3 DEF Deliveries, Copies
<1>9. ids \cap IdsOf(queue') = {} /\ ids \subseteq arrived
  BY <1>6, <1>8, IdsOfCommands
<1>10. IdsOf(queue') \subseteq IdsOf(queue)
  BY <1>6, IdsOfCommands
<1>11. \A id \in ids : Pending(id)
  BY <1>3 DEF Pending
<1> HIDE DEF ids
<1>12. \A id \in AllIds : Pending(id)' => Pending(id) /\ id \notin ids
  BY <1>1, <1>4, <1>7, <1>9, <1>10 DEF Pending
<1> QED
  BY <1>1, <1>4, <1>5, <1>11, <1>12, SomeDelivered

\* The queue may lose commands or gain new ones, copies may be dropped, and no
\* turn begins to process.
LEMMA DeliveriesQueueChanges ==
  ASSUME Places, Deliveries, Undisturbed, delivered' = delivered,
         arrived \subseteq arrived', DOMAIN snapshot' = Turns,
         \A t \in Turns : snapshot'[t] = snapshot[t] \/ snapshot'[t] = {},
         \A t \in Turns : snapshot'[t] # {} => pc'[t] = "querying",
         \A t \in Turns : pc'[t] = "processing" => pc[t] = "processing" /\ batch'[t] = batch[t],
         \A c \in Commands(queue') : c \in Commands(queue) \/ c.id \notin arrived
  PROVE  Deliveries'
<1>1. Copies'
  BY DEF Deliveries, Copies
<1>2. ASSUME NEW id \in AllIds, Pending(id)'
      PROVE  Pending(id)
  <2>1. CASE id \in IdsOf(queue')
    <3>1. PICK c \in Commands(queue') : c.id = id
      BY <2>1, IdsOfCommands
    <3>2. CASE c \in Commands(queue)
      BY <3>1, <3>2, IdsOfCommands DEF Pending
    <3>3. CASE id \notin arrived
      BY <3>3 DEF Pending
    <3> QED
      BY <3>1, <3>2, <3>3
  <2>2. CASE id \notin IdsOf(queue')
    BY <1>2, <2>2 DEF Pending
  <2> QED
    BY <2>1, <2>2
<1> QED
  BY <1>1, <1>2, NothingDelivered

LEMMA DeliveriesStep ==
  /\ ~ EagerEffects /\ Shape /\ Numbers /\ Calm /\ Places /\ Deliveries
  /\ [Next]_vars
  => Deliveries'
<1> SUFFICES ASSUME ~ EagerEffects, Shape, Numbers, Calm, Places, Deliveries,
                    [Next]_vars
             PROVE  Deliveries'
  OBVIOUS
\* After an interruption nothing is said of the deliveries.
<1>1. ASSUME DOMAIN snapshot' = Turns, ~ Undisturbed'
      PROVE  Deliveries'
  BY <1>1 DEF Deliveries
<1>2. ASSUME DOMAIN snapshot' = Turns, ~ Undisturbed, interrupts' = interrupts
      PROVE  Deliveries'
  BY <1>1, <1>2 DEF Undisturbed
<1>3. ASSUME NEW cmd, Cancel \/ Timeout \/ KillAgents(cmd)
      PROVE  Deliveries'
  <2>1. snapshot' = snapshot /\ interrupts' = interrupts + 1
    BY <1>3 DEF Cancel, Timeout, KillAgents, turnVars
  <2> QED
    BY <1>1, <2>1 DEF Numbers, Undisturbed, Deliveries
<1>4. ASSUME NEW t \in Turns, NEW cmd \in UserCommands, SubmitIdle(t, cmd)
      PROVE  Deliveries'
  <2>1. interrupts' = interrupts /\ snapshot' = snapshot
    BY <1>4 DEF SubmitIdle, StartExecution
  <2> QED
    BY <1>2, <1>4, <2>1, DeliveriesSubmit DEF Deliveries
<1>5. ASSUME NEW t \in Turns, ProcessQueue(t)
      PROVE  Deliveries'
  <2>1. interrupts' = interrupts /\ snapshot' = snapshot
    BY <1>5 DEF ProcessQueue, StartExecution
  <2> QED
    BY <1>2, <1>5, <2>1, DeliveriesProcessQueue DEF Deliveries
<1>6. ASSUME NEW t \in Turns, NEW cmd \in TeammateMessages, IncomingPrompt(t, cmd)
      PROVE  Deliveries'
  <2>1. interrupts' = interrupts /\ snapshot' = snapshot
    BY <1>6 DEF IncomingPrompt
  <2> QED
    BY <1>2, <1>6, <2>1, DeliveriesIncoming DEF Deliveries
<1>7. ASSUME NEW t \in Turns, QueryStarts(t)
      PROVE  Deliveries'
  <2>1. interrupts' = interrupts /\ snapshot' = snapshot
    BY <1>7 DEF QueryStarts
  <2> QED
    BY <1>2, <1>7, <2>1, DeliveriesQueryStarts DEF Deliveries
<1>8. ASSUME NEW t \in Turns, NEW threshold, BeginDrain(t, threshold)
      PROVE  Deliveries'
  <2>1. interrupts' = interrupts /\ DOMAIN snapshot' = Turns
    BY <1>8 DEF BeginDrain, Deliveries
  <2> QED
    BY <1>2, <1>8, <2>1, DeliveriesBeginDrain
<1>9. ASSUME NEW t \in Turns, EndDrain(t)
      PROVE  Deliveries'
  <2>1. interrupts' = interrupts /\ DOMAIN snapshot' = Turns
    BY <1>9 DEF EndDrain, Deliveries
  <2> QED
    BY <1>2, <1>9, <2>1, DeliveriesEndDrain
\* No query can be refused while there is only one turn.
<1>10. ASSUME NEW t \in Turns, QueryRefused(t)
       PROVE  Deliveries'
  <2>1. /\ interrupts' = interrupts /\ snapshot' = snapshot
        /\ pc[t] = "processing" /\ status = "running"
    BY <1>10 DEF QueryRefused
  <2>2. ~ Undisturbed
    BY <2>1 DEF Calm, CalmTurn
  <2> QED
    BY <1>2, <2>1, <2>2 DEF Deliveries
<1>11. ASSUME interrupts' = interrupts, delivered' = delivered,
              arrived' = arrived, snapshot' = snapshot, batch' = batch,
              Commands(queue') \subseteq Commands(queue),
              NEW t \in Turns, pc[t] # "querying", pc'[t] # "processing" \/ pc' = pc,
              \A u \in Turns \ {t} : pc'[u] = pc[u]
       PROVE  Deliveries'
  <2>1. CASE Undisturbed
    <3>1. /\ \A u \in Turns : snapshot[u] # {} => u # t /\ pc[u] = "querying"
          /\ DOMAIN snapshot' = Turns
      BY <1>11, <2>1 DEF Deliveries, Copies
    <3> QED
      BY <1>11, <2>1, <3>1, DeliveriesQueueChanges
  <2> QED
    BY <1>2, <1>11, <2>1 DEF Deliveries
<1>12. ASSUME NEW t \in Turns, ProcessingThrows(t) \/ ProcessingIsLocal(t)
       PROVE  Deliveries'
  <2>1. /\ interrupts' = interrupts /\ delivered' = delivered
        /\ arrived' = arrived /\ snapshot' = snapshot /\ batch' = batch
        /\ queue' = queue /\ pc[t] # "querying" /\ pc'[t] # "processing"
        /\ \A u \in Turns \ {t} : pc'[u] = pc[u]
    BY <1>12 DEF Shape, ProcessingThrows, ProcessingIsLocal
  <2> QED
    BY <1>11, <2>1
\* Nothing but the queue changes.
<1>13. ASSUME interrupts' = interrupts, delivered' = delivered,
              arrived \subseteq arrived', snapshot' = snapshot, batch' = batch,
              pc' = pc,
              \A c \in Commands(queue') : c \in Commands(queue) \/ c.id \notin arrived
       PROVE  Deliveries'
  <2>1. CASE Undisturbed
    <3>1. /\ \A u \in Turns : snapshot[u] # {} => pc[u] = "querying"
          /\ DOMAIN snapshot' = Turns
      BY <1>13, <2>1 DEF Deliveries, Copies
    <3> QED
      BY <1>13, <2>1, <3>1, DeliveriesQueueChanges
  <2> QED
    BY <1>2, <1>13, <2>1 DEF Deliveries
<1>14. ASSUME NEW cmd \in AllCommands, SubmitActive(cmd) \/ Notify(cmd)
       PROVE  Deliveries'
  <2>1. /\ interrupts' = interrupts /\ delivered' = delivered
        /\ cmd.id \notin arrived /\ arrived' = arrived \cup {cmd.id}
        /\ snapshot' = snapshot /\ batch' = batch /\ pc' = pc
        /\ queue' = Append(queue, cmd)
    BY <1>14 DEF SubmitActive, Notify, Arrive, turnVars, fateVars
  <2>2. Commands(queue') = Commands(queue) \cup {cmd}
    BY <2>1, ArrivingCommand, AppendPreserves DEF Places
  <2> QED
    BY <1>13, <2>1, <2>2
<1>15. CASE PopQueue
  <2> DEFINE kept == {cmd \in Commands(queue) : ~ IsEditable(cmd)}
  <2>1. /\ interrupts' = interrupts /\ delivered' = delivered
        /\ arrived' = arrived /\ snapshot' = snapshot /\ batch' = batch
        /\ pc' = pc /\ queue' = Only(queue, kept)
    BY <1>15 DEF PopQueue, AfterPop, turnVars
  <2> HIDE DEF kept
  <2>2. Commands(queue') \subseteq Commands(queue)
    BY <2>1, OnlyKeeps DEF Places
  <2> QED
    BY <1>13, <2>1, <2>2
<1>16. CASE AbortForUrgent \/ UNCHANGED vars
  BY <1>13, <1>16 DEF AbortForUrgent, vars, turnVars, fateVars
\* A turn goes on to its end: it has no copies, and processes nothing.
<1>17. ASSUME interrupts' = interrupts, delivered' = delivered,
              arrived \subseteq arrived',
              \A c \in Commands(queue') : c \in Commands(queue) \/ c.id \notin arrived,
              NEW t \in Turns, Undisturbed => snapshot[t] = {}, pc'[t] # "processing",
              \/ Vacate(t)
              \/ snapshot' = snapshot /\ batch' = batch /\ pc' = [pc EXCEPT ![t] = pc'[t]]
       PROVE  Deliveries'
  <2>1. /\ \A u \in Turns \ {t} :
             snapshot'[u] = snapshot[u] /\ pc'[u] = pc[u] /\ batch'[u] = batch[u]
        /\ snapshot'[t] \in {snapshot[t], {}} /\ DOMAIN snapshot' = Turns
    BY <1>17 DEF Shape, Places, Deliveries, Vacate
  <2>2. CASE Undisturbed
    <3>1. \A u \in Turns : snapshot'[u] # {} => u # t /\ pc'[u] = "querying"
      BY <1>17, <2>1, <2>2 DEF Deliveries, Copies
    <3> QED
      BY <1>17, <2>1, <2>2, <3>1, DeliveriesQueueChanges
  <2> QED
    BY <1>2, <1>17, <2>1, <2>2
<1>18. ASSUME NEW t \in Turns, NEW local \in BOOLEAN, QueryEnds(t, local)
       PROVE  Deliveries'
  <2>1. /\ interrupts' = interrupts /\ delivered' = delivered
        /\ arrived' = arrived /\ queue' = queue /\ snapshot[t] = {}
        /\ \/ Vacate(t)
           \/ /\ snapshot' = snapshot /\ batch' = batch
              /\ \E phase \in {"settling", "returning"} : pc' = [pc EXCEPT ![t] = phase]
    BY <1>18 DEF QueryEnds, fateVars
  <2>2. pc'[t] # "processing"
    BY <2>1 DEF Shape, Vacate
  <2>3. Vacate(t) \/ pc' = [pc EXCEPT ![t] = pc'[t]]
    BY <2>1 DEF Shape
  <2> QED
    BY <1>17, <2>1, <2>2, <2>3
<1>19. ASSUME NEW t \in Turns, Settle(t)
       PROVE  Deliveries'
  <2>1. /\ interrupts' = interrupts /\ delivered' = delivered
        /\ arrived' = arrived /\ queue' = queue /\ pc[t] = "settling"
        /\ \/ Vacate(t)
           \/ /\ snapshot' = snapshot /\ batch' = batch
              /\ pc' = [pc EXCEPT ![t] = "returning"]
    BY <1>19 DEF Settle, fateVars
  <2>2. pc'[t] # "processing" /\ (Undisturbed => snapshot[t] = {})
    BY <2>1 DEF Shape, Vacate, Deliveries, Copies
  <2>3. Vacate(t) \/ pc' = [pc EXCEPT ![t] = pc'[t]]
    BY <2>1 DEF Shape
  <2> QED
    BY <1>17, <2>1, <2>2, <2>3
<1>20. ASSUME NEW t \in Turns, Unwind(t)
       PROVE  Deliveries'
  <2>1. /\ interrupts' = interrupts /\ delivered' = delivered
        /\ arrived' = arrived /\ queue' = queue /\ pc[t] = "unwinding"
        /\ Vacate(t)
    BY <1>20 DEF Unwind, fateVars
  <2>2. pc'[t] # "processing" /\ (Undisturbed => snapshot[t] = {})
    BY <2>1 DEF Shape, Vacate, Deliveries, Copies
  <2> QED
    BY <1>17, <2>1, <2>2
<1>21. ASSUME NEW t \in Turns, NEW followUps \in FollowUps, Return(t, followUps)
       PROVE  Deliveries'
  <2>1. /\ interrupts' = interrupts /\ delivered' = delivered
        /\ arrived' = arrived \cup IdsOf(followUps) /\ queue' = queue \o followUps
        /\ IdsOf(followUps) \cap arrived = {}
        /\ pc[t] = "returning" /\ Vacate(t)
    BY <1>21 DEF Return, fateVars
  <2>2. pc'[t] # "processing" /\ (Undisturbed => snapshot[t] = {})
    BY <2>1 DEF Shape, Vacate, Deliveries, Copies
  <2>3. followUps \in Seq(Queueable) /\ IdsDiffer(followUps)
    BY FollowUpsTyped
  <2>4. \A c \in Commands(queue), d \in Commands(followUps) : c.id # d.id
    <3>1. IdsOf(queue) \cap IdsOf(followUps) = {}
      BY <2>1 DEF Places
    <3> QED
      BY <3>1, IdsOfCommands
  <2>5. Commands(queue') = Commands(queue) \cup Commands(followUps)
    BY <2>1, <2>3, <2>4, ConcatPreserves DEF Places
  <2>6. \A c \in Commands(followUps) : c.id \notin arrived
    BY <2>1, IdsOfCommands
  <2> QED
    BY <1>17, <2>1, <2>2, <2>5, <2>6
<1> QED
  BY <1>3, <1>4, <1>5, <1>6, <1>7, <1>8, <1>9, <1>10, <1>12, <1>14, <1>15,
     <1>16, <1>18, <1>19, <1>20, <1>21 DEF Next, AllCommands

\* If effects wait for continuations, then until something is interrupted no
\* command reaches the conversation twice: neither a second reader nor the
\* drain that left it in the queue while it was attached delivers it again.
THEOREM DeliveredAtMostOnce ==
  ASSUME ~ EagerEffects
  PROVE  Spec => []DeliveredOnce
<1>1. Deliveries => DeliveredOnce
  BY DEF Deliveries, DeliveredOnce
<1>2. /\ ~ EagerEffects /\ Shape /\ Numbers /\ Calm /\ Places /\ Deliveries
      /\ [Next]_vars
      => (Shape /\ Numbers /\ Calm /\ Places /\ Deliveries)'
  BY ShapeStep, NumbersStep, CalmStep, PlacesStep, DeliveriesStep
<1> QED
  BY <1>1, <1>2, ShapeInit, NumbersInit, CalmInit, PlacesInit, DeliveriesInit,
     PTL DEF Spec

-----------------------------------------------------------------------------
(* Types and bounds.                                                       *)

\* A query starts only if the generations suffice for the interruptions to come,
\* and only what arrived is dropped.
Bounds ==
  /\ interrupts <= MaxInterrupts
  /\ generation + MaxInterrupts <= MaxGeneration + interrupts
  /\ \A t \in Turns : gen[t] <= generation
  /\ aborted \subseteq Turns
  /\ controller \in Turns \cup {NoTurn}
  /\ dropped \subseteq arrived

LEMMA BoundsInit == Init => Bounds
BY BoundsAssumption DEF Init, Bounds

\* A turn leaves its slot, and maybe the guard.
LEMMA BoundsVacate ==
  ASSUME Numbers, Bounds, NEW t \in Turns,
         Vacate(t) \/ UNCHANGED <<gen, aborted>>,
         UNCHANGED <<generation, dropped, interrupts>>, arrived \subseteq arrived',
         controller' \in {controller, NoTurn}
  PROVE  Bounds'
<1>1. \A u \in Turns : gen'[u] \in {gen[u], 0}
  BY DEF Vacate, Numbers
<1>2. aborted' \subseteq aborted
  BY DEF Vacate
<1> QED
  BY <1>1, <1>2 DEF Bounds, Numbers

LEMMA BoundsStarts ==
  ASSUME Numbers, Bounds, NEW t \in Turns, TryStart(t),
         aborted' \subseteq aborted, controller' \in {controller, t},
         UNCHANGED <<dropped, interrupts>>, arrived \subseteq arrived'
  PROVE  Bounds'
<1>1. /\ generation + 2 * MaxInterrupts - 2 * interrupts < MaxGeneration
      /\ generation' = generation + 1 /\ gen' = [gen EXCEPT ![t] = generation']
  BY DEF TryStart
<1>2. generation' + MaxInterrupts <= MaxGeneration + interrupts
  BY <1>1, BoundsAssumption DEF Bounds, Numbers
<1>3. \A u \in Turns : gen'[u] <= generation'
  BY <1>1 DEF Bounds, Numbers
<1> QED
  BY <1>2, <1>3 DEF Bounds

LEMMA BoundsStep == Numbers /\ Places /\ Shape /\ Bounds /\ [Next]_vars => Bounds'
<1> SUFFICES ASSUME Numbers, Places, Shape, Bounds, [Next]_vars
             PROVE  Bounds'
  OBVIOUS
<1> USE DEF guardVars, turnVars, fateVars
<1>0. ASSUME UNCHANGED <<generation, gen, interrupts>>, aborted' \subseteq Turns,
             controller' \in Turns \cup {NoTurn}, dropped' \subseteq arrived'
      PROVE  Bounds'
  BY <1>0 DEF Bounds
<1>1. ASSUME NEW t \in Turns, NEW cmd, SubmitIdle(t, cmd) \/ ProcessQueue(t)
      PROVE  Bounds'
  BY <1>0, <1>1 DEF SubmitIdle, ProcessQueue, StartExecution, Arrive, Bounds
<1>2. ASSUME NEW t \in Turns, NEW cmd, IncomingPrompt(t, cmd) \/ QueryStarts(t)
      PROVE  Bounds'
  BY <1>2, BoundsStarts DEF IncomingPrompt, QueryStarts, Arrive
<1>3. ASSUME NEW t \in Turns,
             ProcessingThrows(t) \/ ProcessingIsLocal(t) \/ QueryRefused(t)
      PROVE  Bounds'
  <2>1. IdsOf(batch[t]) \subseteq arrived
    BY <1>3 DEF Places, ProcessingThrows, ProcessingIsLocal, QueryRefused
  <2> QED
    BY <1>0, <1>3, <2>1 DEF ProcessingThrows, ProcessingIsLocal, QueryRefused, Bounds
<1>4. ASSUME NEW t \in Turns, NEW local, NEW followUps,
             \/ QueryEnds(t, local) \/ Settle(t)
             \/ Return(t, followUps) \/ Unwind(t)
      PROVE  Bounds'
  <2>1. /\ Vacate(t) \/ UNCHANGED <<gen, aborted>>
        /\ UNCHANGED <<generation, dropped, interrupts>> /\ arrived \subseteq arrived'
        /\ controller' \in {controller, NoTurn}
    BY <1>4 DEF QueryEnds, Settle, Return, Unwind
  <2> QED
    BY <2>1, BoundsVacate
<1>5. CASE Cancel \/ Timeout
  <2>1. /\ interrupts < MaxInterrupts /\ interrupts' = interrupts + 1
        /\ generation' \in {generation, generation + 1}
        /\ aborted' \subseteq Turns /\ controller' = NoTurn
        /\ UNCHANGED <<gen, dropped, arrived>>
    BY <1>5 DEF Cancel, Timeout, ForceEnd, Abort, Bounds
  <2>2. /\ interrupts' <= MaxInterrupts
        /\ generation' + MaxInterrupts <= MaxGeneration + interrupts'
    <3>1. /\ interrupts \in Nat /\ generation \in Nat
          /\ MaxInterrupts \in Nat /\ MaxGeneration \in Nat
      BY BoundsAssumption DEF Numbers
    <3>2. generation + MaxInterrupts <= MaxGeneration + interrupts
      BY DEF Bounds
    <3>3. interrupts' <= MaxInterrupts
      BY <2>1, <3>1
    <3>4. CASE generation' = generation
      BY <2>1, <3>1, <3>2, <3>3, <3>4
    <3>5. CASE generation' = generation + 1
      BY <2>1, <3>1, <3>2, <3>3, <3>5
    <3> QED
      BY <2>1, <3>4, <3>5
  <2>3. ASSUME NEW t \in Turns
        PROVE  gen'[t] <= generation'
    <3>1. gen[t] \in Nat /\ gen[t] <= generation /\ gen' = gen
      BY <2>1 DEF Bounds, Numbers
    <3> QED
      BY <2>1, <3>1 DEF Numbers
  <2> QED
    BY <2>1, <2>2, <2>3 DEF Bounds
<1>6. ASSUME NEW cmd, SubmitActive(cmd) \/ Notify(cmd)
      PROVE  Bounds'
  BY <1>0, <1>6 DEF SubmitActive, Notify, Arrive, Bounds
<1>7. ASSUME NEW cmd, KillAgents(cmd)
      PROVE  Bounds'
  <2>1. /\ interrupts < MaxInterrupts /\ interrupts' = interrupts + 1
        /\ dropped' = dropped \cup IdsOf(queue) /\ arrived \subseteq arrived'
        /\ UNCHANGED <<generation, gen, aborted, controller>>
    BY <1>7 DEF KillAgents, Arrive
  <2>2. IdsOf(queue) \subseteq arrived
    BY DEF Places
  <2>3. /\ interrupts' <= MaxInterrupts
        /\ generation + MaxInterrupts <= MaxGeneration + interrupts'
    BY <2>1, BoundsAssumption DEF Bounds, Numbers
  <2> QED
    BY <2>1, <2>2, <2>3 DEF Bounds
<1>8. ASSUME NEW t, NEW threshold, BeginDrain(t, threshold) \/ EndDrain(t)
      PROVE  Bounds'
  BY <1>0, <1>8 DEF BeginDrain, EndDrain, Bounds
<1>9. CASE PopQueue
  <2>1. IdsOf(queue) \subseteq arrived
    BY DEF Places
  <2> QED
    BY <1>0, <1>9, <2>1 DEF PopQueue, Bounds
<1>10. CASE AbortForUrgent \/ UNCHANGED vars
  BY <1>0, <1>10 DEF AbortForUrgent, Abort, vars, Bounds
<1> QED
  BY <1>1, <1>2, <1>3, <1>4, <1>5, <1>6, <1>7, <1>8, <1>9, <1>10 DEF Next

\* The state of the turns is well typed: generations stay within the bound, whoever
\* ends or interrupts them, and nothing is given up that did not arrive.
THEOREM TypeCorrect == Spec => []TypeOK
<1>1. Shape /\ Numbers /\ Places /\ Bounds => TypeOK
  <2> SUFFICES ASSUME Shape, Numbers, Places, Bounds
               PROVE  TypeOK
    OBVIOUS
  <2>1. generation \in 0..MaxGeneration
    BY BoundsAssumption DEF Numbers, Bounds
  <2>2. gen \in [Turns -> 0..MaxGeneration]
    <3>1. \A t \in Turns : gen[t] \in Nat /\ gen[t] <= generation
      BY DEF Numbers, Bounds
    <3>2. \A t \in Turns : gen[t] \in 0..MaxGeneration
      BY <2>1, <3>1, BoundsAssumption
    <3> QED
      BY <3>2 DEF Numbers
  <2> QED
    BY <2>1, <2>2 DEF Shape, Places, Bounds, TypeOK
<1> QED
  BY <1>1, ShapeInit, ShapeStep, NumbersInit, NumbersStep, PlacesInit, PlacesStep,
     BoundsInit, BoundsStep, PTL DEF Spec
=============================================================================
