--------------------------- MODULE QueryLoopProofs ---------------------------
(***************************************************************************)
(* Proofs about QueryLoop, for any queries, limits and providers.          *)
(***************************************************************************)
EXTENDS QueryLoop, WellFoundedInduction, TLAPS

USE QueriesAssumption, LimitsAssumption

\* New tool uses are new: no message, result or answer has their id.
LEMMA NewUsesFresh ==
  ASSUME NEW uses \in NewUses
  PROVE  uses \subseteq 1..MaxUses /\ uses \cap Used = {}
<1>1. CASE round.mode = "fallback"
  BY <1>1 DEF NewUses
<1>2. CASE round.mode # "fallback"
  BY <1>2 DEF NewUses
<1> QED
  BY <1>1, <1>2

LEMMA NoResponseTyped ==
  \A mode \in {"streaming", "fallback", "complete"} : NoResponse(mode) \in Responses
BY DEF NoResponse, Responses, Kinds, Ids

LEMMA CurrentTyped == TypeOK => Current \in Responses
BY NoResponseTyped DEF TypeOK, Current, Restarted, Responses

LEMMA EffectiveTyped == TypeOK => Effective \in {Undefined, Escalated} \cup Caps
BY DEF TypeOK, States, Effective, Undefined

LEMMA RetryTyped ==
  ASSUME TypeOK, NEW next \in States, NEW changed \in BOOLEAN, Retry(next, changed),
         tracker' \in Trackers, world' \in Worlds,
         UNCHANGED <<config, aborted, unanswered, late, sent>>
  PROVE  TypeOK'
<1>1. phase' \in Phases /\ round' \in Responses /\ state' \in States
  BY NoResponseTyped DEF Retry, Phases
<1>2. messages' \in [uses : Ids, results : Ids, changed : BOOLEAN]
  BY DEF Retry, TypeOK
<1> QED
  BY <1>1, <1>2 DEF TypeOK

\* The counters stay in their bounds.
LEMMA CountersTyped ==
  /\ 0 \in 0..RecoveryLimit /\ 0 \in 0..NudgeLimit
  /\ \A n \in 0..RecoveryLimit : n < RecoveryLimit => n + 1 \in 0..RecoveryLimit
  /\ \A n \in 0..NudgeLimit : n < NudgeLimit => n + 1 \in 0..NudgeLimit
  /\ \A n \in 1..MaxTurns : n + 1 <= MaxTurns => n + 1 \in 1..MaxTurns
OBVIOUS

LEMMA AfterTyped ==
  ASSUME TypeOK, NEW transition \in Transitions
  PROVE  After(transition) \in States
BY DEF TypeOK, After, States

-----------------------------------------------------------------------------
LEMMA InitTyped == Init => TypeOK
<1> SUFFICES ASSUME Init PROVE TypeOK
  OBVIOUS
<1>1. round \in Responses
  BY NoResponseTyped DEF Init
<1>2. state \in States
  BY DEF Init, States, Undefined, Transitions
<1>3. tracker \in Trackers
  BY DEF Init, Trackers
<1>4. world \in Worlds
  BY DEF Init, Worlds
<1>5. sent \in [limit : {Undefined, Escalated} \cup Caps, chain : Nat,
                repeated : BOOLEAN]
  BY DEF Init, Undefined
<1> QED
  BY <1>1, <1>2, <1>3, <1>4, <1>5 DEF Init, TypeOK, Phases, Ids

LEMMA StepTyped == TypeOK /\ [Next]_vars => TypeOK'
<1> SUFFICES ASSUME TypeOK, [Next]_vars PROVE TypeOK'
  OBVIOUS
<1>1. CASE UNCHANGED vars
  BY <1>1 DEF TypeOK, vars
<1>2. CASE Prepare
  <2>1. world' \in Worlds
    <3>1. PICK stages \in BOOLEAN :
            /\ stages => world.stagings > 0
            /\ world' = [world EXCEPT !.staged = stages,
                                     !.stagings = IF stages THEN @ - 1 ELSE @]
      BY <1>2 DEF Prepare
    <3>2. world.stagings \in Nat
      BY DEF TypeOK, Worlds
    <3>3. (IF stages THEN world.stagings - 1 ELSE world.stagings) \in Nat
      BY <3>1, <3>2
    <3> QED
      BY <3>1, <3>3 DEF TypeOK, Worlds
  <2>2. sent' \in [limit : {Undefined, Escalated} \cup Caps, chain : Nat,
                  repeated : BOOLEAN]
    BY <1>2, EffectiveTyped DEF Prepare, Repeats, TypeOK, Worlds
  <2>3. messages' \in [uses : Ids, results : Ids, changed : BOOLEAN]
    BY <1>2 DEF Prepare, TypeOK
  <2> QED
    BY <1>2, <2>1, <2>2, <2>3 DEF Prepare, TypeOK, Phases
<1>3. CASE Blocked
  BY <1>3 DEF Blocked, Return, TypeOK, Phases
<1>4. ASSUME NEW uses \in NewUses, NEW done \in SUBSET (Current.executor \cup uses),
             ReceiveTools(uses, done)
      PROVE  TypeOK'
  <2>1. done \subseteq 1..MaxUses
    BY CurrentTyped, NewUsesFresh DEF Responses, Ids
  <2>2. round' \in Responses
    BY <1>4, <2>1, CurrentTyped, NewUsesFresh DEF ReceiveTools, Responses, Kinds, Ids
  <2> QED
    BY <1>4, <2>1, <2>2, NewUsesFresh DEF ReceiveTools, TypeOK, Ids
<1>5. ASSUME NEW kind \in Kinds, NEW done \in SUBSET Current.executor,
             NEW cap \in IF kind = "provider_cap" THEN Caps ELSE {Undefined},
             ReceiveOther(kind, cap, done)
      PROVE  TypeOK'
  <2>1. done \subseteq 1..MaxUses
    BY CurrentTyped DEF Responses, Ids
  <2>2. Withheld(kind) \in BOOLEAN
    BY DEF Withheld
  <2>3. round' \in Responses
    BY <1>5, <2>1, <2>2, CurrentTyped DEF ReceiveOther, Responses, Ids
  <2> QED
    BY <1>5, <2>3 DEF ReceiveOther, TypeOK, Ids
<1>6. CASE FallsBackToNonStreaming
  BY <1>6 DEF FallsBackToNonStreaming, TypeOK, Responses
<1>7. CASE Notice
  BY <1>7 DEF Notice, Restarted, NoResponse, TypeOK, Kinds, Responses, Ids
<1>8. CASE ModelOverloaded
  BY <1>8, NoResponseTyped DEF ModelOverloaded, TypeOK, Worlds, Ids
<1>9. CASE ImageError
  BY <1>9 DEF ImageError, Return, TypeOK, Phases
<1>10. CASE ModelError
  BY <1>10 DEF ModelError, Return, TypeOK, Phases, Ids
<1>11. CASE StreamEnds
  <2>1. tracker' \in Trackers
    <3>1. PICK many \in {0, 1} :
            /\ many <= tracker.left
            /\ tracker' = [tracker EXCEPT !.left = @ - many, !.delta = @ + many]
      BY <1>11 DEF StreamEnds
    <3>2. tracker.left \in Nat /\ tracker.delta \in Nat
      BY DEF TypeOK, Trackers
    <3>3. tracker.left - many \in Nat /\ tracker.delta + many \in Nat
      BY <3>1, <3>2
    <3> QED
      BY <3>1, <3>3 DEF TypeOK, Trackers
  <2> QED
    BY <1>11, <2>1 DEF StreamEnds, TypeOK, Phases
<1>12. CASE AbortedStreaming
  BY <1>12 DEF AbortedStreaming, Return, TypeOK, Phases, Ids
<1>13. CASE DrainsCollapse
  <2> DEFINE next == [After("collapse_drain_retry") EXCEPT !.override = Undefined]
  <2>1. next \in States
    BY <1>13, AfterTyped DEF DrainsCollapse, After, States, Transitions, TypeOK, Responses
  <2>2. world' \in Worlds
    BY <1>13 DEF DrainsCollapse, TypeOK, Worlds
  <2> QED
    BY <1>13, <2>1, <2>2, RetryTyped DEF DrainsCollapse, TypeOK
<1>14. CASE RetriesWithCap
  <2> DEFINE next == [After("provider_max_tokens_retry") EXCEPT
                  !.cap = IF @ = Undefined \/ round.cap < @ THEN round.cap ELSE @]
  <2>1. next \in States
    BY <1>14, AfterTyped DEF RetriesWithCap, After, States, Transitions, TypeOK, Responses
  <2> QED
    BY <1>14, <2>1, RetryTyped DEF RetriesWithCap, TypeOK
<1>15. CASE EscalatesLimit
  <2> DEFINE next == [After("other") EXCEPT !.override = Escalated]
  <2>1. next \in States
    BY <1>15, AfterTyped DEF EscalatesLimit, After, States, Transitions, TypeOK, Responses
  <2> QED
    BY <1>15, <2>1, RetryTyped DEF EscalatesLimit, TypeOK
<1>16. CASE ResumesResponse
  <2> DEFINE next == [After("other") EXCEPT
                  !.recoveries = @ + 1, !.override = Undefined]
  <2>1. next \in States
    <3>1. /\ After("other") \in States
          /\ After("other").recoveries = state.recoveries
          /\ After("other").nudges = state.nudges
      BY AfterTyped DEF After, Transitions, TypeOK, States
    <3>2. /\ state.recoveries \in 0..RecoveryLimit
          /\ state.nudges \in 0..NudgeLimit
      BY DEF TypeOK, States
    <3> QED
      BY <1>16, <3>1, <3>2, CountersTyped DEF ResumesResponse, States
  <2> QED
    BY <1>16, <2>1, RetryTyped DEF ResumesResponse, TypeOK
<1>17. CASE SwitchesProvider
  <2> DEFINE next == [After("other") EXCEPT
                  !.fellBack = TRUE, !.override = Undefined, !.cap = Undefined]
  <2>1. next \in States
    BY <1>17, AfterTyped DEF SwitchesProvider, CanSwitch, After, States,
       Transitions, TypeOK, Responses
  <2>2. world' \in Worlds
    BY <1>17 DEF SwitchesProvider, CanSwitch, TypeOK, Worlds
  <2> QED
    BY <1>17, <2>1, <2>2, RetryTyped DEF SwitchesProvider, TypeOK
<1>18. CASE SurfacesError
  BY <1>18 DEF SurfacesError, Return, Yielded, Forked, TypeOK, Phases, Responses
<1>19. CASE RunsHooks
  BY <1>19 DEF RunsHooks, TypeOK, Phases
<1>20. CASE HooksPrevent
  BY <1>20 DEF HooksPrevent, Return, TypeOK, Phases
<1>21. CASE HooksBlock
  <2> DEFINE next == [After("other") EXCEPT !.recoveries = 0, !.override = Undefined]
  <2>1. next \in States
    <3>1. /\ After("other") \in States
          /\ After("other").recoveries = state.recoveries
          /\ After("other").nudges = state.nudges
      BY AfterTyped DEF After, Transitions, TypeOK, States
    <3>2. /\ state.recoveries \in 0..RecoveryLimit
          /\ state.nudges \in 0..NudgeLimit
      BY DEF TypeOK, States
    <3> QED
      BY <1>21, <3>1, <3>2, CountersTyped DEF HooksBlock, States
  <2>2. world' \in Worlds
    BY <1>21 DEF HooksBlock, TypeOK, Worlds
  <2> QED
    BY <1>21, <2>1, <2>2, RetryTyped DEF HooksBlock, TypeOK
<1>22. CASE ContinuesBudget
  <2> DEFINE next == [After("other") EXCEPT
                  !.recoveries = 0, !.fellBack = FALSE, !.override = Undefined]
  <2>1. next \in States
    <3>1. /\ After("other") \in States
          /\ After("other").recoveries = state.recoveries
          /\ After("other").nudges = state.nudges
      BY AfterTyped DEF After, Transitions, TypeOK, States
    <3>2. /\ state.recoveries \in 0..RecoveryLimit
          /\ state.nudges \in 0..NudgeLimit
      BY DEF TypeOK, States
    <3> QED
      BY <1>22, <3>1, <3>2, CountersTyped DEF ContinuesBudget, States
  <2>2. tracker' \in Trackers
    <3>1. (IF tracker.count < 3 THEN tracker.count + 1 ELSE tracker.count) \in 0..3
      BY DEF TypeOK, Trackers
    <3> QED
      BY <1>22, <3>1 DEF ContinuesBudget, TypeOK, Trackers
  <2> QED
    BY <1>22, <2>1, <2>2, RetryTyped DEF ContinuesBudget, TypeOK
<1>23. CASE Nudges
  <2> DEFINE next == [After("other") EXCEPT
                  !.recoveries = 0, !.fellBack = FALSE, !.override = Undefined,
                  !.nudges = @ + 1]
  <2>1. next \in States
    <3>1. /\ After("other") \in States
          /\ After("other").recoveries = state.recoveries
          /\ After("other").nudges = state.nudges
      BY AfterTyped DEF After, Transitions, TypeOK, States
    <3>2. /\ state.recoveries \in 0..RecoveryLimit
          /\ state.nudges \in 0..NudgeLimit
      BY DEF TypeOK, States
    <3> QED
      BY <1>23, <3>1, <3>2, CountersTyped DEF Nudges, CanNudge, States
  <2> QED
    BY <1>23, <2>1, RetryTyped DEF Nudges, TypeOK
<1>24. CASE Completes
  BY <1>24 DEF Completes, Return, TypeOK, Phases
<1>25. CASE BeginsTools
  BY <1>25 DEF BeginsTools, TypeOK, Phases
<1>26. CASE RunsTools
  BY <1>26 DEF RunsTools, Drained, TypeOK, Phases, Responses, Ids
<1>27. CASE ToolsEnd
  BY <1>27 DEF ToolsEnd, Return, TypeOK, Phases
<1>28. CASE NextTurn
  <2>1. state' \in States
    <3>1. After("other") \in States /\ After("other").turn = state.turn
      BY AfterTyped DEF After, Transitions, TypeOK, States
    <3>2. state.turn \in 1..MaxTurns
      BY DEF TypeOK, States
    <3> QED
      BY <1>28, <3>1, <3>2, CountersTyped DEF NextTurn, States
  <2>2. messages' \in [uses : Ids, results : Ids, changed : BOOLEAN]
    BY <1>28 DEF NextTurn, TypeOK, Responses
  <2> QED
    BY <1>28, <2>1, <2>2, NoResponseTyped DEF NextTurn, TypeOK, Phases
<1>29. CASE Abort
  BY <1>29 DEF Abort, TypeOK
<1>30. CASE Receive
  BY <1>30, <1>4, <1>5 DEF Receive
<1> QED
  BY <1>1, <1>2, <1>3, <1>6, <1>7, <1>8, <1>9, <1>10, <1>11, <1>12, <1>13, <1>14,
     <1>15, <1>16, <1>17, <1>18, <1>19, <1>20, <1>21, <1>22, <1>23, <1>24, <1>25,
     <1>26, <1>27, <1>28, <1>29, <1>30 DEF Next, LoopStep
-----------------------------------------------------------------------------
(* What holds between the steps.                                           *)

\* A tool use of the response has its result, waits in the executor or came too
\* late for it; the consumer waits for no others.
Answers ==
  /\ round.results \subseteq round.uses /\ round.executor \subseteq round.uses
  /\ config.streaming => round.uses \subseteq round.results \cup round.executor \cup late
  /\ late # {} => aborted
  /\ phase \in {"prepare", "hooks", "tools", "after"} => late = {}
  /\ phase \in {"prepare", "hooks"} => round.uses = {}
  /\ phase = "after" => round.uses = round.results
  /\ phase # "done" => unanswered \subseteq round.uses \ round.results
  /\ phase = "done" => unanswered \subseteq late
  /\ messages.uses = messages.results

\* Only the errors that are yielded later are withheld.
Withholds ==
  /\ phase = "prepare" => round = NoResponse("streaming")
  /\ phase = "hooks" => round.last \notin Errors
  /\ phase \in {"tools", "after"} => round.uses # {}
  /\ round.withheld =>
       \/ round.uses # {}
       \/ phase = "done" /\ aborted
       \/ phase # "done" /\ round.last \in Errors /\ Yielded(round.last)

\* What was sent is what the state asks for, until the state asks for something
\* else.
Resends ==
  /\ phase \in {"stream", "settle"} => sent.limit = Effective /\ sent.chain = world.chain
  /\ phase \in {"stream", "settle"} /\ round.last = "provider_cap" => round.cap \in Caps
  /\ phase = "prepare" => ~Repeats
  /\ ~sent.repeated
\* The response that the next message continues is accounted for as well.
LEMMA CurrentAnswers ==
  ASSUME Answers, phase = "stream"
  PROVE  /\ Current.results \subseteq Current.uses
         /\ Current.executor \subseteq Current.uses
         /\ config.streaming =>
              Current.uses \subseteq Current.results \cup Current.executor \cup late
         /\ unanswered \ Retracted \subseteq Current.uses \ Current.results
BY DEF Answers, Current, Retracted, Restarted, NoResponse

LEMMA AnswersKept ==
  ASSUME TypeOK, Answers, [Next]_vars
  PROVE  Answers'
<1> USE DEF Answers
<1>1. CASE UNCHANGED vars
  BY <1>1 DEF vars
<1>2. CASE Prepare
  BY <1>2 DEF Prepare, TypeOK
<1>3. CASE Blocked
  BY <1>3 DEF Blocked, Return
<1>4. CASE FallsBackToNonStreaming
  BY <1>4 DEF FallsBackToNonStreaming, TypeOK, Responses
<1>5. CASE Notice
  BY <1>5 DEF Notice, Restarted, NoResponse
<1>6. CASE ModelOverloaded
  BY <1>6 DEF ModelOverloaded, NoResponse, Missing
<1>7. CASE ImageError
  BY <1>7 DEF ImageError, Return, NoResponse
<1>8. CASE ModelError
  BY <1>8 DEF ModelError, Return, Missing
<1>9. CASE StreamEnds
  BY <1>9 DEF StreamEnds
<1>10. CASE AbortedStreaming
  BY <1>10 DEF AbortedStreaming, Return, Drained
<1>11. CASE DrainsCollapse
  BY <1>11 DEF DrainsCollapse, Retry, NoResponse, Settled, TypeOK
<1>12. CASE RetriesWithCap
  BY <1>12 DEF RetriesWithCap, Retry, NoResponse, Settled, TypeOK
<1>13. CASE EscalatesLimit
  BY <1>13 DEF EscalatesLimit, Retry, NoResponse, Settled, TypeOK
<1>14. CASE ResumesResponse
  BY <1>14 DEF ResumesResponse, Retry, NoResponse, Settled, TypeOK
<1>15. CASE SwitchesProvider
  BY <1>15 DEF SwitchesProvider, Retry, NoResponse, Settled, TypeOK
<1>16. CASE SurfacesError
  BY <1>16 DEF SurfacesError, Return, Settled, TypeOK, Responses
<1>17. CASE RunsHooks
  BY <1>17 DEF RunsHooks, Settled
<1>18. CASE HooksPrevent
  BY <1>18 DEF HooksPrevent, Return
<1>19. CASE HooksBlock
  BY <1>19 DEF HooksBlock, Retry, NoResponse, TypeOK
<1>20. CASE ContinuesBudget
  BY <1>20 DEF ContinuesBudget, Retry, NoResponse, TypeOK
<1>21. CASE Nudges
  BY <1>21 DEF Nudges, Retry, NoResponse, TypeOK
<1>22. CASE Completes
  BY <1>22 DEF Completes, Return
<1>23. CASE BeginsTools
  BY <1>23 DEF BeginsTools, Settled
<1>24. CASE RunsTools
  BY <1>24 DEF RunsTools, Drained, TypeOK, Responses
<1>25. CASE ToolsEnd
  BY <1>25 DEF ToolsEnd, Return
<1>26. CASE NextTurn
  BY <1>26 DEF NextTurn, NoResponse, TypeOK
<1>27. CASE Abort
  BY <1>27 DEF Abort
<1>28. ASSUME NEW uses \in NewUses, NEW done \in SUBSET (Current.executor \cup uses),
             ReceiveTools(uses, done)
      PROVE  Answers'
  <2> DEFINE given == IF config.streaming /\ ~aborted THEN uses ELSE {}
  <2>1. uses \cap Current.uses = {} /\ uses \cap Current.results = {}
    BY NewUsesFresh DEF Current, Restarted, NoResponse, Used
  <2>2. /\ round'.uses = Current.uses \cup uses
        /\ round'.results = Current.results \cup done
        /\ round'.executor = (Current.executor \cup given) \ done
    BY <1>28, CurrentTyped DEF ReceiveTools, Responses
  <2>3. unanswered' = ((unanswered \ Retracted) \cup uses) \ done
    BY <1>28 DEF ReceiveTools
  <2>4. late' = IF aborted /\ config.streaming THEN late \cup uses ELSE late
    BY <1>28 DEF ReceiveTools
  <2>5. /\ done \subseteq Current.executor \cup given
        /\ given \subseteq uses
        /\ phase = "stream" /\ UNCHANGED <<config, phase, messages, aborted>>
    BY <1>28 DEF ReceiveTools
  <2>6. config.streaming => uses \subseteq given \cup late'
    BY <2>4
  <2>7. late \subseteq late' /\ (late' # {} => aborted)
    BY <2>4
  <2> HIDE DEF given
  <2> QED
    BY <2>1, <2>2, <2>3, <2>5, <2>6, <2>7, CurrentAnswers
<1>29. ASSUME NEW kind \in Kinds, NEW done \in SUBSET Current.executor,
             NEW cap \in IF kind = "provider_cap" THEN Caps ELSE {Undefined},
             ReceiveOther(kind, cap, done)
      PROVE  Answers'
  <2>1. /\ round'.uses = Current.uses
        /\ round'.results = Current.results \cup done
        /\ round'.executor = Current.executor \ done
    BY <1>29, CurrentTyped DEF ReceiveOther, Responses
  <2>2. unanswered' = (unanswered \ Retracted) \ done
    BY <1>29 DEF ReceiveOther
  <2>3. phase = "stream" /\ UNCHANGED <<config, phase, messages, aborted, late>>
    BY <1>29 DEF ReceiveOther
  <2> QED
    BY <2>1, <2>2, <2>3, CurrentAnswers
<1>30. CASE Receive
  BY <1>30, <1>28, <1>29 DEF Receive
<1> QED
  BY <1>1, <1>2, <1>3, <1>4, <1>5, <1>6, <1>7, <1>8, <1>9, <1>10, <1>11, <1>12,
     <1>13, <1>14, <1>15, <1>16, <1>17, <1>18, <1>19, <1>20, <1>21, <1>22, <1>23,
     <1>24, <1>25, <1>26, <1>27, <1>30 DEF Next, LoopStep

LEMMA WithholdsKept ==
  ASSUME TypeOK, Answers, Withholds, [Next]_vars
  PROVE  Withholds'
<1> USE DEF Withholds, Yielded, Forked
<1>1. CASE UNCHANGED vars
  BY <1>1 DEF vars
<1>2. CASE Prepare
  BY <1>2 DEF Prepare, NoResponse
<1>3. CASE Blocked
  BY <1>3 DEF Blocked, Return, NoResponse
<1>4. CASE FallsBackToNonStreaming
  BY <1>4 DEF FallsBackToNonStreaming, TypeOK, Responses
<1>5. CASE Notice
  BY <1>5 DEF Notice, Restarted, NoResponse
<1>6. CASE ModelOverloaded
  BY <1>6 DEF ModelOverloaded, NoResponse
<1>7. CASE ImageError
  BY <1>7 DEF ImageError, Return, NoResponse
<1>8. CASE ModelError
  BY <1>8 DEF ModelError, Return
<1>9. CASE StreamEnds
  BY <1>9 DEF StreamEnds
<1>10. CASE AbortedStreaming
  BY <1>10 DEF AbortedStreaming, Return
<1>11. CASE DrainsCollapse
  BY <1>11 DEF DrainsCollapse, Retry, NoResponse
<1>12. CASE RetriesWithCap
  BY <1>12 DEF RetriesWithCap, Retry, NoResponse
<1>13. CASE EscalatesLimit
  BY <1>13 DEF EscalatesLimit, Retry, NoResponse
<1>14. CASE ResumesResponse
  BY <1>14 DEF ResumesResponse, Retry, NoResponse
<1>15. CASE SwitchesProvider
  BY <1>15 DEF SwitchesProvider, Retry, NoResponse
<1>16. CASE SurfacesError
  BY <1>16 DEF SurfacesError, Return, Settled, TypeOK, Responses
<1>17. CASE RunsHooks
  BY <1>17 DEF RunsHooks, Settled
<1>18. CASE HooksPrevent
  BY <1>18 DEF HooksPrevent, Return
<1>19. CASE HooksBlock
  BY <1>19 DEF HooksBlock, Retry, NoResponse
<1>20. CASE ContinuesBudget
  BY <1>20 DEF ContinuesBudget, Retry, NoResponse
<1>21. CASE Nudges
  BY <1>21 DEF Nudges, Retry, NoResponse
<1>22. CASE Completes
  BY <1>22 DEF Completes, Return
<1>23. CASE BeginsTools
  BY <1>23 DEF BeginsTools, Settled
<1>24. CASE RunsTools
  BY <1>24 DEF RunsTools, TypeOK, Responses
<1>25. CASE ToolsEnd
  BY <1>25 DEF ToolsEnd, Return
<1>26. CASE NextTurn
  BY <1>26 DEF NextTurn, NoResponse
<1>27. CASE Abort
  BY <1>27 DEF Abort
<1>28. ASSUME NEW uses \in NewUses, NEW done \in SUBSET (Current.executor \cup uses),
             ReceiveTools(uses, done)
      PROVE  Withholds'
  <2>1. round'.uses # {} /\ phase' = "stream"
    BY <1>28, CurrentTyped DEF ReceiveTools, Responses
  <2> QED
    BY <2>1
<1>29. ASSUME NEW kind \in Kinds, NEW done \in SUBSET Current.executor,
             NEW cap \in IF kind = "provider_cap" THEN Caps ELSE {Undefined},
             ReceiveOther(kind, cap, done)
      PROVE  Withholds'
  <2>1. /\ round'.withheld = Withheld(kind) /\ round'.last = kind
        /\ UNCHANGED <<phase, config, state, aborted>> /\ phase = "stream"
    BY <1>29, CurrentTyped DEF ReceiveOther, Responses
  <2>2. Withheld(kind) => kind \in Errors /\ Yielded(kind)
    BY DEF Withheld, Errors
  <2> QED
    BY <2>1, <2>2
<1>30. CASE Receive
  BY <1>30, <1>28, <1>29 DEF Receive
<1> QED
  BY <1>1, <1>2, <1>3, <1>4, <1>5, <1>6, <1>7, <1>8, <1>9, <1>10, <1>11, <1>12,
     <1>13, <1>14, <1>15, <1>16, <1>17, <1>18, <1>19, <1>20, <1>21, <1>22, <1>23,
     <1>24, <1>25, <1>26, <1>27, <1>30 DEF Next, LoopStep

\* With changed messages, the next request is another one.
LEMMA ChangedMessages ==
  ASSUME TypeOK, messages' = [messages EXCEPT !.changed = TRUE]
  PROVE  ~Repeats'
BY DEF TypeOK, Repeats

\* The two limits, where they are undefined too.
LEMMA LimitsAreNumbers == TypeOK => state.override \in Nat /\ state.cap \in Nat
<1> SUFFICES ASSUME TypeOK PROVE state.override \in Nat /\ state.cap \in Nat
  OBVIOUS
<1>1. state.override \in {Undefined, Escalated} /\ state.cap \in {Undefined} \cup Caps
  BY DEF TypeOK, States
<1>2. Undefined \in Nat
  BY DEF Undefined
<1>3. Escalated \in Nat /\ Caps \subseteq Nat
  OBVIOUS
<1> QED
  BY <1>1, <1>2, <1>3

LEMMA ResendsKept ==
  ASSUME TypeOK, Withholds, Resends, [Next]_vars
  PROVE  Resends'
<1> USE DEF Resends
<1>1. CASE UNCHANGED vars
  BY <1>1 DEF vars, Effective, Repeats
<1>2. CASE Prepare
  <2>1. /\ sent'.limit = Effective /\ sent'.chain = world.chain /\ ~sent'.repeated
        /\ UNCHANGED <<state, round>> /\ phase = "prepare" /\ phase' = "stream"
    BY <1>2 DEF Prepare
  <2>2. world'.chain = world.chain
    BY <1>2 DEF Prepare, TypeOK, Worlds
  <2>3. round'.last = "nothing"
    BY <2>1 DEF Withholds, NoResponse
  <2>4. Effective' = Effective
    BY <2>1 DEF Effective
  <2> QED
    BY <2>1, <2>2, <2>3, <2>4
<1>3. CASE Blocked
  BY <1>3 DEF Blocked, Return
<1>4. CASE FallsBackToNonStreaming
  BY <1>4 DEF FallsBackToNonStreaming, TypeOK, Responses, Effective
<1>5. CASE Notice
  BY <1>5 DEF Notice, Restarted, NoResponse, Effective
<1>6. CASE ModelOverloaded
  BY <1>6 DEF ModelOverloaded, NoResponse, TypeOK, Worlds, Effective
<1>7. CASE ImageError
  BY <1>7 DEF ImageError, Return
<1>8. CASE ModelError
  BY <1>8 DEF ModelError, Return
<1>9. CASE StreamEnds
  BY <1>9 DEF StreamEnds, Effective
<1>10. CASE AbortedStreaming
  BY <1>10 DEF AbortedStreaming, Return
<1>11. CASE DrainsCollapse
  BY <1>11, ChangedMessages DEF DrainsCollapse, Retry
<1>12. CASE RetriesWithCap
  <2>1. Effective' # Effective
    <3>1. round.cap \in Nat \ {0} /\ (Effective = Undefined \/ round.cap < Effective)
      BY <1>12 DEF RetriesWithCap, Settled, CapHelps
    <3>2. /\ state'.override = state.override
          /\ state'.cap = IF state.cap = Undefined \/ round.cap < state.cap
                          THEN round.cap ELSE state.cap
      BY <1>12 DEF RetriesWithCap, Retry, After, TypeOK, States
    <3>3. state.override \in Nat /\ state.cap \in Nat
      BY LimitsAreNumbers
    <3>4. Effective' = IF state'.override = Undefined THEN state'.cap
                       ELSE IF state'.cap = Undefined THEN state'.override
                       ELSE IF state'.cap < state'.override THEN state'.cap
                       ELSE state'.override
      BY DEF Effective
    <3>5. Effective = IF state.override = Undefined THEN state.cap
                      ELSE IF state.cap = Undefined THEN state.override
                      ELSE IF state.cap < state.override THEN state.cap
                      ELSE state.override
      BY DEF Effective
    <3> QED
      BY <3>1, <3>2, <3>3, <3>4, <3>5 DEF Undefined
  <2>2. sent.limit = Effective /\ sent' = sent
    BY <1>12 DEF RetriesWithCap, Settled
  <2> QED
    BY <1>12, <2>1, <2>2 DEF RetriesWithCap, Retry, Repeats
<1>13. CASE EscalatesLimit
  <2>1. Effective' # Effective
    <3>1. Effective = Undefined
      BY <1>13 DEF EscalatesLimit, Escalates
    <3>2. state'.override = Escalated /\ state'.cap = state.cap
      BY <1>13 DEF EscalatesLimit, Retry, After, TypeOK, States
    <3>3. state.override \in Nat /\ state.cap \in Nat
      BY LimitsAreNumbers
    <3>4. Effective' = IF state'.override = Undefined THEN state'.cap
                       ELSE IF state'.cap = Undefined THEN state'.override
                       ELSE IF state'.cap < state'.override THEN state'.cap
                       ELSE state'.override
      BY DEF Effective
    <3>5. Effective = IF state.override = Undefined THEN state.cap
                      ELSE IF state.cap = Undefined THEN state.override
                      ELSE IF state.cap < state.override THEN state.cap
                      ELSE state.override
      BY DEF Effective
    <3> QED
      BY <3>1, <3>2, <3>3, <3>4, <3>5 DEF Undefined
  <2>2. sent.limit = Effective /\ sent' = sent
    BY <1>13 DEF EscalatesLimit, Settled
  <2> QED
    BY <1>13, <2>1, <2>2 DEF EscalatesLimit, Retry, Repeats
<1>14. CASE ResumesResponse
  BY <1>14, ChangedMessages DEF ResumesResponse, Retry
<1>15. CASE SwitchesProvider
  <2>1. world'.chain # sent'.chain
    <3>1. sent.chain = world.chain /\ sent' = sent /\ world.chain \in Nat
      BY <1>15 DEF SwitchesProvider, Settled, TypeOK, Worlds
    <3>2. world'.chain = world.chain - 1
      BY <1>15 DEF SwitchesProvider, TypeOK, Worlds
    <3> QED
      BY <3>1, <3>2
  <2> QED
    BY <1>15, <2>1 DEF SwitchesProvider, Retry, Repeats
<1>16. CASE SurfacesError
  BY <1>16 DEF SurfacesError, Return
<1>17. CASE RunsHooks
  BY <1>17 DEF RunsHooks
<1>18. CASE HooksPrevent
  BY <1>18 DEF HooksPrevent, Return
<1>19. CASE HooksBlock
  BY <1>19, ChangedMessages DEF HooksBlock, Retry
<1>20. CASE ContinuesBudget
  BY <1>20, ChangedMessages DEF ContinuesBudget, Retry
<1>21. CASE Nudges
  BY <1>21, ChangedMessages DEF Nudges, Retry
<1>22. CASE Completes
  BY <1>22 DEF Completes, Return
<1>23. CASE BeginsTools
  BY <1>23 DEF BeginsTools
<1>24. CASE RunsTools
  BY <1>24 DEF RunsTools
<1>25. CASE ToolsEnd
  BY <1>25 DEF ToolsEnd, Return
<1>26. CASE NextTurn
  BY <1>26 DEF NextTurn, Repeats
<1>27. CASE Abort
  BY <1>27 DEF Abort, Effective, Repeats
<1>28. ASSUME NEW uses \in NewUses, NEW done \in SUBSET (Current.executor \cup uses),
             ReceiveTools(uses, done)
      PROVE  Resends'
  <2>1. round'.last = "tool" /\ UNCHANGED <<phase, state, world, sent>>
    BY <1>28, CurrentTyped DEF ReceiveTools, Responses
  <2>2. phase = "stream"
    BY <1>28 DEF ReceiveTools
  <2> QED
    BY <2>1, <2>2 DEF Effective
<1>29. ASSUME NEW kind \in Kinds, NEW done \in SUBSET Current.executor,
             NEW cap \in IF kind = "provider_cap" THEN Caps ELSE {Undefined},
             ReceiveOther(kind, cap, done)
      PROVE  Resends'
  <2>1. /\ round'.last = kind /\ round'.cap = cap
        /\ UNCHANGED <<phase, state, world, sent>> /\ phase = "stream"
    BY <1>29, CurrentTyped DEF ReceiveOther, Responses
  <2> QED
    BY <2>1 DEF Effective
<1>30. CASE Receive
  BY <1>30, <1>28, <1>29 DEF Receive
<1> QED
  BY <1>1, <1>2, <1>3, <1>4, <1>5, <1>6, <1>7, <1>8, <1>9, <1>10, <1>11, <1>12,
     <1>13, <1>14, <1>15, <1>16, <1>17, <1>18, <1>19, <1>20, <1>21, <1>22, <1>23,
     <1>24, <1>25, <1>26, <1>27, <1>30 DEF Next, LoopStep

-----------------------------------------------------------------------------
\* The four together are the inductive invariant of the loop.
LoopIInv == TypeOK /\ Answers /\ Withholds /\ Resends

LEMMA LoopInitHolds == Init => LoopIInv
<1> SUFFICES ASSUME Init PROVE LoopIInv
  OBVIOUS
<1>1. Answers
  BY DEF Init, Answers, NoResponse
<1>2. Withholds
  BY DEF Init, Withholds, NoResponse
<1>3. Resends
  BY DEF Init, Resends, Repeats
<1> QED
  BY <1>1, <1>2, <1>3, InitTyped DEF LoopIInv

LEMMA LoopStepKeeps == LoopIInv /\ [Next]_vars => LoopIInv'
BY StepTyped, AnswersKept, WithholdsKept, ResendsKept DEF LoopIInv

LEMMA LoopInvariant == Spec => []LoopIInv
BY LoopInitHolds, LoopStepKeeps, PTL DEF Spec

\* Each variable of the loop keeps its type: in particular the recoveries, the
\* nudges and the turns of query.ts stay within their limits.
THEOREM LoopTypeCorrect == Spec => []TypeOK
<1>1. LoopIInv => TypeOK
  BY DEF LoopIInv
<1> QED
  BY <1>1, LoopInvariant, PTL

\* Whatever falls back, is retracted or recovered before: the request after a
\* round of tools (query.ts, the state at the end of the loop) holds the results
\* of exactly that round's tool uses.
THEOREM RequestsArePaired == Spec => []RequestsPaired
<1>1. LoopIInv => RequestsPaired
  BY DEF LoopIInv, Answers, RequestsPaired
<1> QED
  BY <1>1, LoopInvariant, PTL

\* Each return of query.ts leaves the consumer a result for each tool use that
\* streamed in before the abort.
THEOREM TranscriptIsAnswered == Spec => []TranscriptAnswered
<1>1. LoopIInv => TranscriptAnswered
  BY DEF LoopIInv, Answers, TranscriptAnswered
<1> QED
  BY <1>1, LoopInvariant, PTL

\* For any provider chain and any recoveries, what the streaming loop of query.ts
\* withholds is yielded by the branches after it.
THEOREM WithheldIsYielded == Spec => []WithheldSurfaces
<1>1. LoopIInv => WithheldSurfaces
  BY DEF LoopIInv, Withholds, WithheldSurfaces
<1> QED
  BY <1>1, LoopInvariant, PTL

\* For any caps that providers report and any escalated limit, each recovery of
\* query.ts changes the messages, the output limit or the provider.
THEOREM RecoveriesChangeRequests == Spec => []NeverResentUnchanged
<1>1. LoopIInv => NeverResentUnchanged
  BY DEF LoopIInv, Resends, NeverResentUnchanged
<1> QED
  BY <1>1, LoopInvariant, PTL

-----------------------------------------------------------------------------
(* The rounds of a query come to an end.                                   *)

Ranks == [1..7 -> Nat]
RankOrder == {p \in Ranks \X Ranks : Below(p[1], p[2])}

\* A set of ranks has members that are least in one place.
LEMMA LeastInPlace ==
  ASSUME NEW T \in SUBSET Ranks, T # {}, NEW i \in 1..7
  PROVE  \E U \in SUBSET T :
           /\ U # {}
           /\ \A u \in U, t \in T : ~ (t[i] < u[i]) /\ (t[i] = u[i] => t \in U)
<1> DEFINE S == {t[i] : t \in T}
           less == OpToRel(<, Nat)
<1>1. S \subseteq Nat /\ S # {}
  BY DEF Ranks
<1>2. IsWellFoundedOn(less, Nat)
  BY NatLessThanWellFounded
<1>3. \A a, b \in Nat : a < b => <<a, b>> \in less
  BY DEF OpToRel
<1>4. PICK a \in S : \A b \in S : ~ (<<b, a>> \in less)
  <2> HIDE DEF S, less
  <2> QED
    BY <1>1, <1>2, WFMin, Zenon
<1>5. \A b \in S : ~ (b < a)
  BY <1>1, <1>3, <1>4
<1> DEFINE U == {t \in T : t[i] = a}
<1>6. U \in SUBSET T /\ U # {}
  OBVIOUS
<1>7. \A u \in U, t \in T : ~ (t[i] < u[i]) /\ (t[i] = u[i] => t \in U)
  BY <1>5
<1> HIDE DEF U
<1> QED
  BY <1>6, <1>7

\* There is no infinite sequence of ranks each of which is below the one before: the
\* recoveries, nudges, continuations and turns of query.ts cannot feed each other.
THEOREM RanksEnd == IsWellFoundedOn(RankOrder, Ranks)
<1> SUFFICES ASSUME NEW T \in SUBSET Ranks, T # {}
             PROVE  \E x \in T : \A y \in T : ~ (<<y, x>> \in RankOrder)
  BY MinWF
<1> DEFINE Least(i, A, B) ==
      /\ B # {} /\ B \subseteq A
      /\ \A u \in B, t \in A : ~ (t[i] < u[i]) /\ (t[i] = u[i] => t \in B)
<1>a. \A A \in SUBSET T, i \in 1..7 : A # {} => \E B \in SUBSET T : Least(i, A, B)
  BY LeastInPlace
<1>b. \A i, j \in 1..7 : \A C : \A A \in SUBSET T :
        Least(i, C, A) => \E B \in SUBSET T : Least(j, A, B)
  BY <1>a
<1> HIDE DEF Least
<1>1. PICK T1 \in SUBSET T : Least(1, T, T1)
  BY <1>a
<1>2. PICK T2 \in SUBSET T : Least(2, T1, T2)
  BY <1>b, <1>1
<1>3. PICK T3 \in SUBSET T : Least(3, T2, T3)
  BY <1>b, <1>2
<1>4. PICK T4 \in SUBSET T : Least(4, T3, T4)
  BY <1>b, <1>3
<1>5. PICK T5 \in SUBSET T : Least(5, T4, T5)
  BY <1>b, <1>4
<1>6. PICK T6 \in SUBSET T : Least(6, T5, T6)
  BY <1>b, <1>5
<1>7. PICK T7 \in SUBSET T : Least(7, T6, T7)
  BY <1>b, <1>6
<1> USE DEF Least
<1>8. PICK x : x \in T7
  BY <1>7
<1>9. x \in T6 /\ x \in T5 /\ x \in T4 /\ x \in T3 /\ x \in T2 /\ x \in T1 /\ x \in T
  BY <1>1, <1>2, <1>3, <1>4, <1>5, <1>6, <1>7, <1>8
<1>10. ASSUME NEW y \in T, Below(y, x)
       PROVE  FALSE
  <2>1. PICK i \in 1..7 : y[i] < x[i] /\ \A j \in 1..i-1 : y[j] = x[j]
    BY <1>10 DEF Below
  <2>2. i > 1 => y \in T1
    BY <1>1, <1>9, <2>1
  <2>3. i > 2 => y \in T2
    BY <1>2, <1>9, <2>1, <2>2
  <2>4. i > 3 => y \in T3
    BY <1>3, <1>9, <2>1, <2>3
  <2>5. i > 4 => y \in T4
    BY <1>4, <1>9, <2>1, <2>4
  <2>6. i > 5 => y \in T5
    BY <1>5, <1>9, <2>1, <2>5
  <2>7. i > 6 => y \in T6
    BY <1>6, <1>9, <2>1, <2>6
  <2>8. i \in {1, 2, 3, 4, 5, 6, 7}
    BY <2>1
  <2> QED
    BY <1>1, <1>2, <1>3, <1>4, <1>5, <1>6, <1>7, <1>8, <1>9,
       <2>1, <2>2, <2>3, <2>4, <2>5, <2>6, <2>7, <2>8
<1> QED
  BY <1>9, <1>10 DEF RankOrder


LEMMA SupplyTyped == TypeOK => Supply \in Nat /\ Continuations \in Nat
<1> SUFFICES ASSUME TypeOK PROVE Supply \in Nat /\ Continuations \in Nat
  OBVIOUS
<1>1. /\ world.blocks \in Nat /\ world.overloads \in Nat /\ world.chain \in Nat
      /\ world.stagings \in Nat /\ tracker.left \in Nat /\ tracker.count \in 0..3
  BY DEF TypeOK, Worlds, Trackers
<1> QED
  BY <1>1 DEF Supply, Continuations

LEMMA RankTyped == TypeOK => Rank \in Ranks
<1> SUFFICES ASSUME TypeOK PROVE Rank \in Ranks
  OBVIOUS
<1>1. /\ Supply \in Nat /\ Continuations \in Nat
      /\ state.cap \in Nat /\ state.turn \in 1..MaxTurns
      /\ state.nudges \in 0..NudgeLimit /\ state.recoveries \in 0..RecoveryLimit
  BY SupplyTyped, LimitsAreNumbers DEF TypeOK, States
<1>2. /\ MaxTurns - state.turn \in Nat /\ RecoveryLimit - state.recoveries \in Nat
      /\ NudgeLimit - state.nudges + Continuations \in Nat
  BY <1>1
<1> QED
  BY <1>1, <1>2 DEF Rank, Ranks

LEMMA SameRank ==
  ASSUME UNCHANGED <<state, world, tracker>>
  PROVE  Rank' = Rank
BY DEF Rank, Supply, Continuations

\* One of the places falls, and those before it stay.
LEMMA SupplyFalls ==
  ASSUME Supply' < Supply
  PROVE  Below(Rank', Rank)
BY DEF Rank, Below

LEMMA TurnsFall ==
  ASSUME Supply' = Supply, MaxTurns - state'.turn < MaxTurns - state.turn
  PROVE  Below(Rank', Rank)
BY DEF Rank, Below

LEMMA NudgesFall ==
  ASSUME Supply' = Supply, state'.turn = state.turn,
         NudgeLimit - state'.nudges + Continuations'
           < NudgeLimit - state.nudges + Continuations
  PROVE  Below(Rank', Rank)
<1>1. /\ Rank'[3] < Rank[3] /\ Rank'[1] = Rank[1] /\ Rank'[2] = Rank[2]
  BY DEF Rank
<1> QED
  BY <1>1 DEF Below

LEMMA AttemptsFall ==
  ASSUME Supply' = Supply, Continuations' = Continuations,
         state'.turn = state.turn, state'.nudges = state.nudges,
         \/ RecoveryLimit - state'.recoveries < RecoveryLimit - state.recoveries
         \/ /\ state'.recoveries = state.recoveries
            /\ \/ state.cap = Undefined /\ state'.cap # Undefined
               \/ state.cap # Undefined /\ state'.cap # Undefined /\ state'.cap < state.cap
               \/ /\ state'.cap = state.cap
                  /\ state.override = Undefined /\ state'.override # Undefined
  PROVE  Below(Rank', Rank)
<1>1. Rank'[1] = Rank[1] /\ Rank'[2] = Rank[2] /\ Rank'[3] = Rank[3]
  BY DEF Rank
<1>2. \/ Rank'[4] < Rank[4]
      \/ /\ Rank'[4] = Rank[4]
         /\ \/ Rank'[5] < Rank[5]
            \/ Rank'[5] = Rank[5] /\ Rank'[6] < Rank[6]
            \/ Rank'[5] = Rank[5] /\ Rank'[6] = Rank[6] /\ Rank'[7] < Rank[7]
  BY DEF Rank
<1> QED
  BY <1>1, <1>2 DEF Below

LEMMA RankStep ==
  ASSUME TypeOK, Resends, [Next]_vars
  PROVE  /\ Rank' = Rank \/ Below(Rank', Rank)
         /\ phase # "prepare" /\ phase' = "prepare" => Below(Rank', Rank)
<1> USE DEF Return
<1>0. /\ world.blocks \in Nat /\ world.overloads \in Nat /\ world.chain \in Nat
      /\ world.stagings \in Nat /\ world.staged \in BOOLEAN
      /\ tracker.left \in Nat /\ tracker.count \in 0..3
      /\ tracker.delta \in Nat /\ tracker.lastDelta \in Nat
      /\ Supply \in Nat /\ Continuations \in Nat
  BY SupplyTyped DEF TypeOK, Worlds, Trackers
<1>a. /\ state.cap \in Nat /\ state.turn \in 1..MaxTurns
      /\ state.nudges \in 0..NudgeLimit /\ state.recoveries \in 0..RecoveryLimit
      /\ state.override \in {Undefined, Escalated}
  BY LimitsAreNumbers DEF TypeOK, States
<1>1. CASE UNCHANGED <<state, world, tracker>> /\ (phase' = "prepare" => phase = "prepare")
  BY <1>1, SameRank
<1>2. CASE Prepare
  <2>1. PICK stages \in BOOLEAN :
          /\ stages => world.stagings > 0
          /\ world' = [world EXCEPT !.staged = stages,
                                   !.stagings = IF stages THEN @ - 1 ELSE @]
    BY <1>2 DEF Prepare
  <2>2. UNCHANGED <<state, tracker>> /\ phase = "prepare"
    BY <1>2 DEF Prepare
  <2>3. CASE stages
    <3>1. /\ world'.stagings = world.stagings - 1 /\ world'.staged = TRUE
          /\ world'.blocks = world.blocks /\ world'.overloads = world.overloads
          /\ world'.chain = world.chain
      BY <2>1, <2>3 DEF TypeOK, Worlds
    <3>2. Supply' < Supply
      BY <1>0, <2>2, <3>1 DEF Supply
    <3> QED
      BY <2>2, <3>2, SupplyFalls
  <2>4. CASE ~ stages /\ ~ world.staged
    <3>1. world' = world
      BY <2>1, <2>4, <1>0 DEF TypeOK, Worlds
    <3> QED
      BY <2>2, <3>1, SameRank
  <2>5. CASE ~ stages /\ world.staged
    <3>1. /\ world'.stagings = world.stagings /\ world'.staged = FALSE
          /\ world'.blocks = world.blocks /\ world'.overloads = world.overloads
          /\ world'.chain = world.chain
      BY <2>1, <2>5 DEF TypeOK, Worlds
    <3>2. Supply' < Supply
      BY <1>0, <2>2, <2>5, <3>1 DEF Supply
    <3> QED
      BY <2>2, <3>2, SupplyFalls
  <2> QED
    BY <2>3, <2>4, <2>5
<1>3. ASSUME tracker' = tracker, world'.stagings = world.stagings,
             \/ /\ world'.blocks = world.blocks - 1 /\ world'.chain = world.chain
                /\ UNCHANGED <<world.overloads, world.staged>>
             \/ /\ world'.chain = world.chain - 1 /\ world'.blocks = world.blocks
                /\ UNCHANGED <<world.overloads, world.staged>>
             \/ /\ world'.overloads = world.overloads - 1 /\ world'.blocks = world.blocks
                /\ UNCHANGED <<world.chain, world.staged>>
             \/ /\ UNCHANGED <<world.blocks, world.overloads, world.chain>>
                /\ world.staged /\ ~ world'.staged
      PROVE  Below(Rank', Rank)
  <2>1. Supply' < Supply
    BY <1>0, <1>3 DEF Supply
  <2> QED
    BY <2>1, SupplyFalls
<1>4. CASE ModelOverloaded
  BY <1>0, <1>3, <1>4 DEF ModelOverloaded, TypeOK, Worlds
<1>5. CASE StreamEnds
  <2>1. PICK many \in {0, 1} :
          /\ many <= tracker.left
          /\ tracker' = [tracker EXCEPT !.left = @ - many, !.delta = @ + many]
    BY <1>5 DEF StreamEnds
  <2>2. UNCHANGED <<state, world>> /\ phase' # "prepare"
    BY <1>5 DEF StreamEnds
  <2>3. CASE many = 0
    <3>1. tracker' = tracker
      <4>1. tracker.left - many = tracker.left /\ tracker.delta + many = tracker.delta
        BY <1>0, <2>3
      <4>2. tracker' = [tracker EXCEPT !.left = tracker.left, !.delta = tracker.delta]
        BY <2>1, <4>1
      <4> QED
        BY <4>2 DEF TypeOK, Trackers
    <3> QED
      BY <2>2, <3>1, SameRank
  <2>4. CASE many = 1
    <3>1. tracker'.left = tracker.left - 1
      BY <2>1, <2>4 DEF TypeOK, Trackers
    <3>2. Supply' < Supply
      BY <1>0, <2>2, <3>1 DEF Supply
    <3> QED
      BY <2>2, <3>2, SupplyFalls
  <2> QED
    BY <2>1, <2>3, <2>4
<1>6. CASE DrainsCollapse
  BY <1>0, <1>3, <1>6 DEF DrainsCollapse, TypeOK, Worlds
<1>7. CASE SwitchesProvider
  BY <1>0, <1>3, <1>7 DEF SwitchesProvider, TypeOK, Worlds
<1>8. CASE HooksBlock
  BY <1>0, <1>3, <1>8 DEF HooksBlock, TypeOK, Worlds
<1>9. ASSUME UNCHANGED <<world, tracker>>
      PROVE  Supply' = Supply /\ Continuations' = Continuations
  BY <1>9 DEF Supply, Continuations
<1>10. CASE RetriesWithCap
  <2>1. round.cap \in Nat \ {0} /\ CapHelps /\ UNCHANGED <<world, tracker>>
    BY <1>10 DEF RetriesWithCap, Settled, Resends
  <2>2. state' = [After("provider_max_tokens_retry") EXCEPT
                    !.cap = IF @ = Undefined \/ round.cap < @ THEN round.cap ELSE @]
    BY <1>10 DEF RetriesWithCap, Retry
  <2>3. /\ state'.turn = state.turn /\ state'.nudges = state.nudges
        /\ state'.recoveries = state.recoveries
        /\ state'.cap = IF state.cap = Undefined \/ round.cap < state.cap
                        THEN round.cap ELSE state.cap
    BY <2>2 DEF After, TypeOK, States
  <2>4. state.cap # Undefined => round.cap < state.cap
    BY <1>a, <2>1 DEF CapHelps, Effective, Undefined
  <2> QED
    BY <1>a, <1>9, <2>1, <2>3, <2>4, AttemptsFall DEF Undefined
<1>11. CASE EscalatesLimit
  <2>1. state' = [After("other") EXCEPT !.override = Escalated]
    BY <1>11 DEF EscalatesLimit, Retry
  <2>2. /\ state'.turn = state.turn /\ state'.nudges = state.nudges
        /\ state'.recoveries = state.recoveries /\ state'.cap = state.cap
        /\ state'.override = Escalated
    BY <2>1 DEF After, TypeOK, States
  <2>3. state.override = Undefined /\ Escalated # Undefined
    BY <1>11, <1>a DEF EscalatesLimit, Escalates, Effective, Undefined
  <2> QED
    BY <1>9, <1>11, <2>2, <2>3, AttemptsFall DEF EscalatesLimit
<1>12. CASE ResumesResponse
  <2>1. state' = [After("other") EXCEPT !.recoveries = @ + 1, !.override = Undefined]
    BY <1>12 DEF ResumesResponse, Retry
  <2>2. /\ state'.turn = state.turn /\ state'.nudges = state.nudges
        /\ state'.recoveries = state.recoveries + 1
    BY <2>1 DEF After, TypeOK, States
  <2>3. RecoveryLimit - state'.recoveries < RecoveryLimit - state.recoveries
    BY <1>a, <2>2
  <2> QED
    BY <1>9, <1>12, <2>2, <2>3, AttemptsFall DEF ResumesResponse
<1>13. CASE ContinuesBudget
  <2>1. /\ state'.turn = state.turn /\ state'.nudges = state.nudges
        /\ world' = world /\ ~ Diminishing
    BY <1>13 DEF ContinuesBudget, Retry, After, BudgetLeft, TypeOK, States
  <2>2. /\ tracker'.count = IF tracker.count < 3 THEN tracker.count + 1 ELSE tracker.count
        /\ tracker'.lastDelta = tracker.delta /\ tracker'.delta = 0
        /\ tracker'.left = tracker.left
    BY <1>13 DEF ContinuesBudget, TypeOK, Trackers
  <2>3. Supply' = Supply
    BY <2>1, <2>2 DEF Supply
  <2>4. Continuations' < Continuations
    <3>1. CASE tracker.count < 3
      BY <1>0, <2>2, <3>1 DEF Continuations
    <3>2. CASE tracker.count = 3
      BY <1>0, <2>1, <2>2, <3>2 DEF Continuations, Diminishing
    <3> QED
      BY <1>0, <3>1, <3>2
  <2>5. Continuations' \in Int
    BY <1>0, <2>2 DEF Continuations
  <2>6. NudgeLimit - state'.nudges + Continuations'
          < NudgeLimit - state.nudges + Continuations
    BY <1>0, <1>a, <2>1, <2>4, <2>5
  <2> QED
    BY <2>1, <2>3, <2>6, NudgesFall
<1>14. CASE Nudges
  <2>1. state' = [After("other") EXCEPT
                    !.recoveries = 0, !.fellBack = FALSE, !.override = Undefined,
                    !.nudges = @ + 1]
    BY <1>14 DEF Nudges, Retry
  <2>2. state'.turn = state.turn /\ state'.nudges = state.nudges + 1
    BY <2>1 DEF After, TypeOK, States
  <2>3. Supply' = Supply /\ Continuations' = Continuations
    BY <1>9, <1>14 DEF Nudges
  <2>4. NudgeLimit - state'.nudges + Continuations'
          < NudgeLimit - state.nudges + Continuations
    BY <1>0, <1>a, <2>2, <2>3
  <2> QED
    BY <2>2, <2>3, <2>4, NudgesFall
<1>15. CASE NextTurn
  <2>1. state'.turn = state.turn + 1
    BY <1>15 DEF NextTurn, After, TypeOK, States
  <2>2. MaxTurns - state'.turn < MaxTurns - state.turn
    BY <1>a, <2>1
  <2> QED
    BY <1>9, <1>15, <2>2, TurnsFall DEF NextTurn
<1>16. CASE Receive
  BY <1>1, <1>16 DEF Receive, ReceiveTools, ReceiveOther
<1>17. CASE Blocked \/ FallsBackToNonStreaming \/ Notice \/ ImageError \/ ModelError
  BY <1>1, <1>17 DEF Blocked, FallsBackToNonStreaming, Notice, ImageError, ModelError
<1>18. CASE AbortedStreaming \/ SurfacesError \/ RunsHooks \/ HooksPrevent \/ Completes
  BY <1>1, <1>18
     DEF AbortedStreaming, SurfacesError, RunsHooks, HooksPrevent, Completes
<1>19. CASE BeginsTools \/ RunsTools \/ ToolsEnd \/ Abort \/ UNCHANGED vars
  BY <1>1, <1>19 DEF BeginsTools, RunsTools, ToolsEnd, Abort, vars
<1> QED
  BY <1>2, <1>4, <1>5, <1>6, <1>7, <1>8, <1>10, <1>11, <1>12, <1>13, <1>14, <1>15,
     <1>16, <1>17, <1>18, <1>19 DEF Next, LoopStep

\* Each way to begin another round leaves the query with less than it had, and no step
\* gives it more, for any limits, caps and supplies; with RanksEnd, no query goes through
\* infinitely many rounds.
THEOREM RoundsUseUp == Spec => RanksFall /\ [](Rank \in Ranks)
<1>1. LoopIInv /\ [Next]_vars =>
        [/\ Rank' = Rank \/ Below(Rank', Rank)
         /\ phase # "prepare" /\ phase' = "prepare" => Below(Rank', Rank)]_vars
  BY RankStep DEF LoopIInv
<1>2. LoopIInv => Rank \in Ranks
  BY RankTyped DEF LoopIInv
<1> QED
  BY <1>1, <1>2, LoopInvariant, PTL DEF Spec, RanksFall
=============================================================================
