----------------------------- MODULE QueryLoop ------------------------------
(***************************************************************************)
(* query.ts: the loop that answers one prompt.  Each round prepares the    *)
(* messages, streams a response, and then recovers from its error, runs    *)
(* its tools and goes on with their results, or returns.                   *)
(*                                                                         *)
(* A message of the response is its kind; of the conversation only the     *)
(* newest tool uses and results are kept.  The executor is what            *)
(* ToolExecutor shows of it: a tool it was given is answered at any time   *)
(* until the drain, and by then in any case.  Limits are numbers, 0 where  *)
(* the code has undefined.                                                 *)
(***************************************************************************)
EXTENDS Naturals, FiniteSets

CONSTANTS
  Queries,        \* the queries: their source and gates, nine tenths of the token
                  \* budget in DIMINISHING_THRESHOLDs, and what happens around them
  MaxTurns,       \* maxTurns
  RecoveryLimit,  \* MAX_OUTPUT_TOKENS_RECOVERY_LIMIT
  NudgeLimit,     \* MAX_CONTINUATION_NUDGES
  Escalated,      \* ESCALATED_MAX_TOKENS
  Caps,           \* the output limits a provider may report
  MaxUses         \* bound: tool uses that are told apart in a round

ASSUME QueriesAssumption ==
  Queries \subseteq
    [source : {"main", "agent", "compact"}, streaming : BOOLEAN, escalates : BOOLEAN,
     budget : Nat, blocks : Nat, stagings : Nat, overloads : Nat, chain : Nat]
ASSUME LimitsAssumption ==
  /\ MaxTurns \in Nat \ {0} /\ Escalated \in Nat \ {0} /\ Caps \subseteq Nat \ {0}
  /\ RecoveryLimit \in Nat /\ NudgeLimit \in Nat /\ MaxUses \in Nat

VARIABLES
  config,     \* of the query, with the bounds of what happens around it
  phase,      \* where the loop is
  state,      \* the state carried between rounds
  round,      \* what this round's response has brought so far
  messages,   \* the newest tool uses and results of the conversation that is sent
  aborted,    \* the turn's abort signal
  tracker,    \* the budget tracker and what is left of the budget
  world,      \* what may still happen outside: blocks, stagings, overloads, providers
  unanswered, \* the tool uses the consumer saw and has no result for
  late,       \* history: the tool uses that streamed in after the abort
  sent        \* history: the last request, and whether it repeated its predecessor

vars == <<config, phase, state, round, messages, aborted, tracker, world,
          unanswered, late, sent>>

Undefined == 0
Errors == {"prompt_too_long", "max_output_tokens", "provider_cap", "rate_limit",
           "api_error"}
Kinds == {"nothing", "text", "intent", "tool"} \cup Errors
Phases == {"prepare", "stream", "settle", "hooks", "tools", "after", "done"}

\* The transitions the next round asks for; the others are told apart nowhere.
Transitions == {"collapse_drain_retry", "provider_max_tokens_retry", "other"}

\* A response: its last message and whether it is withheld, the cap an error
\* reports, the tool uses, those answered and those in the executor, and how it
\* arrives.
NoResponse(mode) ==
  [last |-> "nothing", withheld |-> FALSE, cap |-> Undefined,
   uses |-> {}, results |-> {}, executor |-> {}, mode |-> mode]

\* The workers that compact a conversation and extract its memory.  They may
\* have an output limit of their own.
Forked == config.source = "compact"

Init ==
  /\ config \in Queries
  /\ phase = "prepare"
  /\ \E override \in IF Forked THEN {Undefined, Escalated} ELSE {Undefined} :
       state = [turn |-> 1, recoveries |-> 0, nudges |-> 0, fellBack |-> FALSE,
                override |-> override, cap |-> Undefined, transition |-> "other"]
  /\ round = NoResponse("streaming")
  /\ messages = [uses |-> {}, results |-> {}, changed |-> TRUE]
  /\ aborted = FALSE
  /\ tracker = [left |-> config.budget, count |-> 0, delta |-> 0, lastDelta |-> 0]
  /\ world = [blocks |-> config.blocks, stagings |-> config.stagings, staged |-> FALSE,
              overloads |-> config.overloads, chain |-> config.chain]
  /\ unanswered = {} /\ late = {}
  /\ sent = [limit |-> Undefined, chain |-> config.chain, repeated |-> FALSE]

Return == phase' = "done"

-----------------------------------------------------------------------------
(* The beginning of a round.                                               *)

\* effectiveMaxOutputTokensOverride.
Effective ==
  CASE state.override = Undefined -> state.cap
    [] state.cap = Undefined      -> state.override
    [] OTHER -> IF state.cap < state.override THEN state.cap ELSE state.override

\* A request like the one before it: the messages, the output limit and the
\* provider are the same.
Repeats == ~messages.changed /\ sent.limit = Effective /\ sent.chain = world.chain

\* Staged spans are collapsed, and new ones may be staged; then the request is
\* sent.
Prepare ==
  /\ phase = "prepare"
  /\ phase' = "stream"
  /\ \E stages \in BOOLEAN :
       /\ stages => config.source = "main" /\ world.stagings > 0
       /\ world' = [world EXCEPT !.staged = stages,
                                 !.stagings = IF stages THEN @ - 1 ELSE @]
  /\ sent' = [limit |-> Effective, chain |-> world.chain,
              repeated |-> sent.repeated \/ Repeats]
  /\ messages' = [messages EXCEPT !.changed = FALSE]
  /\ UNCHANGED <<config, state, round, aborted, tracker, unanswered, late>>

\* The context is over its limit and cannot be compacted.
Blocked ==
  /\ phase = "prepare" /\ ~Forked
  /\ Return
  /\ UNCHANGED <<config, state, round, messages, aborted, tracker, world,
                 unanswered, late, sent>>

-----------------------------------------------------------------------------
(* The response streams in.                                                *)

\* A mistake: the gate does not know that the provider was switched already.
WithheldAfterSwitch(kind) ==
  \/ kind = "prompt_too_long" /\ config.source = "main" /\ world.staged
  \/ kind \in {"max_output_tokens", "provider_cap"}
  \/ kind = "rate_limit" /\ ~Forked /\ world.chain > 0

\* Errors are withheld while a recovery is possible.
Withheld(kind) ==
  \/ kind = "prompt_too_long" /\ config.source = "main" /\ world.staged
  \/ kind \in {"max_output_tokens", "provider_cap"}
  \/ kind = "rate_limit" /\ ~state.fellBack /\ ~Forked /\ world.chain > 0

\* A mistake: the results of the first attempt are kept.
RestartedWithResults(r) == [NoResponse("complete") EXCEPT !.results = r.results]

\* A response that begins again: the messages before it are taken back, and a
\* new executor takes over.
Restarted(r) == NoResponse("complete")

\* The response so far, as the next message finds it.
Current == IF round.mode = "fallback" THEN Restarted(round) ELSE round
Retracted == IF round.mode = "fallback" THEN round.uses ELSE {}

\* An error is the last message.  Only the one for the output limit comes from
\* a stream that may still break off.
Failed == round.mode = "streaming" /\ round.last \in Errors
Last(kind) ==
  kind \in IF round.mode = "streaming" THEN Errors \ {"max_output_tokens"} ELSE Errors

\* A message with tool uses.  Those that arrive after an abort are not given to
\* the executor.
ReceiveTools(uses, done) ==
  LET given == IF config.streaming /\ ~aborted THEN uses ELSE {} IN
  /\ phase = "stream" /\ round.mode # "complete" /\ ~Failed
  /\ uses # {} /\ done \subseteq Current.executor \cup given
  /\ done # {} => ~aborted
  /\ round' = [Current EXCEPT !.last = "tool",
                              !.uses = @ \cup uses,
                              !.results = @ \cup done,
                              !.executor = (@ \cup given) \ done]
  /\ unanswered' = ((unanswered \ Retracted) \cup uses) \ done
  /\ late' = IF aborted /\ config.streaming THEN late \cup uses ELSE late
  /\ UNCHANGED <<config, phase, state, messages, aborted, tracker, world, sent>>

\* A message without.
ReceiveOther(kind, cap, done) ==
  /\ phase = "stream" /\ round.mode # "complete"
  /\ kind \notin {"tool", "nothing"} /\ (Failed => kind = "api_error")
  /\ done \subseteq Current.executor /\ (done # {} => ~aborted)
  /\ round' = [Current EXCEPT !.last = kind,
                              !.withheld = Withheld(kind),
                              !.cap = cap,
                              !.results = @ \cup done,
                              !.executor = @ \ done,
                              !.mode = IF Last(kind) THEN "complete" ELSE @]
  /\ unanswered' = (unanswered \ Retracted) \ done
  /\ UNCHANGED <<config, phase, state, messages, aborted, tracker, world, late, sent>>

\* The API layer asks again without streaming; query.ts learns of it with the
\* next message, a notice or the whole response.
FallsBackToNonStreaming ==
  /\ phase = "stream" /\ round.mode = "streaming" /\ ~aborted
  /\ round' = [round EXCEPT !.mode = "fallback"]
  /\ UNCHANGED <<config, phase, state, messages, aborted, tracker, world,
                 unanswered, late, sent>>

Notice ==
  /\ phase = "stream" /\ round.mode = "fallback"
  /\ round' = [Restarted(round) EXCEPT !.mode = "fallback"]
  /\ unanswered' = unanswered \ round.uses
  /\ UNCHANGED <<config, phase, state, messages, aborted, tracker, world, late, sent>>

\* A mistake: only the tools the executor knows get a result.
MissingKnown(r) == r.executor

\* yieldMissingToolResultBlocks().
Missing(r) == r.uses

\* FallbackTriggeredError, before anything streams or while the API layer asks
\* without streaming: the same request goes to the fallback model.
ModelOverloaded ==
  /\ phase = "stream" /\ world.overloads > 0
  /\ round.mode = "fallback" \/ round = NoResponse("streaming")
  /\ world' = [world EXCEPT !.overloads = @ - 1]
  /\ round' = NoResponse("streaming")
  /\ unanswered' = unanswered \ Missing(round)
  /\ UNCHANGED <<config, phase, state, messages, aborted, tracker, late, sent>>

\* An image is refused before the request is made.
ImageError ==
  /\ phase = "stream" /\ round = NoResponse("streaming")
  /\ Return
  /\ UNCHANGED <<config, state, round, messages, aborted, tracker, world,
                 unanswered, late, sent>>

\* Any other error that is thrown: every tool use is answered with it.
ModelError ==
  /\ phase = "stream" /\ round.last \notin Errors
  /\ unanswered' = unanswered \ Missing(round)
  /\ Return
  /\ UNCHANGED <<config, state, round, messages, aborted, tracker, world, late, sent>>

\* The response is complete; the turn has put out some tokens more, few or many.
StreamEnds ==
  /\ phase = "stream" /\ (round.mode = "fallback" => aborted)
  /\ phase' = "settle"
  /\ \E many \in {0, 1} :
       /\ many <= tracker.left
       /\ tracker' = [tracker EXCEPT !.left = @ - many, !.delta = @ + many]
  /\ UNCHANGED <<config, state, round, messages, aborted, world, unanswered, late, sent>>

-----------------------------------------------------------------------------
(* After the response.                                                     *)

\* What the executor still answers; without one every tool use is answered.
Drained == IF config.streaming THEN round.executor ELSE round.uses

AbortedStreaming ==
  /\ phase = "settle" /\ aborted
  /\ unanswered' = unanswered \ Drained
  /\ Return
  /\ UNCHANGED <<config, state, round, messages, aborted, tracker, world, late, sent>>

Settled == phase = "settle" /\ ~aborted

\* A continue site: the next round forgets the response.
Retry(next, changed) ==
  /\ state' = next
  /\ phase' = "prepare"
  /\ round' = NoResponse("streaming")
  /\ messages' = [messages EXCEPT !.changed = changed]

After(transition) == [state EXCEPT !.transition = transition]

DrainsCollapse ==
  /\ Settled /\ round.uses = {} /\ round.last = "prompt_too_long"
  /\ config.source = "main" /\ world.staged
  /\ state.transition # "collapse_drain_retry"
  /\ world' = [world EXCEPT !.staged = FALSE]
  /\ Retry([After("collapse_drain_retry") EXCEPT !.override = Undefined], TRUE)
  /\ UNCHANGED <<config, aborted, tracker, unanswered, late, sent>>

\* A mistake: any cap is tried again.
CapHelpsAnyway == state.transition # "provider_max_tokens_retry"

\* A cap is worth a retry if it lowers the limit, and not twice in a row.
CapHelps ==
  /\ state.transition # "provider_max_tokens_retry"
  /\ Effective = Undefined \/ round.cap < Effective

RetriesWithCap ==
  /\ Settled /\ round.uses = {} /\ round.last = "provider_cap" /\ CapHelps
  /\ Retry([After("provider_max_tokens_retry") EXCEPT
              !.cap = IF @ = Undefined \/ round.cap < @ THEN round.cap ELSE @], FALSE)
  /\ UNCHANGED <<config, aborted, tracker, world, unanswered, late, sent>>

Escalates == config.escalates /\ Effective = Undefined

EscalatesLimit ==
  /\ Settled /\ round.uses = {} /\ round.last = "max_output_tokens" /\ Escalates
  /\ Retry([After("other") EXCEPT !.override = Escalated], FALSE)
  /\ UNCHANGED <<config, aborted, tracker, world, unanswered, late, sent>>

ResumesResponse ==
  /\ Settled /\ round.uses = {} /\ round.last = "max_output_tokens" /\ ~Escalates
  /\ state.recoveries < RecoveryLimit
  /\ Retry([After("other") EXCEPT
              !.recoveries = @ + 1, !.override = Undefined], TRUE)
  /\ UNCHANGED <<config, aborted, tracker, world, unanswered, late, sent>>

CanSwitch == ~state.fellBack /\ ~Forked /\ world.chain > 0

SwitchesProvider ==
  /\ Settled /\ round.uses = {} /\ round.last = "rate_limit" /\ CanSwitch
  /\ world' = [world EXCEPT !.chain = @ - 1]
  /\ Retry([After("other") EXCEPT
              !.fellBack = TRUE, !.override = Undefined, !.cap = Undefined], FALSE)
  /\ UNCHANGED <<config, aborted, tracker, unanswered, late, sent>>

\* The errors that are yielded after the response.
Yielded(kind) ==
  \/ kind \in {"prompt_too_long", "max_output_tokens", "provider_cap"}
  \/ kind = "rate_limit" /\ ~state.fellBack /\ ~Forked

\* No recovery is left, and the query ends without stop hooks.  Spans that are
\* stale, and a provider that cannot be activated, end here too.
SurfacesError ==
  /\ Settled /\ round.uses = {} /\ round.last \in Errors
  /\ round.last = "provider_cap" => ~CapHelps
  /\ round.last = "max_output_tokens" =>
       ~Escalates /\ state.recoveries >= RecoveryLimit
  /\ round' = [round EXCEPT !.withheld = @ /\ ~Yielded(round.last)]
  /\ Return
  /\ UNCHANGED <<config, state, messages, aborted, tracker, world, unanswered, late, sent>>

-----------------------------------------------------------------------------
(* The end of a turn: stop hooks, the token budget, the nudge.             *)

RunsHooks ==
  /\ Settled /\ round.uses = {} /\ round.last \notin Errors
  /\ phase' = "hooks"
  /\ UNCHANGED <<config, state, round, messages, aborted, tracker, world,
                 unanswered, late, sent>>

HooksPrevent ==
  /\ phase = "hooks"
  /\ Return
  /\ UNCHANGED <<config, state, round, messages, aborted, tracker, world,
                 unanswered, late, sent>>

HooksBlock ==
  /\ phase = "hooks" /\ world.blocks > 0
  /\ world' = [world EXCEPT !.blocks = @ - 1]
  /\ Retry([After("other") EXCEPT
              !.recoveries = 0, !.override = Undefined], TRUE)
  /\ UNCHANGED <<config, aborted, tracker, unanswered, late, sent>>

\* A mistake: the budget alone decides.
BudgetLeftAnyway == config.source # "agent" /\ tracker.left > 0

\* checkTokenBudget(): below nine tenths of the budget, unless three
\* continuations were made and the last two checks saw few new tokens.
Diminishing == tracker.count >= 3 /\ tracker.delta = 0 /\ tracker.lastDelta = 0
BudgetLeft == config.source # "agent" /\ tracker.left > 0 /\ ~Diminishing

ContinuesBudget ==
  /\ phase = "hooks" /\ BudgetLeft
  /\ tracker' = [tracker EXCEPT !.count = IF @ < 3 THEN @ + 1 ELSE @,
                                !.lastDelta = tracker.delta, !.delta = 0]
  /\ Retry([After("other") EXCEPT
              !.recoveries = 0, !.fellBack = FALSE, !.override = Undefined], TRUE)
  /\ UNCHANGED <<config, aborted, world, unanswered, late, sent>>

CanNudge ==
  round.last = "intent" /\ state.turn < MaxTurns /\ state.nudges < NudgeLimit

Nudges ==
  /\ phase = "hooks" /\ ~BudgetLeft /\ CanNudge
  /\ Retry([After("other") EXCEPT
              !.recoveries = 0, !.fellBack = FALSE, !.override = Undefined,
              !.nudges = @ + 1], TRUE)
  /\ UNCHANGED <<config, aborted, tracker, world, unanswered, late, sent>>

Completes ==
  /\ phase = "hooks" /\ ~BudgetLeft /\ ~CanNudge
  /\ Return
  /\ UNCHANGED <<config, state, round, messages, aborted, tracker, world,
                 unanswered, late, sent>>

-----------------------------------------------------------------------------
(* The tools of the response.                                              *)

BeginsTools ==
  /\ Settled /\ round.uses # {}
  /\ phase' = "tools"
  /\ UNCHANGED <<config, state, round, messages, aborted, tracker, world,
                 unanswered, late, sent>>

RunsTools ==
  /\ phase = "tools"
  /\ round' = [round EXCEPT !.results = @ \cup Drained, !.executor = {}]
  /\ unanswered' = unanswered \ Drained
  /\ phase' = "after"
  /\ UNCHANGED <<config, state, messages, aborted, tracker, world, late, sent>>

\* An abort, a hook, the guard against failing tools or the limit of turns.
ToolsEnd ==
  /\ phase = "after"
  /\ Return
  /\ UNCHANGED <<config, state, round, messages, aborted, tracker, world,
                 unanswered, late, sent>>

NextTurn ==
  /\ phase = "after" /\ ~aborted /\ state.turn + 1 <= MaxTurns
  /\ state' = [After("other") EXCEPT
                 !.turn = @ + 1, !.recoveries = 0, !.nudges = 0,
                 !.fellBack = FALSE, !.override = Undefined]
  /\ messages' = [uses |-> round.uses, results |-> round.results, changed |-> TRUE]
  /\ round' = NoResponse("streaming")
  /\ phase' = "prepare"
  /\ UNCHANGED <<config, aborted, tracker, world, unanswered, late, sent>>

-----------------------------------------------------------------------------
Abort ==
  /\ phase # "done" /\ ~aborted
  /\ aborted' = TRUE
  /\ UNCHANGED <<config, phase, state, round, messages, tracker, world,
                 unanswered, late, sent>>

\* The next new tool uses.  Only a response that does not stream brings several
\* in one message.
Used == round.uses \cup round.results \cup unanswered
NewUses ==
  LET free == (1..MaxUses) \ Used IN
  IF round.mode = "fallback" THEN SUBSET free \ {{}}
  ELSE {{n} : n \in {m \in free : \A k \in free : m <= k}}

Receive ==
  \/ \E uses \in NewUses : \E done \in SUBSET (Current.executor \cup uses) :
       ReceiveTools(uses, done)
  \/ \E kind \in Kinds, done \in SUBSET Current.executor :
       \E cap \in IF kind = "provider_cap" THEN Caps ELSE {Undefined} :
         ReceiveOther(kind, cap, done)

LoopStep ==
  \/ Prepare \/ Blocked
  \/ Receive \/ FallsBackToNonStreaming \/ Notice
  \/ ModelOverloaded \/ ImageError \/ ModelError \/ StreamEnds
  \/ AbortedStreaming \/ DrainsCollapse \/ RetriesWithCap
  \/ EscalatesLimit \/ ResumesResponse \/ SwitchesProvider \/ SurfacesError
  \/ RunsHooks \/ HooksPrevent \/ HooksBlock \/ ContinuesBudget \/ Nudges \/ Completes
  \/ BeginsTools \/ RunsTools \/ ToolsEnd \/ NextTurn

Next == LoopStep \/ Abort

Spec == Init /\ [][Next]_vars

\* The loop goes on, and a stream ends: the API layer's idle timer cuts one
\* that hangs.
FairSpec == Spec /\ WF_vars(LoopStep) /\ WF_vars(StreamEnds)

-----------------------------------------------------------------------------
States ==
  [turn : 1..MaxTurns, recoveries : 0..RecoveryLimit, nudges : 0..NudgeLimit,
   fellBack : BOOLEAN, override : {Undefined, Escalated}, cap : {Undefined} \cup Caps,
   transition : Transitions]
Ids == SUBSET (1..MaxUses)
Responses ==
  [last : Kinds, withheld : BOOLEAN, cap : {Undefined} \cup Caps,
   uses : Ids, results : Ids, executor : Ids, mode : {"streaming", "fallback", "complete"}]
Trackers == [left : Nat, count : 0..3, delta : Nat, lastDelta : Nat]
Worlds ==
  [blocks : Nat, stagings : Nat, staged : BOOLEAN, overloads : Nat, chain : Nat]

\* The type invariant.
TypeOK ==
  /\ config \in Queries
  /\ phase \in Phases
  /\ state \in States
  /\ round \in Responses
  /\ messages \in [uses : Ids, results : Ids, changed : BOOLEAN]
  /\ aborted \in BOOLEAN
  /\ tracker \in Trackers
  /\ world \in Worlds
  /\ unanswered \in Ids /\ late \in Ids
  /\ sent \in [limit : {Undefined, Escalated} \cup Caps, chain : Nat, repeated : BOOLEAN]

\* Every request that continues after tools holds the results of the response's
\* tool uses and of no others: a result from an attempt that was given up, or a
\* use without result, is an API error on every later request.
RequestsPaired == messages.uses = messages.results

\* When the query returns, whichever of its many ways out it takes, the consumer
\* has a result for every tool use it was shown and that was not retracted; only
\* those that streamed in after the abort have none.
TranscriptAnswered == phase = "done" => unanswered \subseteq late

\* The gate that withholds an error and the recoveries agree: when the query
\* returns, the response does not end in an error that was kept from the consumer,
\* unless the user aborted it or the response asked for tools all the same.
WithheldSurfaces ==
  phase = "done" /\ round.withheld => aborted \/ round.uses # {}

\* No chain of recoveries sends the request again that has just failed, with the
\* same messages, output limit and provider.
NeverResentUnchanged == ~sent.repeated

\* The query returns, however errors, recoveries, hooks, budget and nudges
\* alternate; blocks by hooks, overloads, staged spans and providers run out.
QueryReturns == <>(phase = "done")

\* What a query has left.  First what may happen around it: blocks by hooks and
\* overloads, which only the model bounds, spans to stage and to collapse,
\* providers, and the token budget.
Supply ==
  world.blocks + world.overloads + world.chain + tracker.left
    + 2 * world.stagings + (IF world.staged THEN 1 ELSE 0)

\* The continuations until the next ones are diminishing, if no budget is used.
Continuations ==
  3 - tracker.count
    + (IF tracker.delta > 0 THEN 2 ELSE 0) + (IF tracker.lastDelta > 0 THEN 1 ELSE 0)

\* Then turns, nudges and continuations, attempts to resume a response, a limit to
\* lower (from Undefined, then from cap to cap), and the escalation.
Rank ==
  << Supply,
     MaxTurns - state.turn,
     NudgeLimit - state.nudges + Continuations,
     RecoveryLimit - state.recoveries,
     IF state.cap = Undefined THEN 1 ELSE 0,
     state.cap,
     IF state.override = Undefined THEN 1 ELSE 0 >>

\* The lexicographic order.
Below(m, n) == \E i \in 1..7 : m[i] < n[i] /\ \A j \in 1..i-1 : m[j] = n[j]

\* No step gains anything, and each of the nine ways to begin another round uses
\* something up.  The recoveries reset each other's counters, limits and flags, so
\* none ends by its own bound alone ("Resetting to false here caused an infinite loop",
\* query.ts:1677): whatever resets one must use up something that nothing gives back.
RanksFall ==
  [][/\ Rank' = Rank \/ Below(Rank', Rank)
     /\ phase # "prepare" /\ phase' = "prepare" => Below(Rank', Rank)]_vars
=============================================================================
