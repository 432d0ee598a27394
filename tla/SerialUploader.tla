--------------------------- MODULE SerialUploader ---------------------------
(***************************************************************************)
(* cli/transports/SerialBatchEventUploader.ts: an ordered uploader with    *)
(* batching, retries and backpressure.                                     *)
(*                                                                         *)
(* Events are numbered in the order they enter the queue.  drain() runs    *)
(* without a suspension from one await to the next, so each step below is  *)
(* such a stretch.  Time is abstracted: a sleep ends some time.            *)
(***************************************************************************)
EXTENDS Integers, Sequences, FiniteSets

CONSTANTS
  Arrays,          \* what callers enqueue: for each event, can it be serialized?
  MaxCalls,        \* bound on the calls of enqueue()
  MaxBatchSize,    \* config.maxBatchSize
  BytesLimited,    \* is config.maxBatchBytes given?
  MaxQueueSize,    \* config.maxQueueSize
  MaxFailures      \* config.maxConsecutiveFailures, or 0 if it is not given

ASSUME ArraysAssumption ==
  Arrays \subseteq Seq(BOOLEAN) /\ \A a \in Arrays : Len(a) >= 1
ASSUME SizesAssumption ==
  /\ MaxBatchSize \in Nat \ {0} /\ MaxQueueSize \in Nat
  /\ MaxFailures \in Nat /\ MaxCalls \in Nat
  /\ BytesLimited \in BOOLEAN

VARIABLES
  pending,       \* this.pending
  batch,         \* the batch drain() is sending
  drain,         \* where drain() is; this.draining unless "idle"
  failures,      \* its consecutive failures
  closed,        \* this.closed
  blocked,       \* the calls in this.backpressureResolvers
  awake,         \* the calls that were released and did not go on yet
  flushers,      \* this.flushResolvers: what each call of flush() waits for,
                 \* the number of events accepted when it was called
  unserializable,\* the events JSON cannot express
  calls,         \* the number of calls of enqueue()
  accepted,      \* history: the number of events that entered the queue
  sent,          \* history: the events of a batch that send() accepted
  dropped,       \* history: the events that were given up (droppedBatches)
  abandoned,     \* history: the events close() dropped (pendingAtClose)
  reached,       \* history: the pending events the server got in a request that failed
  flushed        \* history: the most a call of flush() that returned covered

queueVars == <<pending, batch, drain, flushers, dropped, flushed>>
waitVars == <<blocked, awake>>
closeVars == <<closed, abandoned>>
acceptVars == <<unserializable, accepted>>
sendVars == <<failures, sent, reached>>
vars == <<queueVars, waitVars, closeVars, acceptVars, sendVars, calls>>

Ids(queue) == {queue[i] : i \in 1..Len(queue)}
Calls == [id : 1..MaxCalls, events : Arrays]

Init ==
  /\ pending = <<>> /\ batch = <<>> /\ drain = "idle" /\ failures = 0
  /\ closed = FALSE
  /\ blocked = <<>> /\ awake = <<>> /\ flushers = {}
  /\ unserializable = {} /\ calls = 0 /\ accepted = 0
  /\ sent = {} /\ dropped = {} /\ abandoned = {} /\ reached = {} /\ flushed = 0

-----------------------------------------------------------------------------
(* One stretch of drain().                                                 *)

\* The events takeBatch() counts among the first p.  Without a limit on the
\* bytes nothing is serialized.
CountedIn(queue, bad, p) ==
  {i \in 1..p : BytesLimited => queue[i] \notin bad}

\* How far takeBatch() may look: to the end, until the batch is full, or to an
\* event that would exceed the bytes.
Stops(queue, bad, p) ==
  LET count == Cardinality(CountedIn(queue, bad, p))
  IN  \/ count = MaxBatchSize /\ p \in CountedIn(queue, bad, p)
      \/ count < MaxBatchSize /\ p = Len(queue)
      \/ /\ BytesLimited
         /\ 0 < count /\ count < MaxBatchSize /\ p < Len(queue)
         /\ queue[p + 1] \notin bad

\* The positions in S, in order.
Enumerations(S) ==
  {f \in [1..Cardinality(S) -> S] :
     /\ \A i, j \in DOMAIN f : i < j => f[i] < f[j]
     /\ \A s \in S : \E i \in DOMAIN f : f[i] = s}

Taken(queue, f) == [i \in DOMAIN f |-> queue[f[i]]]

Rest(queue, p) == SubSeq(queue, p + 1, Len(queue))

Removed(queue, bad, p) == {queue[i] : i \in (1..p) \ CountedIn(queue, bad, p)}

\* A mistake: the callers of flush() are forgotten.
NotifyNobody(queue) == UNCHANGED <<flushers, flushed>>

\* Nobody waits for a flush any more if the queue is empty.
NotifyFlushers(queue) ==
  IF queue = <<>>
  THEN /\ flushers' = {}
       /\ flushed' = CHOOSE n \in flushers \cup {flushed} :
                       \A m \in flushers \cup {flushed} : m <= n
  ELSE UNCHANGED <<flushers, flushed>>

Ends(queue, gone) ==
  /\ drain' = "idle" /\ batch' = <<>> /\ pending' = queue /\ dropped' = gone
  /\ NotifyFlushers(queue)

\* drain() sends a batch; it goes on if there is none, and then the queue is empty.
Send(taken, rest, gone) ==
  \/ taken = <<>> /\ Ends(rest, gone)
  \/ /\ taken # <<>>
     /\ drain' = "sending" /\ batch' = taken /\ pending' = rest /\ dropped' = gone
     /\ UNCHANGED <<flushers, flushed>>

\* The loop of drain() goes on with a queue; gone are the events given up.
Loop(queue, bad, gone) ==
  \/ (queue = <<>> \/ closed) /\ Ends(queue, gone)
  \/ /\ queue # <<>> /\ ~ closed
     /\ \E p \in 1..Len(queue) :
          /\ Stops(queue, bad, p)
          /\ \E f \in Enumerations(CountedIn(queue, bad, p)) :
               Send(Taken(queue, f), Rest(queue, p), gone \cup Removed(queue, bad, p))

\* drain(): at most one instance runs.
Drain(queue, bad) ==
  IF drain # "idle" \/ closed
  THEN /\ pending' = queue
       /\ UNCHANGED <<batch, drain, dropped, flushers, flushed, failures>>
  ELSE Loop(queue, bad, dropped) /\ failures' = 0

-----------------------------------------------------------------------------
(* The callers.                                                            *)

\* A mistake: a call may push if there is any space.
FitsPartly(events) == Len(pending) < MaxQueueSize

Fits(events) == Len(pending) + Len(events) <= MaxQueueSize

Push(events) ==
  LET new == [i \in 1..Len(events) |-> accepted + i]
      bad == unserializable \cup
               {accepted + i : i \in {j \in 1..Len(events) : ~ events[j]}}
  IN  /\ accepted' = accepted + Len(events)
      /\ unserializable' = bad
      /\ Drain(pending \o new, bad)

\* enqueue() up to its first suspension: it blocks or pushes.  It has no effect
\* if the uploader is closed.
Enqueue(events) ==
  /\ calls < MaxCalls
  /\ calls' = calls + 1
  /\ \/ /\ ~ closed /\ ~ Fits(events)
        /\ blocked' = Append(blocked, [id |-> calls', events |-> events])
        /\ UNCHANGED <<queueVars, acceptVars, failures, awake>>
     \/ /\ ~ closed /\ Fits(events)
        /\ Push(events)
        /\ UNCHANGED waitVars
  /\ UNCHANGED <<closeVars, sent, reached>>

\* A call that was released looks again, in the order of the releases.
GoOn ==
  /\ awake # <<>>
  /\ awake' = Tail(awake)
  /\ LET call == Head(awake)
     IN  \/ closed /\ UNCHANGED <<queueVars, acceptVars, failures, blocked>>
         \/ /\ ~ closed /\ ~ Fits(call.events)
            /\ blocked' = Append(blocked, call)
            /\ UNCHANGED <<queueVars, acceptVars, failures>>
         \/ /\ ~ closed /\ Fits(call.events)
            /\ Push(call.events)
            /\ UNCHANGED blocked
  /\ UNCHANGED <<closeVars, sent, reached, calls>>

\* A mistake: the batch in flight is forgotten.
NothingPending == pending = <<>>

NothingToFlush == pending = <<>> /\ drain = "idle"

\* flush() returns at once, or waits.  The drain() it calls finds one that runs,
\* or is closed: otherwise nothing stays pending when drain() ends.
Flush ==
  /\ \/ /\ NothingToFlush
        /\ flushed' = accepted
        /\ UNCHANGED flushers
     \/ /\ ~ NothingToFlush
        /\ flushers' = flushers \cup {accepted}
        /\ UNCHANGED flushed
  /\ UNCHANGED <<pending, batch, drain, dropped, waitVars, closeVars, acceptVars,
                 sendVars, calls>>

\* A mistake: calls of enqueue() that block stay blocked.
CloseQueue ==
  /\ ~ closed
  /\ closed' = TRUE
  /\ abandoned' = abandoned \cup Ids(pending)
  /\ pending' = <<>>
  /\ flushers' = {}
  /\ UNCHANGED <<batch, drain, dropped, flushed, waitVars, acceptVars, sendVars, calls>>

\* close() drops what is pending and lets everybody go on.
Close ==
  /\ ~ closed
  /\ closed' = TRUE
  /\ abandoned' = abandoned \cup Ids(pending)
  /\ pending' = <<>>
  /\ awake' = awake \o blocked /\ blocked' = <<>>
  /\ flushers' = {}
  /\ UNCHANGED <<batch, drain, dropped, flushed, acceptVars, sendVars, calls>>

-----------------------------------------------------------------------------
(* The end of send() and of a sleep.                                       *)

\* A mistake: nobody is told that space opened up.
KeepBlocked == UNCHANGED <<blocked, awake>>

ReleaseBackpressure == awake' = awake \o blocked /\ blocked' = <<>>

\* send() resolved: the server got the batch, or refused it for good.
SendSucceeds ==
  /\ drain = "sending"
  /\ sent' = sent \cup Ids(batch)
  /\ reached' = reached \ Ids(batch)
  /\ failures' = 0
  /\ ReleaseBackpressure
  /\ Loop(pending, unserializable, dropped)
  /\ UNCHANGED <<closeVars, acceptVars, calls>>

BudgetExhausted == MaxFailures # 0 /\ failures + 1 >= MaxFailures

\* send() threw too often: the batch is dropped...
DropBatch ==
  /\ drain = "sending" /\ BudgetExhausted
  /\ reached' = reached \ Ids(batch)
  /\ failures' = 0
  /\ ReleaseBackpressure
  /\ Loop(pending, unserializable, dropped \cup Ids(batch))
  /\ UNCHANGED <<closeVars, acceptVars, sent, calls>>

\* A mistake: the failed batch goes to the end.
RequeuedLast == pending \o batch

\* A mistake: the failed batch is lost.
NotRequeued == pending

Requeued == batch \o pending

\* ...or it goes back to the front, and drain() sleeps.  The request may have
\* arrived although send() threw.
Retry(arrived) ==
  /\ drain = "sending" /\ ~ BudgetExhausted
  /\ reached' = reached \cup (IF arrived THEN Ids(batch) ELSE {})
  /\ failures' = (IF MaxFailures = 0 THEN 0 ELSE failures + 1)
  /\ pending' = Requeued /\ batch' = <<>>
  /\ drain' = "sleeping"
  /\ UNCHANGED <<flushers, dropped, flushed, waitVars, closeVars, acceptVars,
                 sent, calls>>

\* The delay is over, or close() cut it short.
Wake ==
  /\ drain = "sleeping"
  /\ Loop(pending, unserializable, dropped)
  /\ UNCHANGED <<waitVars, closeVars, acceptVars, sendVars, calls>>

-----------------------------------------------------------------------------
Next ==
  \/ \E events \in Arrays : Enqueue(events)
  \/ GoOn
  \/ Flush
  \/ Close
  \/ SendSucceeds
  \/ DropBatch
  \/ \E arrived \in BOOLEAN : Retry(arrived)
  \/ Wake

Spec == Init /\ [][Next]_vars

\* Microtasks run, a sleep ends and send() settles (its request has a timeout);
\* with a budget of failures that suffices, otherwise some attempt succeeds.
SendSettles ==
  SendSucceeds \/ DropBatch \/ \E arrived \in BOOLEAN : Retry(arrived)

Fairness ==
  /\ WF_vars(GoOn) /\ WF_vars(Wake) /\ WF_vars(SendSettles)
  /\ MaxFailures = 0 => SF_vars(SendSucceeds)

FairSpec == Spec /\ Fairness

-----------------------------------------------------------------------------
\* Types; and a batch in flight is not empty and keeps the limit.
TypeOK ==
  /\ pending \in Seq(1..accepted) /\ batch \in Seq(1..accepted)
  /\ drain = "sending" <=> batch # <<>>
  /\ Len(batch) <= MaxBatchSize
  /\ drain \in {"idle", "sending", "sleeping"}
  /\ failures \in Nat /\ closed \in BOOLEAN
  /\ blocked \in Seq(Calls) /\ awake \in Seq(Calls)
  /\ flushers \subseteq 0..accepted
  /\ calls \in 0..MaxCalls /\ accepted \in Nat
  /\ unserializable \subseteq 1..accepted /\ sent \subseteq 1..accepted
  /\ dropped \subseteq 1..accepted /\ abandoned \subseteq 1..accepted
  /\ reached \subseteq 1..accepted /\ flushed \in 0..accepted

InOrder(queue) == \A i, j \in 1..Len(queue) : i < j => queue[i] < queue[j]

\* Every event is in one place: nothing is lost and nothing that was sent is
\* sent again, whatever fails, is retried, dropped or closed in between; and what
\* cannot be serialized is never in flight, where it "would poison the queue"
\* (SerialBatchEventUploader.ts:211).
Accounted ==
  /\ Ids(batch \o pending) \cup sent \cup dropped \cup abandoned = 1..accepted
  /\ InOrder(batch \o pending)
  /\ Ids(batch \o pending) \cap (sent \cup dropped \cup abandoned) = {}
  /\ sent \cap dropped = {} /\ (sent \cup dropped) \cap abandoned = {}
  /\ BytesLimited => Ids(batch) \cap unserializable = {}

\* The server gets the events in order, also when a request fails after it
\* arrived: the events before one it got reached it, too, unless they were
\* refused or given up ("Serial ordered event uploader").
ServerSeesPrefix ==
  \A n \in reached \cup sent : 1..n \subseteq reached \cup sent \cup dropped

\* The queue exceeds its bound by no more than a batch that failed and came back.
QueueBounded == Len(batch) + Len(pending) <= MaxQueueSize + MaxBatchSize

\* No call that blocks is left behind: a drain() that runs will release it, unless
\* its events do not fit into an empty queue ("A batch >maxQueueSize deadlocks",
\* HybridTransport.ts:86).
ProducersNotStuck ==
  drain = "idle" =>
    \A i \in DOMAIN blocked : Len(blocked[i].events) > MaxQueueSize

\* Nor is a call of flush(), as long as the uploader is open: nobody wakes it but
\* the end of a drain().
FlushersNotStuck == flushers # {} /\ ~ closed => drain # "idle"

CallersNotStuck == ProducersNotStuck /\ FlushersNotStuck

\* A call of flush() that returned, other than by close(), has seen the end of
\* all events accepted before it ("Block until all pending events have been
\* sent").
FlushMeansSent == 1..flushed \subseteq sent \cup dropped \cup abandoned

\* A call of flush() returns, if it is made before the uploader is closed.
FlushReturns == (flushers # {} /\ ~ closed) ~> (flushers = {})

Waits(c) ==
  \E call \in {blocked[i] : i \in DOMAIN blocked} \cup {awake[i] : i \in DOMAIN awake} :
    call.id = c /\ Len(call.events) <= MaxQueueSize

\* A call of enqueue() returns, although others may overtake it.
EnqueueReturns == \A c \in 1..MaxCalls : Waits(c) ~> ~ Waits(c)

\* A call of flush() waits only for a drain() that will end: close() "Resolves
\* any blocked enqueue() and flush() callers"
\* (SerialBatchEventUploader.ts:137).
FlushNeverStuck == flushers # {} => drain # "idle"
=============================================================================
