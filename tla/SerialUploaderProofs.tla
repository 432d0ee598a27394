------------------------ MODULE SerialUploaderProofs ------------------------
(***************************************************************************)
(* Proofs about SerialUploader for arrays of any length, any limits and    *)
(* any number of calls.                                                    *)
(***************************************************************************)
EXTENDS SerialUploader, FiniteSetTheorems, SequenceTheorems, WellFoundedInduction,
        TLAPS

Before(S, T) == \A m \in S, n \in T : m < n

-----------------------------------------------------------------------------
(* Queues of events.                                                       *)

LEMMA ConcatIds ==
  ASSUME NEW s \in Seq(Nat), NEW t \in Seq(Nat)
  PROVE  /\ s \o t \in Seq(Nat) /\ Len(s \o t) = Len(s) + Len(t)
         /\ Ids(s \o t) = Ids(s) \cup Ids(t)
<1>1. s \o t \in Seq(Nat) /\ Len(s \o t) = Len(s) + Len(t)
  OBVIOUS
<1>2. \A i \in 1..Len(s) : i \in 1..(Len(s) + Len(t)) /\ (s \o t)[i] = s[i]
  OBVIOUS
<1>3. \A j \in 1..Len(t) :
        Len(s) + j \in 1..(Len(s) + Len(t)) /\ (s \o t)[Len(s) + j] = t[j]
  OBVIOUS
<1>4. \A k \in 1..(Len(s) + Len(t)) :
        k \in 1..Len(s) \/ (k - Len(s) \in 1..Len(t) /\ k = Len(s) + (k - Len(s)))
  OBVIOUS
<1> DEFINE u == s \o t
<1>5. /\ u \in Seq(Nat) /\ Len(u) = Len(s) + Len(t) /\ Len(s) \in Nat /\ Len(t) \in Nat
      /\ \A i \in 1..Len(s) : i \in 1..Len(u) /\ u[i] = s[i]
      /\ \A j \in 1..Len(t) : Len(s) + j \in 1..Len(u) /\ u[Len(s) + j] = t[j]
  BY <1>1, <1>2, <1>3
<1> HIDE DEF u
<1>6. Ids(u) \subseteq Ids(s) \cup Ids(t)
  <2> SUFFICES ASSUME NEW k \in 1..Len(u) PROVE u[k] \in Ids(s) \cup Ids(t)
    BY <1>5 DEF Ids
  <2>1. CASE k \in 1..Len(s)
    BY <1>5, <2>1 DEF Ids
  <2>2. CASE k - Len(s) \in 1..Len(t) /\ k = Len(s) + (k - Len(s))
    BY <1>5, <2>2 DEF Ids
  <2> QED
    BY <1>4, <1>5, <2>1, <2>2
<1>7. Ids(s) \subseteq Ids(u) /\ Ids(t) \subseteq Ids(u)
  BY <1>5 DEF Ids
<1> QED
  BY <1>5, <1>6, <1>7 DEF u

LEMMA ConcatInOrder ==
  ASSUME NEW s \in Seq(Nat), NEW t \in Seq(Nat)
  PROVE  InOrder(s \o t) <=> InOrder(s) /\ InOrder(t) /\ Before(Ids(s), Ids(t))
<1> DEFINE u == s \o t
<1>1. /\ u \in Seq(Nat) /\ Len(u) = Len(s) + Len(t) /\ Len(s) \in Nat /\ Len(t) \in Nat
      /\ \A i \in 1..Len(s) : i \in 1..Len(u) /\ u[i] = s[i]
      /\ \A j \in 1..Len(t) : Len(s) + j \in 1..Len(u) /\ u[Len(s) + j] = t[j]
      /\ \A k \in 1..Len(u) :
           k \in 1..Len(s) \/ (k - Len(s) \in 1..Len(t) /\ u[k] = t[k - Len(s)])
  OBVIOUS
<1> HIDE DEF u
<1>2. ASSUME InOrder(u)
      PROVE  InOrder(s) /\ InOrder(t) /\ Before(Ids(s), Ids(t))
  <2>1. InOrder(s)
    BY <1>1, <1>2 DEF InOrder
  <2>2. InOrder(t)
    <3> SUFFICES ASSUME NEW i \in 1..Len(t), NEW j \in 1..Len(t), i < j
                 PROVE  t[i] < t[j]
      BY DEF InOrder
    <3>1. Len(s) + i \in 1..Len(u) /\ Len(s) + j \in 1..Len(u) /\ Len(s) + i < Len(s) + j
      BY <1>1
    <3> QED
      BY <1>1, <1>2, <3>1 DEF InOrder
  <2>3. Before(Ids(s), Ids(t))
    <3> SUFFICES ASSUME NEW i \in 1..Len(s), NEW j \in 1..Len(t)
                 PROVE  s[i] < t[j]
      BY DEF Before, Ids
    <3>1. i \in 1..Len(u) /\ Len(s) + j \in 1..Len(u) /\ i < Len(s) + j
      BY <1>1
    <3> QED
      BY <1>1, <1>2, <3>1 DEF InOrder
  <2> QED
    BY <2>1, <2>2, <2>3
<1>3. ASSUME InOrder(s), InOrder(t), Before(Ids(s), Ids(t))
      PROVE  InOrder(u)
  <2> SUFFICES ASSUME NEW i \in 1..Len(u), NEW j \in 1..Len(u), i < j
               PROVE  u[i] < u[j]
    BY <1>1 DEF InOrder
  <2>1. CASE j \in 1..Len(s)
    <3>1. i \in 1..Len(s) /\ u[i] = s[i] /\ u[j] = s[j]
      BY <1>1, <2>1
    <3> QED
      BY <1>3, <2>1, <3>1 DEF InOrder
  <2>2. CASE i \in 1..Len(s) /\ j \notin 1..Len(s)
    <3>1. j - Len(s) \in 1..Len(t) /\ u[j] = t[j - Len(s)] /\ u[i] = s[i]
      BY <1>1, <2>2
    <3>2. s[i] \in Ids(s) /\ t[j - Len(s)] \in Ids(t)
      BY <2>2, <3>1 DEF Ids
    <3> QED
      BY <1>3, <3>1, <3>2 DEF Before
  <2>3. CASE i \notin 1..Len(s)
    <3>1. i - Len(s) \in 1..Len(t) /\ u[i] = t[i - Len(s)]
      BY <1>1, <2>3
    <3>2. j \notin 1..Len(s)
      BY <1>1, <2>3
    <3>3. j - Len(s) \in 1..Len(t) /\ u[j] = t[j - Len(s)]
      BY <1>1, <3>2
    <3>4. i - Len(s) < j - Len(s)
      BY <1>1
    <3>5. t[i - Len(s)] < t[j - Len(s)]
      BY <1>3, <3>1, <3>3, <3>4 DEF InOrder
    <3> QED
      BY <3>1, <3>3, <3>5
  <2> QED
    BY <2>1, <2>2, <2>3
<1> QED
  BY <1>2, <1>3 DEF u

\* The sequence of the elements at some positions.
LEMMA Selection ==
  ASSUME NEW queue \in Seq(Nat), NEW n \in Nat, NEW f \in [1..n -> 1..Len(queue)]
  PROVE  LET taken == [i \in DOMAIN f |-> queue[f[i]]]
         IN  /\ taken \in Seq(Nat) /\ Len(taken) = n
             /\ \A i \in 1..n : taken[i] = queue[f[i]]
<1> DEFINE taken == [i \in DOMAIN f |-> queue[f[i]]]
<1>1. DOMAIN f = 1..n
  OBVIOUS
<1>2. \A i \in 1..n : f[i] \in 1..Len(queue)
  OBVIOUS
<1>3. \A i \in 1..Len(queue) : queue[i] \in Nat
  BY ElementOfSeq
<1>4. taken \in [1..n -> Nat]
  BY <1>1, <1>2, <1>3
<1>5. taken \in Seq(Nat)
  BY <1>4
<1>6. Len(taken) = n
  BY <1>4, <1>5, LenProperties
<1> QED
  BY <1>1, <1>5, <1>6

\* What takeBatch() does: it takes events from the front, in order, leaves the
\* rest in order, and removes what cannot be serialized.
LEMMA TakeBatch ==
  ASSUME NEW queue \in Seq(Nat), InOrder(queue), NEW bad,
         NEW p \in 1..Len(queue), Stops(queue, bad, p),
         NEW f \in Enumerations(CountedIn(queue, bad, p))
  PROVE  /\ Taken(queue, f) \in Seq(Nat) /\ Rest(queue, p) \in Seq(Nat)
         /\ Len(Taken(queue, f)) <= MaxBatchSize
         /\ Len(Taken(queue, f)) + Len(Rest(queue, p)) <= Len(queue)
         /\ InOrder(Taken(queue, f)) /\ InOrder(Rest(queue, p))
         /\ Before(Ids(Taken(queue, f)), Ids(Rest(queue, p)))
         /\ Ids(Taken(queue, f)) \cup Ids(Rest(queue, p)) \cup Removed(queue, bad, p)
              = Ids(queue)
         /\ (Ids(Taken(queue, f)) \cup Ids(Rest(queue, p))) \cap Removed(queue, bad, p) = {}
         /\ BytesLimited => Ids(Taken(queue, f)) \cap bad = {}
         /\ Taken(queue, f) = <<>> => Rest(queue, p) = <<>>
<1> DEFINE S == CountedIn(queue, bad, p)
           taken == [i \in DOMAIN f |-> queue[f[i]]]
           rest == SubSeq(queue, p + 1, Len(queue))
           removed == {queue[i] : i \in (1..p) \ S}
<1>1. /\ S \subseteq 1..p /\ IsFiniteSet(S) /\ Cardinality(S) \in Nat
      /\ Cardinality(S) <= p
  <2>1. IsFiniteSet(1..p) /\ Cardinality(1..p) = p
    BY FS_Interval
  <2>2. S \subseteq 1..p
    BY DEF CountedIn
  <2> QED
    BY <2>1, <2>2, FS_Subset, FS_CardinalityType
<1>2. /\ f \in [1..Cardinality(S) -> S]
      /\ \A i, j \in 1..Cardinality(S) : i < j => f[i] < f[j]
      /\ \A s \in S : \E i \in 1..Cardinality(S) : f[i] = s
  BY DEF Enumerations
<1>3. /\ Len(queue) \in Nat /\ \A i \in 1..Len(queue) : queue[i] \in Nat
      /\ \A i, j \in 1..Len(queue) : i < j => queue[i] < queue[j]
      /\ p \in 1..Len(queue)
  BY DEF InOrder
<1>4. Cardinality(S) <= MaxBatchSize /\ (Cardinality(S) = 0 => p = Len(queue))
  BY <1>1, SizesAssumption DEF Stops
<1>5. BytesLimited => \A i \in S : queue[i] \notin bad
  BY DEF CountedIn
<1> HIDE DEF S
<1>6. /\ taken \in Seq(Nat) /\ Len(taken) = Cardinality(S)
      /\ \A i \in 1..Len(taken) : f[i] \in 1..p /\ taken[i] = queue[f[i]]
  <2>0. S \subseteq 1..Len(queue)
    BY <1>1, <1>3
  <2>1. f \in [1..Cardinality(S) -> 1..Len(queue)]
    BY <1>2, <2>0
  <2>2. \A i \in 1..Cardinality(S) : f[i] \in 1..p
    BY <1>1, <1>2
  <2> QED
    BY <1>1, <2>1, <2>2, Selection
<1>7. /\ rest \in Seq(Nat) /\ Len(rest) = Len(queue) - p
      /\ \A i \in 1..Len(rest) : p + i \in 1..Len(queue) /\ rest[i] = queue[p + i]
  BY <1>3
<1> HIDE DEF taken, rest
<1>8. Ids(taken) = {queue[i] : i \in S}
  <2>1. \A i \in 1..Cardinality(S) : taken[i] = queue[f[i]] /\ f[i] \in S
    BY <1>2, <1>6
  <2>2. ASSUME NEW i \in 1..Len(taken) PROVE taken[i] \in {queue[k] : k \in S}
    BY <1>6, <2>1
  <2>3. ASSUME NEW i \in S PROVE queue[i] \in Ids(taken)
    <3>1. PICK k \in 1..Cardinality(S) : f[k] = i
      BY <1>2
    <3> QED
      BY <1>6, <2>1, <3>1 DEF Ids
  <2> QED
    BY <2>2, <2>3 DEF Ids
<1>9. Ids(rest) = {queue[i] : i \in (p + 1)..Len(queue)}
  <2>1. ASSUME NEW i \in (p + 1)..Len(queue) PROVE queue[i] \in Ids(rest)
    <3>1. i - p \in 1..Len(rest) /\ p + (i - p) = i
      BY <1>3, <1>7
    <3>2. rest[i - p] = queue[i]
      BY <1>7, <3>1
    <3> QED
      BY <3>1, <3>2 DEF Ids
  <2>2. ASSUME NEW i \in 1..Len(rest)
        PROVE  p + i \in (p + 1)..Len(queue) /\ rest[i] = queue[p + i]
    BY <1>3, <1>7
  <2>3. Ids(rest) \subseteq {queue[i] : i \in (p + 1)..Len(queue)}
    BY <2>2 DEF Ids
  <2> QED
    BY <2>1, <2>3
<1>10. InOrder(taken)
  <2> SUFFICES ASSUME NEW i \in 1..Len(taken), NEW j \in 1..Len(taken), i < j
               PROVE  taken[i] < taken[j]
    BY DEF InOrder
  <2>1. f[i] < f[j] /\ f[i] \in 1..Len(queue) /\ f[j] \in 1..Len(queue)
    BY <1>2, <1>3, <1>6
  <2> QED
    BY <1>3, <1>6, <2>1
<1>11. InOrder(rest)
  <2> SUFFICES ASSUME NEW i \in 1..Len(rest), NEW j \in 1..Len(rest), i < j
               PROVE  rest[i] < rest[j]
    BY DEF InOrder
  <2>1. p + i < p + j /\ p + i \in 1..Len(queue) /\ p + j \in 1..Len(queue)
    BY <1>3, <1>7
  <2> QED
    BY <1>3, <1>7, <2>1
<1>12. 1..Len(queue) = S \cup ((1..p) \ S) \cup ((p + 1)..Len(queue))
  <2>1. 1..Len(queue) = (1..p) \cup ((p + 1)..Len(queue))
    BY <1>3
  <2> QED
    BY <1>1, <2>1
<1>13. \A i, j \in 1..Len(queue) : queue[i] = queue[j] => i = j
  BY <1>3
<1>14. Ids(taken) \cup Ids(rest) \cup removed = Ids(queue)
  BY <1>8, <1>9, <1>12 DEF Ids
<1>15. (Ids(taken) \cup Ids(rest)) \cap removed = {}
  <2>1. \A i \in S \cup ((p + 1)..Len(queue)), j \in (1..p) \ S :
          i # j /\ i \in 1..Len(queue) /\ j \in 1..Len(queue)
    BY <1>1, <1>3
  <2> QED
    BY <1>8, <1>9, <1>13, <2>1
<1>16. Before(Ids(taken), Ids(rest))
  <2>1. \A i \in S, j \in (p + 1)..Len(queue) :
          i < j /\ i \in 1..Len(queue) /\ j \in 1..Len(queue)
    BY <1>1, <1>3
  <2> QED
    BY <1>3, <1>8, <1>9, <2>1 DEF Before
<1>17. BytesLimited => Ids(taken) \cap bad = {}
  BY <1>5, <1>8
<1>18. taken = <<>> => rest = <<>>
  BY <1>1, <1>3, <1>4, <1>6, <1>7
<1>19. Len(taken) <= MaxBatchSize /\ Len(taken) + Len(rest) <= Len(queue)
  BY <1>1, <1>3, <1>4, <1>6, <1>7
<1> QED
  BY <1>6, <1>7, <1>10, <1>11, <1>14, <1>15, <1>16, <1>17, <1>18, <1>19
  DEF S, taken, rest, Taken, Rest, Removed

-----------------------------------------------------------------------------
(* Where the events are: in the batch b, in the queue q, sent (s), given up *)
(* (g) or abandoned (a).                                                    *)

Places(b, q, s, g, a, n) ==
  /\ b \in Seq(Nat) /\ q \in Seq(Nat)
  /\ InOrder(b) /\ InOrder(q) /\ Before(Ids(b), Ids(q))
  /\ Ids(b) \cup Ids(q) \cup s \cup g \cup a = 1..n
  /\ (Ids(b) \cup Ids(q)) \cap (s \cup g \cup a) = {}
  /\ s \cap g = {} /\ (s \cup g) \cap a = {}

Counters ==
  /\ failures \in Nat /\ closed \in BOOLEAN
  /\ blocked \in Seq(Calls) /\ awake \in Seq(Calls)
  /\ flushers \subseteq 0..accepted
  /\ calls \in 0..MaxCalls /\ accepted \in Nat
  /\ unserializable \subseteq 1..accepted /\ reached \subseteq 1..accepted
  /\ flushed \in 0..accepted

Placed == Places(batch, pending, sent, dropped, abandoned, accepted)

\* Only what drain() sends is in the batch, and what close() abandons came after it.
InFlight ==
  /\ drain \in {"idle", "sending", "sleeping"}
  /\ drain = "sending" <=> batch # <<>>
  /\ Len(batch) <= MaxBatchSize
  /\ BytesLimited => Ids(batch) \cap unserializable = {}
  /\ Before(Ids(batch), abandoned)

Closing == (closed => blocked = <<>>) /\ (~ closed => abandoned = {})

Settled == drain = "idle" => closed \/ pending = <<>>

IInv == Counters /\ Placed /\ InFlight /\ Closing /\ Settled

LEMMA EmptyIds == Ids(<<>>) = {} /\ InOrder(<<>>) /\ <<>> \in Seq(Nat)
BY DEF Ids, InOrder

\* The loop of drain() keeps every event, in order; it stops only if it is closed
\* or the queue is empty.
LEMMA LoopKeeps ==
  ASSUME NEW q, NEW bad, NEW g, NEW s, NEW n \in Nat,
         Places(<<>>, q, s, g, abandoned, n),
         ~ closed => abandoned = {},
         Loop(q, bad, g)
  PROVE  /\ Places(batch', pending', s, dropped', abandoned, n)
         /\ Len(batch') <= MaxBatchSize
         /\ Len(batch') + Len(pending') <= Len(q)
         /\ BytesLimited => Ids(batch') \cap bad = {}
         /\ Before(Ids(batch'), abandoned)
         /\ drain' \in {"idle", "sending"}
         /\ drain' = "sending" <=> batch' # <<>>
         /\ drain' = "idle" => closed \/ pending' = <<>>
         /\ g \subseteq dropped'
<1>1. CASE (q = <<>> \/ closed) /\ Ends(q, g)
  <2>1. /\ drain' = "idle" /\ batch' = <<>> /\ pending' = q /\ dropped' = g
        /\ closed \/ q = <<>>
    BY <1>1 DEF Ends
  <2>2. Ids(batch') = {} /\ Len(batch') = 0 /\ Len(q) \in Nat
    BY <2>1, EmptyIds DEF Places
  <2> QED
    BY <2>1, <2>2, SizesAssumption DEF Before
<1>2. CASE /\ q # <<>> /\ ~ closed
           /\ \E p \in 1..Len(q) :
                /\ Stops(q, bad, p)
                /\ \E f \in Enumerations(CountedIn(q, bad, p)) :
                     Send(Taken(q, f), Rest(q, p), g \cup Removed(q, bad, p))
  <2>0. PICK p \in 1..Len(q) :
               /\ Stops(q, bad, p)
               /\ \E f \in Enumerations(CountedIn(q, bad, p)) :
                    Send(Taken(q, f), Rest(q, p), g \cup Removed(q, bad, p))
    BY <1>2
  <2>1. PICK f \in Enumerations(CountedIn(q, bad, p)) :
               Send(Taken(q, f), Rest(q, p), g \cup Removed(q, bad, p))
    BY <2>0
  <2> DEFINE taken == Taken(q, f)
             rest == Rest(q, p)
             removed == Removed(q, bad, p)
  <2>2. q \in Seq(Nat) /\ InOrder(q)
    BY DEF Places
  <2>3. /\ taken \in Seq(Nat) /\ rest \in Seq(Nat)
        /\ Len(taken) <= MaxBatchSize
        /\ Len(taken) + Len(rest) <= Len(q)
        /\ InOrder(taken) /\ InOrder(rest) /\ Before(Ids(taken), Ids(rest))
        /\ Ids(taken) \cup Ids(rest) \cup removed = Ids(q)
        /\ (Ids(taken) \cup Ids(rest)) \cap removed = {}
        /\ BytesLimited => Ids(taken) \cap bad = {}
        /\ taken = <<>> => rest = <<>>
    BY <2>0, <2>2, TakeBatch
  <2>4. Send(taken, rest, g \cup removed)
    BY <2>1
  <2> HIDE DEF taken, rest, removed
  <2>5. /\ batch' = taken /\ pending' = rest /\ dropped' = g \cup removed
        /\ drain' \in {"idle", "sending"}
        /\ drain' = "sending" <=> taken # <<>>
    BY <2>4 DEF Send, Ends
  <2>6. abandoned = {}
    BY <1>2
  <2>7. Places(taken, rest, s, g \cup removed, abandoned, n)
    BY <2>3, <2>6, EmptyIds DEF Places
  <2>8. Before(Ids(taken), abandoned) /\ g \subseteq g \cup removed
    BY <2>6 DEF Before
  <2>9. drain' = "idle" => closed \/ pending' = <<>>
    BY <2>3, <2>5
  <2>10. Places(batch', pending', s, dropped', abandoned, n)
    BY <2>5, <2>7
  <2>11. /\ Len(batch') <= MaxBatchSize /\ Len(batch') + Len(pending') <= Len(q)
         /\ BytesLimited => Ids(batch') \cap bad = {}
         /\ Before(Ids(batch'), abandoned) /\ g \subseteq dropped'
    BY <2>3, <2>5, <2>8
  <2> QED
    BY <2>5, <2>9, <2>10, <2>11
<1> QED
  BY <1>1, <1>2 DEF Loop

LEMMA Greatest ==
  ASSUME NEW n \in Nat, NEW all, all \subseteq 0..n, all # {}
  PROVE  \E x \in all : \A y \in all : y <= x
<1> DEFINE less == OpToRel(<, Nat)
           gaps == {n - x : x \in all}
<1>0. \A x \in all : n - x \in Nat
  OBVIOUS
<1>1. gaps \subseteq Nat /\ gaps # {}
  BY <1>0
<1>2. PICK k \in gaps : \A y \in gaps : ~ (<<y, k>> \in less)
  <2> HIDE DEF less, gaps
  <2>1. IsWellFoundedOn(less, Nat)
    BY NatLessThanWellFounded DEF less
  <2> QED
    BY <1>1, <2>1, WFMin
<1>3. \A y \in gaps : ~ (y < k)
  BY <1>1, <1>2 DEF OpToRel
<1>4. PICK x \in all : k = n - x
  BY <1>2
<1>5. \A y \in all : y \in 0..n /\ n - y \in gaps
  OBVIOUS
<1>6. \A y \in all : y <= x
  BY <1>3, <1>4, <1>5
<1> QED
  BY <1>6

\* What happens to the callers of flush(): they wait on, or nothing is left.
LEMMA LoopFlush ==
  ASSUME NEW q, NEW bad, NEW g, NEW n \in Nat,
         flushers \subseteq 0..n, flushed \in 0..n, Loop(q, bad, g)
  PROVE  /\ flushers' \subseteq 0..n /\ flushed' \in 0..n
         /\ flushed' = flushed \/ (batch' = <<>> /\ pending' = <<>>)
<1>1. ASSUME NEW queue, NotifyFlushers(queue)
      PROVE  /\ flushers' \subseteq 0..n /\ flushed' \in 0..n
             /\ flushed' = flushed \/ queue = <<>>
  <2>1. CASE queue = <<>>
    <3> DEFINE all == flushers \cup {flushed}
    <3>1. all \subseteq 0..n /\ all # {}
      OBVIOUS
    <3>2. \E x \in all : \A y \in all : y <= x
      BY <3>1, Greatest
    <3>3. flushers' = {} /\ flushed' = CHOOSE x \in all : \A y \in all : y <= x
      BY <1>1, <2>1 DEF NotifyFlushers
    <3> QED
      BY <2>1, <3>1, <3>2, <3>3
  <2>2. CASE queue # <<>>
    BY <1>1, <2>2 DEF NotifyFlushers
  <2> QED
    BY <2>1, <2>2
<1>2. ASSUME NEW queue, NEW gone, Ends(queue, gone)
      PROVE  /\ flushers' \subseteq 0..n /\ flushed' \in 0..n
             /\ flushed' = flushed \/ (batch' = <<>> /\ pending' = <<>>)
  BY <1>1, <1>2 DEF Ends
<1>3. ASSUME NEW taken, NEW rest, NEW gone, Send(taken, rest, gone)
      PROVE  /\ flushers' \subseteq 0..n /\ flushed' \in 0..n
             /\ flushed' = flushed \/ (batch' = <<>> /\ pending' = <<>>)
  <2>1. CASE Ends(rest, gone)
    BY <1>2, <2>1
  <2> QED
    BY <1>3, <2>1 DEF Send
<1>4. \/ Ends(q, g)
      \/ \E taken, rest, gone : Send(taken, rest, gone)
  BY DEF Loop
<1>5. CASE Ends(q, g)
  BY <1>2, <1>5
<1>6. CASE \E taken, rest, gone : Send(taken, rest, gone)
  BY <1>3, <1>6
<1> QED
  BY <1>4, <1>5, <1>6

-----------------------------------------------------------------------------
(* Every step keeps the events where they belong.                          *)

LEMMA InitIInv == Init => IInv
<1> SUFFICES ASSUME Init PROVE IInv
  OBVIOUS
<1>1. Counters
  <2>1. <<>> \in Seq(Calls)
    BY EmptySeq
  <2> QED
    <3>1. 0 \in 0..MaxCalls /\ 0 \in 0..0 /\ 0 \in Nat
      BY SizesAssumption
    <3> QED
      BY <2>1, <3>1 DEF Init, Counters
<1>2. Placed
  BY EmptyIds DEF Init, Placed, Places, Before
<1>3. InFlight /\ Closing /\ Settled
  BY EmptyIds, SizesAssumption DEF Init, InFlight, Closing, Settled, Before
<1> QED
  BY <1>1, <1>2, <1>3 DEF IInv

\* The events of a call that pushes come after all others.
LEMMA PushedEvents ==
  ASSUME NEW n \in Nat, NEW events \in Arrays
  PROVE  LET new == [i \in 1..Len(events) |-> n + i]
         IN  /\ Len(events) \in Nat \ {0}
             /\ new \in Seq(Nat) /\ Len(new) = Len(events)
             /\ new # <<>> /\ InOrder(new)
             /\ Ids(new) = (n + 1)..(n + Len(events))
<1> DEFINE m == Len(events)
           new == [i \in 1..m |-> n + i]
<1>1. m \in Nat \ {0}
  <2>1. events \in Seq(BOOLEAN) /\ Len(events) >= 1
    BY ArraysAssumption
  <2> QED
    BY <2>1
<1> HIDE DEF m
<1>2. new \in [1..m -> Nat]
  BY <1>1
<1>3. new \in Seq(Nat)
  BY <1>1, <1>2
<1>4. Len(new) = m
  BY <1>1, <1>2, <1>3, LenProperties
<1>5. \A i \in 1..m : new[i] = n + i
  OBVIOUS
<1> HIDE DEF new
<1>6. InOrder(new)
  BY <1>1, <1>4, <1>5 DEF InOrder
<1>7. Ids(new) \subseteq (n + 1)..(n + m)
  BY <1>1, <1>4, <1>5 DEF Ids
<1>8. ASSUME NEW k \in (n + 1)..(n + m) PROVE k \in Ids(new)
  <2>1. k - n \in 1..m /\ n + (k - n) = k
    BY <1>1
  <2>2. new[k - n] = k
    BY <1>5, <2>1
  <2> QED
    BY <1>4, <2>1, <2>2 DEF Ids
<1>9. new # <<>>
  BY <1>1, <1>4
<1> QED
  BY <1>1, <1>3, <1>4, <1>6, <1>7, <1>8, <1>9 DEF new, m

\* A call of enqueue() that finds space.
LEMMA PushKeeps ==
  ASSUME IInv, ~ closed, NEW events \in Arrays, Fits(events), Push(events),
         UNCHANGED <<closed, abandoned, sent>>
  PROVE  /\ Placed' /\ InFlight' /\ Settled'
         /\ accepted' \in Nat /\ accepted <= accepted'
         /\ unserializable' \subseteq 1..accepted'
         /\ flushers' \subseteq 0..accepted' /\ flushed' \in 0..accepted'
         /\ flushed' = flushed \/ (batch' = <<>> /\ pending' = <<>>)
         /\ failures' \in Nat /\ dropped \subseteq dropped'
         /\ QueueBounded'
<1> DEFINE m == Len(events)
           new == [i \in 1..Len(events) |-> accepted + i]
           n == accepted + m
           q == pending \o new
           odd == {j \in 1..Len(events) : ~ events[j]}
           bad == unserializable \cup {accepted + i : i \in odd}
<1>1. /\ m \in Nat \ {0} /\ new \in Seq(Nat) /\ Len(new) = m /\ new # <<>>
      /\ InOrder(new) /\ Ids(new) = (accepted + 1)..n
      /\ accepted \in Nat
  BY PushedEvents DEF IInv, Counters
<1>2. accepted' = n /\ unserializable' = bad /\ Drain(q, bad)
  BY DEF Push
<1>3. bad \subseteq 1..n /\ bad \subseteq unserializable \cup ((accepted + 1)..n)
  <2>1. odd \subseteq 1..m
    OBVIOUS
  <2> HIDE DEF odd
  <2>2. \A i \in odd : accepted + i \in (accepted + 1)..n /\ accepted + i \in 1..n
    BY <1>1, <2>1
  <2>3. unserializable \subseteq 1..n
    BY <1>1 DEF IInv, Counters
  <2> QED
    BY <2>2, <2>3
<1> HIDE DEF new, bad
<1>4. /\ Places(batch, pending, sent, dropped, abandoned, accepted)
      /\ Ids(batch) \subseteq 1..accepted /\ Ids(pending) \subseteq 1..accepted
  BY DEF IInv, Placed, Places
<1>5. /\ q \in Seq(Nat) /\ Len(q) = Len(pending) + m
      /\ Ids(q) = Ids(pending) \cup ((accepted + 1)..n)
  BY <1>1, <1>4, ConcatIds DEF Places
<1>6. Before(Ids(pending), Ids(new)) /\ Before(Ids(batch), Ids(new))
  BY <1>1, <1>4 DEF Before
<1>7. InOrder(q)
  BY <1>1, <1>4, <1>6, ConcatInOrder DEF Places
<1> HIDE DEF q
<1>8. /\ n \in Nat /\ 1..n = (1..accepted) \cup ((accepted + 1)..n)
      /\ (1..accepted) \cap ((accepted + 1)..n) = {}
      /\ accepted <= n
  BY <1>1
<1>9. Before(Ids(batch), Ids(q))
  BY <1>1, <1>4, <1>5, <1>6 DEF Before, Places
<1> HIDE DEF n
<1>10. Places(batch, q, sent, dropped, abandoned, n)
  BY <1>4, <1>5, <1>7, <1>8, <1>9 DEF Places
<1>11. Len(q) <= MaxQueueSize
  BY <1>5 DEF Fits, m
<1>12. /\ flushers \subseteq 0..n /\ flushed \in 0..n /\ failures \in Nat
  BY <1>1, <1>8 DEF IInv, Counters
<1>13. CASE drain # "idle"
  <2>1. /\ pending' = q
        /\ UNCHANGED <<batch, drain, dropped, flushers, flushed, failures>>
    BY <1>2, <1>13 DEF Drain
  <2>2. Placed'
    BY <1>2, <1>10, <2>1 DEF Placed
  <2>3. BytesLimited => Ids(batch) \cap bad = {}
    BY <1>3, <1>4, <1>8 DEF IInv, InFlight
  <2>4. InFlight'
    BY <1>2, <2>1, <2>3 DEF IInv, InFlight, Ids
  <2>5. Settled'
    BY <1>13, <2>1 DEF Settled
  <2>6. QueueBounded'
    BY <1>4, <1>5, <1>11, <2>1, SizesAssumption DEF IInv, InFlight, QueueBounded, Places
  <2> QED
    BY <1>2, <1>3, <1>8, <1>12, <2>1, <2>2, <2>4, <2>5, <2>6
<1>14. CASE drain = "idle"
  <2>1. batch = <<>> /\ Loop(q, bad, dropped) /\ failures' = 0
    BY <1>2, <1>14 DEF Drain, IInv, InFlight
  <2>2. Places(<<>>, q, sent, dropped, abandoned, n)
    BY <1>10, <2>1
  <2>3. ~ closed => abandoned = {}
    BY DEF IInv, Closing
  <2>4. /\ Places(batch', pending', sent, dropped', abandoned, n)
        /\ Len(batch') <= MaxBatchSize
        /\ Len(batch') + Len(pending') <= Len(q)
        /\ BytesLimited => Ids(batch') \cap bad = {}
        /\ Before(Ids(batch'), abandoned)
        /\ drain' \in {"idle", "sending"}
        /\ drain' = "sending" <=> batch' # <<>>
        /\ drain' = "idle" => closed \/ pending' = <<>>
        /\ dropped \subseteq dropped'
    BY <1>8, <2>1, <2>2, <2>3, LoopKeeps
  <2>5. /\ flushers' \subseteq 0..n /\ flushed' \in 0..n
        /\ flushed' = flushed \/ (batch' = <<>> /\ pending' = <<>>)
    BY <1>8, <1>12, <2>1, LoopFlush
  <2>6. Placed' /\ InFlight' /\ Settled'
    BY <1>2, <2>4 DEF Placed, InFlight, Settled, Ids
  <2>7. QueueBounded'
    <3>1. Len(batch') \in Nat /\ Len(pending') \in Nat /\ Len(q) \in Nat
      BY <1>5, <2>4 DEF Places
    <3> QED
      BY <1>11, <2>4, <3>1, SizesAssumption DEF QueueBounded
  <2> QED
    BY <1>2, <1>3, <1>8, <2>1, <2>4, <2>5, <2>6, <2>7
<1> QED
  BY <1>13, <1>14

\* A stretch of drain() after send() settled, or after a sleep.
LEMMA LoopStep ==
  ASSUME IInv, NEW g, Places(<<>>, pending, sent', g, abandoned, accepted),
         Loop(pending, unserializable, g),
         UNCHANGED <<closed, abandoned, accepted, unserializable>>
  PROVE  /\ Placed' /\ InFlight' /\ Settled'
         /\ flushers' \subseteq 0..accepted /\ flushed' \in 0..accepted
         /\ flushed' = flushed \/ (batch' = <<>> /\ pending' = <<>>)
         /\ Len(batch') + Len(pending') <= Len(pending)
         /\ g \subseteq dropped'
<1>1. accepted \in Nat /\ flushers \subseteq 0..accepted /\ flushed \in 0..accepted
  BY DEF IInv, Counters
<1>2. ~ closed => abandoned = {}
  BY DEF IInv, Closing
<1> DEFINE s == sent'
<1>3. Places(<<>>, pending, s, g, abandoned, accepted)
  OBVIOUS
<1> HIDE DEF s
<1>4. /\ Places(batch', pending', s, dropped', abandoned, accepted)
      /\ Len(batch') <= MaxBatchSize
      /\ Len(batch') + Len(pending') <= Len(pending)
      /\ BytesLimited => Ids(batch') \cap unserializable = {}
      /\ Before(Ids(batch'), abandoned)
      /\ drain' \in {"idle", "sending"}
      /\ drain' = "sending" <=> batch' # <<>>
      /\ drain' = "idle" => closed \/ pending' = <<>>
      /\ g \subseteq dropped'
  BY <1>1, <1>2, <1>3, LoopKeeps
<1>5. /\ flushers' \subseteq 0..accepted /\ flushed' \in 0..accepted
      /\ flushed' = flushed \/ (batch' = <<>> /\ pending' = <<>>)
  BY <1>1, LoopFlush
<1>6. Placed' /\ InFlight' /\ Settled'
  BY <1>4 DEF Placed, InFlight, Settled, Ids, s
<1> QED
  BY <1>4, <1>5, <1>6

LEMMA NextIInv == IInv /\ [Next]_vars => IInv'
<1> SUFFICES ASSUME IInv, [Next]_vars PROVE IInv'
  OBVIOUS
<1> USE DEF queueVars, waitVars, closeVars, acceptVars, sendVars
<1>0. /\ Counters /\ Placed /\ InFlight /\ Closing /\ Settled
      /\ Places(batch, pending, sent, dropped, abandoned, accepted)
  BY DEF IInv, Placed
<1>1. ASSUME NEW events \in Arrays, Enqueue(events) PROVE IInv'
  <2>1. calls' \in 0..MaxCalls /\ calls' \in 1..MaxCalls
    BY <1>0, <1>1, SizesAssumption DEF Enqueue, Counters
  <2>2. CASE /\ ~ closed /\ ~ Fits(events)
             /\ blocked' = Append(blocked, [id |-> calls', events |-> events])
             /\ UNCHANGED <<queueVars, acceptVars, failures, awake>>
    <3>1. [id |-> calls', events |-> events] \in Calls
      BY <2>1 DEF Calls
    <3>2. blocked' \in Seq(Calls)
      BY <1>0, <2>2, <3>1, AppendProperties DEF Counters
    <3>3. UNCHANGED <<pending, batch, drain, dropped, failures, closed, awake, accepted,
                      unserializable, sent, reached, abandoned, flushers, flushed>>
      BY <1>1, <2>2 DEF Enqueue
    <3>4. Counters'
      BY <1>0, <2>1, <3>2, <3>3 DEF Counters
    <3>5. Placed'
      BY <1>0, <3>3 DEF Placed
    <3>6. InFlight' /\ Settled'
      BY <1>0, <3>3 DEF InFlight, Settled, Ids
    <3>7. Closing'
      BY <1>0, <2>2, <3>3 DEF Closing
    <3> QED
      BY <3>4, <3>5, <3>6, <3>7 DEF IInv
  <2>3. CASE ~ closed /\ Fits(events) /\ Push(events) /\ UNCHANGED waitVars
    <3>1. UNCHANGED <<closed, abandoned, sent, reached>>
      BY <1>1 DEF Enqueue
    <3>2. /\ Placed' /\ InFlight' /\ Settled'
          /\ accepted' \in Nat /\ accepted <= accepted'
          /\ unserializable' \subseteq 1..accepted'
          /\ flushers' \subseteq 0..accepted' /\ flushed' \in 0..accepted'
          /\ failures' \in Nat
      BY <2>3, <3>1, PushKeeps
    <3>3. Counters' /\ Closing'
      BY <1>0, <2>1, <2>3, <3>1, <3>2 DEF Counters, Closing
    <3> QED
      BY <3>2, <3>3 DEF IInv
  <2> QED
    BY <1>1, <2>2, <2>3 DEF Enqueue
<1>2. ASSUME GoOn PROVE IInv'
  <2> DEFINE call == Head(awake)
  <2>1. /\ call \in Calls /\ Tail(awake) \in Seq(Calls) /\ awake' = Tail(awake)
        /\ UNCHANGED <<closed, abandoned, sent, reached, calls>>
    BY <1>0, <1>2, HeadTailProperties DEF GoOn, Counters
  <2>2. call.events \in Arrays
    BY <2>1 DEF Calls
  <2>3. \/ closed /\ UNCHANGED <<queueVars, acceptVars, failures, blocked>>
        \/ /\ ~ closed /\ ~ Fits(call.events)
           /\ blocked' = Append(blocked, call)
           /\ UNCHANGED <<queueVars, acceptVars, failures>>
        \/ /\ ~ closed /\ Fits(call.events)
           /\ Push(call.events)
           /\ UNCHANGED blocked
    BY <1>2 DEF GoOn
  <2> HIDE DEF call
  <2>4. CASE UNCHANGED <<queueVars, acceptVars, failures>>
    <3>1. blocked' \in Seq(Calls) /\ (blocked' = blocked \/ ~ closed)
      <4>1. blocked \in Seq(Calls)
        BY <1>0 DEF Counters
      <4>2. Append(blocked, call) \in Seq(Calls)
        BY <2>1, <4>1, AppendProperties
      <4>3. CASE Fits(call.events) /\ ~ closed
        BY <2>3, <4>1, <4>3
      <4> QED
        BY <2>3, <4>1, <4>2, <4>3
    <3>2. Counters' /\ Closing'
      BY <1>0, <2>1, <2>4, <3>1 DEF Counters, Closing
    <3>3. Placed'
      BY <1>0, <2>1, <2>4 DEF Placed
    <3>4. InFlight' /\ Settled'
      BY <1>0, <2>1, <2>4 DEF InFlight, Settled, Ids
    <3> QED
      BY <3>2, <3>3, <3>4 DEF IInv
  <2>5. CASE /\ ~ closed /\ Fits(call.events) /\ Push(call.events)
             /\ UNCHANGED blocked
    <3>1. /\ Placed' /\ InFlight' /\ Settled'
          /\ accepted' \in Nat /\ accepted <= accepted'
          /\ unserializable' \subseteq 1..accepted'
          /\ flushers' \subseteq 0..accepted' /\ flushed' \in 0..accepted'
          /\ failures' \in Nat
      BY <2>1, <2>2, <2>5, PushKeeps
    <3>2. Counters' /\ Closing'
      BY <1>0, <2>1, <2>5, <3>1 DEF Counters, Closing
    <3> QED
      BY <3>1, <3>2 DEF IInv
  <2> QED
    BY <2>3, <2>4, <2>5
<1>3. ASSUME Flush PROVE IInv'
  <2>1. /\ UNCHANGED <<pending, batch, drain, dropped, failures, closed, blocked, awake,
                       calls, accepted, unserializable, sent, reached, abandoned>>
        /\ flushers' \subseteq flushers \cup {accepted}
        /\ flushed' = flushed \/ flushed' = accepted
    BY <1>3 DEF Flush
  <2>2. accepted \in 0..accepted
    BY <1>0 DEF Counters
  <2>3. Counters'
    BY <1>0, <2>1, <2>2 DEF Counters
  <2>4. Placed'
    BY <1>0, <2>1 DEF Placed
  <2>5. InFlight' /\ Closing' /\ Settled'
    BY <1>0, <2>1 DEF InFlight, Closing, Settled, Ids
  <2> QED
    BY <2>3, <2>4, <2>5 DEF IInv
<1>4. ASSUME Close PROVE IInv'
  <2>1. abandoned = {} /\ abandoned' = Ids(pending)
    BY <1>0, <1>4 DEF Close, Closing
  <2>2. Counters'
    <3>1. awake' \in Seq(Calls) /\ blocked' \in Seq(Calls)
      BY <1>0, <1>4, ConcatProperties, EmptySeq DEF Close, Counters
    <3> QED
      BY <1>0, <1>4, <3>1 DEF Close, Counters
  <2>3. Placed'
    <3>1. Places(batch, <<>>, sent, dropped, Ids(pending), accepted)
      BY <1>0, <2>1, EmptyIds DEF Places, Before
    <3> QED
      BY <1>4, <2>1, <3>1 DEF Close, Placed
  <2>4. Before(Ids(batch), abandoned)'
    BY <1>0, <1>4, <2>1 DEF Close, Places, Before, Ids
  <2>5. InFlight' /\ Closing' /\ Settled'
    BY <1>0, <1>4, <2>4 DEF Close, InFlight, Closing, Settled, Ids
  <2> QED
    BY <2>2, <2>3, <2>5 DEF IInv
<1>5. ASSUME SendSucceeds PROVE IInv'
  <2>1. /\ sent' = sent \cup Ids(batch) /\ reached' \subseteq reached /\ failures' = 0
        /\ Loop(pending, unserializable, dropped)
        /\ UNCHANGED <<closed, abandoned, accepted, unserializable, calls>>
        /\ awake' = awake \o blocked /\ blocked' = <<>>
    BY <1>5 DEF SendSucceeds, ReleaseBackpressure
  <2>2. Places(<<>>, pending, sent', dropped, abandoned, accepted)
    BY <1>0, <2>1, EmptyIds DEF Places, Before
  <2>3. /\ Placed' /\ InFlight' /\ Settled'
        /\ flushers' \subseteq 0..accepted /\ flushed' \in 0..accepted
    BY <2>1, <2>2, LoopStep
  <2>4. Counters' /\ Closing'
    <3>1. awake' \in Seq(Calls) /\ blocked' \in Seq(Calls)
      BY <1>0, <2>1, ConcatProperties, EmptySeq DEF Counters
    <3> QED
      BY <1>0, <2>1, <2>3, <3>1 DEF Counters, Closing
  <2> QED
    BY <2>3, <2>4 DEF IInv
<1>6. ASSUME DropBatch PROVE IInv'
  <2>1. /\ sent' = sent /\ reached' \subseteq reached /\ failures' = 0
        /\ Loop(pending, unserializable, dropped \cup Ids(batch))
        /\ UNCHANGED <<closed, abandoned, accepted, unserializable, calls>>
        /\ awake' = awake \o blocked /\ blocked' = <<>>
    BY <1>6 DEF DropBatch, ReleaseBackpressure
  <2>2. Places(<<>>, pending, sent', dropped \cup Ids(batch), abandoned, accepted)
    BY <1>0, <2>1, EmptyIds DEF Places, Before
  <2>3. /\ Placed' /\ InFlight' /\ Settled'
        /\ flushers' \subseteq 0..accepted /\ flushed' \in 0..accepted
    BY <2>1, <2>2, LoopStep
  <2>4. Counters' /\ Closing'
    <3>1. awake' \in Seq(Calls) /\ blocked' \in Seq(Calls)
      BY <1>0, <2>1, ConcatProperties, EmptySeq DEF Counters
    <3> QED
      BY <1>0, <2>1, <2>3, <3>1 DEF Counters, Closing
  <2> QED
    BY <2>3, <2>4 DEF IInv
<1>7. ASSUME NEW arrived \in BOOLEAN, Retry(arrived) PROVE IInv'
  <2>1. Counters'
    <3>1. reached' \subseteq 1..accepted
      BY <1>0, <1>7 DEF Retry, Counters, Places
    <3>2. failures' \in Nat
      BY <1>0, <1>7 DEF Retry, Counters
    <3> QED
      BY <1>0, <1>7, <3>1, <3>2 DEF Retry, Counters
  <2>2. Placed'
    <3>1. /\ batch \o pending \in Seq(Nat) /\ InOrder(batch \o pending)
          /\ Ids(batch \o pending) = Ids(batch) \cup Ids(pending)
      BY <1>0, ConcatIds, ConcatInOrder DEF Places
    <3>2. Places(<<>>, batch \o pending, sent, dropped, abandoned, accepted)
      BY <1>0, <3>1, EmptyIds DEF Places, Before
    <3> QED
      BY <1>7, <3>2 DEF Retry, Requeued, Placed
  <2>3. InFlight' /\ Closing' /\ Settled'
    <3>1. Ids(batch)' = {} /\ Len(batch') = 0
      BY <1>7, EmptyIds DEF Retry, Ids
    <3> QED
      BY <1>0, <1>7, <3>1, SizesAssumption DEF Retry, InFlight, Closing, Settled, Before
  <2> QED
    BY <2>1, <2>2, <2>3 DEF IInv
<1>8. ASSUME Wake PROVE IInv'
  <2>1. /\ Loop(pending, unserializable, dropped)
        /\ UNCHANGED <<waitVars, closeVars, acceptVars, sendVars, calls>>
    BY <1>8 DEF Wake
  <2>2. Places(<<>>, pending, sent', dropped, abandoned, accepted)
    <3>1. batch = <<>>
      BY <1>0, <1>8 DEF Wake, InFlight
    <3> QED
      BY <1>0, <2>1, <3>1
  <2>3. /\ Placed' /\ InFlight' /\ Settled'
        /\ flushers' \subseteq 0..accepted /\ flushed' \in 0..accepted
    BY <2>1, <2>2, LoopStep
  <2>4. Counters' /\ Closing'
    BY <1>0, <2>1, <2>3 DEF Counters, Closing
  <2> QED
    BY <2>3, <2>4 DEF IInv
<1>9. CASE UNCHANGED vars
  <2>1. UNCHANGED <<pending, batch, drain, dropped, failures, closed, blocked, awake,
                    calls, accepted, unserializable, sent, reached, abandoned, flushers,
                    flushed>>
    BY <1>9 DEF vars
  <2>2. Counters' /\ Closing' /\ Settled'
    BY <1>0, <2>1 DEF Counters, Closing, Settled
  <2>3. Placed' /\ InFlight'
    BY <1>0, <2>1 DEF Placed, InFlight, Ids
  <2> QED
    BY <2>2, <2>3 DEF IInv
<1> QED
  BY <1>1, <1>2, <1>3, <1>4, <1>5, <1>6, <1>7, <1>8, <1>9 DEF Next

LEMMA Invariance == Spec => []IInv
<1>1. Init => IInv
  BY InitIInv
<1>2. IInv /\ [Next]_vars => IInv'
  BY NextIInv
<1> QED
  BY <1>1, <1>2, PTL DEF Spec

LEMMA SeqOfIds ==
  ASSUME NEW queue \in Seq(Nat), NEW S, Ids(queue) \subseteq S
  PROVE  queue \in Seq(S)
<1>1. Len(queue) \in Nat /\ queue \in [1..Len(queue) -> Nat]
  BY LenProperties
<1>2. \A i \in 1..Len(queue) : queue[i] \in S
  BY DEF Ids
<1>3. queue \in [1..Len(queue) -> S]
  BY <1>1, <1>2
<1> QED
  BY <1>1, <1>3

\* The types, and what is sent: never an empty batch, one over the limit, or one
\* with an event that would poison the queue.
THEOREM TypeCorrect == Spec => []TypeOK
<1>1. IInv => TypeOK
  <2> SUFFICES ASSUME IInv PROVE TypeOK
    OBVIOUS
  <2>1. pending \in Seq(1..accepted) /\ batch \in Seq(1..accepted)
    BY SeqOfIds DEF IInv, Placed, Places
  <2>2. /\ sent \subseteq 1..accepted /\ dropped \subseteq 1..accepted
        /\ abandoned \subseteq 1..accepted
    BY DEF IInv, Placed, Places
  <2> QED
    BY <2>1, <2>2 DEF IInv, Counters, InFlight, TypeOK
<1> QED
  BY <1>1, Invariance, PTL

\* Every event is in exactly one place and the queue keeps the order, whatever
\* fails, is retried, dropped or closed: drain() neither loses nor repeats one.
THEOREM EventsAccounted == Spec => []Accounted
<1>1. IInv => Accounted
  <2> SUFFICES ASSUME IInv PROVE Accounted
    OBVIOUS
  <2>1. Places(batch, pending, sent, dropped, abandoned, accepted)
    BY DEF IInv, Placed
  <2>2. InOrder(batch \o pending) /\ Ids(batch \o pending) = Ids(batch) \cup Ids(pending)
    BY <2>1, ConcatIds, ConcatInOrder DEF Places
  <2> QED
    BY <2>1, <2>2 DEF Places, Accounted, IInv, InFlight
<1> QED
  BY <1>1, Invariance, PTL

-----------------------------------------------------------------------------
(* What the callers get.                                                   *)

\* What the steps of drain() after a send or a sleep have in common.
LEMMA DrainStep ==
  ASSUME IInv, SendSucceeds \/ DropBatch \/ Wake
  PROVE  /\ UNCHANGED <<closed, abandoned, accepted, unserializable>>
         /\ Len(batch') + Len(pending') <= Len(pending)
         /\ flushed' = flushed \/ (batch' = <<>> /\ pending' = <<>>)
         /\ sent \subseteq sent' /\ dropped \subseteq dropped'
         /\ Ids(batch) \subseteq sent' \cup dropped'
         /\ drain' = "idle" => closed \/ pending' = <<>>
<1> USE DEF queueVars, waitVars, closeVars, acceptVars, sendVars
<1>1. /\ Places(batch, pending, sent, dropped, abandoned, accepted) /\ InFlight
  BY DEF IInv, Placed
<1>2. PICK g : /\ Loop(pending, unserializable, g) /\ dropped \subseteq g
               /\ Places(<<>>, pending, sent', g, abandoned, accepted)
               /\ sent \subseteq sent' /\ Ids(batch) \subseteq sent' \cup g
               /\ UNCHANGED <<closed, abandoned, accepted, unserializable>>
  <2>1. CASE SendSucceeds
    <3>1. /\ Loop(pending, unserializable, dropped) /\ sent' = sent \cup Ids(batch)
          /\ UNCHANGED <<closed, abandoned, accepted, unserializable>>
      BY <2>1 DEF SendSucceeds
    <3>2. Places(<<>>, pending, sent', dropped, abandoned, accepted)
      BY <1>1, <3>1, EmptyIds DEF Places, Before
    <3> QED
      BY <3>1, <3>2
  <2>2. CASE DropBatch
    <3>1. /\ Loop(pending, unserializable, dropped \cup Ids(batch)) /\ sent' = sent
          /\ UNCHANGED <<closed, abandoned, accepted, unserializable>>
      BY <2>2 DEF DropBatch
    <3>2. Places(<<>>, pending, sent', dropped \cup Ids(batch), abandoned, accepted)
      BY <1>1, <3>1, EmptyIds DEF Places, Before
    <3> QED
      BY <3>1, <3>2
  <2>3. CASE Wake
    <3>1. /\ Loop(pending, unserializable, dropped) /\ sent' = sent
          /\ UNCHANGED <<closed, abandoned, accepted, unserializable>>
          /\ batch = <<>>
      BY <1>1, <2>3 DEF Wake, InFlight
    <3> QED
      BY <1>1, <3>1, EmptyIds
  <2> QED
    BY <2>1, <2>2, <2>3
<1>3. /\ Placed' /\ InFlight' /\ Settled'
      /\ flushed' = flushed \/ (batch' = <<>> /\ pending' = <<>>)
      /\ Len(batch') + Len(pending') <= Len(pending)
      /\ g \subseteq dropped'
  BY <1>2, LoopStep
<1> QED
  BY <1>2, <1>3 DEF Settled

\* The queue never exceeds its bound by more than a batch.
THEOREM QueueBound == Spec => []QueueBounded
<1> USE DEF queueVars, waitVars, closeVars, acceptVars, sendVars
<1>1. Init => QueueBounded
  BY SizesAssumption DEF Init, QueueBounded
<1>2. IInv /\ QueueBounded /\ [Next]_vars => QueueBounded'
  <2> SUFFICES ASSUME IInv, QueueBounded, [Next]_vars PROVE QueueBounded'
    OBVIOUS
  <2>0. /\ batch \in Seq(Nat) /\ pending \in Seq(Nat)
        /\ Len(batch) \in Nat /\ Len(pending) \in Nat
    BY DEF IInv, Placed, Places
  <2>1. CASE UNCHANGED <<batch, pending>>
    BY <2>1 DEF QueueBounded
  <2>2. ASSUME NEW events \in Arrays, Enqueue(events) PROVE QueueBounded'
    <3>1. CASE ~ closed /\ Fits(events) /\ Push(events)
      <4>1. UNCHANGED <<closed, abandoned, sent>>
        BY <2>2 DEF Enqueue
      <4> QED
        BY <3>1, <4>1, PushKeeps
    <3> QED
      BY <2>1, <2>2, <3>1 DEF Enqueue
  <2>3. CASE GoOn
    <3>1. Head(awake) \in Calls /\ UNCHANGED <<closed, abandoned, sent>>
      BY <2>3, HeadTailProperties DEF GoOn, IInv, Counters
    <3>2. Head(awake).events \in Arrays
      BY <3>1 DEF Calls
    <3>3. CASE ~ closed /\ Fits(Head(awake).events) /\ Push(Head(awake).events)
      BY <3>1, <3>2, <3>3, PushKeeps
    <3> QED
      BY <2>1, <2>3, <3>3 DEF GoOn
  <2>4. CASE Close
    <3>1. batch' = batch /\ pending' = <<>>
      BY <2>4 DEF Close
    <3> QED
      BY <2>0, <3>1, SizesAssumption DEF QueueBounded
  <2>5. CASE SendSucceeds \/ DropBatch \/ Wake
    <3>1. Len(batch') + Len(pending') <= Len(pending)
      BY <2>5, DrainStep
    <3>2. IInv'
      BY NextIInv
    <3>3. Len(batch') \in Nat /\ Len(pending') \in Nat
      BY <3>2 DEF IInv, Placed, Places
    <3> QED
      BY <2>0, <3>1, <3>3, SizesAssumption DEF QueueBounded
  <2>6. ASSUME NEW arrived \in BOOLEAN, Retry(arrived) PROVE QueueBounded'
    <3>1. batch' = <<>> /\ pending' = batch \o pending
      BY <2>6 DEF Retry, Requeued
    <3> QED
      BY <2>0, <3>1, SizesAssumption DEF QueueBounded
  <2>7. CASE Flush
    BY <2>1, <2>7 DEF Flush
  <2>8. CASE UNCHANGED vars
    BY <2>1, <2>8 DEF vars
  <2> QED
    BY <2>2, <2>3, <2>4, <2>5, <2>6, <2>7, <2>8 DEF Next
<1> QED
  BY <1>1, <1>2, Invariance, PTL DEF Spec

\* A call of flush() that returned, not by close(), saw the end of everything
\* accepted before it.
THEOREM FlushSound == Spec => []FlushMeansSent
<1> USE DEF queueVars, waitVars, closeVars, acceptVars, sendVars
<1> DEFINE Over == sent \cup dropped \cup abandoned
<1>1. Init => FlushMeansSent
  BY DEF Init, FlushMeansSent
<1>2. IInv /\ FlushMeansSent /\ [Next]_vars => FlushMeansSent'
  <2> SUFFICES ASSUME IInv, FlushMeansSent, [Next]_vars PROVE FlushMeansSent'
    OBVIOUS
  <2>0. IInv' /\ Counters /\ Counters'
    BY NextIInv DEF IInv
  <2>1. ASSUME flushed' = flushed, Over \subseteq Over' PROVE FlushMeansSent'
    BY <2>1 DEF FlushMeansSent
  <2>2. ASSUME batch' = <<>>, pending' = <<>> PROVE FlushMeansSent'
    <3>1. Places(<<>>, <<>>, sent', dropped', abandoned', accepted')
      BY <2>0, <2>2 DEF IInv, Placed
    <3>2. Over' = 1..accepted' /\ flushed' \in 0..accepted' /\ accepted' \in Nat
      BY <2>0, <3>1, EmptyIds DEF Places, Counters
    <3> QED
      BY <3>2 DEF FlushMeansSent
  <2>3. ASSUME NEW events \in Arrays, Enqueue(events) PROVE FlushMeansSent'
    <3>1. UNCHANGED <<closed, abandoned, sent>>
      BY <2>3 DEF Enqueue
    <3>2. CASE ~ closed /\ Fits(events) /\ Push(events)
      <4>1. dropped \subseteq dropped'
            /\ (flushed' = flushed \/ (batch' = <<>> /\ pending' = <<>>))
        BY <3>1, <3>2, PushKeeps
      <4> QED
        BY <2>1, <2>2, <3>1, <4>1
    <3> QED
      BY <2>1, <2>3, <3>1, <3>2 DEF Enqueue
  <2>4. CASE GoOn
    <3>1. Head(awake) \in Calls /\ UNCHANGED <<closed, abandoned, sent>>
      BY <2>0, <2>4, HeadTailProperties DEF GoOn, Counters
    <3>2. Head(awake).events \in Arrays
      BY <3>1 DEF Calls
    <3>3. CASE ~ closed /\ Fits(Head(awake).events) /\ Push(Head(awake).events)
      <4>1. dropped \subseteq dropped'
            /\ (flushed' = flushed \/ (batch' = <<>> /\ pending' = <<>>))
        BY <3>1, <3>2, <3>3, PushKeeps
      <4> QED
        BY <2>1, <2>2, <3>1, <4>1
    <3> QED
      BY <2>1, <2>4, <3>1, <3>3 DEF GoOn
  <2>5. CASE Flush
    <3>1. CASE NothingToFlush
      <4>1. batch' = <<>> /\ pending' = <<>>
        BY <2>5, <3>1 DEF Flush, NothingToFlush, IInv, InFlight
      <4> QED
        BY <2>2, <4>1
    <3> QED
      BY <2>1, <2>5, <3>1 DEF Flush
  <2>6. CASE Close
    BY <2>1, <2>6 DEF Close
  <2>7. CASE SendSucceeds \/ DropBatch \/ Wake
    <3>1. /\ UNCHANGED abandoned /\ sent \subseteq sent' /\ dropped \subseteq dropped'
          /\ flushed' = flushed \/ (batch' = <<>> /\ pending' = <<>>)
      BY <2>7, DrainStep
    <3> QED
      BY <2>1, <2>2, <3>1
  <2>8. ASSUME NEW arrived \in BOOLEAN, Retry(arrived) PROVE FlushMeansSent'
    BY <2>1, <2>8 DEF Retry
  <2>9. CASE UNCHANGED vars
    BY <2>1, <2>9 DEF vars
  <2> QED
    BY <2>3, <2>4, <2>5, <2>6, <2>7, <2>8, <2>9 DEF Next
<1> QED
  BY <1>1, <1>2, Invariance, PTL DEF Spec

\* The server gets the events in order, also when a request fails after it
\* arrived and is sent again.
THEOREM ServerPrefix == Spec => []ServerSeesPrefix
<1> USE DEF queueVars, waitVars, closeVars, acceptVars, sendVars
<1> DEFINE Seen == reached \cup sent
<1>1. Init => ServerSeesPrefix
  BY DEF Init, ServerSeesPrefix
<1>2. IInv /\ ServerSeesPrefix /\ [Next]_vars => ServerSeesPrefix'
  <2> SUFFICES ASSUME IInv, ServerSeesPrefix, [Next]_vars PROVE ServerSeesPrefix'
    OBVIOUS
  <2>1. ASSUME NEW n \in Ids(batch), NEW m \in 1..n PROVE m \in Ids(batch) \cup sent \cup dropped
    <3>1. /\ Places(batch, pending, sent, dropped, abandoned, accepted)
          /\ Before(Ids(batch), abandoned) /\ accepted \in Nat
      BY DEF IInv, Placed, InFlight, Counters
    <3>2. n \in 1..accepted /\ m \in 1..accepted /\ ~ (n < m)
      BY <3>1 DEF Places
    <3>3. m \notin Ids(pending) /\ m \notin abandoned
      BY <3>1, <3>2 DEF Places, Before
    <3> QED
      BY <3>1, <3>2, <3>3 DEF Places
  <2>2. ASSUME Seen' = Seen, dropped \subseteq dropped' PROVE ServerSeesPrefix'
    BY <2>2 DEF ServerSeesPrefix
  <2>3. ASSUME Seen' = Seen \cup Ids(batch), dropped \subseteq dropped'
        PROVE  ServerSeesPrefix'
    BY <2>1, <2>3 DEF ServerSeesPrefix
  <2>4. ASSUME NEW events \in Arrays, Enqueue(events) PROVE ServerSeesPrefix'
    <3>1. UNCHANGED <<closed, abandoned, sent, reached>>
      BY <2>4 DEF Enqueue
    <3>2. CASE ~ closed /\ Fits(events) /\ Push(events)
      BY <2>2, <3>1, <3>2, PushKeeps
    <3> QED
      BY <2>2, <2>4, <3>1, <3>2 DEF Enqueue
  <2>5. CASE GoOn
    <3>1. Head(awake) \in Calls /\ UNCHANGED <<closed, abandoned, sent, reached>>
      BY <2>5, HeadTailProperties DEF GoOn, IInv, Counters
    <3>2. Head(awake).events \in Arrays
      BY <3>1 DEF Calls
    <3>3. CASE ~ closed /\ Fits(Head(awake).events) /\ Push(Head(awake).events)
      BY <2>2, <3>1, <3>2, <3>3, PushKeeps
    <3> QED
      BY <2>2, <2>5, <3>1, <3>3 DEF GoOn
  <2>6. CASE Flush \/ Close
    BY <2>2, <2>6 DEF Flush, Close
  <2>7. CASE SendSucceeds
    <3>1. dropped \subseteq dropped'
      BY <2>7, DrainStep
    <3>2. Seen' = Seen \cup Ids(batch)
      BY <2>7 DEF SendSucceeds
    <3> QED
      BY <2>3, <3>1, <3>2
  <2>8. CASE DropBatch
    <3>1. dropped \subseteq dropped' /\ Ids(batch) \subseteq sent' \cup dropped'
      BY <2>8, DrainStep
    <3>2. reached' = reached \ Ids(batch) /\ sent' = sent
      BY <2>8 DEF DropBatch
    <3> QED
      BY <3>1, <3>2 DEF ServerSeesPrefix
  <2>9. CASE Wake
    <3>1. dropped \subseteq dropped'
      BY <2>9, DrainStep
    <3> QED
      BY <2>2, <2>9, <3>1 DEF Wake
  <2>10. ASSUME NEW arrived \in BOOLEAN, Retry(arrived) PROVE ServerSeesPrefix'
    <3>1. UNCHANGED <<sent, dropped>>
      BY <2>10 DEF Retry
    <3>2. CASE arrived
      BY <2>3, <2>10, <3>1, <3>2 DEF Retry
    <3>3. CASE ~ arrived
      BY <2>2, <2>10, <3>1, <3>3 DEF Retry
    <3> QED
      BY <3>2, <3>3
  <2>11. CASE UNCHANGED vars
    BY <2>2, <2>11 DEF vars
  <2> QED
    BY <2>4, <2>5, <2>6, <2>7, <2>8, <2>9, <2>10, <2>11 DEF Next
<1> QED
  BY <1>1, <1>2, Invariance, PTL DEF Spec

\* While drain() sleeps, what it will send is there.
Asleep ==
  drain = "sleeping" =>
    closed \/ (pending # <<>> /\ (BytesLimited => pending[1] \notin unserializable))

LEMMA LoopSends ==
  ASSUME NEW q \in Seq(Nat), InOrder(q), NEW bad, NEW g, ~ closed, q # <<>>,
         BytesLimited => q[1] \notin bad, Loop(q, bad, g)
  PROVE  drain' = "sending"
<1>1. PICK p \in 1..Len(q) :
             /\ Stops(q, bad, p)
             /\ \E f \in Enumerations(CountedIn(q, bad, p)) :
                  Send(Taken(q, f), Rest(q, p), g \cup Removed(q, bad, p))
  BY DEF Loop
<1>2. PICK f \in Enumerations(CountedIn(q, bad, p)) :
             Send(Taken(q, f), Rest(q, p), g \cup Removed(q, bad, p))
  BY <1>1
<1>3. /\ Taken(q, f) = <<>> => Rest(q, p) = <<>>
      /\ Ids(Taken(q, f)) \cup Ids(Rest(q, p)) \cup Removed(q, bad, p) = Ids(q)
  BY <1>1, TakeBatch
<1>4. q[1] \in Ids(q)
  BY DEF Ids
<1>5. q[1] \notin Removed(q, bad, p)
  BY DEF Removed, CountedIn
<1>6. Taken(q, f) # <<>>
  BY <1>3, <1>4, <1>5, EmptyIds
<1> QED
  BY <1>2, <1>6 DEF Send

\* A call of enqueue() that blocks is released by a drain() that runs, unless its
\* events never fit.
LEMMA ProducersNeverStuck == Spec => []ProducersNotStuck
<1> USE DEF queueVars, waitVars, closeVars, acceptVars, sendVars
<1> DEFINE Waiting == Asleep /\ ProducersNotStuck
<1>1. Init => Waiting
  BY DEF Init, Asleep, ProducersNotStuck
<1>2. IInv /\ Waiting /\ [Next]_vars => Waiting'
  <2> SUFFICES ASSUME IInv, Waiting, [Next]_vars PROVE Asleep' /\ ProducersNotStuck'
    OBVIOUS
  <2>0. /\ Places(batch, pending, sent, dropped, abandoned, accepted)
        /\ Counters /\ InFlight /\ Closing /\ Settled
        /\ accepted \in Nat /\ Len(pending) \in Nat
    BY DEF IInv, Placed, Places, Counters
  <2>1. ASSUME UNCHANGED <<drain, pending, unserializable, closed>> PROVE Asleep'
    BY <2>1 DEF Asleep
  <2>2. ASSUME UNCHANGED blocked, drain' = "idle" => drain = "idle"
        PROVE  ProducersNotStuck'
    BY <2>2 DEF ProducersNotStuck
  <2>3. ASSUME blocked' = <<>> PROVE ProducersNotStuck'
    BY <2>3 DEF ProducersNotStuck
  <2>4. ASSUME NEW call \in Calls, ~ closed, ~ Fits(call.events),
               blocked' = Append(blocked, call), UNCHANGED drain
        PROVE  ProducersNotStuck'
    <3> SUFFICES ASSUME drain = "idle", NEW i \in DOMAIN blocked'
                 PROVE  Len(blocked'[i].events) > MaxQueueSize
      BY <2>4 DEF ProducersNotStuck
    <3>1. pending = <<>>
      BY <2>0, <2>4 DEF Settled
    <3>2. Len(call.events) \in Nat
      <4>1. call.events \in Seq(BOOLEAN)
        BY ArraysAssumption DEF Calls
      <4> QED
        BY <4>1
    <3>3. Len(call.events) > MaxQueueSize
      BY <2>4, <3>1, <3>2, SizesAssumption DEF Fits
    <3>4. blocked \in Seq(Calls)
      BY <2>0 DEF Counters
    <3>5. \/ i \in DOMAIN blocked /\ blocked'[i] = blocked[i]
          \/ blocked'[i] = call
      BY <2>4, <3>4, AppendProperties
    <3> QED
      BY <3>3, <3>5 DEF ProducersNotStuck
  <2>5. ASSUME NEW events \in Arrays, ~ closed, Push(events), UNCHANGED closed
        PROVE  Asleep' /\ (drain' = "idle" => drain = "idle")
    <3> DEFINE new == [i \in 1..Len(events) |-> accepted + i]
               bad == unserializable \cup
                        {accepted + i : i \in {j \in 1..Len(events) : ~ events[j]}}
    <3>1. Drain(pending \o new, bad) /\ unserializable' = bad
      BY <2>5 DEF Push
    <3>2. new \in Seq(Nat)
      BY <2>0, PushedEvents
    <3>3. CASE drain = "sleeping"
      <4>1. pending' = pending \o new /\ drain' = drain
        BY <3>1, <3>3 DEF Drain
      <4>2. pending # <<>> /\ (BytesLimited => pending[1] \notin unserializable)
        BY <2>5, <3>3 DEF Asleep
      <4>3. 1 \in 1..Len(pending) /\ pending \in Seq(Nat)
        BY <2>0, <4>2 DEF Places
      <4>4. pending'[1] = pending[1] /\ pending' # <<>>
        <5> HIDE DEF new
        <5> QED
          BY <3>2, <4>1, <4>3
      <4>5. pending[1] \in Ids(pending)
        BY <4>3 DEF Ids
      <4>6. pending[1] \in 1..accepted
        BY <2>0, <4>5 DEF Places
      <4>7. \A i \in {j \in 1..Len(events) : ~ events[j]} : pending[1] # accepted + i
        BY <2>0, <4>6
      <4> QED
        BY <3>1, <3>3, <4>1, <4>2, <4>4, <4>7 DEF Asleep
    <3>4. CASE drain # "sleeping"
      <4>1. drain' # "sleeping"
        BY <3>1, <3>4 DEF Drain, Loop, Send, Ends
      <4>2. drain' = "idle" => drain = "idle"
        BY <3>1 DEF Drain
      <4> QED
        BY <4>1, <4>2 DEF Asleep
    <3> QED
      BY <3>3, <3>4
  <2>6. ASSUME NEW events \in Arrays, Enqueue(events)
        PROVE  Asleep' /\ ProducersNotStuck'
    <3> DEFINE call == [id |-> calls', events |-> events]
    <3>1. call \in Calls /\ call.events = events
      <4>1. calls' \in 1..MaxCalls
        BY <2>0, <2>6, SizesAssumption DEF Enqueue, Counters
      <4> QED
        BY <4>1 DEF Calls
    <3>2. CASE /\ ~ closed /\ ~ Fits(events) /\ blocked' = Append(blocked, call)
               /\ UNCHANGED <<queueVars, acceptVars, failures, awake>>
      <4>1. ProducersNotStuck'
        <5> HIDE DEF call
        <5> QED
          BY <2>4, <3>1, <3>2
      <4> QED
        BY <2>1, <2>6, <3>2, <4>1 DEF Enqueue
    <3>3. CASE ~ closed /\ Push(events) /\ UNCHANGED waitVars
      BY <2>2, <2>5, <2>6, <3>3 DEF Enqueue
    <3> QED
      BY <2>6, <3>2, <3>3 DEF Enqueue
  <2>7. CASE GoOn
    <3>1. Head(awake) \in Calls /\ UNCHANGED closed
      BY <2>0, <2>7, HeadTailProperties DEF GoOn, Counters
    <3>2. Head(awake).events \in Arrays
      BY <3>1 DEF Calls
    <3>3. CASE closed /\ UNCHANGED <<queueVars, acceptVars, failures, blocked>>
      BY <2>1, <2>2, <3>1, <3>3
    <3>4. CASE /\ ~ closed /\ ~ Fits(Head(awake).events)
               /\ blocked' = Append(blocked, Head(awake))
               /\ UNCHANGED <<queueVars, acceptVars, failures>>
      BY <2>1, <2>4, <3>1, <3>4
    <3>5. CASE ~ closed /\ Push(Head(awake).events) /\ UNCHANGED blocked
      BY <2>2, <2>5, <3>1, <3>2, <3>5
    <3> QED
      BY <2>7, <3>3, <3>4, <3>5 DEF GoOn
  <2>8. CASE Flush
    BY <2>1, <2>2, <2>8 DEF Flush
  <2>9. CASE Close
    BY <2>3, <2>9 DEF Close, Asleep
  <2>10. CASE SendSucceeds \/ DropBatch
    <3>1. blocked' = <<>>
      BY <2>10 DEF SendSucceeds, DropBatch, ReleaseBackpressure
    <3>2. drain' # "sleeping"
      BY <2>10 DEF SendSucceeds, DropBatch, Loop, Send, Ends
    <3> QED
      BY <2>3, <3>1, <3>2 DEF Asleep
  <2>11. ASSUME NEW arrived \in BOOLEAN, Retry(arrived)
         PROVE  Asleep' /\ ProducersNotStuck'
    <3>1. /\ pending' = batch \o pending /\ drain' = "sleeping" /\ batch # <<>>
          /\ UNCHANGED <<unserializable, blocked>>
      BY <2>0, <2>11 DEF Retry, Requeued, InFlight
    <3>2. batch \in Seq(Nat) /\ pending \in Seq(Nat) /\ 1 \in 1..Len(batch)
      BY <2>0, <3>1 DEF Places
    <3>3. pending'[1] = batch[1] /\ pending' # <<>>
      BY <3>1, <3>2
    <3>4. batch[1] \in Ids(batch)
      BY <3>2 DEF Ids
    <3>5. BytesLimited => batch[1] \notin unserializable
      BY <2>0, <3>4 DEF InFlight
    <3> QED
      BY <2>2, <3>1, <3>3, <3>5 DEF Asleep
  <2>12. CASE Wake
    <3>1. /\ drain = "sleeping" /\ Loop(pending, unserializable, dropped)
          /\ UNCHANGED blocked
      BY <2>12 DEF Wake
    <3>2. drain' # "sleeping"
      BY <3>1 DEF Loop, Send, Ends
    <3>3. CASE closed
      BY <2>0, <2>3, <3>1, <3>2, <3>3 DEF Closing, Asleep
    <3>4. CASE ~ closed
      <4>1. pending # <<>> /\ (BytesLimited => pending[1] \notin unserializable)
        BY <3>1, <3>4 DEF Asleep
      <4>2. drain' = "sending"
        BY <2>0, <3>1, <3>4, <4>1, LoopSends DEF Places
      <4> QED
        BY <2>2, <3>1, <3>2, <4>2 DEF Asleep
    <3> QED
      BY <3>3, <3>4
  <2>13. CASE UNCHANGED vars
    BY <2>1, <2>2, <2>13 DEF vars
  <2> QED
    BY <2>6, <2>7, <2>8, <2>9, <2>10, <2>11, <2>12, <2>13 DEF Next
<1> QED
  BY <1>1, <1>2, Invariance, PTL DEF Spec

\* A push neither ends a drain() nor releases a caller of flush(), unless it begins
\* a drain() that ends at once.
LEMMA PushFlushers ==
  ASSUME FlushersNotStuck, NEW events, Push(events), UNCHANGED closed
  PROVE  FlushersNotStuck'
BY DEF Push, Drain, Loop, Send, Ends, NotifyFlushers, FlushersNotStuck

\* No caller of the uploader waits for a drain() that does not run: enqueue()
\* unless its events never fit, flush() unless the uploader was closed.
THEOREM CallersNeverStuck == Spec => []CallersNotStuck
<1> USE DEF queueVars, waitVars, closeVars, acceptVars, sendVars
<1>1. Init => FlushersNotStuck
  BY DEF Init, FlushersNotStuck
<1>2. IInv /\ FlushersNotStuck /\ [Next]_vars => FlushersNotStuck'
  <2> SUFFICES ASSUME IInv, FlushersNotStuck, [Next]_vars PROVE FlushersNotStuck'
    OBVIOUS
  <2>1. ASSUME UNCHANGED <<flushers, closed, drain>> PROVE FlushersNotStuck'
    BY <2>1 DEF FlushersNotStuck
  <2>2. CASE \E events \in Arrays : Enqueue(events)
    BY <2>1, <2>2, PushFlushers DEF Enqueue
  <2>3. CASE GoOn
    BY <2>1, <2>3, PushFlushers DEF GoOn
  <2>4. CASE Flush
    BY <2>4 DEF Flush, NothingToFlush, FlushersNotStuck, IInv, Settled
  <2>5. CASE Close
    BY <2>5 DEF Close, FlushersNotStuck
  <2>6. CASE SendSucceeds \/ DropBatch \/ Wake
    <3>1. drain' = "idle" => closed \/ pending' = <<>>
      BY <2>6, DrainStep
    <3>2. PICK gone : Loop(pending, unserializable, gone)
      BY <2>6 DEF SendSucceeds, DropBatch, Wake
    <3>3. drain' = "idle" /\ pending' = <<>> => flushers' = {}
      BY <3>2 DEF Loop, Send, Ends, NotifyFlushers
    <3>4. closed' = closed
      BY <2>6 DEF SendSucceeds, DropBatch, Wake
    <3> QED
      BY <3>1, <3>3, <3>4 DEF FlushersNotStuck
  <2>7. CASE \E arrived \in BOOLEAN : Retry(arrived)
    BY <2>7 DEF Retry, FlushersNotStuck
  <2>8. CASE UNCHANGED vars
    BY <2>1, <2>8 DEF vars
  <2> QED
    BY <2>2, <2>3, <2>4, <2>5, <2>6, <2>7, <2>8 DEF Next
<1> QED
  BY <1>1, <1>2, Invariance, ProducersNeverStuck, PTL DEF Spec, CallersNotStuck
=============================================================================
