----------------------- MODULE CommandQueueOpsProofs ------------------------
(***************************************************************************)
(* What the operations of the command queue return, for queues of any      *)
(* length: lemmas for the proofs about CommandQueue and TurnLifecycle.     *)
(***************************************************************************)
EXTENDS CommandQueueOps, SequenceTheorems, WellFoundedInduction, TLAPS

-----------------------------------------------------------------------------
(* Induction over the naturals, on a set instead of a predicate.           *)

\* A non-empty set of naturals has a least element.
LEMMA LeastNatural ==
  ASSUME NEW S \in SUBSET Nat, S # {}
  PROVE  \E n \in S : \A m \in S : n <= m
<1> DEFINE R == OpToRel(<, Nat)
<1>1. \A x, y \in Nat : <<y, x>> \in R <=> y < x
  BY DEF OpToRel
<1>2. IsWellFoundedOn(R, Nat)
  BY NatLessThanWellFounded
<1> HIDE DEF R
<1>3. PICK n \in S : \A m \in S : ~ (<<m, n>> \in R)
  BY <1>2, WFMin, Zenon
<1>4. \A m \in S : n \in Nat /\ m \in Nat /\ ~ (m < n)
  BY <1>1, <1>3
<1> QED
  BY <1>4

\* A set that holds 0, and with a number below the bound its successor, holds
\* all numbers up to the bound.
LEMMA UpToBound ==
  ASSUME NEW N \in Nat, NEW S,
         0 \in S,
         \A n \in 0..N : n \in S /\ n < N => n + 1 \in S
  PROVE  0..N \subseteq S
<1> DEFINE Missing == {n \in 0..N : n \notin S}
<1> SUFFICES ASSUME Missing # {}
             PROVE  FALSE
  OBVIOUS
<1>1. Missing \in SUBSET Nat
  OBVIOUS
<1> HIDE DEF Missing
<1>2. PICK n \in Missing : \A m \in Missing : n <= m
  BY <1>1, LeastNatural
<1>3. n \in 0..N /\ n # 0 /\ n \notin S
  BY <1>2 DEF Missing
<1>4. n - 1 \in 0..N /\ n - 1 < N /\ n - 1 < n /\ (n - 1) + 1 = n
  BY <1>3
<1>5. n - 1 \notin Missing
  BY <1>2, <1>4
<1>6. n - 1 \in S
  BY <1>4, <1>5 DEF Missing
<1> QED
  BY <1>3, <1>4, <1>6

-----------------------------------------------------------------------------
(* One pass over the queue.                                                *)

\* The array after the pass looked at the command at position i.
Pushed(queue, kept, before, i) ==
  IF queue[i] \in kept THEN Append(before, queue[i]) ELSE before

\* f is the pass over the first n commands.
IsPass(f, queue, kept, n) ==
  f = [i \in 0..n |-> IF i = 0 THEN <<>> ELSE Pushed(queue, kept, f[i - 1], i)]

\* There is such a function for every length, which a recursive definition
\* leaves to be shown.
LEMMA PassExists ==
  ASSUME NEW X, NEW queue \in Seq(X), NEW kept
  PROVE  \E f : IsPass(f, queue, kept, Len(queue))
<1> DEFINE N == Len(queue)
           S == {n \in 0..N : \E f : IsPass(f, queue, kept, n)}
<1>0. N \in Nat
  OBVIOUS
<1> HIDE DEF N
<1>1. 0 \in S
  <2> DEFINE f == [i \in 0..0 |-> <<>>]
  <2>1. \A i \in 0..0 : i = 0
    OBVIOUS
  <2>2. f = [i \in 0..0 |-> IF i = 0 THEN <<>>
                                     ELSE Pushed(queue, kept, f[i - 1], i)]
    BY <2>1
  <2>3. IsPass(f, queue, kept, 0)
    BY <2>2 DEF IsPass
  <2> HIDE DEF f
  <2> QED
    BY <1>0, <2>3
<1>2. ASSUME NEW n \in 0..N, n \in S, n < N
      PROVE  n + 1 \in S
  <2>1. PICK f : IsPass(f, queue, kept, n)
    BY <1>2
  <2> DEFINE g == [i \in 0..(n + 1) |->
                     IF i = n + 1 THEN Pushed(queue, kept, f[n], n + 1) ELSE f[i]]
  <2>2. ASSUME NEW i \in 0..(n + 1)
        PROVE  g[i] = IF i = 0 THEN <<>> ELSE Pushed(queue, kept, g[i - 1], i)
    <3>1. CASE i = 0
      <4>1. g[i] = f[i] /\ i \in 0..n
        BY <3>1
      <4>2. f[i] = <<>>
        BY <2>1, <3>1, <4>1 DEF IsPass
      <4> QED
        BY <3>1, <4>1, <4>2
    <3>2. CASE i # 0 /\ i # n + 1
      <4>1. i \in 0..n /\ i - 1 \in 0..(n + 1) /\ i - 1 # n + 1
        BY <3>2
      <4>2. g[i] = f[i] /\ g[i - 1] = f[i - 1]
        BY <3>2, <4>1
      <4>3. f[i] = Pushed(queue, kept, f[i - 1], i)
        BY <2>1, <3>2, <4>1 DEF IsPass
      <4> QED
        BY <3>2, <4>2, <4>3
    <3>3. CASE i = n + 1
      <4>1. i # 0 /\ i - 1 = n /\ n \in 0..(n + 1) /\ n # n + 1
        BY <3>3
      <4>2. g[i] = Pushed(queue, kept, f[n], n + 1) /\ g[i - 1] = f[n]
        BY <3>3, <4>1
      <4> QED
        BY <3>3, <4>1, <4>2
    <3> QED
      BY <3>1, <3>2, <3>3
  <2>3. g = [i \in 0..(n + 1) |-> g[i]]
    OBVIOUS
  <2> HIDE DEF g
  <2>4. IsPass(g, queue, kept, n + 1)
    BY <2>2, <2>3 DEF IsPass
  <2>5. n + 1 \in 0..N
    BY <1>0, <1>2
  <2> QED
    BY <2>4, <2>5
<1> HIDE DEF S
<1>3. 0..N \subseteq S
  BY <1>0, <1>1, <1>2, UpToBound
<1>4. N \in S
  BY <1>0, <1>3
<1> QED
  BY <1>4 DEF S, N

\* Only() is the last value of such a function.
LEMMA OnlyIsPass ==
  ASSUME NEW X, NEW queue \in Seq(X), NEW kept
  PROVE  \E f : IsPass(f, queue, kept, Len(queue)) /\ Only(queue, kept) = f[Len(queue)]
<1> DEFINE Body(f) == [i \in 0..Len(queue) |->
                         IF i = 0 THEN <<>>
                         ELSE IF queue[i] \in kept THEN Append(f[i - 1], queue[i])
                         ELSE f[i - 1]]
           pass == CHOOSE f : f = Body(f)
<1>1. \A f : IsPass(f, queue, kept, Len(queue)) <=> f = Body(f)
  BY DEF IsPass, Pushed
<1>2. pass = Body(pass)
  <2>1. \E f : f = Body(f)
    BY <1>1, PassExists
  <2> HIDE DEF Body
  <2> QED
    BY <2>1
<1>3. Only(queue, kept) = pass[Len(queue)]
  BY DEF Only
<1> HIDE DEF pass, Body
<1> QED
  BY <1>1, <1>2, <1>3

\* r holds the commands of queue at the increasing positions at[1], at[2]...
Picks(at, r, queue) ==
  /\ at \in [1..Len(r) -> 1..Len(queue)]
  /\ \A m, n \in 1..Len(r) : m < n => at[m] < at[n]
  /\ \A n \in 1..Len(r) : r[n] = queue[at[n]]

\* Up to position i they are the positions of the commands that are kept.
PicksUpTo(at, r, queue, kept, i) ==
  /\ r \in Seq(Commands(queue))
  /\ Picks(at, r, queue)
  /\ \A n \in 1..Len(r) : at[n] <= i
  /\ \A k \in 1..i : queue[k] \in kept <=> \E n \in 1..Len(r) : at[n] = k

LEMMA PicksPushed ==
  ASSUME NEW X, NEW queue \in Seq(X), NEW kept, NEW r, NEW at,
         NEW i \in 0..Len(queue), i < Len(queue),
         PicksUpTo(at, r, queue, kept, i)
  PROVE  \E to : PicksUpTo(to, Pushed(queue, kept, r, i + 1), queue, kept, i + 1)
<1> DEFINE j == i + 1
<1>0. /\ Len(queue) \in Nat /\ i \in Nat /\ j \in 1..Len(queue) /\ j = i + 1
      /\ r \in Seq(Commands(queue)) /\ Len(r) \in Nat
      /\ queue[j] \in Commands(queue)
  <2>1. j \in 1..Len(queue) /\ DOMAIN queue = 1..Len(queue)
    OBVIOUS
  <2> QED
    BY <2>1 DEF Commands, PicksUpTo
<1> HIDE DEF j
<1>1. CASE queue[j] \notin kept
  <2>1. Pushed(queue, kept, r, j) = r
    BY <1>1 DEF Pushed
  <2>2. \A k \in 1..j : queue[k] \in kept <=> \E n \in 1..Len(r) : at[n] = k
    <3> TAKE k \in 1..j
    <3>1. CASE k = j
      <4>1. \A n \in 1..Len(r) : at[n] <= i
        BY DEF PicksUpTo
      <4> QED
        BY <1>0, <1>1, <3>1, <4>1
    <3>2. CASE k # j
      BY <1>0, <3>2 DEF PicksUpTo
    <3> QED
      BY <3>1, <3>2
  <2>3. \A n \in 1..Len(r) : at[n] <= j
    BY <1>0 DEF PicksUpTo, Picks
  <2>4. PicksUpTo(at, r, queue, kept, j)
    BY <2>2, <2>3 DEF PicksUpTo
  <2> QED
    BY <1>0, <2>1, <2>4
<1>2. CASE queue[j] \in kept
  <2> DEFINE q == Append(r, queue[j])
             last == Len(r) + 1
             to == [n \in 1..last |-> IF n = last THEN j ELSE at[n]]
  <2>1. /\ q \in Seq(Commands(queue)) /\ Len(q) = last /\ q[last] = queue[j]
        /\ \A n \in 1..Len(r) : q[n] = r[n]
    BY <1>0
  <2>2. /\ \A n \in 1..last : n # last => n \in 1..Len(r)
        /\ last \in 1..last /\ \A n \in 1..Len(r) : n \in 1..last /\ n # last
    BY <1>0
  <2>3. /\ to[last] = j
        /\ \A n \in 1..Len(r) : to[n] = at[n] /\ at[n] \in 1..Len(queue) /\ at[n] <= i
    BY <1>0, <2>2 DEF PicksUpTo, Picks
  <2>4. to \in [1..last -> 1..Len(queue)]
    BY <1>0, <2>2, <2>3
  <2> HIDE DEF to, q
  <2>5. \A m, n \in 1..last : m < n => to[m] < to[n]
    <3> SUFFICES ASSUME NEW m \in 1..last, NEW n \in 1..last, m < n
                 PROVE  to[m] < to[n]
      OBVIOUS
    <3>1. m \in 1..Len(r)
      BY <1>0
    <3>2. CASE n = last
      BY <1>0, <2>3, <3>1, <3>2
    <3>3. CASE n # last
      BY <1>0, <2>2, <2>3, <3>1, <3>3 DEF PicksUpTo, Picks
    <3> QED
      BY <3>2, <3>3
  <2>6. \A n \in 1..last : q[n] = queue[to[n]] /\ to[n] <= j
    <3> TAKE n \in 1..last
    <3>1. CASE n = last
      BY <1>0, <2>1, <2>3, <3>1
    <3>2. CASE n # last
      BY <1>0, <2>1, <2>2, <2>3, <3>2 DEF PicksUpTo, Picks
    <3> QED
      BY <3>1, <3>2
  <2>7. \A k \in 1..j : queue[k] \in kept <=> \E n \in 1..last : to[n] = k
    <3> TAKE k \in 1..j
    <3>1. CASE k = j
      BY <1>2, <2>2, <2>3, <3>1
    <3>2. CASE k # j
      <4>1. k \in 1..i
        BY <1>0, <3>2
      <4>2. queue[k] \in kept <=> \E n \in 1..Len(r) : at[n] = k
        BY <4>1 DEF PicksUpTo
      <4>3. (\E n \in 1..last : to[n] = k) <=> \E n \in 1..Len(r) : at[n] = k
        BY <2>2, <2>3, <3>2
      <4> QED
        BY <4>2, <4>3
    <3> QED
      BY <3>1, <3>2
  <2>8. Picks(to, q, queue)
    BY <2>1, <2>4, <2>5, <2>6 DEF Picks
  <2>9. PicksUpTo(to, q, queue, kept, j)
    BY <2>1, <2>6, <2>7, <2>8 DEF PicksUpTo
  <2>10. Pushed(queue, kept, r, j) = q
    BY <1>2 DEF Pushed, q
  <2> QED
    BY <1>0, <2>9, <2>10
<1> QED
  BY <1>1, <1>2

\* A filter keeps the commands of its set, each in its place, and no other.
LEMMA OnlyPicks ==
  ASSUME NEW X, NEW queue \in Seq(X), NEW kept
  PROVE  \E at : PicksUpTo(at, Only(queue, kept), queue, kept, Len(queue))
<1>1. PICK f : IsPass(f, queue, kept, Len(queue)) /\ Only(queue, kept) = f[Len(queue)]
  BY OnlyIsPass
<1> DEFINE N == Len(queue)
           S == {n \in 0..N : \E at : PicksUpTo(at, f[n], queue, kept, n)}
<1>0. N \in Nat
  OBVIOUS
<1>2. 0 \in S
  <2>1. f[0] = <<>>
    BY <1>0, <1>1 DEF IsPass
  <2> DEFINE none == [n \in 1..0 |-> n]
  <2>2. 1..Len(f[0]) = {} /\ 1..0 = {} /\ f[0] \in Seq(Commands(queue))
    BY <2>1
  <2>3. none \in [1..Len(f[0]) -> 1..Len(queue)]
    BY <2>2
  <2>4. PicksUpTo(none, f[0], queue, kept, 0)
    BY <2>2, <2>3 DEF PicksUpTo, Picks
  <2> QED
    BY <1>0, <2>4
<1>3. ASSUME NEW n \in 0..N, n \in S, n < N
      PROVE  n + 1 \in S
  <2>1. n + 1 \in 0..N /\ n + 1 # 0 /\ (n + 1) - 1 = n
    BY <1>0, <1>3
  <2>2. f[n + 1] = Pushed(queue, kept, f[n], n + 1)
    BY <1>1, <2>1 DEF IsPass
  <2>3. PICK at : PicksUpTo(at, f[n], queue, kept, n)
    BY <1>3
  <2>4. \E to : PicksUpTo(to, Pushed(queue, kept, f[n], n + 1), queue, kept, n + 1)
    BY <1>3, <2>3, PicksPushed
  <2> QED
    BY <2>1, <2>2, <2>4
<1> HIDE DEF S, N
<1>4. 0..N \subseteq S
  BY <1>0, <1>2, <1>3, UpToBound
<1>5. N \in S
  BY <1>0, <1>4
<1> QED
  BY <1>1, <1>5 DEF S, N

LEMMA OnlyKeeps ==
  ASSUME NEW X, NEW queue \in Seq(X), NEW kept
  PROVE  /\ Only(queue, kept) \in Seq(X)
         /\ Commands(Only(queue, kept)) = Commands(queue) \cap kept
         /\ \E at : Picks(at, Only(queue, kept), queue)
<1> DEFINE r == Only(queue, kept)
<1>1. PICK at : PicksUpTo(at, r, queue, kept, Len(queue))
  BY OnlyPicks
<1> HIDE DEF r
<1>2. r \in Seq(X)
  <2>1. Commands(queue) \subseteq X
    BY DEF Commands
  <2>2. r \in Seq(Commands(queue)) /\ DOMAIN r = 1..Len(r) /\ Len(r) \in Nat
    BY <1>1 DEF PicksUpTo
  <2> QED
    BY <2>1, <2>2
<1>3. DOMAIN r = 1..Len(r) /\ DOMAIN queue = 1..Len(queue)
  BY <1>2
<1>4. ASSUME NEW n \in 1..Len(r)
      PROVE  r[n] \in Commands(queue) \cap kept
  BY <1>1, <1>3, <1>4 DEF PicksUpTo, Picks, Commands
<1>5. ASSUME NEW k \in 1..Len(queue), queue[k] \in kept
      PROVE  queue[k] \in Commands(r)
  BY <1>1, <1>3, <1>5 DEF PicksUpTo, Picks, Commands
<1>6. Commands(r) = Commands(queue) \cap kept
  BY <1>3, <1>4, <1>5 DEF Commands
<1> QED
  BY <1>1, <1>2, <1>6 DEF PicksUpTo, r

-----------------------------------------------------------------------------
(* What picking from a queue preserves.                                    *)

\* No id is queued twice.
IdsDiffer(queue) ==
  \A i, j \in DOMAIN queue : queue[i].id = queue[j].id => i = j

IdsIncrease(queue) ==
  \A i, j \in DOMAIN queue : i < j => queue[i].id < queue[j].id

LEMMA PicksPreserve ==
  ASSUME NEW X, NEW queue \in Seq(X), NEW r \in Seq(X), NEW at, Picks(at, r, queue)
  PROVE  /\ IdsDiffer(queue) => IdsDiffer(r)
         /\ IdsIncrease(queue) => IdsIncrease(r)
<1>1. /\ DOMAIN r = 1..Len(r) /\ DOMAIN queue = 1..Len(queue) /\ Len(r) \in Nat
      /\ Len(queue) \in Nat
  OBVIOUS
<1>2. ASSUME IdsDiffer(queue), NEW i \in 1..Len(r), NEW j \in 1..Len(r),
             r[i].id = r[j].id
      PROVE  i = j
  <2>1. /\ at[i] \in 1..Len(queue) /\ at[j] \in 1..Len(queue)
        /\ r[i] = queue[at[i]] /\ r[j] = queue[at[j]]
    BY DEF Picks
  <2>2. queue[at[i]].id = queue[at[j]].id
    BY <1>2, <2>1
  <2>3. at[i] = at[j]
    BY <1>1, <1>2, <2>1, <2>2 DEF IdsDiffer
  <2>4. ~ (i < j) /\ ~ (j < i)
    BY <1>1, <2>1, <2>3 DEF Picks
  <2> QED
    BY <1>1, <2>4
<1>3. ASSUME IdsIncrease(queue), NEW i \in 1..Len(r), NEW j \in 1..Len(r), i < j
      PROVE  r[i].id < r[j].id
  BY <1>1, <1>3 DEF Picks, IdsIncrease
<1> QED
  BY <1>1, <1>2, <1>3 DEF IdsDiffer, IdsIncrease

LEMMA AppendPreserves ==
  ASSUME NEW X, NEW queue \in Seq(X), NEW cmd \in X
  PROVE  /\ Append(queue, cmd) \in Seq(X)
         /\ Commands(Append(queue, cmd)) = Commands(queue) \cup {cmd}
         /\ IdsDiffer(queue) /\ (\A c \in Commands(queue) : c.id # cmd.id)
              => IdsDiffer(Append(queue, cmd))
         /\ IdsIncrease(queue) /\ (\A c \in Commands(queue) : c.id < cmd.id)
              => IdsIncrease(Append(queue, cmd))
<1> DEFINE r == Append(queue, cmd)
           last == Len(queue) + 1
<1>1. /\ r \in Seq(X) /\ Len(queue) \in Nat /\ DOMAIN r = 1..last
      /\ DOMAIN queue = 1..Len(queue) /\ r[last] = cmd
      /\ \A i \in 1..Len(queue) : r[i] = queue[i]
      /\ last \in 1..last
      /\ \A i \in 1..last : i # last => i \in 1..Len(queue)
      /\ \A i \in 1..Len(queue) : i \in 1..last /\ i # last
  OBVIOUS
<1> HIDE DEF r
<1>2. Commands(r) = Commands(queue) \cup {cmd}
  BY <1>1 DEF Commands
<1>3. ASSUME IdsDiffer(queue), \A c \in Commands(queue) : c.id # cmd.id
      PROVE  IdsDiffer(r)
  <2> SUFFICES ASSUME NEW i \in 1..last, NEW j \in 1..last, r[i].id = r[j].id
               PROVE  i = j
    BY <1>1 DEF IdsDiffer
  <2>1. \A k \in 1..Len(queue) : r[k].id # cmd.id
    BY <1>1, <1>3 DEF Commands
  <2>2. CASE i = last \/ j = last
    BY <1>1, <2>1, <2>2
  <2>3. CASE i # last /\ j # last
    BY <1>1, <1>3, <2>3 DEF IdsDiffer
  <2> QED
    BY <2>2, <2>3
<1>4. ASSUME IdsIncrease(queue), \A c \in Commands(queue) : c.id < cmd.id
      PROVE  IdsIncrease(r)
  <2> SUFFICES ASSUME NEW i \in 1..last, NEW j \in 1..last, i < j
               PROVE  r[i].id < r[j].id
    BY <1>1 DEF IdsIncrease
  <2>1. i \in 1..Len(queue)
    BY <1>1
  <2>2. CASE j = last
    BY <1>1, <1>4, <2>1, <2>2 DEF Commands
  <2>3. CASE j # last
    BY <1>1, <1>4, <2>1, <2>3 DEF IdsIncrease
  <2> QED
    BY <2>2, <2>3
<1> QED
  BY <1>1, <1>2, <1>3, <1>4 DEF r

LEMMA ConcatPreserves ==
  ASSUME NEW X, NEW queue \in Seq(X), NEW more \in Seq(X),
         IdsDiffer(queue), IdsDiffer(more),
         \A c \in Commands(queue), d \in Commands(more) : c.id # d.id
  PROVE  /\ queue \o more \in Seq(X)
         /\ Commands(queue \o more) = Commands(queue) \cup Commands(more)
         /\ IdsDiffer(queue \o more)
<1> DEFINE r == queue \o more
           L == Len(queue)
           M == Len(more)
<1>1. /\ L \in Nat /\ M \in Nat /\ DOMAIN queue = 1..L /\ DOMAIN more = 1..M
  OBVIOUS
<1>2. /\ r \in Seq(X) /\ Len(r) = L + M
      /\ \A i \in 1..(L + M) : r[i] = IF i <= L THEN queue[i] ELSE more[i - L]
  BY ConcatProperties
<1> HIDE DEF r, L, M
<1>3. DOMAIN r = 1..(L + M)
  BY <1>2
<1>4. ASSUME NEW i \in 1..L
      PROVE  i \in 1..(L + M) /\ r[i] = queue[i]
  BY <1>1, <1>2
<1>5. ASSUME NEW k \in 1..M
      PROVE  L + k \in 1..(L + M) /\ r[L + k] = more[k]
  <2>1. L + k \in 1..(L + M) /\ ~ (L + k <= L) /\ (L + k) - L = k
    BY <1>1
  <2> QED
    BY <1>2, <2>1
<1>6. ASSUME NEW i \in 1..(L + M)
      PROVE  i \in 1..L \/ \E k \in 1..M : i = L + k
  <2>1. CASE i <= L
    BY <1>1, <2>1
  <2>2. CASE ~ (i <= L)
    <3>1. i - L \in 1..M /\ i = L + (i - L)
      BY <1>1, <2>2
    <3> QED
      BY <3>1
  <2> QED
    BY <2>1, <2>2
<1>7. Commands(r) = Commands(queue) \cup Commands(more)
  <2>1. ASSUME NEW i \in 1..(L + M)
        PROVE  r[i] \in Commands(queue) \cup Commands(more)
    <3>1. CASE i \in 1..L
      BY <1>1, <1>4, <3>1 DEF Commands
    <3>2. CASE \E k \in 1..M : i = L + k
      BY <1>1, <1>5, <3>2 DEF Commands
    <3> QED
      BY <1>6, <3>1, <3>2
  <2>2. \A i \in 1..L : queue[i] \in Commands(r)
    BY <1>3, <1>4 DEF Commands
  <2>3. \A k \in 1..M : more[k] \in Commands(r)
    BY <1>3, <1>5 DEF Commands
  <2> QED
    BY <1>1, <1>3, <2>1, <2>2, <2>3 DEF Commands
<1>8. ASSUME NEW i \in 1..L, NEW k \in 1..M
      PROVE  r[i].id # r[L + k].id
  BY <1>1, <1>4, <1>5 DEF Commands
<1>9. ASSUME NEW i \in 1..(L + M), NEW j \in 1..(L + M), r[i].id = r[j].id
      PROVE  i = j
  <2>1. CASE i \in 1..L /\ j \in 1..L
    BY <1>1, <1>4, <1>9, <2>1 DEF IdsDiffer
  <2>2. CASE (i \in 1..L /\ j \notin 1..L) \/ (i \notin 1..L /\ j \in 1..L)
    BY <1>6, <1>8, <1>9, <2>2
  <2>3. CASE i \notin 1..L /\ j \notin 1..L
    <3>1. PICK k \in 1..M : i = L + k
      BY <1>6, <2>3
    <3>2. PICK m \in 1..M : j = L + m
      BY <1>6, <2>3
    <3>3. more[k].id = more[m].id
      BY <1>5, <1>9, <3>1, <3>2
    <3> QED
      BY <1>1, <3>1, <3>2, <3>3 DEF IdsDiffer
  <2> QED
    BY <2>1, <2>2, <2>3
<1>10. IdsDiffer(r)
  BY <1>3, <1>9 DEF IdsDiffer
<1> QED
  BY <1>2, <1>7, <1>10 DEF r

-----------------------------------------------------------------------------
(* The command that goes next.                                             *)

LEMMA BestIndexIsBest ==
  ASSUME NEW queue, NEW candidates, candidates # {}, candidates \subseteq Nat,
         \A i \in candidates : Rank(queue[i]) \in Nat
  PROVE  /\ BestIndex(queue, candidates) \in candidates
         /\ \A j \in candidates :
              \/ Rank(queue[BestIndex(queue, candidates)]) < Rank(queue[j])
              \/ /\ Rank(queue[BestIndex(queue, candidates)]) = Rank(queue[j])
                 /\ BestIndex(queue, candidates) <= j
<1> DEFINE Better(i) == \A j \in candidates :
                          \/ Rank(queue[i]) < Rank(queue[j])
                          \/ Rank(queue[i]) = Rank(queue[j]) /\ i <= j
           ranks == {Rank(queue[i]) : i \in candidates}
<1>1. PICK low \in ranks : \A n \in ranks : low <= n
  <2>1. ranks \in SUBSET Nat /\ ranks # {}
    OBVIOUS
  <2> HIDE DEF ranks
  <2> QED
    BY <2>1, LeastNatural
<1> DEFINE lowest == {i \in candidates : Rank(queue[i]) = low}
<1>2. PICK i \in lowest : \A j \in lowest : i <= j
  <2>1. lowest \in SUBSET Nat /\ lowest # {}
    BY <1>1
  <2> HIDE DEF lowest
  <2> QED
    BY <2>1, LeastNatural
<1>3. Better(i) /\ i \in candidates
  <2>1. ASSUME NEW j \in candidates
        PROVE  \/ Rank(queue[i]) < Rank(queue[j])
               \/ Rank(queue[i]) = Rank(queue[j]) /\ i <= j
    <3> DEFINE a == Rank(queue[i])
               b == Rank(queue[j])
    <3>1. a = low /\ b \in ranks /\ a <= b /\ a \in Nat /\ b \in Nat
      BY <1>1, <1>2
    <3>2. a = b => i <= j
      BY <1>1, <1>2, <3>1
    <3> HIDE DEF a, b
    <3>3. a < b \/ (a = b /\ i <= j)
      BY <3>1, <3>2
    <3> QED
      BY <3>3 DEF a, b
  <2> QED
    BY <2>1, <1>2
<1>4. BestIndex(queue, candidates) = CHOOSE k \in candidates : Better(k)
  BY DEF BestIndex
<1>5. Better(BestIndex(queue, candidates)) /\ BestIndex(queue, candidates) \in candidates
  <2> HIDE DEF Better
  <2> QED
    BY <1>3, <1>4
<1> QED
  BY <1>5

LEMMA RankIsNatural ==
  ASSUME NEW cmd, cmd.priority \in Priorities
  PROVE  Rank(cmd) \in Nat
BY DEF Rank, Priorities

\* peek() shows a command for the main thread that is the most urgent of them,
\* and the oldest of those.
LEMMA NextUpIsBest ==
  ASSUME NEW X, NEW queue \in Seq(X),
         \A cmd \in Commands(queue) : cmd.priority \in Priorities,
         Ready(queue)
  PROVE  \E best \in DOMAIN queue :
           /\ best = BestIndex(queue, Matching(queue, ForMainThread(queue)))
           /\ NextUp(queue) = queue[best]
           /\ IsMainThread(queue[best])
           /\ \A j \in DOMAIN queue :
                IsMainThread(queue[j]) =>
                  \/ Rank(queue[best]) < Rank(queue[j])
                  \/ Rank(queue[best]) = Rank(queue[j]) /\ best <= j
<1> DEFINE M == Matching(queue, ForMainThread(queue))
           best == BestIndex(queue, M)
<1>1. M = {i \in DOMAIN queue : IsMainThread(queue[i])}
  BY DEF Matching, ForMainThread, Commands
<1>2. M # {}
  BY <1>1 DEF Ready, ForMainThread, Commands
<1>3. M \subseteq Nat /\ \A i \in M : Rank(queue[i]) \in Nat
  BY <1>1, RankIsNatural DEF Commands
<1> HIDE DEF M
<1>4. /\ best \in M
      /\ \A j \in M : \/ Rank(queue[best]) < Rank(queue[j])
                      \/ Rank(queue[best]) = Rank(queue[j]) /\ best <= j
  BY <1>2, <1>3, BestIndexIsBest
<1>5. NextUp(queue) = queue[best]
  BY DEF NextUp, Peek, M
<1> HIDE DEF best
<1>6. best = BestIndex(queue, Matching(queue, ForMainThread(queue)))
  BY DEF best, M
<1> QED
  BY <1>1, <1>4, <1>5, <1>6

\* The splice closes the gap.
LEMMA SplicedOutPicks ==
  ASSUME NEW X, NEW queue \in Seq(X), NEW best \in DOMAIN queue
  PROVE  /\ SplicedOut(queue, best) \in Seq(X)
         /\ Commands(SplicedOut(queue, best)) = {queue[i] : i \in DOMAIN queue \ {best}}
         /\ \E at : Picks(at, SplicedOut(queue, best), queue)
<1> DEFINE L == Len(queue)
           before == SubSeq(queue, 1, best - 1)
           after == SubSeq(queue, best + 1, L)
           r == SplicedOut(queue, best)
           at == [n \in 1..(L - 1) |-> IF n < best THEN n ELSE n + 1]
<1>1. /\ DOMAIN queue = 1..L /\ L \in Nat /\ best \in 1..L /\ L \in Int
      /\ best - 1 \in Int /\ best + 1 \in Int /\ 1 \in Int
      /\ \A i \in 1..L : queue[i] \in X
  OBVIOUS
<1>2. /\ before \in Seq(X) /\ Len(before) = best - 1
      /\ \A i \in 1..(best - 1) : before[i] = queue[i]
  <2>1. \A i \in 1..(best - 1) : queue[i] \in X
    BY <1>1
  <2>2. /\ before \in Seq(X)
        /\ Len(before) = IF 1 <= best - 1 THEN best - 1 - 1 + 1 ELSE 0
        /\ \A i \in 1..(best - 1 - 1 + 1) : before[i] = queue[1 + i - 1]
    BY <1>1, <2>1, SubSeqProperties
  <2> HIDE DEF before
  <2> QED
    BY <1>1, <2>2
<1>3. /\ after \in Seq(X) /\ Len(after) = L - best
      /\ \A i \in 1..(L - best) : after[i] = queue[best + i]
  <2>1. \A i \in (best + 1)..L : queue[i] \in X
    BY <1>1
  <2>2. /\ after \in Seq(X)
        /\ Len(after) = IF best + 1 <= L THEN L - (best + 1) + 1 ELSE 0
        /\ \A i \in 1..(L - (best + 1) + 1) : after[i] = queue[best + 1 + i - 1]
    BY <1>1, <2>1, SubSeqProperties
  <2> HIDE DEF after
  <2>3. L - (best + 1) + 1 = L - best /\ (best + 1 <= L \/ L - best = 0)
    BY <1>1
  <2>4. \A i \in 1..(L - best) : best + 1 + i - 1 = best + i
    BY <1>1
  <2>5. Len(after) = L - best
    BY <2>2, <2>3
  <2> QED
    BY <2>2, <2>3, <2>4, <2>5
<1>4. r = before \o after
  BY DEF SplicedOut, RemoveAt
<1> HIDE DEF r, before, after
<1>5. /\ r \in Seq(X) /\ Len(r) = L - 1
      /\ \A n \in 1..(L - 1) : r[n] = queue[at[n]]
  <2>1. r \in Seq(X) /\ Len(r) = Len(before) + Len(after)
    BY <1>2, <1>3, <1>4, ConcatProperties
  <2>0. \A n \in 1..(Len(before) + Len(after)) :
          r[n] = IF n <= Len(before) THEN before[n] ELSE after[n - Len(before)]
    BY <1>2, <1>3, <1>4, ConcatProperties
  <2>2. Len(r) = L - 1
    BY <1>1, <1>2, <1>3, <2>1
  <2>3. ASSUME NEW n \in 1..(L - 1)
        PROVE  r[n] = queue[at[n]]
    <3>1. CASE n < best
      <4>1. r[n] = before[n]
        BY <1>1, <1>2, <1>3, <1>4, <3>1
      <4> QED
        BY <1>1, <1>2, <3>1, <4>1
    <3>2. CASE ~ (n < best)
      <4>0. Len(before) = best - 1 /\ n \in Nat /\ best \in Nat
        BY <1>1, <1>2
      <4>1. n - Len(before) = n - best + 1
        BY <4>0
      <4>5. n - best + 1 \in 1..(L - best)
        BY <1>1, <3>2, <4>0
      <4>2. r[n] = after[n - Len(before)]
        <5>1. n \in 1..(Len(before) + Len(after)) /\ ~ (n <= Len(before))
          BY <1>1, <1>2, <1>3, <3>2, <4>0
        <5> QED
          BY <2>0, <5>1
      <4>3. best + (n - best + 1) = n + 1
        BY <1>1
      <4> QED
        BY <1>1, <1>3, <3>2, <4>1, <4>2, <4>3, <4>5
    <3> QED
      BY <3>1, <3>2
  <2> QED
    BY <2>1, <2>2, <2>3
<1>6. /\ at \in [1..(L - 1) -> 1..L]
      /\ \A m, n \in 1..(L - 1) : m < n => at[m] < at[n]
      /\ \A n \in 1..(L - 1) : at[n] # best
  BY <1>1
<1>7. \A i \in 1..L : i # best => \E n \in 1..(L - 1) : at[n] = i
  <2> SUFFICES ASSUME NEW i \in 1..L, i # best
               PROVE  \E n \in 1..(L - 1) : at[n] = i
    OBVIOUS
  <2>1. CASE i < best
    <3>1. i \in 1..(L - 1) /\ at[i] = i
      BY <1>1, <2>1
    <3> QED
      BY <3>1
  <2>2. CASE ~ (i < best)
    <3>1. i - 1 \in 1..(L - 1) /\ ~ (i - 1 < best) /\ (i - 1) + 1 = i
      BY <1>1, <2>2
    <3>2. at[i - 1] = i
      BY <3>1
    <3> QED
      BY <3>1, <3>2
  <2> QED
    BY <2>1, <2>2
<1> HIDE DEF at
<1>8. Picks(at, r, queue)
  BY <1>5, <1>6 DEF Picks
<1>9. Commands(r) = {queue[i] : i \in DOMAIN queue \ {best}}
  <2>1. DOMAIN r = 1..(L - 1)
    BY <1>1, <1>5
  <2>2. ASSUME NEW n \in 1..(L - 1)
        PROVE  r[n] \in {queue[i] : i \in DOMAIN queue \ {best}}
    BY <1>1, <1>5, <1>6
  <2>3. ASSUME NEW i \in 1..L, i # best
        PROVE  queue[i] \in {r[n] : n \in DOMAIN r}
    BY <1>5, <1>7, <2>1, <2>3
  <2> QED
    BY <1>1, <2>1, <2>2, <2>3 DEF Commands
<1> QED
  BY <1>5, <1>8, <1>9 DEF r

\* What the processor takes and what it leaves are picked from the queue in its
\* order, and are all of it; what goes next is among what it takes.
LEMMA TakenAndLeft ==
  ASSUME NEW X, NEW queue \in Seq(X), IdsDiffer(queue),
         \A cmd \in Commands(queue) : cmd.priority \in Priorities
  PROVE  /\ Taken(queue) \in Seq(X) /\ Left(queue) \in Seq(X)
         /\ \E at : Picks(at, Taken(queue), queue)
         /\ \E at : Picks(at, Left(queue), queue)
         /\ Commands(Left(queue)) = Commands(queue) \ Commands(Taken(queue))
         /\ Commands(Taken(queue)) \subseteq ForMainThread(queue)
         /\ Ready(queue) => NextUp(queue) \in Commands(Taken(queue))
<1>0. DOMAIN queue = 1..Len(queue) /\ Len(queue) \in Nat
  OBVIOUS
<1>1. CASE ~ Ready(queue)
  <2>1. Taken(queue) = <<>> /\ Left(queue) = queue
    BY <1>1 DEF Taken, Left
  <2> DEFINE none == [n \in 1..0 |-> n]
             all == [n \in 1..Len(queue) |-> n]
  <2>2. 1..Len(<<>>) = {} /\ 1..0 = {} /\ DOMAIN <<>> = {} /\ <<>> \in Seq(X)
    OBVIOUS
  <2>3. Picks(none, <<>>, queue)
    BY <2>2 DEF Picks
  <2>4. Picks(all, queue, queue)
    BY <1>0 DEF Picks
  <2>5. Commands(<<>>) = {}
    BY <2>2 DEF Commands
  <2> QED
    BY <1>1, <2>1, <2>2, <2>3, <2>4, <2>5
<1>2. CASE Ready(queue) /\ Alone(queue)
  <2>1. PICK best \in DOMAIN queue :
          /\ best = BestIndex(queue, Matching(queue, ForMainThread(queue)))
          /\ NextUp(queue) = queue[best]
          /\ IsMainThread(queue[best])
    BY <1>2, NextUpIsBest
  <2>2. Taken(queue) = <<queue[best]>> /\ Left(queue) = SplicedOut(queue, best)
    BY <1>2, <2>1 DEF Taken, Left, AfterDequeue
  <2> DEFINE one == [n \in 1..1 |-> best]
             r == <<queue[best]>>
  <2>3. r \in Seq(X) /\ Len(r) = 1 /\ DOMAIN r = 1..1 /\ r[1] = queue[best]
    OBVIOUS
  <2>4. Commands(r) = {queue[best]}
    BY <2>3 DEF Commands
  <2>5. Picks(one, r, queue)
    BY <1>0, <2>1, <2>3 DEF Picks
  <2> HIDE DEF r
  <2>6. /\ SplicedOut(queue, best) \in Seq(X)
        /\ Commands(SplicedOut(queue, best)) = {queue[i] : i \in DOMAIN queue \ {best}}
        /\ \E at : Picks(at, SplicedOut(queue, best), queue)
    BY SplicedOutPicks
  <2>7. {queue[i] : i \in DOMAIN queue \ {best}} = Commands(queue) \ {queue[best]}
    BY DEF Commands, IdsDiffer
  <2>8. queue[best] \in ForMainThread(queue)
    BY <2>1 DEF ForMainThread, Commands
  <2>9. Taken(queue) = r
    BY <2>2 DEF r
  <2> QED
    BY <2>1, <2>2, <2>3, <2>4, <2>5, <2>6, <2>7, <2>8, <2>9
<1>3. CASE Ready(queue) /\ ~ Alone(queue)
  <2>1. PICK best \in DOMAIN queue :
          NextUp(queue) = queue[best] /\ IsMainThread(queue[best])
    BY <1>3, NextUpIsBest
  <2>2. /\ Taken(queue) = Only(queue, Batch(queue))
        /\ Left(queue) = Only(queue, Commands(queue) \ Batch(queue))
    BY <1>3 DEF Taken, Left, Matched, Remaining
  <2>3. /\ Only(queue, Batch(queue)) \in Seq(X)
        /\ Commands(Only(queue, Batch(queue))) = Commands(queue) \cap Batch(queue)
        /\ \E at : Picks(at, Only(queue, Batch(queue)), queue)
    BY OnlyKeeps
  <2> DEFINE kept == Commands(queue) \ Batch(queue)
  <2>4. /\ Only(queue, kept) \in Seq(X)
        /\ Commands(Only(queue, kept)) = Commands(queue) \cap kept
        /\ \E at : Picks(at, Only(queue, kept), queue)
    BY OnlyKeeps
  <2>5. Batch(queue) \subseteq ForMainThread(queue)
    BY DEF Batch
  <2>6. NextUp(queue) \in Commands(queue) \cap Batch(queue)
    BY <1>3, <2>1 DEF Alone, Batch, ForMainThread, Commands
  <2> QED
    BY <2>2, <2>3, <2>4, <2>5, <2>6
<1> QED
  BY <1>1, <1>2, <1>3
=============================================================================
