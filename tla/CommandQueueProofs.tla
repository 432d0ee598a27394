------------------------- MODULE CommandQueueProofs -------------------------
(***************************************************************************)
(* Proofs about CommandQueue for any kinds of commands, any number of      *)
(* subagents, of query loops and of commands enqueued.                     *)
(***************************************************************************)
EXTENDS CommandQueue, CommandQueueOpsProofs

QueuedCommand ==
  [id : 1..MaxPushes, mode : Modes, priority : Priorities, agent : Readers,
   slash : BOOLEAN, skipSlash : BOOLEAN, meta : BOOLEAN]

\* The commands somebody can still take: those in the queue and the copies of
\* the drains in progress.
Known == Commands(queue) \cup UNION {snapshot[l] : l \in Loops}

Typed ==
  /\ queue \in Seq(QueuedCommand)
  /\ pushes \in 0..MaxPushes
  /\ snapshot \in [Loops -> SUBSET QueuedCommand]
  /\ taken \in [1..MaxPushes -> Nat]
  /\ withdrawn \subseteq 1..pushes
  /\ exposed \subseteq 1..pushes
  /\ current \cup live \subseteq Loops
  /\ \A cmd \in Known : cmd.id <= pushes

\* An id names one command, wherever it is, so that the agent of a copy tells
\* for whom it was made and a removal by identity finds what was copied.
IdsName == \A c, d \in Known : c.id = d.id => c = d

\* A loop holds copies of commands for its addressee, which nobody has read yet
\* unless a loop that held a copy was cut off.
CopiesUnread ==
  \A l \in Loops : \A cmd \in snapshot[l] :
    cmd.agent = Addressee[l] /\ (taken[cmd.id] = 0 \/ cmd.id \in exposed)

\* A reader has one current loop, ...
OneCurrent == \A k, l \in current : Addressee[k] = Addressee[l] => k = l

\* ... and all others hold only what is known to be exposed.
OthersExposed ==
  \A l \in Loops \ current : \A cmd \in snapshot[l] : cmd.id \in exposed

NotTakenEarly == \A id \in 1..MaxPushes : id > pushes => taken[id] = 0

IInv ==
  /\ Typed /\ IdsName /\ CopiesUnread /\ OneCurrent /\ OthersExposed /\ NotTakenEarly
  /\ ReadOnce /\ NothingLost /\ ArrivalOrderKept

LEMMA QueueFacts ==
  ASSUME IInv
  PROVE  /\ queue \in Seq(QueuedCommand)
         /\ Commands(queue) \subseteq QueuedCommand
         /\ \A cmd \in Commands(queue) : cmd.priority \in Priorities
         /\ IdsIncrease(queue) /\ IdsDiffer(queue)
<1>1. /\ queue \in Seq(QueuedCommand) /\ DOMAIN queue = 1..Len(queue)
      /\ Len(queue) \in Nat
  BY DEF IInv, Typed
<1>2. Commands(queue) \subseteq QueuedCommand
  BY <1>1 DEF Commands
<1>3. \A cmd \in Commands(queue) : cmd.priority \in Priorities
  BY <1>2 DEF QueuedCommand
<1>4. IdsIncrease(queue)
  BY DEF IInv, ArrivalOrderKept, IdsIncrease
<1>5. ASSUME NEW i \in DOMAIN queue, NEW j \in DOMAIN queue, queue[i].id = queue[j].id
      PROVE  i = j
  <2>1. queue[i].id \in Nat /\ queue[j].id \in Nat
    BY <1>2 DEF Commands, QueuedCommand
  <2>2. ~ (i < j) /\ ~ (j < i)
    BY <1>4, <1>5, <2>1 DEF IdsIncrease
  <2> QED
    BY <1>1, <2>2
<1> QED
  BY <1>1, <1>2, <1>3, <1>4, <1>5 DEF IdsDiffer

-----------------------------------------------------------------------------
(* The invariant is inductive.                                             *)

LEMMA InitIInv == Init => IInv
<1> SUFFICES ASSUME Init
             PROVE  IInv
  OBVIOUS
<1> USE BoundAssumption
<1>1. Commands(queue) = {} /\ Known = {} /\ DOMAIN queue = {}
  BY DEF Init, Commands, Known
<1>2. Typed
  BY <1>1 DEF Init, Typed
<1>3. NothingLost
  BY <1>1 DEF Init, NothingLost, Ids
<1> QED
  BY <1>1, <1>2, <1>3
     DEF Init, IInv, IdsName, CopiesUnread, OneCurrent, OthersExposed,
         NotTakenEarly, ReadOnce, ArrivalOrderKept

\* What the loops are may change in any way that exposes what it must.
LoopsKept ==
  /\ current' \cup live' \subseteq Loops
  /\ exposed \subseteq exposed' /\ exposed' \subseteq 1..pushes
  /\ OneCurrent' /\ OthersExposed'

\* Commands leave the queue, to a reader or back to the user.
LEMMA RemovalKeeps ==
  ASSUME IInv, LoopsKept, NEW gone, gone \subseteq Known,
         queue' \in Seq(QueuedCommand), \E at : Picks(at, queue', queue),
         Commands(queue') = Commands(queue) \ gone,
         snapshot' \in [Loops -> SUBSET QueuedCommand],
         \A l \in Loops : snapshot'[l] \subseteq snapshot[l],
         pushes' = pushes,
         \/ /\ Take(gone) /\ withdrawn' = withdrawn
            /\ \A cmd \in gone : taken[cmd.id] = 0 \/ cmd.id \in exposed'
            /\ \A l \in Loops : \A cmd \in snapshot'[l] \cap gone : cmd.id \in exposed'
         \/ Withdraw(gone) /\ taken' = taken
  PROVE  IInv'
<1> USE BoundAssumption
<1>1. /\ Known' \subseteq Known /\ Known \subseteq QueuedCommand
      /\ \A cmd \in QueuedCommand : cmd.id \in 1..MaxPushes
      /\ \A l \in Loops : snapshot[l] \subseteq Known /\ snapshot'[l] \subseteq Known'
      /\ Commands(queue) \subseteq Known /\ Commands(queue') \subseteq Known'
  BY QueueFacts DEF IInv, Typed, Known, QueuedCommand
<1>2. /\ IdsName /\ CopiesUnread /\ NotTakenEarly /\ ReadOnce /\ NothingLost
      /\ taken \in [1..MaxPushes -> Nat] /\ withdrawn \subseteq 1..pushes
      /\ pushes \in 0..MaxPushes /\ \A cmd \in Known : cmd.id <= pushes
      /\ exposed \subseteq exposed'
  BY DEF IInv, Typed, LoopsKept
<1>3. Ids(gone) \subseteq 1..pushes
  BY <1>1, <1>2 DEF Ids
<1>4. /\ taken' \in [1..MaxPushes -> Nat]
      /\ \A id \in 1..MaxPushes :
           \/ taken'[id] = taken[id] /\ (id \notin Ids(gone) \/ Withdraw(gone))
           \/ /\ taken'[id] = taken[id] + 1 /\ id \in Ids(gone) /\ Take(gone)
              /\ taken[id] = 0 \/ id \in exposed'
  <2>1. CASE Withdraw(gone) /\ taken' = taken
    BY <1>2, <2>1
  <2>2. CASE /\ Take(gone) /\ withdrawn' = withdrawn
             /\ \A cmd \in gone : taken[cmd.id] = 0 \/ cmd.id \in exposed'
    <3>1. taken' = [id \in 1..MaxPushes |->
                      taken[id] + (IF id \in Ids(gone) THEN 1 ELSE 0)]
      BY <1>2, <2>2 DEF Take
    <3>2. \A id \in Ids(gone) : taken[id] = 0 \/ id \in exposed'
      BY <2>2 DEF Ids
    <3>3. ASSUME NEW id \in 1..MaxPushes
          PROVE  \/ taken'[id] = taken[id] /\ id \notin Ids(gone)
                 \/ /\ taken'[id] = taken[id] + 1 /\ id \in Ids(gone)
                    /\ taken[id] = 0 \/ id \in exposed'
      <4>1. taken[id] \in Nat
        BY <1>2
      <4>2. CASE id \in Ids(gone)
        BY <3>1, <3>2, <4>2
      <4>3. CASE id \notin Ids(gone)
        BY <3>1, <4>1, <4>3
      <4> QED
        BY <4>2, <4>3
    <3>4. taken' \in [1..MaxPushes -> Nat]
      BY <1>2, <3>1
    <3> QED
      BY <2>2, <3>3, <3>4
  <2> QED
    BY <2>1, <2>2
<1>5. withdrawn' \subseteq 1..pushes'
  BY <1>2, <1>3 DEF Withdraw
<1>6. Typed'
  BY <1>1, <1>2, <1>4, <1>5 DEF Typed, LoopsKept
<1>7. IdsName'
  BY <1>1, <1>2 DEF IdsName
<1>8. CopiesUnread'
  <2> SUFFICES ASSUME NEW l \in Loops, NEW cmd \in snapshot'[l]
               PROVE  /\ cmd.agent = Addressee[l]
                      /\ taken'[cmd.id] = 0 \/ cmd.id \in exposed'
    BY DEF CopiesUnread
  <2>1. cmd \in snapshot[l] /\ cmd \in Known /\ cmd.id \in 1..MaxPushes
    BY <1>1
  <2>2. cmd.agent = Addressee[l] /\ (taken[cmd.id] = 0 \/ cmd.id \in exposed')
    BY <1>2, <2>1 DEF CopiesUnread
  <2>3. CASE taken' = taken
    BY <2>2, <2>3
  <2>4. CASE \A k \in Loops : \A c \in snapshot'[k] \cap gone : c.id \in exposed'
    <3>1. cmd \notin gone \/ cmd.id \in exposed'
      BY <2>4
    <3>2. cmd.id \notin Ids(gone) \/ cmd.id \in exposed'
      BY <1>1, <1>2, <2>1, <3>1 DEF Ids, IdsName
    <3>3. cmd.id \notin Ids(gone) => taken'[cmd.id] = taken[cmd.id]
      BY <1>4, <2>1
    <3> QED
      BY <2>2, <3>2, <3>3
  <2> QED
    BY <2>2, <2>3, <2>4
<1>9. NotTakenEarly'
  BY <1>2, <1>3, <1>4 DEF NotTakenEarly
<1>10. ReadOnce'
  <2> SUFFICES ASSUME NEW id \in 1..MaxPushes, taken'[id] > 1
               PROVE  id \in exposed'
    BY <1>4 DEF ReadOnce
  <2>1. CASE taken'[id] = taken[id]
    BY <1>2, <2>1 DEF ReadOnce
  <2>2. CASE taken'[id] = taken[id] + 1 /\ (taken[id] = 0 \/ id \in exposed')
    BY <2>2
  <2> QED
    BY <1>4, <2>1, <2>2
<1>11. NothingLost'
  <2>1. ASSUME NEW cmd \in Commands(queue')
        PROVE  cmd.id \in 1..pushes /\ taken'[cmd.id] = 0 /\ cmd.id \notin withdrawn'
    <3>1. cmd \in Commands(queue) /\ cmd \notin gone /\ cmd \in Known
      BY <1>1
    <3>2. cmd.id \in 1..pushes /\ taken[cmd.id] = 0 /\ cmd.id \notin withdrawn
      BY <1>2, <3>1 DEF NothingLost, Ids
    <3>3. cmd.id \notin Ids(gone)
      BY <1>2, <3>1 DEF Ids, IdsName
    <3>4. taken'[cmd.id] = 0
      BY <1>2, <1>4, <3>2, <3>3
    <3> QED
      BY <3>2, <3>3, <3>4 DEF Withdraw
  <2>2. ASSUME NEW id \in 1..pushes, taken'[id] = 0, id \notin withdrawn'
        PROVE  id \in Ids(Commands(queue'))
    <3>1. id \in 1..MaxPushes /\ taken[id] \in Nat /\ taken[id] + 1 # 0
      BY <1>2
    <3>2. taken[id] = 0 /\ id \notin withdrawn /\ id \notin Ids(gone)
      BY <1>4, <2>2, <3>1 DEF Withdraw
    <3>3. PICK cmd \in Commands(queue) : cmd.id = id
      BY <1>2, <3>2 DEF NothingLost, Ids
    <3>4. cmd \notin gone
      BY <3>2, <3>3 DEF Ids
    <3> QED
      BY <3>3, <3>4 DEF Ids
  <2> QED
    BY <2>1, <2>2 DEF NothingLost, Ids
<1>12. ArrivalOrderKept'
  BY QueueFacts, PicksPreserve DEF ArrivalOrderKept, IdsIncrease
<1> QED
  BY <1>6, <1>7, <1>8, <1>9, <1>10, <1>11, <1>12 DEF IInv, LoopsKept

LEMMA EnqueueKeeps ==
  ASSUME IInv, NEW kind \in Kinds, Enqueue(kind)
  PROVE  IInv'
<1> DEFINE cmd == [id |-> pushes + 1, mode |-> kind.mode,
                   priority |-> kind.priority, slash |-> kind.slash,
                   skipSlash |-> kind.skipSlash, meta |-> kind.meta,
                   agent |-> kind.agent]
<1> USE BoundAssumption
<1>1. /\ queue' = Append(queue, cmd) /\ pushes' = pushes + 1 /\ pushes < MaxPushes
      /\ UNCHANGED <<current, live, exposed, snapshot, taken, withdrawn>>
  BY DEF Enqueue, loopVars
<1>2. /\ IdsName /\ CopiesUnread /\ NotTakenEarly /\ ReadOnce /\ NothingLost
      /\ taken \in [1..MaxPushes -> Nat] /\ withdrawn \subseteq 1..pushes
      /\ pushes \in 0..MaxPushes /\ \A c \in Known : c.id <= pushes
      /\ snapshot \in [Loops -> SUBSET QueuedCommand]
      /\ exposed \subseteq 1..pushes /\ current \cup live \subseteq Loops
  BY DEF IInv, Typed
<1>3. cmd.id = pushes + 1 /\ cmd \in QueuedCommand
  BY <1>1, <1>2, KindsAssumption DEF QueuedCommand
<1> HIDE DEF cmd
<1>4. /\ Known \subseteq QueuedCommand
      /\ \A c \in QueuedCommand : c.id \in 1..MaxPushes
      /\ Commands(queue) \subseteq Known
      /\ \A l \in Loops : snapshot[l] \subseteq Known
  BY QueueFacts, <1>2 DEF Known, QueuedCommand
<1>5. \A c \in Known : c.id # cmd.id /\ c.id < cmd.id
  BY <1>2, <1>3, <1>4
<1>6. /\ queue' \in Seq(QueuedCommand)
      /\ Commands(queue') = Commands(queue) \cup {cmd}
      /\ IdsIncrease(queue')
  BY <1>1, <1>3, <1>4, <1>5, QueueFacts, AppendPreserves
<1>7. Known' = Known \cup {cmd}
  BY <1>1, <1>6 DEF Known
<1>8. Typed'
  <2>1. \A c \in Known' : c.id <= pushes'
    BY <1>1, <1>2, <1>3, <1>4, <1>7
  <2> QED
    BY <1>1, <1>2, <1>6, <2>1 DEF Typed
<1>9. IdsName'
  BY <1>2, <1>5, <1>7 DEF IdsName
<1>10. CopiesUnread' /\ ReadOnce' /\ OneCurrent' /\ OthersExposed'
  BY <1>1 DEF IInv, CopiesUnread, ReadOnce, OneCurrent, OthersExposed
<1>11. NotTakenEarly'
  BY <1>1, <1>2 DEF NotTakenEarly
<1>12. NothingLost'
  <2>1. taken[pushes + 1] = 0 /\ pushes + 1 \notin withdrawn
    BY <1>1, <1>2 DEF NotTakenEarly
  <2>2. Ids(Commands(queue')) = Ids(Commands(queue)) \cup {pushes + 1}
    BY <1>3, <1>6 DEF Ids
  <2>3. 1..pushes' = (1..pushes) \cup {pushes + 1}
    BY <1>1, <1>2
  <2> QED
    BY <1>1, <1>2, <2>1, <2>2, <2>3 DEF NothingLost
<1>13. ArrivalOrderKept'
  BY <1>6 DEF ArrivalOrderKept, IdsIncrease
<1> QED
  BY <1>8, <1>9, <1>10, <1>11, <1>12, <1>13 DEF IInv

\* The steps that start and stop loops expose the copies of those they cut off.
LEMMA LoopsChange ==
  ASSUME IInv, NEW loop \in Loops,
         StartLoop(loop) \/ \E aborts \in BOOLEAN : StopLoop(loop, aborts),
         snapshot' = snapshot
  PROVE  LoopsKept
<1>1. /\ OneCurrent /\ OthersExposed /\ current \cup live \subseteq Loops
      /\ exposed \subseteq 1..pushes /\ pushes \in Nat
      /\ \A l \in Loops : snapshot[l] \subseteq Known /\ snapshot[l] \subseteq QueuedCommand
      /\ \A cmd \in Known : cmd.id <= pushes
  BY BoundAssumption DEF IInv, Typed, Known
<1>2. \A l \in Loops : \A cmd \in snapshot[l] : cmd.id \in 1..pushes
  BY <1>1 DEF QueuedCommand
<1>3. \A L : L \subseteq Loops =>
        Copied(L) \subseteq 1..pushes /\ \A l \in L : \A cmd \in snapshot[l] : cmd.id \in Copied(L)
  BY <1>2 DEF Copied, Ids
<1>4. CASE StartLoop(loop)
  <2> DEFINE displaced == CurrentOf(Addressee[loop])
  <2>1. /\ current' = (current \ displaced) \cup {loop} /\ live' = live \cup {loop}
        /\ exposed' = exposed \cup Copied(displaced)
    BY <1>4 DEF StartLoop
  <2>2. displaced \subseteq Loops /\ \A l \in current \ displaced : Addressee[l] # Addressee[loop]
    BY <1>1 DEF CurrentOf
  <2> HIDE DEF displaced
  <2>3. OneCurrent'
    BY <1>1, <2>1, <2>2 DEF OneCurrent
  <2>4. OthersExposed'
    BY <1>1, <1>3, <2>1, <2>2 DEF OthersExposed
  <2> QED
    BY <1>1, <1>3, <2>1, <2>2, <2>3, <2>4 DEF LoopsKept
<1>5. CASE \E aborts \in BOOLEAN : StopLoop(loop, aborts)
  <2>1. /\ current' = current \ {loop} /\ live' \subseteq live
        /\ exposed' = exposed \cup Copied({loop})
    BY <1>5 DEF StopLoop
  <2>2. OneCurrent'
    BY <1>1, <2>1 DEF OneCurrent
  <2>3. OthersExposed'
    BY <1>1, <1>3, <2>1 DEF OthersExposed
  <2> QED
    BY <1>1, <1>3, <2>1, <2>2, <2>3 DEF LoopsKept
<1> QED
  BY <1>4, <1>5

\* A step that touches neither queue nor histories, and in which copies are
\* only dropped.
LEMMA LoopStepKeeps ==
  ASSUME IInv, LoopsKept, UNCHANGED <<queue, pushes, taken, withdrawn>>,
         snapshot' \in [Loops -> SUBSET QueuedCommand],
         \A l \in Loops : snapshot'[l] \subseteq snapshot[l]
  PROVE  IInv'
<1>1. Known' \subseteq Known
  BY DEF Known
<1>2. Typed' /\ IdsName'
  BY <1>1 DEF IInv, Typed, IdsName, LoopsKept
<1>3. CopiesUnread' /\ ReadOnce'
  BY DEF IInv, CopiesUnread, ReadOnce, LoopsKept
<1> QED
  BY <1>2, <1>3 DEF IInv, LoopsKept, NotTakenEarly, NothingLost, ArrivalOrderKept

LEMMA LoopsKeep ==
  ASSUME IInv, NEW loop \in Loops,
         \/ BeginTurn(loop) \/ StartAgent(loop) \/ KillAgent(loop)
         \/ \E aborts \in BOOLEAN : CancelTurn(loop, aborts)
  PROVE  IInv'
<1>1. /\ UNCHANGED <<queue, pushes, snapshot, taken, withdrawn>>
      /\ StartLoop(loop) \/ \E aborts \in BOOLEAN : StopLoop(loop, aborts)
  BY DEF BeginTurn, StartAgent, KillAgent, CancelTurn
<1>2. LoopsKept
  BY <1>1, LoopsChange
<1> QED
  BY <1>1, <1>2, LoopStepKeeps DEF IInv, Typed

LEMMA EndLoopKeeps ==
  ASSUME IInv, NEW loop \in Loops, EndLoop(loop) \/ AbandonDrain(loop)
  PROVE  IInv'
<1>1. /\ UNCHANGED <<queue, pushes, taken, withdrawn, exposed>>
      /\ current' = current \ {loop} /\ live' = live \ {loop}
      /\ snapshot' = [snapshot EXCEPT ![loop] = {}]
  <2>1. CASE EndLoop(loop)
    BY <2>1 DEF EndLoop, IInv, Typed
  <2>2. CASE AbandonDrain(loop)
    BY <2>2 DEF AbandonDrain
  <2> QED
    BY <2>1, <2>2
<1>2. /\ snapshot' \in [Loops -> SUBSET QueuedCommand]
      /\ \A l \in Loops : snapshot'[l] \subseteq snapshot[l] /\ (l = loop => snapshot'[l] = {})
  BY <1>1 DEF IInv, Typed
<1>3. LoopsKept
  BY <1>1, <1>2 DEF LoopsKept, IInv, Typed, OneCurrent, OthersExposed
<1> QED
  BY <1>1, <1>2, <1>3, LoopStepKeeps

\* The processor runs only while the main thread has no current loop, so that
\* what others hold of its batch is exposed.
LEMMA ProcessQueueKeeps ==
  ASSUME IInv, NEW loop \in Loops, ProcessQueue(loop)
  PROVE  IInv'
<1>1. /\ Left(queue) \in Seq(QueuedCommand)
      /\ \E at : Picks(at, Left(queue), queue)
      /\ Commands(Left(queue)) = Commands(queue) \ Commands(Taken(queue))
      /\ Commands(Taken(queue)) \subseteq ForMainThread(queue)
  BY QueueFacts, TakenAndLeft
<1> DEFINE gone == Commands(Taken(queue))
<1>2. /\ queue' = Left(queue) /\ Take(gone) /\ snapshot' = snapshot
      /\ pushes' = pushes /\ withdrawn' = withdrawn
      /\ CurrentOf(MainThread) = {} /\ StartLoop(loop)
  BY DEF ProcessQueue, Range, Commands
<1>3. gone \subseteq Commands(queue) /\ \A cmd \in gone : cmd.agent = MainThread
  BY <1>1 DEF ForMainThread, IsMainThread
<1> HIDE DEF gone
<1>4. gone \subseteq Known
  BY <1>3 DEF Known
<1>5. \A cmd \in gone : taken[cmd.id] = 0
  BY <1>3 DEF IInv, NothingLost, Ids
<1>6. LoopsKept
  BY <1>2, LoopsChange
<1>7. \A l \in Loops : \A cmd \in snapshot'[l] \cap gone : cmd.id \in exposed'
  <2> SUFFICES ASSUME NEW l \in Loops, NEW cmd \in snapshot[l], cmd \in gone
               PROVE  cmd.id \in exposed'
    BY <1>2
  <2>1. Addressee[l] = MainThread
    BY <1>3 DEF IInv, CopiesUnread
  <2>2. l \notin current
    BY <1>2, <2>1 DEF CurrentOf
  <2> QED
    BY <1>6, <2>2 DEF IInv, OthersExposed, LoopsKept
<1>8. snapshot' \in [Loops -> SUBSET QueuedCommand]
  BY <1>2 DEF IInv, Typed
<1>9. /\ queue' \in Seq(QueuedCommand) /\ \E at : Picks(at, queue', queue)
      /\ Commands(queue') = Commands(queue) \ gone
  BY <1>1, <1>2 DEF gone
<1> QED
  BY <1>2, <1>4, <1>5, <1>6, <1>7, <1>8, <1>9, RemovalKeeps

LEMMA BeginDrainKeeps ==
  ASSUME IInv, NEW loop \in Loops, NEW threshold, BeginDrain(loop, threshold)
  PROVE  IInv'
<1> DEFINE copies == Drainable(queue, Addressee[loop], threshold)
<1>1. /\ snapshot' = [snapshot EXCEPT ![loop] = copies]
      /\ exposed' = exposed \cup (IF loop \in current THEN {} ELSE Ids(copies))
      /\ UNCHANGED <<queue, pushes, current, live, taken, withdrawn>>
  BY DEF BeginDrain
<1>2. copies \subseteq Commands(queue) /\ \A cmd \in copies : cmd.agent = Addressee[loop]
  BY DEF Drainable
<1> HIDE DEF copies
<1>3. snapshot' \in [Loops -> SUBSET QueuedCommand]
  BY <1>1, <1>2, QueueFacts DEF IInv, Typed
<1>4. Known' \subseteq Known
  <2>1. \A l \in Loops : snapshot'[l] \subseteq snapshot[l] \cup Commands(queue)
    BY <1>1, <1>2 DEF IInv, Typed
  <2> QED
    BY <1>1, <2>1 DEF Known
<1>5. \A cmd \in Commands(queue) : taken[cmd.id] = 0
  BY DEF IInv, NothingLost, Ids
<1>6. CopiesUnread'
  BY <1>1, <1>2, <1>5 DEF IInv, Typed, CopiesUnread
<1>7. OneCurrent' /\ OthersExposed'
  BY <1>1 DEF IInv, Typed, OneCurrent, OthersExposed, Ids
<1>8. exposed' \subseteq 1..pushes
  <2>1. \A cmd \in Commands(queue) : cmd.id \in 1..pushes
    BY DEF IInv, NothingLost, Ids
  <2> QED
    BY <1>1, <1>2, <2>1 DEF IInv, Typed, Ids
<1>9. Typed' /\ IdsName'
  BY <1>1, <1>3, <1>4, <1>8 DEF IInv, Typed, IdsName
<1> QED
  BY <1>1, <1>6, <1>7, <1>9
     DEF IInv, NotTakenEarly, ReadOnce, NothingLost, ArrivalOrderKept

\* Of two loops that hold copies of one command only one can be current, and
\* the other has exposed it.
LEMMA EndDrainKeeps ==
  ASSUME IInv, NEW loop \in Loops, EndDrain(loop)
  PROVE  IInv'
<1> DEFINE gone == {cmd \in snapshot[loop] : cmd.mode # "bash"}
<1>1. /\ queue' = Only(queue, Commands(queue) \ gone) /\ Take(gone)
      /\ snapshot' = [snapshot EXCEPT ![loop] = {}]
      /\ UNCHANGED <<pushes, current, live, exposed, withdrawn>>
  BY DEF EndDrain, Without, loopVars
<1>2. gone \subseteq snapshot[loop]
  OBVIOUS
<1> HIDE DEF gone
<1>3. /\ queue' \in Seq(QueuedCommand) /\ \E at : Picks(at, queue', queue)
      /\ Commands(queue') = Commands(queue) \ gone
  BY <1>1, QueueFacts, OnlyKeeps
<1>4. gone \subseteq Known
  BY <1>2 DEF Known
<1>5. \A cmd \in gone : taken[cmd.id] = 0 \/ cmd.id \in exposed'
  BY <1>1, <1>2 DEF IInv, CopiesUnread
<1>6. /\ snapshot' \in [Loops -> SUBSET QueuedCommand]
      /\ \A l \in Loops : snapshot'[l] \subseteq snapshot[l] /\ (l = loop => snapshot'[l] = {})
  BY <1>1 DEF IInv, Typed
<1>7. \A l \in Loops : \A cmd \in snapshot'[l] \cap gone : cmd.id \in exposed'
  <2> SUFFICES ASSUME NEW l \in Loops, NEW cmd \in snapshot[l], cmd \in gone, l # loop
               PROVE  cmd.id \in exposed
    BY <1>1, <1>6
  <2>1. Addressee[l] = Addressee[loop] /\ cmd \in snapshot[loop]
    BY <1>2 DEF IInv, CopiesUnread
  <2>2. l \notin current \/ loop \notin current
    BY <2>1 DEF IInv, OneCurrent
  <2> QED
    BY <2>1, <2>2 DEF IInv, OthersExposed
<1>8. LoopsKept
  BY <1>1, <1>6 DEF LoopsKept, IInv, Typed, OneCurrent, OthersExposed
<1> QED
  BY <1>1, <1>3, <1>4, <1>5, <1>6, <1>7, <1>8, RemovalKeeps

LEMMA WithdrawalKeeps ==
  ASSUME IInv, PopAllEditable \/ Clear
  PROVE  IInv'
<1> DEFINE gone == Commands(queue) \ Commands(queue')
<1>1. Withdraw(gone) /\ UNCHANGED <<pushes, current, live, exposed, snapshot, taken>>
  <2>1. CASE PopAllEditable
    BY <2>1 DEF PopAllEditable, loopVars
  <2>2. CASE Clear
    <3>1. Commands(<<>>) = {}
      BY DEF Commands
    <3> QED
      BY <2>2, <3>1 DEF Clear, loopVars
  <2> QED
    BY <2>1, <2>2
<1>2. /\ queue' \in Seq(QueuedCommand) /\ \E at : Picks(at, queue', queue)
      /\ Commands(queue') \subseteq Commands(queue)
  <2>1. CASE PopAllEditable
    <3> DEFINE kept == {cmd \in Commands(queue) : ~ IsEditable(cmd)}
    <3>1. queue' = Only(queue, kept)
      BY <2>1 DEF PopAllEditable, AfterPop
    <3> HIDE DEF kept
    <3> QED
      BY <3>1, QueueFacts, OnlyKeeps
  <2>2. CASE Clear
    <3> DEFINE none == [n \in 1..0 |-> n]
    <3>1. /\ queue' = <<>> /\ Len(<<>>) = 0 /\ 1..0 = {} /\ DOMAIN <<>> = {}
          /\ <<>> \in Seq(QueuedCommand)
      BY <2>2 DEF Clear
    <3>2. Picks(none, queue', queue)
      BY <3>1 DEF Picks
    <3>3. Commands(queue') = {}
      BY <3>1 DEF Commands
    <3> QED
      BY <3>1, <3>2, <3>3
  <2> QED
    BY <2>1, <2>2
<1>3. Commands(queue') = Commands(queue) \ gone /\ gone \subseteq Known
  BY <1>2 DEF Known
<1> HIDE DEF gone
<1>4. /\ snapshot' \in [Loops -> SUBSET QueuedCommand]
      /\ \A l \in Loops : snapshot'[l] \subseteq snapshot[l]
  BY <1>1 DEF IInv, Typed
<1>5. LoopsKept
  BY <1>1 DEF LoopsKept, IInv, Typed, OneCurrent, OthersExposed
<1> QED
  BY <1>1, <1>2, <1>3, <1>4, <1>5, RemovalKeeps

LEMMA IInvStep == IInv /\ [Next]_vars => IInv'
<1> SUFFICES ASSUME IInv, [Next]_vars
             PROVE  IInv'
  OBVIOUS
<1>1. CASE \E kind \in Kinds : Enqueue(kind)
  BY <1>1, EnqueueKeeps
<1>2. ASSUME NEW loop \in Loops,
             \/ ProcessQueue(loop) \/ BeginTurn(loop) \/ StartAgent(loop)
             \/ KillAgent(loop) \/ EndLoop(loop)
             \/ EndDrain(loop) \/ AbandonDrain(loop)
      PROVE  IInv'
  BY <1>2, ProcessQueueKeeps, LoopsKeep, EndLoopKeeps, EndDrainKeeps
<1>3. ASSUME NEW loop \in Loops, NEW aborts \in BOOLEAN, CancelTurn(loop, aborts)
      PROVE  IInv'
  BY <1>3, LoopsKeep
<1>4. CASE \E loop \in Loops, threshold \in {"next", "later"} : BeginDrain(loop, threshold)
  BY <1>4, BeginDrainKeeps
<1>5. CASE PopAllEditable \/ Clear
  BY <1>5, WithdrawalKeeps
<1>6. CASE UNCHANGED vars
  BY <1>6 DEF vars, loopVars, IInv, Typed, Known, IdsName, CopiesUnread, OneCurrent,
              OthersExposed, NotTakenEarly, ReadOnce, NothingLost, ArrivalOrderKept
<1> QED
  BY <1>1, <1>2, <1>3, <1>4, <1>5, <1>6 DEF Next

\* The inductive invariant holds; the theorems below are about its parts.
THEOREM Inductive == Spec => []IInv
BY InitIInv, IInvStep, PTL DEF Spec

\* The state of the queue is well typed.
THEOREM TypeCorrect == Spec => []TypeOK
<1>1. IInv => TypeOK
  <2> SUFFICES ASSUME IInv
               PROVE  TypeOK
    OBVIOUS
  <2>1. /\ Commands(queue) \subseteq Known
        /\ \A l \in Loops : snapshot[l] \subseteq Known
        /\ Known \subseteq QueuedCommand
    BY QueueFacts DEF Known, IInv, Typed
  <2>2. \A cmd \in Known : cmd.id \in 1..pushes
    BY <2>1 DEF IInv, Typed, QueuedCommand
  <2>3. \A cmd \in Commands(queue) : cmd.mode \in Modes /\ cmd.priority \in Priorities
    BY <2>1 DEF QueuedCommand
  <2> QED
    BY <2>1, <2>2, <2>3
       DEF TypeOK, IInv, Typed, CopiesUnread, OneCurrent, CurrentOf
<1> QED
  BY Inductive, <1>1, PTL

\* A command is handed to two readers only if a loop that copied it was cut off
\* (cancelled, killed or replaced) before it removed it, or copied it after that:
\* otherwise once, although the processor and the loops of any number of turns
\* and agents share the queue and a drain takes two steps.
THEOREM NoCommandReadTwice == Spec => []ReadOnce
<1>1. IInv => ReadOnce
  BY DEF IInv
<1> QED
  BY Inductive, <1>1, PTL

\* Every command is in the queue until a reader or the user takes it.
THEOREM NoCommandLost == Spec => []NothingLost
<1>1. IInv => NothingLost
  BY DEF IInv
<1> QED
  BY Inductive, <1>1, PTL

\* Removals from the middle of the queue keep the order of arrival.
THEOREM OrderKept == Spec => []ArrivalOrderKept
<1>1. IInv => ArrivalOrderKept
  BY DEF IInv
<1> QED
  BY Inductive, <1>1, PTL

\* As long as there is a command for the main thread the processor takes one.
THEOREM ProcessorNeverStalls == Spec => []NeverStalls
<1>1. IInv => NeverStalls
  <2> SUFFICES ASSUME IInv, Ready(queue)
               PROVE  Taken(queue) # <<>>
    BY DEF NeverStalls, Ready
  <2>1. NextUp(queue) \in Commands(Taken(queue))
    BY QueueFacts, TakenAndLeft
  <2>2. Commands(<<>>) = {}
    BY DEF Commands
  <2> QED
    BY <2>1, <2>2
<1> QED
  BY Inductive, <1>1, PTL

\* What the processor takes holds the most urgent command for the main thread,
\* and the oldest of those.
LEMMA MostUrgentGoesStep ==
  ASSUME IInv, NEW loop \in Loops, ProcessQueue(loop)
  PROVE  \E cmd \in Commands(queue) \ Commands(queue') :
           \A other \in ForMainThread(queue') :
             \/ Rank(cmd) < Rank(other)
             \/ Rank(cmd) = Rank(other) /\ cmd.id < other.id
<1>1. Taken(queue) # <<>> /\ queue' = Left(queue)
  BY DEF ProcessQueue
<1>2. Ready(queue)
  BY <1>1 DEF Taken
<1>3. /\ Commands(Left(queue)) = Commands(queue) \ Commands(Taken(queue))
      /\ NextUp(queue) \in Commands(Taken(queue))
  BY <1>2, QueueFacts, TakenAndLeft
<1>4. PICK best \in DOMAIN queue :
        /\ NextUp(queue) = queue[best]
        /\ \A j \in DOMAIN queue :
             IsMainThread(queue[j]) =>
               \/ Rank(queue[best]) < Rank(queue[j])
               \/ Rank(queue[best]) = Rank(queue[j]) /\ best <= j
  BY <1>2, QueueFacts, NextUpIsBest
<1>5. queue[best] \in Commands(queue) \ Commands(queue')
  BY <1>1, <1>3, <1>4 DEF Commands
<1>6. ASSUME NEW other \in ForMainThread(queue')
      PROVE  \/ Rank(queue[best]) < Rank(other)
             \/ Rank(queue[best]) = Rank(other) /\ queue[best].id < other.id
  <2>1. other \in Commands(queue) /\ other # queue[best] /\ IsMainThread(other)
    BY <1>1, <1>3, <1>4 DEF ForMainThread
  <2>2. PICK j \in DOMAIN queue : other = queue[j]
    BY <2>1 DEF Commands
  <2>3. best \in Nat /\ j \in Nat /\ best # j
    BY <2>1, <2>2, QueueFacts
  <2>4. best <= j => queue[best].id < other.id
    BY <2>2, <2>3, QueueFacts DEF IdsIncrease
  <2> QED
    BY <1>4, <2>1, <2>2, <2>4
<1> QED
  BY <1>5, <1>6

\* Nothing for the main thread that stays behind is more urgent, or as urgent
\* and older, than everything the processor took.
THEOREM UrgentFirst == Spec => MostUrgentGoes
<1>1. IInv /\ [Next]_vars =>
        [(\E loop \in Loops : ProcessQueue(loop)) =>
           \E cmd \in Commands(queue) \ Commands(queue') :
             \A other \in ForMainThread(queue') :
               \/ Rank(cmd) < Rank(other)
               \/ Rank(cmd) = Rank(other) /\ cmd.id < other.id]_vars
  BY MostUrgentGoesStep
<1> QED
  BY Inductive, <1>1, PTL DEF Spec, MostUrgentGoes
=============================================================================
