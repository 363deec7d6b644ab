---------------------------- MODULE RuntimeProofs ----------------------------
(***************************************************************************)
(* Proofs about what the servers run on, for every value of the constants: *)
(* the ExecutionQueue and the dispatcher lose, repeat and reorder nothing; *)
(* and a cancelled timer never fires again.                                *)
(***************************************************************************)
EXTENDS Runtime, TimerParts, SequenceLemmas

\* The time limits of a leaf that names no prover of its own.
USE SMTT(30), ZenonT(30)

(***************************************************************************)
(* ExecutionQueue                                                          *)
(***************************************************************************)
(* The mutex lets one producer at a time into the critical section that      *)
(* stores, and it has seen room there.                                       *)
RoomSeen ==
  /\ \A p, q \in Producers : ppc[p] = "push" /\ ppc[q] = "push" => p = q
  /\ \A p \in Producers : ppc[p] = "push" => ~Full

(* A consumer goes through the drain only after Shutdown, and it gives up    *)
(* when the queue is empty and nobody is about to store.                     *)
GivenUp ==
  \A c \in Consumers :
    /\ cpc[c] \in {"drain", "done"} => mShutdown
    /\ cpc[c] = "done" => mQueue = <<>> /\ \A p \in Producers : ppc[p] # "push"

QueueInv == TypeOK /\ FifoExactlyOnce /\ WithinCapacity /\ RoomSeen /\ GivenUp

(* A new queue is empty and nobody has called it. *)
LEMMA QueueInit == Init => QueueInv
<1> SUFFICES ASSUME Init PROVE QueueInv
  OBVIOUS
<1>1. TypeOK
  <2>1. mOptions \in [mBackpressure : Policies, mCapacity : Nat] /\ timeouts \subseteq Producers \cup Consumers
    BY OptionsAssumption, TimeoutsAssumption DEF Init
  <2>2. mShutdown \in BOOLEAN
    BY Zenon DEF Init
  <2>3. <<>> \in Seq(Producers)
    BY EmptySeq
  <2> QED
    BY <2>1, <2>2, <2>3 DEF Init, TypeOK, ProducerPoints, ConsumerPoints
<1>2. FifoExactlyOnce
  BY ConcatEmptySeq, EmptySeq DEF Init, FifoExactlyOnce
<1>3. WithinCapacity
  BY <1>1 DEF Init, WithinCapacity, TypeOK
<1>4. RoomSeen /\ GivenUp
  BY DEF Init, RoomSeen, GivenUp
<1> QED
  BY <1>1, <1>2, <1>3, <1>4 DEF QueueInv

(* A notify moves waiters to the mutex and nobody else anywhere. *)
LEMMA Notified ==
  ASSUME NEW D, NEW T, NEW pc \in [D -> T], "lock" \in T
  PROVE  /\ \A next \in NotifyOne(pc) :
              /\ next \in [D -> T]
              /\ \A x \in D : next[x] = pc[x] \/ (pc[x] = "waiting" /\ next[x] = "lock")
         /\ NotifyAll(pc) \in [D -> T]
         /\ \A x \in D : NotifyAll(pc)[x] = pc[x] \/ (pc[x] = "waiting" /\ NotifyAll(pc)[x] = "lock")
BY DEF NotifyOne, NotifyAll

(* What a notify does to the places of producers and consumers is harmless. *)
LEMMA NotifyKeeps ==
  ASSUME QueueInv, UNCHANGED <<config, items, mShutdown>>,
         ppc' \in NotifyOne(ppc) \/ ppc' = NotifyAll(ppc) \/ ppc' = ppc,
         cpc' \in NotifyOne(cpc) \/ cpc' = NotifyAll(cpc) \/ cpc' = cpc,
         spc' \in {"up", "notEmpty", "notFull", "down"}
  PROVE  QueueInv'
<1>1. /\ ppc' \in [Producers -> ProducerPoints]
      /\ \A p \in Producers : ppc'[p] = ppc[p] \/ (ppc[p] = "waiting" /\ ppc'[p] = "lock")
  <2>1. ppc \in [Producers -> ProducerPoints] /\ "lock" \in ProducerPoints
    BY DEF QueueInv, TypeOK, ProducerPoints
  <2> QED
    BY <2>1, Notified
<1>2. /\ cpc' \in [Consumers -> ConsumerPoints]
      /\ \A c \in Consumers : cpc'[c] = cpc[c] \/ (cpc[c] = "waiting" /\ cpc'[c] = "lock")
  <2>1. cpc \in [Consumers -> ConsumerPoints] /\ "lock" \in ConsumerPoints
    BY DEF QueueInv, TypeOK, ConsumerPoints
  <2> QED
    BY <2>1, Notified
<1>3. TypeOK'
  BY <1>1, <1>2 DEF QueueInv, TypeOK, config, items
<1>4. FifoExactlyOnce' /\ WithinCapacity'
  BY DEF QueueInv, FifoExactlyOnce, WithinCapacity, config, items
<1>5. RoomSeen'
  BY <1>1 DEF QueueInv, RoomSeen, Full, config, items
<1>6. GivenUp'
  BY <1>1, <1>2 DEF QueueInv, GivenUp, items
<1> QED
  BY <1>3, <1>4, <1>5, <1>6 DEF QueueInv

(* A pop moves the front of the queue to what has been taken. *)
LEMMA TakeKeeps ==
  ASSUME QueueInv, mQueue # <<>>, Take, UNCHANGED config
  PROVE  /\ mQueue' \in Seq(Producers) /\ taken' \in Seq(Producers) /\ mSize' \in Nat
         /\ put' \in Seq(Producers) /\ FifoExactlyOnce' /\ WithinCapacity'
         /\ Len(mQueue') = Len(mQueue) - 1 /\ (~Full => ~Full')
<1>1. /\ mQueue \in Seq(Producers) /\ taken \in Seq(Producers) /\ put \in Seq(Producers)
      /\ mSize = Len(mQueue) /\ mOptions.mCapacity \in Nat
  BY DEF QueueInv, TypeOK, WithinCapacity
<1>2. /\ Head(mQueue) \in Producers /\ Tail(mQueue) \in Seq(Producers)
      /\ Len(Tail(mQueue)) = Len(mQueue) - 1 /\ Len(mQueue) \in Nat \ {0}
  BY <1>1, HeadThenTail
<1>3. mQueue' \in Seq(Producers) /\ taken' \in Seq(Producers) /\ put' \in Seq(Producers)
  BY <1>1, <1>2, AppendEnd DEF Take
<1>4. taken' \o mQueue' = taken \o mQueue
  BY <1>1, MoveHead, SMTT(20) DEF Take
<1>5. FifoExactlyOnce'
  BY <1>4 DEF QueueInv, FifoExactlyOnce, Take
<1>6. mSize' \in Nat /\ WithinCapacity' /\ Len(mQueue') = Len(mQueue) - 1
  BY <1>1, <1>2 DEF QueueInv, WithinCapacity, Take, config
<1>7. ~Full => ~Full'
  BY <1>1, <1>2 DEF Full, Take, config
<1> QED
  BY <1>3, <1>5, <1>6, <1>7

(* Every step of a producer keeps order, size and bound. *)
LEMMA ProducerKeeps ==
  ASSUME QueueInv, NEW p \in Producers, ProducerStep(p)
  PROVE  QueueInv'
<1>1. CASE Push(p) \/ TryPushImpl(p) \/ PushBlocking(p) \/ PushBlocking_Wait(p)
  <2> USE DEF Push, TryPushImpl, PushBlocking, PushBlocking_Wait
  <2>1. UNCHANGED <<config, items, mShutdown, cpc, spc>>
    BY <1>1
  <2>2. PICK to \in ProducerPoints :
          /\ ppc' = [ppc EXCEPT ![p] = to]
          /\ to = "push" => LockFree /\ ~mShutdown /\ ~Full
    BY <1>1 DEF ProducerPoints
  <2> USE DEF config, items
  <2>3. TypeOK'
    BY <2>1, <2>2 DEF QueueInv, TypeOK
  <2>4. FifoExactlyOnce' /\ WithinCapacity'
    BY <2>1 DEF QueueInv, FifoExactlyOnce, WithinCapacity
  <2>5. RoomSeen'
    BY <2>1, <2>2 DEF QueueInv, RoomSeen, Full, LockFree, TypeOK
  <2>6. GivenUp'
    BY <2>1, <2>2 DEF QueueInv, GivenUp, TypeOK
  <2> QED
    BY <2>3, <2>4, <2>5, <2>6 DEF QueueInv
<1>2. CASE Push_Store(p)
  <2>1. /\ mQueue \in Seq(Producers) /\ taken \in Seq(Producers) /\ put \in Seq(Producers)
        /\ mSize = Len(mQueue) /\ Len(mQueue) \in Nat /\ mOptions.mCapacity \in Nat
    BY LenProperties DEF QueueInv, TypeOK, WithinCapacity
  <2>2. /\ mQueue' \in Seq(Producers) /\ put' \in Seq(Producers)
        /\ Len(mQueue') = Len(mQueue) + 1
    BY <1>2, <2>1, AppendEnd DEF Push_Store
  <2>3. ppc' = [ppc EXCEPT ![p] = "notify"] /\ ppc[p] = "push"
    BY <1>2 DEF Push_Store
  <2>4. TypeOK'
    BY <1>2, <2>1, <2>2, <2>3 DEF QueueInv, TypeOK, Push_Store, config, ProducerPoints
  <2>5. FifoExactlyOnce'
    BY <1>2, <2>1, PutLast DEF QueueInv, FifoExactlyOnce, Push_Store
  <2>6. WithinCapacity'
    BY <1>2, <2>1, <2>2, <2>3 DEF QueueInv, RoomSeen, Full, WithinCapacity, Push_Store, config
  <2>7. RoomSeen'
    BY <2>3 DEF QueueInv, RoomSeen, TypeOK
  <2>8. GivenUp'
    BY <1>2, <2>3 DEF QueueInv, GivenUp, Push_Store
  <2> QED
    BY <2>4, <2>5, <2>6, <2>7, <2>8 DEF QueueInv
<1>3. CASE Push_Notify(p)
  <2>1. /\ cpc' \in [Consumers -> ConsumerPoints]
        /\ \A c \in Consumers : cpc'[c] = cpc[c] \/ (cpc[c] = "waiting" /\ cpc'[c] = "lock")
    <3>1. cpc \in [Consumers -> ConsumerPoints] /\ "lock" \in ConsumerPoints
      BY DEF QueueInv, TypeOK, ConsumerPoints
    <3> QED
      BY <1>3, <3>1, Notified DEF Push_Notify
  <2>2. ppc' = [ppc EXCEPT ![p] = "accepted"] /\ UNCHANGED <<config, items, mShutdown, spc>>
    BY <1>3 DEF Push_Notify
  <2> USE DEF config, items
  <2>3. TypeOK'
    BY <2>1, <2>2 DEF QueueInv, TypeOK, ProducerPoints
  <2>4. FifoExactlyOnce' /\ WithinCapacity'
    BY <2>2 DEF QueueInv, FifoExactlyOnce, WithinCapacity
  <2>5. RoomSeen'
    BY <2>2 DEF QueueInv, RoomSeen, Full, TypeOK
  <2>6. GivenUp'
    BY <2>1, <2>2 DEF QueueInv, GivenUp, TypeOK
  <2> QED
    BY <2>3, <2>4, <2>5, <2>6 DEF QueueInv
<1> QED
  BY <1>1, <1>2, <1>3 DEF ProducerStep

(* Every step of a consumer keeps order, size and bound, and the last one    *)
(* leaves an empty queue.                                                    *)
LEMMA ConsumerKeeps ==
  ASSUME QueueInv, NEW c \in Consumers, ConsumerStep(c)
  PROVE  QueueInv'
<1> DEFINE Quiet ==
             /\ UNCHANGED <<config, items, mShutdown, ppc, spc>>
             /\ \E to \in ConsumerPoints :
                  /\ cpc' = [cpc EXCEPT ![c] = to]
                  /\ to = "drain" => mShutdown
                  /\ to = "done" => cpc[c] = "drain" /\ mQueue = <<>> /\ LockFree
           Taking ==
             /\ UNCHANGED <<config, mShutdown, spc>>
             /\ mQueue # <<>> /\ Take
             /\ cpc' = cpc \/ cpc' = [cpc EXCEPT ![c] = "notify"] \/ cpc' = [cpc EXCEPT ![c] = "pop"]
             /\ ppc' = ppc \/ ppc' \in NotifyOne(ppc)
<1>1. CASE Quiet
  <2>1. PICK to \in ConsumerPoints :
          /\ cpc' = [cpc EXCEPT ![c] = to]
          /\ to = "drain" => mShutdown
          /\ to = "done" => cpc[c] = "drain" /\ mQueue = <<>> /\ LockFree
    BY <1>1, Zenon
  <2>2. TypeOK'
    BY <1>1, <2>1 DEF QueueInv, TypeOK, config, items
  <2>3. FifoExactlyOnce' /\ WithinCapacity'
    BY <1>1 DEF QueueInv, FifoExactlyOnce, WithinCapacity, config, items
  <2>4. RoomSeen'
    BY <1>1 DEF QueueInv, RoomSeen, Full, config, items
  <2>5. GivenUp'
    BY <1>1, <2>1 DEF QueueInv, GivenUp, TypeOK, LockFree, items
  <2> QED
    BY <2>2, <2>3, <2>4, <2>5 DEF QueueInv
<1>2. CASE Taking
  <2>1. /\ mQueue' \in Seq(Producers) /\ taken' \in Seq(Producers) /\ mSize' \in Nat
        /\ put' \in Seq(Producers) /\ FifoExactlyOnce' /\ WithinCapacity'
        /\ (~Full => ~Full')
    BY <1>2, TakeKeeps
  <2>2. /\ ppc' \in [Producers -> ProducerPoints]
        /\ \A p \in Producers : ppc'[p] = ppc[p] \/ (ppc[p] = "waiting" /\ ppc'[p] = "lock")
    <3>1. ppc \in [Producers -> ProducerPoints] /\ "lock" \in ProducerPoints
      BY DEF QueueInv, TypeOK, ProducerPoints
    <3> QED
      BY <1>2, <3>1, Notified
  <2>3. /\ cpc' \in [Consumers -> ConsumerPoints]
        /\ \A d \in Consumers : cpc'[d] = cpc[d] \/ cpc'[d] \in {"notify", "pop"}
    BY <1>2, Zenon DEF QueueInv, TypeOK, ConsumerPoints
  <2>4. TypeOK'
    BY <1>2, <2>1, <2>2, <2>3 DEF QueueInv, TypeOK, config
  <2>5. RoomSeen'
    BY <2>1, <2>2, Zenon DEF QueueInv, RoomSeen
  <2>6. GivenUp'
    BY <1>2, <2>3 DEF QueueInv, GivenUp
  <2> QED
    BY <2>1, <2>4, <2>5, <2>6 DEF QueueInv
<1>3. CASE PopWait_Notify(c)
  <2>1. /\ ppc' \in [Producers -> ProducerPoints]
        /\ \A p \in Producers : ppc'[p] = ppc[p] \/ (ppc[p] = "waiting" /\ ppc'[p] = "lock")
    <3>1. ppc \in [Producers -> ProducerPoints] /\ "lock" \in ProducerPoints
      BY DEF QueueInv, TypeOK, ProducerPoints
    <3> QED
      BY <1>3, <3>1, Notified DEF PopWait_Notify
  <2>2. cpc' = [cpc EXCEPT ![c] = "pop"] /\ UNCHANGED <<config, items, mShutdown, spc>>
    BY <1>3 DEF PopWait_Notify
  <2>3. TypeOK'
    BY <2>1, <2>2 DEF QueueInv, TypeOK, ConsumerPoints, config, items
  <2>4. FifoExactlyOnce' /\ WithinCapacity'
    BY <2>2 DEF QueueInv, FifoExactlyOnce, WithinCapacity, config, items
  <2>5. RoomSeen'
    BY <2>1, <2>2 DEF QueueInv, RoomSeen, Full, config, items
  <2>6. GivenUp'
    BY <2>1, <2>2 DEF QueueInv, GivenUp, TypeOK, items
  <2> QED
    BY <2>3, <2>4, <2>5, <2>6 DEF QueueInv
<1>4. CASE TryPop(c)
  BY <1>1, <1>2, <1>4 DEF TryPop, ConsumerPoints
<1>5. CASE PopWait_Check(c)
  BY <1>1, <1>5, Zenon DEF PopWait_Check, ConsumerPoints
<1>6. CASE PopWait(c)
  BY <1>1, <1>2, <1>6 DEF PopWait, ConsumerPoints
<1>7. CASE PopWait_Wait(c)
  BY <1>1, <1>7 DEF PopWait_Wait, ConsumerPoints
<1>8. CASE PopWait_Drain(c)
  BY <1>1, <1>2, <1>8 DEF PopWait_Drain, ConsumerPoints
<1> QED
  BY <1>3, <1>4, <1>5, <1>6, <1>7, <1>8 DEF ConsumerStep

(* Every step keeps the invariant. *)
LEMMA QueueStep == QueueInv /\ [Next]_vars => QueueInv'
<1> SUFFICES ASSUME QueueInv, [Next]_vars PROVE QueueInv'
  OBVIOUS
<1>1. CASE \E p \in Producers : ProducerStep(p)
  BY <1>1, ProducerKeeps
<1>2. CASE \E c \in Consumers : ConsumerStep(c)
  BY <1>2, ConsumerKeeps
<1>3. CASE Spurious
  BY <1>3, NotifyKeeps DEF Spurious, QueueInv, TypeOK
<1>4. CASE Shutdown
  <2>1. TypeOK'
    <3>1. mShutdown' \in BOOLEAN
      BY <1>4, Zenon DEF Shutdown
    <3> QED
      BY <1>4, <3>1 DEF Shutdown, QueueInv, TypeOK, config, items
  <2> QED
    BY <1>4, <2>1 DEF Shutdown, QueueInv, FifoExactlyOnce, WithinCapacity, RoomSeen, Full,
       GivenUp, config, items
<1>5. CASE Shutdown_Notify
  BY <1>5, NotifyKeeps DEF Shutdown_Notify
<1>6. CASE UNCHANGED vars
  BY <1>6 DEF vars, QueueInv, TypeOK, FifoExactlyOnce, WithinCapacity, RoomSeen, Full, GivenUp
<1> QED
  BY <1>1, <1>2, <1>3, <1>4, <1>5, <1>6 DEF Next

(* ExecutionQueue, whoever calls it: first in first out and exactly once     *)
(* through all three places that pop, never past the capacity, and nothing   *)
(* left when every consumer has given up after Shutdown.                     *)
THEOREM QueueIsExact == Spec => []QueueExact
<1>1. QueueInv => QueueExact
  BY ConsumersAssumption DEF QueueInv, QueueExact, NothingLeftBehind, GivenUp
<1> QED
  BY <1>1, QueueInit, QueueStep, PTL DEF Spec

(***************************************************************************)
(* KeyedDispatcher                                                         *)
(***************************************************************************)
(* The flag is up exactly between Initialize and Shutdown; while it is, no   *)
(* worker leaves, and the table is cleared only when all have.               *)
DispatcherControl ==
  /\ d_mRunning <=> d_spc = "up"
  /\ \A w \in KD!Workers :
       /\ d_spc = "created" => d_wpc[w] = "none" /\ d_mQueue[w] = <<>>
       /\ d_spc = "up" => d_wpc[w] \notin {"stopping", "exited"}
       /\ d_spc \in {"clear", "down"} => d_wpc[w] = "exited"
       /\ d_current[w] # <<>> <=> d_wpc[w] = "execute"
       /\ Len(d_current[w]) <= 1
  /\ d_spc \in {"created", "down"} => \A t \in DispatchTasks : d_dpc[t] # "inside"

(* A worker's tasks, from the first it has executed to the last in its       *)
(* queue, are those pushed to it, until the queues are thrown away.          *)
Lane(w) == d_spc # "down" => d_executed[w] \o (d_current[w] \o d_mQueue[w]) = d_pushed[w]

(* A call that has not returned has pushed nothing. *)
PushedByReturned ==
  \A t \in DispatchTasks, w \in KD!Workers :
    t \in KD!Elements(d_pushed[w]) => d_dpc[t] = "returned"

(* What was queued when Shutdown began has been executed, is being executed, *)
(* or waits for a worker that has not left.                                  *)
StillServed(t) ==
  \E w \in KD!Workers :
    \/ t \in KD!Elements(d_executed[w]) \/ t \in KD!Elements(d_current[w])
    \/ d_wpc[w] # "exited" /\ t \in KD!Elements(d_mQueue[w])

DispatcherInv ==
  /\ KD!TypeOK /\ DispatcherControl /\ PushedByReturned
  /\ \A w \in KD!Workers : Lane(w)
  /\ \A t \in d_queuedAtStop : StillServed(t)

(* Nothing runs before Initialize. *)
LEMMA DispatcherInit == KD!Init => DispatcherInv
<1> SUFFICES ASSUME KD!Init PROVE DispatcherInv
  OBVIOUS
<1> USE DEF KD!Init
<1>1. KD!TypeOK
  <2>1. d_mRunning \in BOOLEAN
    BY Zenon
  <2>2. <<>> \in Seq(DispatchTasks)
    BY EmptySeq
  <2>3. d_mShutdown \in [KD!Workers -> BOOLEAN]
    BY Zenon
  <2>4. d_sIdx \in 0 .. DispatchWorkers
    BY DispatcherAssumption
  <2> QED
    BY <2>1, <2>2, <2>3, <2>4 DEF KD!TypeOK
<1>2. DispatcherControl
  BY DEF DispatcherControl
<1>3. PushedByReturned
  BY DEF PushedByReturned, KD!Elements
<1>4. \A w \in KD!Workers : Lane(w)
  BY DEF Lane
<1>5. \A t \in d_queuedAtStop : StillServed(t)
  OBVIOUS
<1> QED
  BY <1>1, <1>2, <1>3, <1>4, <1>5 DEF DispatcherInv

(* A step that moves no task keeps what the tasks' places say. *)
LEMMA NoTaskMoves ==
  ASSUME DispatcherInv, KD!TypeOK', DispatcherControl',
         UNCHANGED <<d_mQueue, d_current, d_executed, d_pushed>>,
         d_spc = "down" => d_spc' = "down",
         \A t \in DispatchTasks : d_dpc[t] = "returned" => d_dpc'[t] = "returned",
         \A w \in KD!Workers : d_wpc'[w] = "exited" => d_wpc[w] = "exited" \/ d_mQueue[w] = <<>>,
         \A t \in d_queuedAtStop' : StillServed(t)
  PROVE  DispatcherInv'
<1>1. PushedByReturned'
  BY DEF DispatcherInv, PushedByReturned, KD!Elements
<1>2. \A w \in KD!Workers : Lane(w)'
  BY Zenon DEF DispatcherInv, Lane
<1>3. ASSUME NEW t \in d_queuedAtStop' PROVE StillServed(t)'
  <2>1. PICK w \in KD!Workers :
          \/ t \in KD!Elements(d_executed[w]) \/ t \in KD!Elements(d_current[w])
          \/ d_wpc[w] # "exited" /\ t \in KD!Elements(d_mQueue[w])
    BY <1>3 DEF StillServed
  <2>2. t \in KD!Elements(d_mQueue[w]) => d_mQueue[w] # <<>>
    BY DEF KD!Elements
  <2> QED
    BY <2>1, <2>2 DEF StillServed, KD!Elements
<1> QED
  BY <1>1, <1>2, <1>3 DEF DispatcherInv

(* A queue one task longer holds that task too. *)
LEMMA TaskElements ==
  ASSUME NEW q \in Seq(DispatchTasks), NEW t \in DispatchTasks
  PROVE  KD!Elements(Append(q, t)) = KD!Elements(q) \cup {t}
BY ElementsAppend DEF KD!Elements

(* The task a worker takes, and what it leaves. *)
LEMMA FirstTask ==
  ASSUME NEW q \in Seq(DispatchTasks), q # <<>>
  PROVE  /\ Head(q) \in DispatchTasks /\ Tail(q) \in Seq(DispatchTasks)
         /\ <<Head(q)>> \in Seq(DispatchTasks) /\ Len(<<Head(q)>>) = 1 /\ <<Head(q)>> # <<>>
BY HeadThenTail

(* The tasks of a queue are its first task and those behind it. *)
LEMMA FirstElement ==
  ASSUME NEW q \in Seq(DispatchTasks), q # <<>>
  PROVE  KD!Elements(q) = KD!Elements(Tail(q)) \cup {Head(q)}
BY ElementsTail, Zenon DEF KD!Elements

(* Initialize starts the workers. *)
LEMMA InitializeKeeps == DispatcherInv /\ KD!Initialize => DispatcherInv'
<1> SUFFICES ASSUME DispatcherInv, KD!Initialize PROVE DispatcherInv'
  OBVIOUS
<1> USE DEF KD!Initialize, KD!calls
<1>1. KD!TypeOK'
  <2>1. d_mRunning' \in BOOLEAN
    BY Zenon
  <2> QED
    BY <2>1 DEF DispatcherInv, KD!TypeOK
<1>2. DispatcherControl'
  BY DEF DispatcherInv, DispatcherControl, KD!TypeOK
<1> QED
  BY <1>1, <1>2, NoTaskMoves, Zenon DEF DispatcherInv

(* Dispatch: the check and the push. *)
LEMMA DispatchKeeps ==
  ASSUME DispatcherInv, NEW t \in DispatchTasks, KD!Dispatch_Enter(t) \/ KD!Dispatch_Push(t)
  PROVE  DispatcherInv'
<1>1. CASE KD!Dispatch_Enter(t)
  <2> USE <1>1 DEF KD!Dispatch_Enter, KD!threads
  <2>1. KD!TypeOK'
    BY Zenon DEF DispatcherInv, KD!TypeOK
  <2>2. DispatcherControl'
    BY DEF DispatcherInv, DispatcherControl, KD!TypeOK
  <2>3. \A u \in DispatchTasks : d_dpc[u] = "returned" => d_dpc'[u] = "returned"
    BY DEF DispatcherInv, KD!TypeOK
  <2> QED
    BY <2>1, <2>2, <2>3, NoTaskMoves DEF DispatcherInv
<1>2. CASE KD!Dispatch_Push(t)
  <2> DEFINE v == KD!KeyToWorkerIndex(t)
  <2>1. v \in KD!Workers
    BY DispatcherAssumption DEF KD!KeyToWorkerIndex, KD!Workers
  <2>2. /\ d_dpc[t] = "inside" /\ d_dpc' = [d_dpc EXCEPT ![t] = "returned"]
        /\ UNCHANGED <<d_mRunning, d_mBackpressure, d_mShutdown, KD!threads, d_spc, d_sIdx, d_queuedAtStop>>
        /\ d_spc \notin {"created", "down"}
    BY <1>2 DEF KD!Dispatch_Push, DispatcherInv, DispatcherControl
  <2>3. CASE UNCHANGED <<d_mQueue, d_pushed>>
    <3>1. KD!TypeOK'
      BY <1>2, <2>2, <2>3, Zenon DEF KD!Dispatch_Push, DispatcherInv, KD!TypeOK, KD!threads
    <3>2. DispatcherControl'
      BY <2>2, <2>3 DEF DispatcherInv, DispatcherControl, KD!TypeOK, KD!threads
    <3> QED
      BY <2>2, <2>3, <3>1, <3>2, NoTaskMoves, Zenon DEF DispatcherInv, KD!threads, KD!TypeOK
  <2>4. CASE /\ d_mQueue' = [d_mQueue EXCEPT ![v] = Append(@, t)]
             /\ d_pushed' = [d_pushed EXCEPT ![v] = Append(@, t)]
             /\ d_result' = [d_result EXCEPT ![t] = "queued"]
    <3> HIDE DEF v
    <3>1. /\ d_mQueue[v] \in Seq(DispatchTasks) /\ d_pushed[v] \in Seq(DispatchTasks)
          /\ d_executed[v] \in Seq(DispatchTasks) /\ d_current[v] \in Seq(DispatchTasks)
      BY <2>1 DEF DispatcherInv, KD!TypeOK
    <3>2. /\ Append(d_mQueue[v], t) \in Seq(DispatchTasks) /\ Append(d_pushed[v], t) \in Seq(DispatchTasks)
          /\ d_current[v] \o d_mQueue[v] \in Seq(DispatchTasks)
      BY <3>1, AppendEnd, ConcatProperties
    <3>3. KD!TypeOK'
      BY <2>1, <2>2, <2>4, <3>2 DEF DispatcherInv, KD!TypeOK, KD!threads
    <3>4. DispatcherControl'
      BY <2>1, <2>2, <2>4 DEF DispatcherInv, DispatcherControl, KD!TypeOK, KD!threads
    <3>5. PushedByReturned'
      <4>1. KD!Elements(d_pushed'[v]) = KD!Elements(d_pushed[v]) \cup {t}
        <5>1. d_pushed'[v] = Append(d_pushed[v], t)
          BY <2>1, <2>4 DEF DispatcherInv, KD!TypeOK
        <5> QED
          BY <3>1, <5>1, TaskElements, Zenon
      <4>2. \A w \in KD!Workers \ {v} : d_pushed'[w] = d_pushed[w]
        BY <2>4 DEF DispatcherInv, KD!TypeOK
      <4> QED
        BY <2>2, <4>1, <4>2, Zenon DEF DispatcherInv, PushedByReturned, KD!TypeOK
    <3>6. ASSUME NEW w \in KD!Workers PROVE Lane(w)'
      <4>1. CASE w = v
        <5>1. d_executed[v] \o (d_current[v] \o Append(d_mQueue[v], t))
                = Append(d_executed[v] \o (d_current[v] \o d_mQueue[v]), t)
          <6>1. \A f, q \in Seq(DispatchTasks) : f \o Append(q, t) = Append(f \o q, t)
            BY PutLast
          <6>2. d_current[v] \o Append(d_mQueue[v], t) = Append(d_current[v] \o d_mQueue[v], t)
            BY <3>1, <6>1, Zenon
          <6> QED
            BY <3>1, <3>2, <6>1, <6>2, Zenon
        <5> QED
          BY <2>1, <2>2, <2>4, <4>1, <5>1, Zenon DEF DispatcherInv, Lane, KD!TypeOK, KD!threads
      <4>2. CASE w # v
        BY <2>2, <2>4, <4>2 DEF DispatcherInv, Lane, KD!TypeOK, KD!threads
      <4> QED
        BY <4>1, <4>2
    <3>7. \A w \in KD!Workers : KD!Elements(d_mQueue[w]) \subseteq KD!Elements(d_mQueue'[w])
      <4>1. KD!Elements(d_mQueue'[v]) = KD!Elements(d_mQueue[v]) \cup {t}
        <5>1. d_mQueue'[v] = Append(d_mQueue[v], t)
          BY <2>1, <2>4 DEF DispatcherInv, KD!TypeOK
        <5> QED
          BY <3>1, <5>1, TaskElements, Zenon
      <4>2. \A w \in KD!Workers \ {v} : d_mQueue'[w] = d_mQueue[w]
        BY <2>4 DEF DispatcherInv, KD!TypeOK
      <4> QED
        BY <4>1, <4>2
    <3>8. \A u \in d_queuedAtStop' : StillServed(u)'
      BY <2>2, <3>7 DEF DispatcherInv, StillServed, KD!threads
    <3> QED
      BY <3>3, <3>4, <3>5, <3>6, <3>8 DEF DispatcherInv
  <2> QED
    BY <1>2, <2>3, <2>4 DEF KD!Dispatch_Push
<1> QED
  BY <1>1, <1>2

(* A worker takes a task, executes it, or looks whether it may leave. *)
LEMMA WorkerKeeps ==
  ASSUME DispatcherInv, NEW v \in KD!Workers, KD!WorkerThreadFunc(v)
  PROVE  DispatcherInv'
<1>0. /\ d_mQueue[v] \in Seq(DispatchTasks) /\ d_executed[v] \in Seq(DispatchTasks)
      /\ d_current[v] \in Seq(DispatchTasks)
  BY DEF DispatcherInv, KD!TypeOK
<1>a. /\ d_spc # "created" \/ d_wpc[v] = "none"
      /\ d_spc \in {"clear", "down"} => d_wpc[v] = "exited"
  BY DEF DispatcherInv, DispatcherControl
<1>1. CASE KD!Worker_Pop(v) /\ d_mQueue[v] # <<>>
  <2>1. /\ d_current' = [d_current EXCEPT ![v] = <<Head(d_mQueue[v])>>]
        /\ d_mQueue' = [d_mQueue EXCEPT ![v] = Tail(@)]
        /\ d_wpc' = [d_wpc EXCEPT ![v] = "execute"] /\ d_wpc[v] = "pop"
        /\ UNCHANGED <<d_mRunning, d_mBackpressure, d_mShutdown, d_dpc, d_result, d_executed, d_spc,
                       d_sIdx, d_pushed, d_queuedAtStop>>
    BY <1>1, SMTT(20) DEF KD!Worker_Pop, KD!calls
  <2>2. /\ Head(d_mQueue[v]) \in DispatchTasks /\ Tail(d_mQueue[v]) \in Seq(DispatchTasks)
        /\ <<Head(d_mQueue[v])>> \in Seq(DispatchTasks) /\ Len(<<Head(d_mQueue[v])>>) = 1
        /\ <<Head(d_mQueue[v])>> # <<>>
    BY <1>0, <1>1, FirstTask, Zenon
  <2>3. /\ d_current'[v] = <<Head(d_mQueue[v])>> /\ d_mQueue'[v] = Tail(d_mQueue[v])
        /\ d_wpc'[v] = "execute"
        /\ \A w \in KD!Workers \ {v} : /\ d_current'[w] = d_current[w] /\ d_mQueue'[w] = d_mQueue[w]
                                       /\ d_wpc'[w] = d_wpc[w]
    BY <2>1 DEF DispatcherInv, KD!TypeOK
  <2>4. KD!TypeOK'
    BY <2>1, <2>2 DEF DispatcherInv, KD!TypeOK
  <2>5. DispatcherControl'
    <3>1. d_current'[v] # <<>> /\ Len(d_current'[v]) = 1
      BY <2>2, <2>3
    <3>2. /\ d_mRunning' <=> d_spc' = "up"
          /\ d_spc' \in {"created", "down"} => \A t \in DispatchTasks : d_dpc'[t] # "inside"
      BY <2>1 DEF DispatcherInv, DispatcherControl
    <3> QED
      BY <1>a, <2>1, <2>3, <3>1, <3>2 DEF DispatcherInv, DispatcherControl
  <2>6. PushedByReturned'
    BY <2>1 DEF DispatcherInv, PushedByReturned, KD!Elements
  <2>7. ASSUME NEW w \in KD!Workers PROVE Lane(w)'
    <3>1. d_current[v] = <<>>
      BY <2>1 DEF DispatcherInv, DispatcherControl
    <3>2. d_executed[v] \o (<<Head(d_mQueue[v])>> \o Tail(d_mQueue[v]))
            = d_executed[v] \o (<<>> \o d_mQueue[v])
      BY <1>0, <1>1, TakeInHand, Zenon
    <3>3. CASE w = v
      BY <2>1, <2>3, <3>1, <3>2, <3>3, Zenon DEF DispatcherInv, Lane
    <3>4. CASE w # v
      BY <2>1, <2>3, <3>4, Zenon DEF DispatcherInv, Lane
    <3> QED
      BY <3>3, <3>4
  <2>8. ASSUME NEW t \in d_queuedAtStop' PROVE StillServed(t)'
    <3>1. KD!Elements(d_mQueue[v]) = KD!Elements(d_mQueue'[v]) \cup {Head(d_mQueue[v])}
      BY <1>0, <1>1, <2>3, FirstElement, Zenon
    <3>2. Head(d_mQueue[v]) \in KD!Elements(d_current'[v])
      BY <2>2, <2>3 DEF KD!Elements
    <3>3. d_current[v] = <<>>
      BY <2>1 DEF DispatcherInv, DispatcherControl
    <3>4. PICK w \in KD!Workers :
            \/ t \in KD!Elements(d_executed[w]) \/ t \in KD!Elements(d_current[w])
            \/ d_wpc[w] # "exited" /\ t \in KD!Elements(d_mQueue[w])
      BY <2>1, <2>8 DEF DispatcherInv, StillServed
    <3>5. t \notin KD!Elements(<<>>)
      BY DEF KD!Elements
    <3>6. CASE w = v
      BY <2>1, <2>3, <3>1, <3>2, <3>3, <3>4, <3>5, <3>6, Zenon DEF StillServed
    <3>7. CASE w # v
      BY <2>1, <2>3, <3>4, <3>7, Zenon DEF StillServed
    <3> QED
      BY <3>6, <3>7
  <2> QED
    BY <2>4, <2>5, <2>6, <2>7, <2>8 DEF DispatcherInv
<1>2. CASE (KD!Worker_Pop(v) /\ d_mQueue[v] = <<>>) \/ KD!Worker_Failed(v)
  <2>1. /\ d_wpc[v] \in {"pop", "failed", "stopping"}
        /\ \/ d_wpc[v] = "pop" /\ d_wpc' = [d_wpc EXCEPT ![v] = "failed"]
           \/ /\ d_wpc[v] = "failed"
              /\ d_wpc' = [d_wpc EXCEPT ![v] = IF d_mRunning THEN "pop" ELSE "stopping"]
           \/ /\ d_wpc[v] = "stopping"
              /\ d_wpc' = [d_wpc EXCEPT ![v] = IF d_mQueue[v] = <<>> THEN "exited" ELSE "pop"]
        /\ UNCHANGED <<d_mRunning, d_mBackpressure, d_mQueue, d_mShutdown, d_dpc, d_result, d_current,
                       d_executed, d_spc, d_sIdx, d_pushed, d_queuedAtStop>>
    BY <1>2 DEF KD!Worker_Pop, KD!Worker_Failed, KD!calls
  <2>2. KD!TypeOK'
    BY <2>1, Zenon DEF DispatcherInv, KD!TypeOK
  <2>3. DispatcherControl'
    BY <1>a, <2>1 DEF DispatcherInv, DispatcherControl, KD!TypeOK
  <2>4. \A w \in KD!Workers : d_wpc'[w] = "exited" => d_wpc[w] = "exited" \/ d_mQueue[w] = <<>>
    BY <2>1 DEF DispatcherInv, KD!TypeOK
  <2> QED
    BY <2>1, <2>2, <2>3, <2>4, NoTaskMoves DEF DispatcherInv
<1>3. CASE KD!Worker_Execute(v)
  <2>1. /\ d_executed' = [d_executed EXCEPT ![v] = Append(@, Head(d_current[v]))]
        /\ d_current' = [d_current EXCEPT ![v] = <<>>]
        /\ d_wpc' = [d_wpc EXCEPT ![v] = "pop"] /\ d_wpc[v] = "execute"
        /\ UNCHANGED <<d_mRunning, d_mBackpressure, d_mQueue, d_mShutdown, d_dpc, d_result, d_spc,
                       d_sIdx, d_pushed, d_queuedAtStop>>
    BY <1>3 DEF KD!Worker_Execute, KD!calls
  <2>2. d_current[v] # <<>> /\ Len(d_current[v]) <= 1
    BY <2>1 DEF DispatcherInv, DispatcherControl
  <2>3. /\ Head(d_current[v]) \in DispatchTasks
        /\ KD!Elements(d_current[v]) = {Head(d_current[v])}
    BY <1>0, <2>2, OnlyOne DEF KD!Elements
  <2>4. Append(d_executed[v], Head(d_current[v])) \in Seq(DispatchTasks) /\ <<>> \in Seq(DispatchTasks)
    BY <1>0, <2>3, AppendEnd, EmptySeq
  <2>5. /\ d_executed'[v] = Append(d_executed[v], Head(d_current[v]))
        /\ d_current'[v] = <<>> /\ d_wpc'[v] = "pop"
        /\ \A w \in KD!Workers \ {v} : /\ d_current'[w] = d_current[w] /\ d_executed'[w] = d_executed[w]
                                       /\ d_wpc'[w] = d_wpc[w]
    BY <2>1 DEF DispatcherInv, KD!TypeOK
  <2>6. KD!TypeOK'
    BY <2>1, <2>4 DEF DispatcherInv, KD!TypeOK
  <2>7. DispatcherControl'
    BY <1>a, <2>1, <2>5 DEF DispatcherInv, DispatcherControl
  <2>8. PushedByReturned'
    BY <2>1, Zenon DEF DispatcherInv, PushedByReturned, KD!Elements
  <2>9. ASSUME NEW w \in KD!Workers PROVE Lane(w)'
    <3>1. Append(d_executed[v], Head(d_current[v])) \o (<<>> \o d_mQueue[v])
            = d_executed[v] \o (d_current[v] \o d_mQueue[v])
      <4>1. \A e, c, q \in Seq(DispatchTasks) :
              c # <<>> /\ Len(c) <= 1 => Append(e, Head(c)) \o (<<>> \o q) = e \o (c \o q)
        BY FinishInHand
      <4> QED
        BY <1>0, <2>2, <4>1, Zenon
    <3>2. CASE w = v
      BY <2>1, <2>5, <3>1, <3>2, Zenon DEF DispatcherInv, Lane
    <3>3. CASE w # v
      BY <2>1, <2>5, <3>3, Zenon DEF DispatcherInv, Lane
    <3> QED
      BY <3>2, <3>3
  <2>10. ASSUME NEW t \in d_queuedAtStop' PROVE StillServed(t)'
    <3>1. KD!Elements(d_executed'[v]) = KD!Elements(d_executed[v]) \cup KD!Elements(d_current[v])
      <4>1. KD!Elements(Append(d_executed[v], Head(d_current[v]))) = KD!Elements(d_executed[v]) \cup {Head(d_current[v])}
        BY ONLY <1>0, <2>3, TaskElements
      <4> QED
        BY ONLY <2>3, <2>5, <4>1
    <3>2. PICK w \in KD!Workers :
            \/ t \in KD!Elements(d_executed[w]) \/ t \in KD!Elements(d_current[w])
            \/ d_wpc[w] # "exited" /\ t \in KD!Elements(d_mQueue[w])
      BY <2>1, <2>10 DEF DispatcherInv, StillServed
    <3>3. CASE w = v
      BY <2>1, <2>5, <3>1, <3>2, <3>3, Zenon DEF StillServed
    <3>4. CASE w # v
      BY <2>1, <2>5, <3>2, <3>4 DEF StillServed
    <3> QED
      BY <3>3, <3>4
  <2> QED
    BY <2>6, <2>7, <2>8, <2>9, <2>10 DEF DispatcherInv
<1> QED
  BY <1>1, <1>2, <1>3 DEF KD!WorkerThreadFunc

(* Shutdown: the flag, the queues, the threads, the worker table. *)
LEMMA ShutdownKeeps ==
  ASSUME DispatcherInv, KD!Shutdown_Stop \/ KD!Shutdown
  PROVE  DispatcherInv'
<1>1. CASE KD!Shutdown_Stop
  <2> USE <1>1 DEF KD!Shutdown_Stop, KD!calls, KD!threads
  <2>0. /\ d_spc = "up" /\ d_spc' = "close" /\ d_mRunning' = FALSE /\ d_sIdx' = 0
        /\ UNCHANGED <<d_mBackpressure, d_mQueue, d_mShutdown, d_dpc, d_result, d_wpc, d_current,
                       d_executed, d_pushed>>
        /\ d_queuedAtStop' = UNION {KD!Elements(d_mQueue[w]) : w \in KD!Workers}
    OBVIOUS
  <2>1. \A w \in KD!Workers : KD!Elements(d_mQueue[w]) \subseteq DispatchTasks
    <3> TAKE w \in KD!Workers
    <3>1. d_mQueue[w] \in Seq(DispatchTasks)
      BY DEF DispatcherInv, KD!TypeOK
    <3> QED
      BY <3>1, ElementOfSeq, Zenon DEF KD!Elements
  <2>2. d_mRunning' \in BOOLEAN
    BY <2>0, Zenon
  <2>3. KD!TypeOK'
    BY <2>0, <2>1, <2>2, DispatcherAssumption DEF DispatcherInv, KD!TypeOK
  <2>4. DispatcherControl'
    BY <2>0, Zenon DEF DispatcherInv, DispatcherControl
  <2>5. \A t \in d_queuedAtStop' : StillServed(t)
    BY <2>0 DEF DispatcherInv, DispatcherControl, StillServed
  <2> QED
    BY <2>0, <2>3, <2>4, <2>5, NoTaskMoves
<1>2. CASE KD!Shutdown_Close \/ KD!Shutdown_Join
  <2>1. /\ d_spc \in {"close", "join"} /\ d_spc' \in {"close", "join", "clear"}
        /\ d_spc' = "clear" => \A w \in KD!Workers : d_wpc[w] = "exited"
        /\ UNCHANGED <<d_mRunning, d_mBackpressure, d_mQueue, d_dpc, d_result, d_wpc, d_current,
                       d_executed, d_pushed, d_queuedAtStop>>
    BY <1>2 DEF KD!Shutdown_Close, KD!Shutdown_Join, KD!calls, KD!threads
  <2>2. /\ d_sIdx' \in 0 .. DispatchWorkers
        /\ d_mShutdown' = d_mShutdown \/ d_mShutdown' = [d_mShutdown EXCEPT ![d_sIdx] = TRUE]
    BY <1>2, DispatcherAssumption DEF KD!Shutdown_Close, KD!Shutdown_Join, DispatcherInv, KD!TypeOK
  <2>3. d_mShutdown' \in [KD!Workers -> BOOLEAN]
    <3>1. d_mShutdown \in [KD!Workers -> BOOLEAN]
      BY DEF DispatcherInv, KD!TypeOK
    <3> QED
      BY <2>2, <3>1, Zenon
  <2>4. KD!TypeOK'
    BY <2>1, <2>2, <2>3 DEF DispatcherInv, KD!TypeOK
  <2>5. DispatcherControl'
    BY <2>1 DEF DispatcherInv, DispatcherControl
  <2> QED
    BY <2>1, <2>4, <2>5, NoTaskMoves, Zenon DEF DispatcherInv
<1>3. CASE KD!Shutdown_Clear
  <2>1. /\ d_spc = "clear" /\ d_spc' = "down" /\ d_mQueue' = [w \in KD!Workers |-> <<>>]
        /\ \A t \in DispatchTasks : d_dpc[t] # "inside"
        /\ UNCHANGED <<d_mRunning, d_mBackpressure, d_mShutdown, d_dpc, d_result, d_wpc, d_current,
                       d_executed, d_sIdx, d_pushed, d_queuedAtStop>>
    BY <1>3 DEF KD!Shutdown_Clear, KD!calls, KD!threads
  <2>2. KD!TypeOK'
    BY <2>1, EmptySeq DEF DispatcherInv, KD!TypeOK
  <2>3. DispatcherControl'
    BY <2>1 DEF DispatcherInv, DispatcherControl
  <2>4. PushedByReturned'
    BY <2>1, Zenon DEF DispatcherInv, PushedByReturned, KD!Elements
  <2>5. \A w \in KD!Workers : Lane(w)'
    BY <2>1 DEF Lane
  <2>6. \A w \in KD!Workers : d_wpc[w] = "exited"
    BY <2>1, SMTT(20) DEF DispatcherInv, DispatcherControl
  <2>7. \A t \in d_queuedAtStop' : StillServed(t)'
    BY <2>1, <2>6 DEF DispatcherInv, StillServed
  <2> QED
    BY <2>2, <2>3, <2>4, <2>5, <2>7 DEF DispatcherInv
<1> QED
  BY <1>1, <1>2, <1>3 DEF KD!Shutdown

LEMMA DispatcherStep == DispatcherInv /\ [KD!Next]_(KD!vars) => DispatcherInv'
<1> SUFFICES ASSUME DispatcherInv, [KD!Next]_(KD!vars) PROVE DispatcherInv'
  OBVIOUS
<1>1. CASE KD!Next
  BY <1>1, InitializeKeeps, DispatchKeeps, WorkerKeeps, ShutdownKeeps DEF KD!Next
<1>2. CASE UNCHANGED (KD!vars)
  <2>1. KD!TypeOK' /\ DispatcherControl'
    BY <1>2 DEF KD!vars, DispatcherInv, KD!TypeOK, DispatcherControl
  <2> QED
    BY <1>2, <2>1, NoTaskMoves, Zenon DEF KD!vars, DispatcherInv
<1> QED
  BY <1>1, <1>2

(* The invariant holds throughout. *)
LEMMA DispatcherAlways == KD!Spec => []DispatcherInv
BY DispatcherInit, DispatcherStep, PTL DEF KD!Spec

(* KeyedDispatcher::Shutdown executes everything that was queued when it     *)
(* began, for any number of workers, keys and tasks: all workers have left,  *)
(* so what was queued then is executed or in hand, and nothing is in hand.   *)
THEOREM ShutdownDrainsWorkers == KD!Spec => []StopDrains
<1>1. DispatcherInv => StopDrains
  <2> SUFFICES ASSUME DispatcherInv PROVE StopDrains
    OBVIOUS
  <2>1. KD!TypeOK /\ KD!NoDispatchAfterClear
    BY DEF DispatcherInv, DispatcherControl, KD!NoDispatchAfterClear
  <2>2. ASSUME d_spc = "down", NEW t \in d_queuedAtStop PROVE t \in KD!ExecutedTasks
    <3>1. \A w \in KD!Workers : d_wpc[w] = "exited" /\ d_current[w] = <<>>
      BY <2>2, Zenon DEF DispatcherInv, DispatcherControl
    <3>2. t \notin KD!Elements(<<>>)
      BY DEF KD!Elements
    <3>3. \E w \in KD!Workers : t \in KD!Elements(d_executed[w])
      BY <2>2, <3>1, <3>2, Zenon DEF DispatcherInv, StillServed
    <3> QED
      BY <3>3 DEF KD!ExecutedTasks
  <2> QED
    BY <2>1, <2>2 DEF StopDrains, KD!StopDrains
<1> QED
  BY <1>1, DispatcherAlways, PTL

(* The dispatcher implements one FIFO per worker: a push is the abstract       *)
(* Submit, a worker's pop its Begin, the end of the task its Complete, and     *)
(* every other step leaves the abstract state alone.                           *)
THEOREM DispatcherImplementsFifo == KD!Spec => LanesFifo
<1>1. KD!Init => LaneFifo!Init
  BY DEF KD!Init, LaneFifo!Init
<1>2. DispatcherInv /\ [KD!Next]_(KD!vars) => [LaneFifo!Next]_LaneFifo!vars
  <2> SUFFICES ASSUME DispatcherInv, [KD!Next]_(KD!vars)
               PROVE  LaneFifo!Next \/ UNCHANGED <<d_pushed, d_current, d_executed>>
    BY DEF LaneFifo!vars
  <2>2. ASSUME NEW t \in DispatchTasks, KD!Dispatch_Push(t), ~ UNCHANGED d_pushed
        PROVE  LaneFifo!Submit(t)
    <3> DEFINE v == KD!KeyToWorkerIndex(t)
    <3>1. v \in KD!Workers /\ v = [u \in DispatchTasks |-> DispatchKeyOf[u] % DispatchWorkers][t]
      BY DispatcherAssumption DEF KD!KeyToWorkerIndex, KD!Workers
    <3>2. /\ d_dpc[t] = "inside" /\ d_pushed' = [d_pushed EXCEPT ![v] = Append(@, t)]
          /\ UNCHANGED <<d_current, d_executed>>
      BY <2>2 DEF KD!Dispatch_Push, KD!threads
    <3>3. t \notin KD!Elements(d_pushed[v])
      BY <3>1, <3>2 DEF DispatcherInv, PushedByReturned
    <3> HIDE DEF v
    <3> QED
      BY <3>1, <3>2, <3>3 DEF LaneFifo!Submit, KD!Elements
  <2>3. ASSUME NEW v \in KD!Workers, KD!Worker_Pop(v), d_mQueue[v] # <<>>
        PROVE  LaneFifo!Begin(v)
    <3>1. /\ d_wpc[v] = "pop" /\ d_current' = [d_current EXCEPT ![v] = <<Head(d_mQueue[v])>>]
          /\ UNCHANGED <<d_pushed, d_executed>>
      BY <2>3 DEF KD!Worker_Pop
    <3>2. d_current[v] = <<>> /\ d_spc # "down"
      BY <3>1 DEF DispatcherInv, DispatcherControl
    <3>3. d_executed[v] \o (<<>> \o d_mQueue[v]) = d_pushed[v]
      BY <3>2, Zenon DEF DispatcherInv, Lane
    <3>4. Len(d_executed[v]) < Len(d_pushed[v]) /\ d_pushed[v][Len(d_executed[v]) + 1] = Head(d_mQueue[v])
      <4>1. d_mQueue[v] \in Seq(DispatchTasks) /\ d_executed[v] \in Seq(DispatchTasks)
        BY DEF DispatcherInv, KD!TypeOK
      <4>2. \A e, q \in Seq(DispatchTasks) :
              q # <<>> => /\ Len(e) < Len(e \o (<<>> \o q))
                          /\ (e \o (<<>> \o q))[Len(e) + 1] = Head(q)
        BY NextInLine
      <4> QED
        BY <2>3, <3>3, <4>1, <4>2, Zenon
    <3> QED
      BY <3>1, <3>2, <3>4 DEF LaneFifo!Begin
  <2>4. ASSUME NEW v \in KD!Workers, KD!Worker_Execute(v)
        PROVE  LaneFifo!Complete(v)
    BY <2>4 DEF KD!Worker_Execute, DispatcherInv, DispatcherControl, LaneFifo!Complete
  <2>5. CASE UNCHANGED (KD!vars)
    BY <2>5 DEF KD!vars
  <2>6. CASE KD!Initialize \/ KD!Shutdown_Stop \/ KD!Shutdown
    BY <2>6 DEF KD!Initialize, KD!Shutdown_Stop, KD!Shutdown, KD!Shutdown_Close, KD!Shutdown_Join,
                KD!Shutdown_Clear, KD!threads
  <2>7. ASSUME NEW t \in DispatchTasks, KD!Dispatch_Enter(t) \/ KD!Dispatch_Push(t)
        PROVE  LaneFifo!Next \/ UNCHANGED <<d_pushed, d_current, d_executed>>
    <3>1. UNCHANGED <<d_current, d_executed>>
      BY <2>7 DEF KD!Dispatch_Enter, KD!Dispatch_Push, KD!threads
    <3>2. KD!Dispatch_Enter(t) => UNCHANGED d_pushed
      BY DEF KD!Dispatch_Enter
    <3> QED
      BY <2>2, <2>7, <3>1, <3>2 DEF LaneFifo!Next
  <2>8. ASSUME NEW v \in KD!Workers, KD!WorkerThreadFunc(v)
        PROVE  LaneFifo!Next \/ UNCHANGED <<d_pushed, d_current, d_executed>>
    <3>1. CASE KD!Worker_Pop(v)
      BY <2>3, <3>1, SMTT(20) DEF KD!Worker_Pop, LaneFifo!Next
    <3>2. CASE KD!Worker_Failed(v)
      BY <3>2 DEF KD!Worker_Failed
    <3>3. CASE KD!Worker_Execute(v)
      BY <2>4, <3>3 DEF LaneFifo!Next
    <3> QED
      BY <2>8, <3>1, <3>2, <3>3 DEF KD!WorkerThreadFunc
  <2> QED
    BY <2>5, <2>6, <2>7, <2>8 DEF KD!Next
<1> QED
  BY <1>1, <1>2, DispatcherAlways, PTL DEF KD!Spec, LanesFifo, LaneFifo!Spec

(***************************************************************************)
(* TimerQueue                                                              *)
(***************************************************************************)
(* The timer has an entry that may still fire: in the heap or, while its     *)
(* callback runs and it is rescheduled, in the worker's hands.               *)
InHands == m_wpc \in {"run", "push"}
HasEntry(h) == (\E e \in m_mHeap : e.handle = h) \/ (InHands /\ m_entry.handle = h)

(* A timer has one entry at most, and none before its caller has pushed it.  *)
OneEntry ==
  /\ \A e, f \in m_mHeap : e.handle = f.handle => e = f
  /\ InHands => m_entry \in TQ!Entry /\ \A e \in m_mHeap : e.handle # m_entry.handle
  /\ \A h \in TimerHandles :
       /\ m_cpc[h] \in {"idle", "push"} => ~HasEntry(h)
       /\ m_cpc[h] = "push" => m_stamped[h] \in TQ!Entry /\ m_stamped[h].handle = h

Cancelled(h) == m_cpc[h] \in {"cnotify", "cancelled"}

(* A cancelled timer is marked as long as it has an entry. *)
MarkStays == \A h \in TimerHandles : Cancelled(h) => h \in m_mCancelledHandles \/ ~HasEntry(h)

TimerInv == TQ!TypeOK /\ OneEntry /\ MarkStays /\ TQ!CancelStops

(* Nothing is scheduled yet. *)
LEMMA TimerInit == TQ!Init => TimerInv
<1> SUFFICES ASSUME TQ!Init PROVE TimerInv
  OBVIOUS
<1>1. m_mRunning \in BOOLEAN
  BY Zenon DEF TQ!Init
<1> QED
  BY <1>1, TimerAssumption
  DEF TQ!Init, TimerInv, TQ!TypeOK, OneEntry, MarkStays, TQ!CancelStops, HasEntry, InHands, Cancelled

(* A step that touches neither entries nor marks nor callers. *)
LEMMA EntriesStay ==
  ASSUME TimerInv, TQ!TypeOK', InHands' <=> InHands,
         UNCHANGED <<m_mHeap, m_mCancelledHandles, m_entry, m_cpc, m_stamped, m_firedLate>>
  PROVE  TimerInv'
BY DEF TimerInv, OneEntry, MarkStays, TQ!CancelStops, HasEntry, InHands, Cancelled

(* A wake-up moves the worker only within its waits. *)
LEMMA WokenStays ==
  ASSUME TQ!TypeOK, m_wpc' = TQ!Woken(m_wpc)
  PROVE  /\ m_wpc' \in {"top", "arm1", "wait1", "arm2", "wait2", "check2", "run", "push", "exit"}
         /\ InHands' <=> InHands
BY DEF TQ!TypeOK, TQ!Woken, InHands

LEMMA CallerKeeps ==
  ASSUME TimerInv, NEW h \in TimerHandles, TQ!Schedule(h) \/ TQ!CallerStep(h) \/ TQ!Cancel(h)
  PROVE  TimerInv'
<1>1. CASE TQ!Schedule(h)
  <2>1. PICK d \in {x \in TimerDelays : m_now + x <= TimerMaxTime} : \E i \in {0, d} :
          m_stamped' = [m_stamped EXCEPT ![h] = [handle |-> h, nextFire |-> m_now + d, intervalMs |-> i]]
    BY <1>1, Zenon DEF TQ!Schedule
  <2>2. PICK i \in {0, d} :
          m_stamped' = [m_stamped EXCEPT ![h] = [handle |-> h, nextFire |-> m_now + d, intervalMs |-> i]]
    BY <2>1, Zenon
  <2>3. [handle |-> h, nextFire |-> m_now + d, intervalMs |-> i] \in TQ!Entry
    BY <2>1, TimerAssumption DEF TimerInv, TQ!TypeOK, TQ!Entry
  <2>4. TQ!TypeOK'
    BY <1>1, <2>2, <2>3, SMTT(20) DEF TQ!Schedule, TimerInv, TQ!TypeOK
  <2>5. OneEntry'
    BY <1>1, <2>2, <2>3 DEF TQ!Schedule, TimerInv, TQ!TypeOK, OneEntry, HasEntry, InHands
  <2>6. MarkStays' /\ TQ!CancelStops'
    BY <1>1 DEF TQ!Schedule, TimerInv, TQ!TypeOK, MarkStays, TQ!CancelStops, HasEntry, InHands, Cancelled
  <2> QED
    BY <2>4, <2>5, <2>6 DEF TimerInv
<1>2. CASE TQ!PushEntry(h)
  <2>1. m_stamped[h] \in TQ!Entry /\ m_stamped[h].handle = h
    BY <1>2, Zenon DEF TQ!PushEntry, TimerInv, OneEntry
  <2>2. TQ!TypeOK'
    BY <1>2, <2>1 DEF TQ!PushEntry, TimerInv, TQ!TypeOK
  <2>3. OneEntry'
    BY <1>2, <2>1 DEF TQ!PushEntry, TimerInv, TQ!TypeOK, OneEntry, HasEntry, InHands
  <2>4. MarkStays' /\ TQ!CancelStops'
    BY <1>2, <2>1 DEF TQ!PushEntry, TimerInv, TQ!TypeOK, MarkStays, TQ!CancelStops, HasEntry, InHands, Cancelled
  <2> QED
    BY <2>2, <2>3, <2>4 DEF TimerInv
<1>3. CASE TQ!NotifyOne(h)
  <2>1. /\ m_wpc' \in {"top", "arm1", "wait1", "arm2", "wait2", "check2", "run", "push", "exit"}
        /\ InHands' <=> InHands
    BY <1>3, WokenStays DEF TQ!NotifyOne, TimerInv
  <2>2. TQ!TypeOK'
    BY <1>3, <2>1 DEF TQ!NotifyOne, TimerInv, TQ!TypeOK
  <2>3. OneEntry'
    BY <1>3, <2>1 DEF TQ!NotifyOne, TimerInv, TQ!TypeOK, OneEntry, HasEntry
  <2>4. MarkStays' /\ TQ!CancelStops'
    BY <1>3, <2>1 DEF TQ!NotifyOne, TimerInv, TQ!TypeOK, MarkStays, TQ!CancelStops, HasEntry, Cancelled
  <2> QED
    BY <2>2, <2>3, <2>4 DEF TimerInv
<1>4. CASE TQ!Cancel(h)
  <2>1. TQ!TypeOK'
    BY <1>4 DEF TQ!Cancel, TimerInv, TQ!TypeOK
  <2>2. OneEntry'
    BY <1>4 DEF TQ!Cancel, TimerInv, TQ!TypeOK, OneEntry, HasEntry, InHands
  <2>3. MarkStays' /\ TQ!CancelStops'
    BY <1>4 DEF TQ!Cancel, TimerInv, TQ!TypeOK, MarkStays, TQ!CancelStops, HasEntry, InHands, Cancelled
  <2> QED
    BY <2>1, <2>2, <2>3 DEF TimerInv
<1> QED
  BY <1>1, <1>2, <1>3, <1>4 DEF TQ!CallerStep

(* The worker takes an entry, runs it and puts it back; the rest is waiting. *)
LEMMA TimerWorkerKeeps ==
  ASSUME TimerInv, TQ!WorkerStep \/ TQ!Spurious
  PROVE  TimerInv'
<1>1. CASE TQ!AwaitEntry \/ TQ!Park
  <2>1. TQ!TypeOK' /\ (InHands' <=> InHands)
    BY <1>1 DEF TQ!AwaitEntry, TQ!Park, TimerInv, TQ!TypeOK, InHands
  <2> QED
    BY <1>1, <2>1, EntriesStay DEF TQ!AwaitEntry, TQ!Park
<1>2. CASE TQ!AwaitFireTime
  <2>1. TQ!TypeOK' /\ (InHands' <=> InHands)
    BY <1>2 DEF TQ!AwaitFireTime, TQ!Front, TQ!Entry, TimerInv, TQ!TypeOK, InHands
  <2> QED
    BY <1>2, <2>1, EntriesStay DEF TQ!AwaitFireTime
<1>3. CASE TQ!WaitUntil
  <2>1. TQ!TypeOK' /\ (InHands' <=> InHands)
    BY <1>3, TimerAssumption DEF TQ!WaitUntil, TimerInv, TQ!TypeOK, InHands
  <2> QED
    BY <1>3, <2>1, EntriesStay DEF TQ!WaitUntil
<1>4. CASE TQ!Spurious
  <2>1. /\ m_wpc' \in {"top", "arm1", "wait1", "arm2", "wait2", "check2", "run", "push", "exit"}
        /\ InHands' <=> InHands
    BY <1>4, WokenStays DEF TQ!Spurious, TimerInv
  <2>2. TQ!TypeOK'
    BY <1>4, <2>1 DEF TQ!Spurious, TimerInv, TQ!TypeOK
  <2> QED
    BY <1>4, <2>1, <2>2, EntriesStay DEF TQ!Spurious
<1>5. CASE TQ!PopTop
  <2>1. PICK e \in TQ!Front :
          /\ m_mHeap' = m_mHeap \ {e}
          /\ m_mCancelledHandles' = m_mCancelledHandles \ {e.handle}
          /\ \/ e.handle \in m_mCancelledHandles /\ UNCHANGED <<m_wpc, m_entry, m_fired, m_firedLate>>
             \/ /\ e.handle \notin m_mCancelledHandles
                /\ m_wpc' = "run" /\ m_entry' = e /\ m_fired' = m_fired \cup {e.handle}
                /\ m_firedLate' = m_firedLate \cup ({e.handle} \cap
                     {h \in TimerHandles : m_cpc[h] \in {"cnotify", "cancelled"}})
    BY <1>5, Zenon DEF TQ!PopTop
  <2>2. e \in m_mHeap /\ e \in TQ!Entry /\ e.handle \in TimerHandles /\ m_wpc = "top"
    BY <1>5, <2>1 DEF TQ!PopTop, TQ!Front, TimerInv, TQ!TypeOK, TQ!Entry
  <2>3. UNCHANGED <<m_now, m_mRunning, m_fireTime, m_cpc, m_stamped, m_spc>>
    BY <1>5 DEF TQ!PopTop
  <2>4. TQ!TypeOK'
    BY <2>1, <2>2, <2>3, SMTT(20) DEF TimerInv, TQ!TypeOK
  <2>5. \A f \in m_mHeap' : f \in m_mHeap /\ f.handle # e.handle
    BY <2>1, <2>2, SMTT(20) DEF TimerInv, OneEntry
  <2>6. OneEntry'
    BY <2>1, <2>2, <2>3, <2>5 DEF TimerInv, OneEntry, HasEntry, InHands
  <2>7. e.handle \notin m_mCancelledHandles => ~Cancelled(e.handle)
    BY <2>2, SMTT(20) DEF TimerInv, MarkStays, HasEntry
  <2>8. MarkStays'
    BY <2>1, <2>2, <2>3, <2>5, <2>7, SMTT(20) DEF TimerInv, MarkStays, HasEntry, InHands, Cancelled
  <2>9. TQ!CancelStops'
    BY <2>1, <2>7 DEF TimerInv, TQ!CancelStops, Cancelled
  <2> QED
    BY <2>4, <2>6, <2>8, <2>9 DEF TimerInv
<1>6. CASE TQ!RunCallback
  <2>1. m_wpc = "run" /\ InHands /\ m_entry \in TQ!Entry
    BY <1>6 DEF TQ!RunCallback, TimerInv, OneEntry, InHands
  <2>2. \/ m_wpc' = "top" /\ m_entry' = TQ!NoEntry
        \/ m_wpc' = "push" /\ m_entry' \in TQ!Entry /\ m_entry'.handle = m_entry.handle
    BY <1>6, <2>1, TimerAssumption DEF TQ!RunCallback, TQ!Entry, TimerInv, TQ!TypeOK
  <2>3. UNCHANGED <<m_now, m_mRunning, m_mHeap, m_mCancelledHandles, m_fireTime, m_cpc, m_stamped,
                    m_spc, m_fired, m_firedLate>>
    BY <1>6 DEF TQ!RunCallback
  <2>4. TQ!TypeOK'
    BY <2>2, <2>3 DEF TimerInv, TQ!TypeOK
  <2>5. OneEntry'
    BY <2>1, <2>2, <2>3, SMTT(20) DEF TimerInv, OneEntry, HasEntry, InHands
  <2>6. MarkStays' /\ TQ!CancelStops'
    BY <2>1, <2>2, <2>3, SMTT(20) DEF TimerInv, MarkStays, TQ!CancelStops, HasEntry, InHands, Cancelled
  <2> QED
    BY <2>4, <2>5, <2>6 DEF TimerInv
<1>7. CASE TQ!Reschedule
  <2>1. InHands /\ m_entry \in TQ!Entry
    BY <1>7 DEF TQ!Reschedule, TimerInv, OneEntry, InHands
  <2>2. TQ!TypeOK'
    BY <1>7, <2>1 DEF TQ!Reschedule, TimerInv, TQ!TypeOK
  <2>3. OneEntry'
    BY <1>7, <2>1 DEF TQ!Reschedule, TimerInv, OneEntry, HasEntry, InHands
  <2>4. MarkStays' /\ TQ!CancelStops'
    BY <1>7, <2>1, Zenon DEF TQ!Reschedule, TimerInv, MarkStays, TQ!CancelStops, HasEntry, InHands, Cancelled
  <2> QED
    BY <2>2, <2>3, <2>4 DEF TimerInv
<1> QED
  BY <1>1, <1>2, <1>3, <1>4, <1>5, <1>6, <1>7 DEF TQ!WorkerStep

(* The clock and Shutdown, which clears entries and marks together. *)
LEMMA TimerStep == TimerInv /\ [TQ!Next]_(TQ!vars) => TimerInv'
<1> SUFFICES ASSUME TimerInv, [TQ!Next]_(TQ!vars) PROVE TimerInv'
  OBVIOUS
<1>1. CASE TQ!Tick
  <2>1. TQ!TypeOK'
    BY <1>1, TimerAssumption DEF TQ!Tick, TimerInv, TQ!TypeOK
  <2> QED
    BY <1>1, <2>1, EntriesStay DEF TQ!Tick, InHands
<1>2. CASE TQ!Shutdown
  <2>1. CASE m_spc = "up"
    <3>1. m_mRunning' \in BOOLEAN
      BY <1>2, <2>1, Zenon DEF TQ!Shutdown
    <3>2. TQ!TypeOK'
      BY <1>2, <2>1, <3>1 DEF TQ!Shutdown, TimerInv, TQ!TypeOK
    <3> QED
      BY <1>2, <2>1, <3>2, EntriesStay DEF TQ!Shutdown, InHands
  <2>2. CASE m_spc = "notify"
    <3>1. /\ m_wpc' \in {"top", "arm1", "wait1", "arm2", "wait2", "check2", "run", "push", "exit"}
          /\ InHands' <=> InHands
      BY <1>2, <2>2, WokenStays DEF TQ!Shutdown, TimerInv
    <3>2. TQ!TypeOK'
      BY <1>2, <2>2, <3>1, SMTT(20) DEF TQ!Shutdown, TimerInv, TQ!TypeOK
    <3> QED
      BY <1>2, <2>2, <3>1, <3>2, EntriesStay DEF TQ!Shutdown
  <2>3. CASE m_spc = "join"
    <3>1. TQ!TypeOK'
      BY <1>2, <2>3 DEF TQ!Shutdown, TimerInv, TQ!TypeOK
    <3> QED
      BY <1>2, <2>3, <3>1
      DEF TQ!Shutdown, TimerInv, OneEntry, MarkStays, TQ!CancelStops, HasEntry, InHands, Cancelled
  <2> QED
    BY <1>2, <2>1, <2>2, <2>3 DEF TQ!Shutdown
<1>3. CASE UNCHANGED (TQ!vars)
  <2>1. TQ!TypeOK'
    BY <1>3 DEF TQ!vars, TimerInv, TQ!TypeOK
  <2> QED
    BY <1>3, <2>1, EntriesStay DEF TQ!vars, InHands
<1> QED
  BY <1>1, <1>2, <1>3, CallerKeeps, TimerWorkerKeeps DEF TQ!Next

(* TimerQueue: a timer cancelled before its entry was taken never fires      *)
(* again, for any timers and delays: as long as a cancelled timer has an     *)
(* entry, in the heap or being rescheduled, its mark is still there.         *)
THEOREM CancelledNeverFires == TQ!Spec => []CancelStops
<1>1. TimerInv => CancelStops
  BY DEF TimerInv, CancelStops
<1> QED
  BY <1>1, TimerInit, TimerStep, PTL DEF TQ!Spec
==============================================================================
