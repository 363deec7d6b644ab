----------------------------- MODULE RelayProofs -----------------------------
(***************************************************************************)
(* Proofs about the relay to the DB server: RelayExact holds in every       *)
(* state, for any tasks, sessions and worker count.                        *)
(*                                                                         *)
(* RelayExact is far from inductive.  RelayInv adds where each task is     *)
(* (LedgerInv), whose queue is whose (QueuesInv), what a worker in the     *)
(* middle of CheckTimeouts or HandleResponse may rely on (ControlInv), that *)
(* mPendingCount counts the queues (CountInv), and the order from push over *)
(* queue and pending list to dispatch (QueueOrder, SessionOrder).  The      *)
(* steps are proved by what they do to the tasks: nothing (StayPut), push, *)
(* pop, defer, dispatch, complete, drain.                                  *)
(***************************************************************************)
EXTENDS DatabaseRelay, SequenceLemmas

\* The time limits of a leaf that names no prover of its own.
USE SMTT(30), ZenonT(30)

(***************************************************************************)
(* The inductive invariant                                                 *)
(***************************************************************************)
(* Where a task is: in its worker's queue, behind the request in flight of   *)
(* its session, or in flight; and whether it was accepted, or dispatched.    *)
Waits(t) == t \in Holds(r_taskQueue[RL!WorkerOf(t)])
Behind(t) == t \in Holds(r_pending[r_SessionOf[t]])
AtServer(t) == t \in Holds(r_inflight[r_SessionOf[t]])
Accepted(t) == t \in Holds(r_pushed[r_SessionOf[t]])
Dispatched(t) == t \in Holds(r_dispatched[r_SessionOf[t]])

Draining == {"drain", "drainTasks", "down"}
NextDue == {"expireNext", "respondNext"}

(* Every queue belongs to its worker or session and repeats nothing. *)
WorkerQueue(w) ==
  NoRepeat(r_taskQueue[w]) /\ \A t \in Holds(r_taskQueue[w]) : RL!WorkerOf(t) = w

SessionQueues(s) ==
  /\ NoRepeat(r_pending[s]) /\ NoRepeat(r_pushed[s]) /\ NoRepeat(r_inflight[s])
  /\ r_inflight[s] = <<>> \/ \E t \in RelayTasks : r_inflight[s] = <<t>>
  /\ \A t \in Holds(r_pending[s]) : r_SessionOf[t] = s
  /\ \A t \in Holds(r_inflight[s]) : r_SessionOf[t] = s
  /\ \A t \in Holds(r_pushed[s]) : r_SessionOf[t] = s
  /\ \A t \in Holds(r_dispatched[s]) : r_SessionOf[t] = s

QueuesInv ==
  (\A w \in RL!Workers : WorkerQueue(w)) /\ (\A s \in RL!Sessions : SessionQueues(s))

(* An accepted task without an outcome is in one place, any other in none. *)
TaskLedger(t) ==
  /\ r_callbacks[t] = (IF r_outcome[t] = "none" THEN 0 ELSE 1)
  /\ ~(Waits(t) /\ Behind(t)) /\ ~(Waits(t) /\ AtServer(t)) /\ ~(Behind(t) /\ AtServer(t))
  /\ Waits(t) \/ Behind(t) \/ AtServer(t) <=> Accepted(t) /\ r_outcome[t] = "none"
  /\ Dispatched(t) => Accepted(t) /\ ~Waits(t) /\ ~Behind(t)
  /\ r_epc[t] # "returned" => r_outcome[t] = "none" /\ ~Accepted(t)

LedgerInv == \A t \in RelayTasks : TaskLedger(t)

(* What CheckTimeouts has collected is still in flight, and a session whose  *)
(* next task is due has nothing in flight.                                   *)
WorkerControl(w) ==
  /\ r_timedOut[w] # {} => r_wpc[w] \in {"expire", "expireNext"}
  /\ \A s \in r_timedOut[w] : s \in RL!Owned(w) /\ r_inflight[s] # <<>>
  /\ r_wpc[w] \in NextDue => /\ r_cur[w] \in RL!Owned(w) \ r_timedOut[w]
                             /\ r_inflight[r_cur[w]] = <<>>
  /\ r_spc \in Draining => r_wpc[w] = "exited"
  /\ r_spc = "created" => r_wpc[w] = "none"

ControlInv ==
  /\ \A w \in RL!Workers : WorkerControl(w)
  /\ r_sIdx <= RelayWorkers
  /\ r_spc = "drainTasks" => r_sIdx < RelayWorkers

CountInv ==
  r_spc \notin Draining =>
    /\ IsFiniteSet(Slots(RL!Workers, r_taskQueue))
    /\ r_mPendingCount = Cardinality(Slots(RL!Workers, r_taskQueue))

(* The queue of a worker keeps the order in which a session pushed. *)
QueueOrder ==
  \A w \in RL!Workers : \A t, u \in RelayTasks :
    Precedes(r_taskQueue[w], t, u) /\ r_SessionOf[t] = r_SessionOf[u]
      => Precedes(r_pushed[r_SessionOf[t]], t, u)

(* What was dispatched and what is pending begin what was pushed, the rest   *)
(* is still queued, and pending tasks wait for something in flight.          *)
SessionOrder(s) ==
  RL!FailedIn(s) = {} =>
    /\ Begins(r_dispatched[s], r_pushed[s])
    /\ r_spc \notin Draining =>
         /\ Begins(r_dispatched[s] \o r_pending[s], r_pushed[s])
         /\ Holds(r_pushed[s]) \subseteq Holds(r_dispatched[s]) \cup Holds(r_pending[s])
                                         \cup Holds(r_taskQueue[s % RelayWorkers])
         /\ r_pending[s] # <<>> =>
              \/ r_inflight[s] # <<>>
              \/ r_wpc[s % RelayWorkers] \in NextDue /\ r_cur[s % RelayWorkers] = s

RelayInv ==
  /\ RL!TypeOK /\ QueuesInv /\ LedgerInv /\ ControlInv /\ CountInv /\ QueueOrder
  /\ \A s \in RL!Sessions : SessionOrder(s)

(***************************************************************************)
(* Types and the count                                                     *)
(***************************************************************************)
LEMMA SameCount == \A S : RL!Cardinality(S) = Cardinality(S)
BY DEF RL!Cardinality, Cardinality

LEMMA SameHolds == \A q : RL!Elements(q) = Holds(q)
BY DEF RL!Elements, Holds

LEMMA Routes ==
  ASSUME RL!TypeOK
  PROVE  /\ \A t \in RelayTasks : /\ r_SessionOf[t] \in RL!Sessions
                                  /\ RL!WorkerOf(t) = r_SessionOf[t] % RelayWorkers
                                  /\ RL!WorkerOf(t) \in RL!Workers
         /\ \A s \in RL!Sessions : s \in Nat /\ s % RelayWorkers \in RL!Workers
         /\ \A w \in RL!Workers : \A s : s \in RL!Owned(w) <=> s \in RL!Sessions /\ s % RelayWorkers = w
<1>1. r_SessionOf \in RelaySessions /\ r_SessionOf \in [RelayTasks -> Nat]
  BY RelaySessionsAssumption DEF RL!TypeOK
<1>2. \A t \in RelayTasks : r_SessionOf[t] \in RL!Sessions
  BY <1>1 DEF RL!Sessions
<1>3. \A s \in RL!Sessions : s \in Nat
  BY RelaySessionsAssumption DEF RL!Sessions
<1>4. \A s \in Nat : s % RelayWorkers \in RL!Workers
  BY RelayWorkersAssumption DEF RL!Workers
<1> QED
  BY <1>2, <1>3, <1>4 DEF RL!WorkerOf, RL!Owned

LEMMA ReportTypes ==
  ASSUME RL!TypeOK, NEW t \in RelayTasks, NEW o \in RL!Outcomes, RL!Report(t, o)
  PROVE  r_outcome' \in [RelayTasks -> RL!Outcomes] /\ r_callbacks' \in [RelayTasks -> Nat]
BY DEF RL!Report, RL!TypeOK

(* What a call of EnqueueTask, the receive thread or the lifecycle does. *)
LEMMA CallTypes ==
  ASSUME RL!TypeOK, NEW t \in RelayTasks,
         \/ RL!EnqueueTask_Check(t) \/ RL!EnqueueTask_Lock(t) \/ RL!EnqueueTask_Push(t)
         \/ RL!OnDBResponse(t) \/ RL!LinkLoss(t)
  PROVE  RL!TypeOK'
<1>r. RL!WorkerOf(t) \in RL!Workers /\ r_SessionOf[t] \in RL!Sessions
  BY Routes
<1>1. CASE RL!EnqueueTask_Check(t) \/ RL!EnqueueTask_Lock(t)
  <2>1. UNCHANGED <<r_outcome, r_callbacks>> \/ RL!Report(t, "shutdown")
    BY <1>1 DEF RL!EnqueueTask_Check, RL!EnqueueTask_Lock, RL!results
  <2>2. r_outcome' \in [RelayTasks -> RL!Outcomes] /\ r_callbacks' \in [RelayTasks -> Nat]
    BY <2>1, ReportTypes DEF RL!TypeOK, RL!Outcomes
  <2>3. r_epc' \in [RelayTasks -> {"idle", "admitted", "push", "returned"}]
    BY <1>1, Zenon DEF RL!EnqueueTask_Check, RL!EnqueueTask_Lock, RL!TypeOK
  <2> QED
    BY <1>1, <2>2, <2>3 DEF RL!EnqueueTask_Check, RL!EnqueueTask_Lock, RL!queues, RL!session, RL!TypeOK
<1>2. CASE RL!EnqueueTask_Push(t)
  <2>1. r_taskQueue' \in [RL!Workers -> Seq(RelayTasks)] /\ r_pushed' \in [RL!Sessions -> Seq(RelayTasks)]
        /\ r_mPendingCount' \in Nat /\ r_epc' \in [RelayTasks -> {"idle", "admitted", "push", "returned"}]
    BY <1>2, <1>r DEF RL!EnqueueTask_Push, RL!TypeOK
  <2> QED
    BY <1>2, <2>1, Zenon DEF RL!EnqueueTask_Push, RL!TypeOK, RL!session, RL!results
<1>3. CASE RL!OnDBResponse(t)
  <2>1. r_responseQueue' \in [RL!Workers -> Seq(RelayTasks)] /\ r_wire' \subseteq RelayTasks
    BY <1>3, <1>r DEF RL!OnDBResponse, RL!TypeOK
  <2> QED
    BY <1>3, <2>1 DEF RL!OnDBResponse, RL!TypeOK, RL!session, RL!results
<1>4. CASE RL!LinkLoss(t)
  BY <1>4 DEF RL!LinkLoss, RL!TypeOK, RL!queues, RL!session, RL!results
<1> QED
  BY <1>1, <1>2, <1>3, <1>4

LEMMA DispatchTypes ==
  ASSUME RL!TypeOK, NEW t \in RelayTasks, NEW rest \in Seq(RelayTasks), RL!Dispatch(t, rest)
  PROVE  /\ r_dispatched' \in [RL!Sessions -> Seq(RelayTasks)] /\ r_pending' \in [RL!Sessions -> Seq(RelayTasks)]
         /\ r_inflight' \in [RL!Sessions -> Seq(RelayTasks)] /\ r_wire' \subseteq RelayTasks
         /\ r_outcome' \in [RelayTasks -> RL!Outcomes] /\ r_callbacks' \in [RelayTasks -> Nat]
<1>r. r_SessionOf[t] \in RL!Sessions
  BY Routes
<1>1. r_dispatched' \in [RL!Sessions -> Seq(RelayTasks)] /\ r_pending' \in [RL!Sessions -> Seq(RelayTasks)]
  BY <1>r DEF RL!Dispatch, RL!TypeOK
<1>2. PICK o \in RelayResults :
        IF o = "sent"
        THEN /\ r_inflight' = [r_inflight EXCEPT ![r_SessionOf[t]] = <<t>>]
             /\ r_wire' = r_wire \cup {t} /\ UNCHANGED <<r_outcome, r_callbacks>>
        ELSE RL!Report(t, o) /\ UNCHANGED <<r_inflight, r_wire>>
  BY DEF RL!Dispatch, RL!results
<1>3. CASE o = "sent"
  <2>1. <<t>> \in Seq(RelayTasks) /\ r_wire \cup {t} \subseteq RelayTasks
    BY DEF RL!TypeOK
  <2>2. r_inflight' \in [RL!Sessions -> Seq(RelayTasks)]
    BY <1>2, <1>3, <2>1, Zenon DEF RL!TypeOK
  <2> QED
    BY <1>1, <1>2, <1>3, <2>1, <2>2 DEF RL!TypeOK
<1>4. CASE o # "sent"
  <2>1. o \in RL!Outcomes
    BY <1>4, RelayResultsAssumption DEF RL!Outcomes
  <2> QED
    BY <1>1, <1>2, <1>4, <2>1, ReportTypes DEF RL!TypeOK
<1> QED
  BY <1>3, <1>4

LEMMA LoopTypes ==
  ASSUME RL!TypeOK, QueuesInv, ControlInv, NEW w \in RL!Workers,
         RL!Worker_Loop(w) \/ RL!CheckTimeouts(w) \/ RL!HandleResponse(w) \/ RL!Worker_Next(w)
  PROVE  RL!TypeOK'
<1>1. CASE RL!Worker_Loop(w)
  <2>1. r_timedOut' \in [RL!Workers -> SUBSET RL!Sessions]
    BY <1>1, Zenon DEF RL!Worker_Loop, RL!TypeOK, RL!Owned
  <2> QED
    BY <1>1, <2>1, Zenon DEF RL!Worker_Loop, RL!TypeOK, RL!queues, RL!session, RL!results
<1>2. CASE RL!CheckTimeouts(w)
  <2>1. CASE r_timedOut[w] = {} /\ UNCHANGED <<r_timedOut, r_inflight, r_outcome, r_callbacks, r_cur>>
    BY <1>2, <2>1, Zenon DEF RL!CheckTimeouts, RL!TypeOK, RL!queues
  <2>2. ASSUME NEW s \in r_timedOut[w],
               /\ r_timedOut' = [r_timedOut EXCEPT ![w] = @ \ {s}]
               /\ r_inflight' = [r_inflight EXCEPT ![s] = <<>>]
               /\ RL!Report(Head(r_inflight[s]), "timeout")
               /\ r_cur' = [r_cur EXCEPT ![w] = s]
               /\ r_wpc' = [r_wpc EXCEPT ![w] = "expireNext"]
        PROVE  RL!TypeOK'
    <3>1. s \in RL!Sessions /\ s \in Nat /\ r_inflight[s] # <<>> /\ r_inflight[s] \in Seq(RelayTasks)
      BY <2>2, Routes DEF ControlInv, WorkerControl, RL!TypeOK
    <3>2. Head(r_inflight[s]) \in RelayTasks /\ "timeout" \in RL!Outcomes
      BY <3>1, HeadThenTail DEF RL!Outcomes
    <3>3. r_outcome' \in [RelayTasks -> RL!Outcomes] /\ r_callbacks' \in [RelayTasks -> Nat]
      BY <2>2, <3>2, ReportTypes
    <3>4. r_timedOut' \in [RL!Workers -> SUBSET RL!Sessions] /\ r_inflight' \in [RL!Sessions -> Seq(RelayTasks)]
          /\ r_cur' \in [RL!Workers -> Nat]
      BY <2>2, <3>1 DEF RL!TypeOK
    <3> QED
      BY <1>2, <2>2, <3>3, <3>4, Zenon DEF RL!CheckTimeouts, RL!TypeOK, RL!queues
  <2> QED
    BY <1>2, <2>1, <2>2 DEF RL!CheckTimeouts, RL!results
<1>3. CASE RL!HandleResponse(w)
  <2>1. CASE UNCHANGED <<r_inflight, r_outcome, r_callbacks, r_cur>>
    <3>0. r_responseQueue[w] # <<>> => Tail(r_responseQueue[w]) \in Seq(RelayTasks)
      BY HeadThenTail DEF RL!TypeOK
    <3>1. r_responseQueue' \in [RL!Workers -> Seq(RelayTasks)]
      BY <1>3, <3>0, Zenon DEF RL!HandleResponse, RL!TypeOK
    <3>2. r_wpc' \in [RL!Workers -> {"none", "loop", "expire", "expireNext", "respond",
                          "respondNext", "tasks", "exited"}]
      BY <1>3, Zenon DEF RL!HandleResponse, RL!TypeOK
    <3> QED
      BY <1>3, <2>1, <3>1, <3>2 DEF RL!HandleResponse, RL!TypeOK
  <2>2. ASSUME NEW s \in RL!Owned(w), r_responseQueue[w] # <<>>,
               /\ r_responseQueue' = [r_responseQueue EXCEPT ![w] = Tail(@)]
               /\ r_inflight' = [r_inflight EXCEPT ![s] = <<>>]
               /\ RL!Report(Head(r_responseQueue[w]), "answered")
               /\ r_cur' = [r_cur EXCEPT ![w] = s]
               /\ r_wpc' = [r_wpc EXCEPT ![w] = "respondNext"]
        PROVE  RL!TypeOK'
    <3>1. s \in RL!Sessions /\ s \in Nat /\ r_responseQueue[w] \in Seq(RelayTasks)
      BY <2>2, Routes DEF RL!TypeOK
    <3>2. Head(r_responseQueue[w]) \in RelayTasks /\ "answered" \in RL!Outcomes
      BY <2>2, <3>1, HeadThenTail DEF RL!Outcomes
    <3>3. r_outcome' \in [RelayTasks -> RL!Outcomes] /\ r_callbacks' \in [RelayTasks -> Nat]
      BY <2>2, <3>2, ReportTypes
    <3>4. r_responseQueue' \in [RL!Workers -> Seq(RelayTasks)] /\ r_inflight' \in [RL!Sessions -> Seq(RelayTasks)]
          /\ r_cur' \in [RL!Workers -> Nat]
      BY <2>2, <3>1 DEF RL!TypeOK
    <3> QED
      BY <1>3, <2>2, <3>3, <3>4, Zenon DEF RL!HandleResponse, RL!TypeOK
  <2> QED
    BY <1>3, <2>1, <2>2 DEF RL!HandleResponse, RL!results
<1>4. CASE RL!Worker_Next(w)
  <2>0. r_wpc[w] \in NextDue /\ r_cur[w] \in RL!Sessions /\ r_pending[r_cur[w]] \in Seq(RelayTasks)
    BY <1>4, Routes DEF RL!Worker_Next, NextDue, ControlInv, WorkerControl, RL!TypeOK
  <2>1. CASE UNCHANGED <<r_inflight, r_pending, r_wire, r_outcome, r_callbacks, r_dispatched>>
    BY <1>4, <2>1 DEF RL!Worker_Next, RL!TypeOK, RL!queues
  <2>2. CASE r_pending[r_cur[w]] # <<>> /\ RL!Dispatch(Head(r_pending[r_cur[w]]), Tail(r_pending[r_cur[w]]))
    <3>1. Head(r_pending[r_cur[w]]) \in RelayTasks /\ Tail(r_pending[r_cur[w]]) \in Seq(RelayTasks)
      BY <2>0, <2>2, HeadThenTail
    <3>2. /\ r_dispatched' \in [RL!Sessions -> Seq(RelayTasks)] /\ r_pending' \in [RL!Sessions -> Seq(RelayTasks)]
          /\ r_inflight' \in [RL!Sessions -> Seq(RelayTasks)] /\ r_wire' \subseteq RelayTasks
          /\ r_outcome' \in [RelayTasks -> RL!Outcomes] /\ r_callbacks' \in [RelayTasks -> Nat]
      BY <2>2, <3>1, DispatchTypes, Zenon
    <3> QED
      BY <1>4, <3>2, Zenon DEF RL!Worker_Next, RL!TypeOK, RL!queues
  <2> QED
    BY <1>4, <2>1, <2>2 DEF RL!Worker_Next, RL!session, RL!results
<1> QED
  BY <1>1, <1>2, <1>3, <1>4

(* A worker that takes a task: the count goes down with the queue. *)
LEMMA TasksTypes ==
  ASSUME CountFacts, RL!TypeOK, ControlInv, CountInv, NEW w \in RL!Workers, RL!Worker_Tasks(w)
  PROVE  RL!TypeOK' /\ CountInv'
<1>0. r_wpc[w] = "tasks" /\ r_spc \notin Draining /\ r_spc' = r_spc
  BY DEF RL!Worker_Tasks, ControlInv, WorkerControl
<1>1. CASE UNCHANGED <<r_taskQueue, r_mPendingCount, r_inflight, r_pending, r_wire, r_outcome, r_callbacks, r_dispatched>>
  <2>1. r_wpc' \in [RL!Workers -> {"none", "loop", "expire", "expireNext", "respond",
                          "respondNext", "tasks", "exited"}]
    BY Zenon DEF RL!Worker_Tasks, RL!TypeOK
  <2>2. RL!TypeOK'
    BY <1>1, <2>1 DEF RL!Worker_Tasks, RL!TypeOK
  <2> QED
    BY <1>0, <1>1, <2>2 DEF CountInv
<1>2. CASE /\ r_taskQueue[w] # <<>>
           /\ r_taskQueue' = [r_taskQueue EXCEPT ![w] = Tail(@)]
           /\ r_mPendingCount' = r_mPendingCount - 1
           /\ RL!ProcessTask(Head(r_taskQueue[w]))
           /\ r_wpc' = r_wpc
  <2> DEFINE h == Head(r_taskQueue[w])
  <2>1. r_taskQueue[w] \in Seq(RelayTasks) /\ h \in RelayTasks /\ Tail(r_taskQueue[w]) \in Seq(RelayTasks)
    BY <1>2, HeadThenTail DEF RL!TypeOK
  <2>2. r_taskQueue' \in [RL!Workers -> Seq(RelayTasks)]
    BY <1>2, <2>1 DEF RL!TypeOK
  <2>3. PoppedFrom(RelayTasks, RL!Workers, r_taskQueue, r_taskQueue', w)
    BY <1>2, <2>1, <2>2 DEF RL!TypeOK, PoppedFrom
  <2>4. /\ IsFiniteSet(Slots(RL!Workers, r_taskQueue')) 
        /\ Cardinality(Slots(RL!Workers, r_taskQueue')) = Cardinality(Slots(RL!Workers, r_taskQueue)) - 1
        /\ Cardinality(Slots(RL!Workers, r_taskQueue')) \in Nat
    BY <1>0, <2>3, SlotsTail DEF CountInv
  <2>5. CountInv' /\ r_mPendingCount' \in Nat
    BY <1>0, <1>2, <2>4 DEF CountInv
  <2>6. /\ r_dispatched' \in [RL!Sessions -> Seq(RelayTasks)] /\ r_pending' \in [RL!Sessions -> Seq(RelayTasks)]
        /\ r_inflight' \in [RL!Sessions -> Seq(RelayTasks)] /\ r_wire' \subseteq RelayTasks
        /\ r_outcome' \in [RelayTasks -> RL!Outcomes] /\ r_callbacks' \in [RelayTasks -> Nat]
    <3>0. r_SessionOf[h] \in RL!Sessions /\ r_pending[r_SessionOf[h]] \in Seq(RelayTasks)
      BY <2>1, Routes DEF RL!TypeOK
    <3>1. CASE RL!Dispatch(h, r_pending[r_SessionOf[h]])
      BY <2>1, <3>0, <3>1, DispatchTypes
    <3>2. CASE /\ r_pending' = [r_pending EXCEPT ![r_SessionOf[h]] = Append(@, h)]
               /\ UNCHANGED <<r_inflight, r_wire, r_outcome, r_callbacks, r_dispatched>>
      <4>1. Append(r_pending[r_SessionOf[h]], h) \in Seq(RelayTasks)
        BY <2>1, <3>0, AppendEnd
      <4>2. r_pending' \in [RL!Sessions -> Seq(RelayTasks)]
        BY <3>2, <4>1, Zenon DEF RL!TypeOK
      <4> QED
        BY <3>2, <4>2, Zenon DEF RL!TypeOK
    <3> QED
      BY <1>2, <3>1, <3>2, Zenon DEF RL!ProcessTask, RL!results
  <2> QED
    BY <1>2, <2>2, <2>5, <2>6 DEF RL!Worker_Tasks, RL!TypeOK
<1> QED
  BY <1>1, <1>2 DEF RL!Worker_Tasks, RL!session, RL!results

(* What ShutdownDrain finds in the sessions of one worker, and answers. *)
Held == UNION {RL!Elements(r_inflight[s]) \cup RL!Elements(r_pending[s]) : s \in RL!Owned(r_sIdx)}

LEMMA DrainSessions ==
  ASSUME RL!ShutdownDrain_Sessions, r_spc' # "down"
  PROVE  /\ r_inflight' = [s \in RL!Sessions |-> IF s \in RL!Owned(r_sIdx) THEN <<>> ELSE r_inflight[s]]
         /\ r_pending' = [s \in RL!Sessions |-> IF s \in RL!Owned(r_sIdx) THEN <<>> ELSE r_pending[s]]
         /\ r_outcome' = [t \in RelayTasks |-> IF t \in Held THEN "shutdown" ELSE r_outcome[t]]
         /\ r_callbacks' = [t \in RelayTasks |-> IF t \in Held THEN r_callbacks[t] + 1 ELSE r_callbacks[t]]
         /\ r_spc' = "drainTasks" /\ r_sIdx < RelayWorkers
BY Zenon DEF RL!ShutdownDrain_Sessions, Held

LEMMA LifeTypes ==
  ASSUME RL!TypeOK, ControlInv, RL!Initialize \/ RL!Shutdown_Stop \/ RL!Shutdown
  PROVE  RL!TypeOK'
<1>e. <<>> \in Seq(RelayTasks)
  OBVIOUS
<1>0. CASE RL!Initialize
  <2>1. r_wpc' \in [RL!Workers -> {"none", "loop", "expire", "expireNext", "respond",
                          "respondNext", "tasks", "exited"}]
    BY <1>0 DEF RL!Initialize
  <2> QED
    BY <1>0, <2>1 DEF RL!Initialize, RL!TypeOK, RL!queues, RL!session, RL!results
<1>1. CASE RL!Shutdown_Stop \/ RL!Shutdown_Join
  <2>1. r_sIdx' = 0 /\ (r_mIsRunning' = FALSE \/ r_mIsRunning' = r_mIsRunning)
    BY <1>1 DEF RL!Shutdown_Stop, RL!Shutdown_Join
  <2> QED
    BY <1>1, <2>1, Zenon DEF RL!Shutdown_Stop, RL!Shutdown_Join, RL!TypeOK, RL!queues, RL!session, RL!results
<1>2. CASE RL!ShutdownDrain_Sessions
  <2>1. CASE r_spc' # "down"
    <3>1. /\ r_inflight' = [s \in RL!Sessions |-> IF s \in RL!Owned(r_sIdx) THEN <<>> ELSE r_inflight[s]]
          /\ r_pending' = [s \in RL!Sessions |-> IF s \in RL!Owned(r_sIdx) THEN <<>> ELSE r_pending[s]]
          /\ r_outcome' = [t \in RelayTasks |-> IF t \in Held THEN "shutdown" ELSE r_outcome[t]]
          /\ r_callbacks' = [t \in RelayTasks |-> IF t \in Held THEN r_callbacks[t] + 1 ELSE r_callbacks[t]]
          /\ r_spc' = "drainTasks"
      BY <1>2, <2>1, DrainSessions
    <3>3. r_inflight' \in [RL!Sessions -> Seq(RelayTasks)] /\ r_pending' \in [RL!Sessions -> Seq(RelayTasks)]
      BY <1>e, <3>1 DEF RL!TypeOK
    <3>4. r_outcome' \in [RelayTasks -> RL!Outcomes] /\ r_callbacks' \in [RelayTasks -> Nat]
      BY <3>1 DEF RL!TypeOK, RL!Outcomes
    <3> QED
      BY <1>2, <3>1, <3>3, <3>4 DEF RL!ShutdownDrain_Sessions, RL!TypeOK, RL!queues
  <2>2. CASE r_spc' = "down"
    BY <1>2, <2>2 DEF RL!ShutdownDrain_Sessions, RL!TypeOK, RL!queues, RL!session, RL!results
  <2> QED
    BY <2>1, <2>2
<1>3. CASE RL!ShutdownDrain_Tasks
  <2>0. r_sIdx \in RL!Workers
    BY <1>3, RelayWorkersAssumption DEF RL!ShutdownDrain_Tasks, ControlInv, WorkerControl, RL!TypeOK, RL!Workers
  <2>1. CASE r_taskQueue[r_sIdx] # <<>>
    <3>1. Head(r_taskQueue[r_sIdx]) \in RelayTasks /\ Tail(r_taskQueue[r_sIdx]) \in Seq(RelayTasks)
      BY <2>0, <2>1, HeadThenTail DEF RL!TypeOK
    <3>2. r_taskQueue' \in [RL!Workers -> Seq(RelayTasks)]
      BY <1>3, <2>1, <3>1, Zenon DEF RL!ShutdownDrain_Tasks, RL!TypeOK
    <3>3. r_outcome' \in [RelayTasks -> RL!Outcomes] /\ r_callbacks' \in [RelayTasks -> Nat]
      BY <1>3, <2>1, <3>1, ReportTypes DEF RL!ShutdownDrain_Tasks, RL!Outcomes
    <3> QED
      BY <1>3, <2>1, <3>2, <3>3, Zenon DEF RL!ShutdownDrain_Tasks, RL!TypeOK, RL!session
  <2>2. CASE r_taskQueue[r_sIdx] = <<>>
    <3>0. r_responseQueue' = [r_responseQueue EXCEPT ![r_sIdx] = <<>>] /\ r_sIdx' = r_sIdx + 1
      BY <1>3, <2>2 DEF RL!ShutdownDrain_Tasks
    <3>1. r_responseQueue' \in [RL!Workers -> Seq(RelayTasks)]
      BY <1>e, <3>0, Zenon DEF RL!TypeOK
    <3>2. r_sIdx' \in Nat
      BY <3>0 DEF RL!TypeOK
    <3> QED
      BY <1>3, <2>2, <3>1, <3>2 DEF RL!ShutdownDrain_Tasks, RL!TypeOK, RL!session, RL!results
  <2> QED
    BY <2>1, <2>2
<1> QED
  BY <1>0, <1>1, <1>2, <1>3 DEF RL!Shutdown

LEMMA TypeStep ==
  ASSUME CountFacts, RL!TypeOK, QueuesInv, ControlInv, CountInv, [RL!Next]_(RL!vars)
  PROVE  RL!TypeOK' /\ CountInv'
<1>1. ASSUME UNCHANGED <<r_taskQueue, r_mPendingCount>>, r_spc' \notin Draining => r_spc \notin Draining
      PROVE  CountInv'
  BY <1>1 DEF CountInv
<1>2. ASSUME NEW t \in RelayTasks,
             \/ RL!EnqueueTask_Check(t) \/ RL!EnqueueTask_Lock(t) \/ RL!OnDBResponse(t) \/ RL!LinkLoss(t)
      PROVE  RL!TypeOK' /\ CountInv'
  BY <1>1, <1>2, CallTypes DEF RL!EnqueueTask_Check, RL!EnqueueTask_Lock, RL!OnDBResponse, RL!LinkLoss, RL!queues
<1>3. ASSUME NEW t \in RelayTasks, RL!EnqueueTask_Push(t) PROVE RL!TypeOK' /\ CountInv'
  <2>1. RL!TypeOK' /\ RL!WorkerOf(t) \in RL!Workers
    BY <1>3, CallTypes, Routes
  <2>2. PushedTo(RelayTasks, RL!Workers, r_taskQueue, r_taskQueue', RL!WorkerOf(t), t)
        /\ r_mPendingCount' = r_mPendingCount + 1 /\ r_spc' = r_spc
    BY <1>3, <2>1, Zenon DEF RL!EnqueueTask_Push, RL!TypeOK, PushedTo
  <2>3. CASE r_spc \notin Draining
    <3>1. /\ IsFiniteSet(Slots(RL!Workers, r_taskQueue')) 
          /\ Cardinality(Slots(RL!Workers, r_taskQueue')) = Cardinality(Slots(RL!Workers, r_taskQueue)) + 1
      BY <2>2, <2>3, SlotsAppend DEF CountInv
    <3> QED
      BY <2>1, <2>2, <2>3, <3>1 DEF CountInv
  <2> QED
    BY <2>1, <2>2, <2>3 DEF CountInv
<1>4. ASSUME NEW w \in RL!Workers,
             RL!Worker_Loop(w) \/ RL!CheckTimeouts(w) \/ RL!HandleResponse(w) \/ RL!Worker_Next(w)
      PROVE  RL!TypeOK' /\ CountInv'
  BY <1>1, <1>4, LoopTypes, Zenon DEF RL!Worker_Loop, RL!CheckTimeouts, RL!HandleResponse, RL!Worker_Next, RL!queues
<1>5. ASSUME NEW w \in RL!Workers, RL!Worker_Tasks(w) PROVE RL!TypeOK' /\ CountInv'
  BY <1>5, TasksTypes
<1>6. CASE RL!Initialize \/ RL!Shutdown_Stop \/ RL!Shutdown
  <2>1. r_spc' \notin Draining => r_spc \notin Draining /\ UNCHANGED <<r_taskQueue, r_mPendingCount>>
    BY <1>6 DEF RL!Initialize, RL!Shutdown_Stop, RL!Shutdown, RL!Shutdown_Join, RL!ShutdownDrain_Sessions,
       RL!ShutdownDrain_Tasks, RL!queues, Draining
  <2> QED
    BY <1>1, <1>6, <2>1, LifeTypes DEF CountInv
<1>7. CASE UNCHANGED (RL!vars)
  <2>1. RL!TypeOK'
    BY <1>7 DEF RL!vars, RL!TypeOK
  <2> QED
    BY <1>1, <1>7, <2>1 DEF RL!vars
<1> QED
  BY <1>2, <1>3, <1>4, <1>5, <1>6, <1>7 DEF RL!Next, RL!WorkerThreadFunc

(***************************************************************************)
(* The places of the tasks                                                 *)
(***************************************************************************)
PlacesInv == QueuesInv /\ LedgerInv /\ QueueOrder

(* A step that leaves a task where it is leaves its account as it is. *)
Unmoved(u) ==
  /\ Waits(u)' <=> Waits(u)
  /\ Behind(u)' <=> Behind(u)
  /\ AtServer(u)' <=> AtServer(u)
  /\ Accepted(u)' <=> Accepted(u)
  /\ Dispatched(u)' <=> Dispatched(u)
  /\ r_outcome'[u] = r_outcome[u] /\ r_callbacks'[u] = r_callbacks[u]
  /\ r_epc'[u] = "returned" \/ r_epc'[u] = r_epc[u] \/ r_epc[u] # "returned"

LEMMA UnmovedLedger ==
  ASSUME NEW u \in RelayTasks, PlacesInv, Unmoved(u)
  PROVE  TaskLedger(u)'
<1>1. TaskLedger(u)
  BY DEF PlacesInv, LedgerInv
<1> QED
  BY <1>1 DEF TaskLedger, Unmoved

(* Nothing moves: a call of EnqueueTask goes on, or is refused and reports.  *)
LEMMA StayPut ==
  ASSUME PlacesInv, UNCHANGED <<r_SessionOf, r_taskQueue, r_inflight, r_pending, r_pushed, r_dispatched>>,
         \/ /\ UNCHANGED <<r_outcome, r_callbacks>>
            /\ \A t \in RelayTasks : r_epc'[t] # "returned" => r_epc[t] # "returned"
         \/ /\ RL!TypeOK
            /\ \E t \in RelayTasks : /\ r_epc[t] # "returned" /\ RL!Report(t, "shutdown")
                                     /\ r_epc' = [r_epc EXCEPT ![t] = "returned"]
  PROVE  PlacesInv'
<1>1. QueuesInv' /\ QueueOrder'
  BY DEF PlacesInv, QueuesInv, WorkerQueue, SessionQueues, QueueOrder, RL!WorkerOf
<1>2. \A u \in RelayTasks : /\ Waits(u)' <=> Waits(u)
                            /\ Behind(u)' <=> Behind(u)
                            /\ AtServer(u)' <=> AtServer(u)
                            /\ Accepted(u)' <=> Accepted(u)
                            /\ Dispatched(u)' <=> Dispatched(u)
  BY DEF Waits, Behind, AtServer, Accepted, Dispatched, RL!WorkerOf
<1>3. CASE /\ UNCHANGED <<r_outcome, r_callbacks>>
           /\ \A t \in RelayTasks : r_epc'[t] # "returned" => r_epc[t] # "returned"
  <2>1. \A u \in RelayTasks : Unmoved(u)
    BY <1>2, <1>3, Zenon DEF Unmoved
  <2>2. LedgerInv'
    BY <2>1, UnmovedLedger DEF LedgerInv
  <2> QED
    BY <1>1, <2>2 DEF PlacesInv
<1>4. ASSUME RL!TypeOK, NEW t \in RelayTasks, r_epc[t] # "returned", RL!Report(t, "shutdown"),
             r_epc' = [r_epc EXCEPT ![t] = "returned"]
      PROVE  PlacesInv'
  <2>1. /\ r_outcome[t] = "none" /\ ~Accepted(t) /\ r_callbacks[t] = 0
        /\ r_outcome'[t] = "shutdown" /\ r_callbacks'[t] = 1 /\ r_epc'[t] = "returned"
    BY <1>4 DEF PlacesInv, LedgerInv, TaskLedger, RL!Report, RL!TypeOK
  <2>2. \A u \in RelayTasks \ {t} : r_outcome'[u] = r_outcome[u] /\ r_callbacks'[u] = r_callbacks[u] /\ r_epc'[u] = r_epc[u]
    BY <1>4 DEF RL!Report, RL!TypeOK
  <2>3. LedgerInv'
    <3>1. \A u \in RelayTasks \ {t} : Unmoved(u)
      BY <1>2, <2>2 DEF Unmoved
    <3>2. TaskLedger(t)
      BY DEF PlacesInv, LedgerInv
    <3>3. TaskLedger(t)'
      BY <1>2, <2>1, <3>2, Zenon DEF TaskLedger
    <3> QED
      BY <3>1, <3>3, UnmovedLedger DEF LedgerInv
  <2> QED
    BY <1>1, <2>3 DEF PlacesInv
<1> QED
  BY <1>3, <1>4

(* A call pushes its task. *)
LEMMA PushPlaces ==
  ASSUME RL!TypeOK, PlacesInv, NEW t \in RelayTasks, RL!EnqueueTask_Push(t)
  PROVE  /\ PlacesInv'
         /\ Holds(r_taskQueue'[RL!WorkerOf(t)]) = Holds(r_taskQueue[RL!WorkerOf(t)]) \cup {t}
         /\ Holds(r_pushed'[r_SessionOf[t]]) = Holds(r_pushed[r_SessionOf[t]]) \cup {t}
<1> DEFINE w == RL!WorkerOf(t) s == r_SessionOf[t]
<1>r. w \in RL!Workers /\ s \in RL!Sessions /\ w = s % RelayWorkers
  BY Routes
<1>0. /\ r_epc[t] # "returned" /\ r_epc'[t] = "returned" /\ \A u \in RelayTasks \ {t} : r_epc'[u] = r_epc[u]
      /\ r_taskQueue'[w] = Append(r_taskQueue[w], t) /\ \A v \in RL!Workers \ {w} : r_taskQueue'[v] = r_taskQueue[v]
      /\ r_pushed'[s] = Append(r_pushed[s], t) /\ \A z \in RL!Sessions \ {s} : r_pushed'[z] = r_pushed[z]
      /\ UNCHANGED <<r_SessionOf, r_inflight, r_pending, r_dispatched, r_outcome, r_callbacks>>
  BY <1>r, Zenon DEF RL!EnqueueTask_Push, RL!TypeOK, RL!session, RL!results
<1>1. /\ ~Waits(t) /\ ~Behind(t) /\ ~AtServer(t) /\ ~Accepted(t) /\ r_outcome[t] = "none"
  BY <1>0 DEF PlacesInv, LedgerInv, TaskLedger
<1>2. t \notin Holds(r_taskQueue[w]) /\ t \notin Holds(r_pushed[s])
  BY <1>1 DEF Waits, Accepted
<1>3. /\ r_taskQueue[w] \in Seq(RelayTasks) /\ r_pushed[s] \in Seq(RelayTasks)
      /\ NoRepeat(r_taskQueue[w]) /\ NoRepeat(r_pushed[s])
  BY <1>r DEF RL!TypeOK, PlacesInv, QueuesInv, WorkerQueue, SessionQueues
<1>4. /\ Holds(r_taskQueue'[w]) = Holds(r_taskQueue[w]) \cup {t} /\ NoRepeat(r_taskQueue'[w])
      /\ \A x, y : Precedes(r_taskQueue'[w], x, y) =>
           Precedes(r_taskQueue[w], x, y) \/ (x \in Holds(r_taskQueue[w]) /\ y = t)
  BY <1>0, <1>2, <1>3, PutNew
<1>5. /\ Holds(r_pushed'[s]) = Holds(r_pushed[s]) \cup {t} /\ NoRepeat(r_pushed'[s])
      /\ \A x, y : Precedes(r_pushed[s], x, y) => Precedes(r_pushed'[s], x, y)
      /\ \A x \in Holds(r_pushed[s]) : Precedes(r_pushed'[s], x, t)
  BY <1>0, <1>2, <1>3, PutNew
<1>w. \A u \in RelayTasks : RL!WorkerOf(u)' = RL!WorkerOf(u)
  BY <1>0 DEF RL!WorkerOf
<1>x. w = RL!WorkerOf(t) /\ s = r_SessionOf[t]
  OBVIOUS
<1> HIDE DEF w, s
<1>6. QueuesInv'
  <2>1. ASSUME NEW v \in RL!Workers
        PROVE  NoRepeat(r_taskQueue'[v]) /\ \A u \in Holds(r_taskQueue'[v]) : RL!WorkerOf(u)' = v
    <3>1. NoRepeat(r_taskQueue[v]) /\ \A u \in Holds(r_taskQueue[v]) : u \in RelayTasks /\ RL!WorkerOf(u) = v
      BY HoldsType DEF RL!TypeOK, PlacesInv, QueuesInv, WorkerQueue, SessionQueues
    <3>2. CASE v = w
      BY <1>4, <1>w, <1>x, <3>1, <3>2
    <3>3. CASE v # w
      BY <1>0, <1>w, <3>1, <3>3
    <3> QED
      BY <3>2, <3>3
  <2>2. ASSUME NEW z \in RL!Sessions PROVE SessionQueues(z)'
    <3>1. SessionQueues(z)
      BY DEF PlacesInv, QueuesInv
    <3>2. CASE z = s
      <4>1. NoRepeat(r_pushed'[z]) /\ \A u \in Holds(r_pushed'[z]) : r_SessionOf[u] = z
        BY <1>5, <1>x, <3>1, <3>2 DEF SessionQueues
      <4> QED
        BY <1>0, <3>1, <4>1 DEF SessionQueues
    <3>3. CASE z # s
      BY <1>0, <3>1, <3>3 DEF SessionQueues
    <3> QED
      BY <3>2, <3>3
  <2> QED
    BY <2>1, <2>2 DEF QueuesInv, WorkerQueue
<1>7. LedgerInv'
  <2>1. \A u \in RelayTasks : /\ Waits(u)' <=> Waits(u) \/ u = t
                              /\ Accepted(u)' <=> Accepted(u) \/ u = t
    <3>1. \A u \in RelayTasks : RL!WorkerOf(u) \in RL!Workers /\ r_SessionOf[u] \in RL!Sessions
      BY Routes
    <3>2. ASSUME NEW u \in RelayTasks PROVE Waits(u)' <=> Waits(u) \/ u = t
      <4>1. u \in Holds(r_taskQueue'[RL!WorkerOf(u)]) <=> u \in Holds(r_taskQueue[RL!WorkerOf(u)]) \/ u = t
        <5>1. CASE RL!WorkerOf(u) = w
          BY <1>4, <5>1
        <5>2. CASE RL!WorkerOf(u) # w
          <6>1. r_taskQueue'[RL!WorkerOf(u)] = r_taskQueue[RL!WorkerOf(u)] /\ u # t
            BY <1>0, <1>x, <3>1, <5>2
          <6> QED
            BY <6>1
        <5> QED
          BY <5>1, <5>2
      <4> QED
        BY <1>w, <4>1 DEF Waits
    <3>3. ASSUME NEW u \in RelayTasks PROVE Accepted(u)' <=> Accepted(u) \/ u = t
      <4>1. u \in Holds(r_pushed'[r_SessionOf[u]]) <=> u \in Holds(r_pushed[r_SessionOf[u]]) \/ u = t
        <5>1. CASE r_SessionOf[u] = s
          BY <1>5, <5>1
        <5>2. CASE r_SessionOf[u] # s
          <6>1. r_pushed'[r_SessionOf[u]] = r_pushed[r_SessionOf[u]] /\ u # t
            BY <1>0, <1>x, <3>1, <5>2
          <6> QED
            BY <6>1
        <5> QED
          BY <5>1, <5>2
      <4> QED
        BY <1>0, <4>1 DEF Accepted
    <3> QED
      BY <3>2, <3>3
  <2>2. \A u \in RelayTasks : /\ Behind(u)' <=> Behind(u)
                              /\ AtServer(u)' <=> AtServer(u)
                              /\ Dispatched(u)' <=> Dispatched(u)
    BY <1>0 DEF Behind, AtServer, Dispatched
  <2>3. \A u \in RelayTasks \ {t} : Unmoved(u)
    BY <1>0, <2>1, <2>2 DEF Unmoved
  <2>4. TaskLedger(t)
    BY DEF PlacesInv, LedgerInv
  <2>5. TaskLedger(t)'
    BY <1>0, <1>1, <2>1, <2>2, <2>4, Zenon DEF TaskLedger
  <2> QED
    BY <2>3, <2>5, UnmovedLedger DEF LedgerInv
<1>8. QueueOrder'
  <2> SUFFICES ASSUME NEW v \in RL!Workers, NEW x \in RelayTasks, NEW y \in RelayTasks,
                      Precedes(r_taskQueue'[v], x, y), r_SessionOf[x] = r_SessionOf[y]
               PROVE  Precedes(r_pushed'[r_SessionOf[x]], x, y)
    BY <1>0 DEF QueueOrder
  <2>0. r_SessionOf[x] \in RL!Sessions
    BY Routes
  <2>1. CASE Precedes(r_taskQueue[v], x, y)
    <3>1. Precedes(r_pushed[r_SessionOf[x]], x, y)
      BY <2>1 DEF PlacesInv, QueueOrder
    <3> QED
      BY <1>0, <1>5, <2>0, <3>1, Zenon
  <2>2. CASE v = w /\ x \in Holds(r_taskQueue[w]) /\ y = t
    <3>1. Waits(x)
      BY <1>r, <2>2 DEF Waits, PlacesInv, QueuesInv, WorkerQueue, SessionQueues
    <3>2. Accepted(x)
      BY <3>1 DEF PlacesInv, LedgerInv, TaskLedger
    <3>3. x \in Holds(r_pushed[s]) /\ r_SessionOf[x] = s
      BY <2>2, <3>2 DEF Accepted, s
    <3> QED
      BY <1>5, <2>2, <3>3
  <2>3. Precedes(r_taskQueue[v], x, y) \/ (v = w /\ x \in Holds(r_taskQueue[w]) /\ y = t)
    <3>1. CASE v = w
      BY <1>4, <3>1
    <3>2. CASE v # w
      BY <1>0, <3>2
    <3> QED
      BY <3>1, <3>2
  <2> QED
    BY <2>1, <2>2, <2>3
<1> QED
  BY <1>4, <1>5, <1>6, <1>7, <1>8 DEF PlacesInv, w, s

(* A request in flight is answered or times out. *)
LEMMA CompletePlaces ==
  ASSUME RL!TypeOK, PlacesInv, NEW s \in RL!Sessions, NEW t \in RelayTasks, r_inflight[s] = <<t>>,
         r_inflight' = [r_inflight EXCEPT ![s] = <<>>],
         NEW o \in {"answered", "timeout"}, RL!Report(t, o),
         UNCHANGED <<r_SessionOf, r_taskQueue, r_pending, r_pushed, r_dispatched, r_epc>>
  PROVE  PlacesInv' /\ r_outcome[t] = "none"
<1>0. /\ r_inflight'[s] = <<>> /\ \A z \in RL!Sessions \ {s} : r_inflight'[z] = r_inflight[z]
      /\ Holds(r_inflight'[s]) = {} /\ Holds(r_inflight[s]) = {t} /\ NoRepeat(r_inflight'[s])
  BY HoldsFew DEF RL!TypeOK
<1>1. r_SessionOf[t] = s /\ AtServer(t)
  BY <1>0 DEF PlacesInv, QueuesInv, WorkerQueue, SessionQueues, AtServer
<1>2. r_outcome[t] = "none" /\ r_callbacks[t] = 0 /\ ~Waits(t) /\ ~Behind(t) /\ Accepted(t) /\ r_epc[t] = "returned"
  BY <1>1 DEF PlacesInv, LedgerInv, TaskLedger
<1>3. /\ r_outcome'[t] = o /\ r_callbacks'[t] = 1
      /\ \A u \in RelayTasks \ {t} : r_outcome'[u] = r_outcome[u] /\ r_callbacks'[u] = r_callbacks[u]
  BY <1>2 DEF RL!Report, RL!TypeOK
<1>4. QueuesInv'
  BY <1>0 DEF PlacesInv, QueuesInv, WorkerQueue, SessionQueues, RL!WorkerOf
<1>5. QueueOrder'
  BY Zenon DEF PlacesInv, QueueOrder
<1>6. \A u \in RelayTasks : /\ Waits(u)' <=> Waits(u)
                            /\ Behind(u)' <=> Behind(u)
                            /\ Accepted(u)' <=> Accepted(u)
                            /\ Dispatched(u)' <=> Dispatched(u)
  BY DEF Waits, Behind, Accepted, Dispatched, RL!WorkerOf
<1>7. \A u \in RelayTasks : AtServer(u)' <=> AtServer(u) /\ u # t
  <2>1. \A u \in RelayTasks : r_SessionOf[u] \in RL!Sessions
    BY Routes
  <2> QED
    BY <1>0, <1>1, <2>1 DEF AtServer
<1>8. LedgerInv'
  <2>1. \A u \in RelayTasks \ {t} : Unmoved(u)
    BY <1>3, <1>6, <1>7 DEF Unmoved
  <2>2. TaskLedger(t)
    BY DEF PlacesInv, LedgerInv
  <2>3. TaskLedger(t)'
    BY <1>2, <1>3, <1>6, <1>7, <2>2, Zenon DEF TaskLedger
  <2> QED
    BY <2>1, <2>3, UnmovedLedger DEF LedgerInv
<1> QED
  BY <1>2, <1>4, <1>5, <1>8 DEF PlacesInv

(* The workers' queues keep their order, and t is in none of them. *)
QueuedBut(t) ==
  /\ \A v \in RL!Workers : WorkerQueue(v)'
  /\ \A u \in RelayTasks : Waits(u)' <=> Waits(u) /\ u # t
  /\ QueueOrder'

(* The head of a worker's queue leaves it. *)
LEMMA PopPlaces ==
  ASSUME RL!TypeOK, PlacesInv, NEW w \in RL!Workers, r_taskQueue[w] # <<>>,
         r_taskQueue' = [r_taskQueue EXCEPT ![w] = Tail(@)], UNCHANGED <<r_SessionOf, r_pushed>>,
         NEW h, h = Head(r_taskQueue[w])
  PROVE  /\ h \in RelayTasks /\ Waits(h) /\ RL!WorkerOf(h) = w
         /\ QueuedBut(h)
         /\ Holds(r_taskQueue'[w]) = Holds(r_taskQueue[w]) \ {h}
         /\ \A y \in Holds(r_taskQueue'[w]) : Precedes(r_taskQueue[w], h, y)
         /\ \A v \in RL!Workers \ {w} : r_taskQueue'[v] = r_taskQueue[v]
<1>0. /\ r_taskQueue[w] \in Seq(RelayTasks) /\ NoRepeat(r_taskQueue[w])
      /\ r_taskQueue'[w] = Tail(r_taskQueue[w]) /\ \A v \in RL!Workers \ {w} : r_taskQueue'[v] = r_taskQueue[v]
  BY DEF RL!TypeOK, PlacesInv, QueuesInv, WorkerQueue, SessionQueues
<1>1. /\ h \in Holds(r_taskQueue[w]) /\ h \in RelayTasks
      /\ Holds(r_taskQueue'[w]) = Holds(r_taskQueue[w]) \ {h} /\ NoRepeat(r_taskQueue'[w])
      /\ \A x, y : Precedes(r_taskQueue'[w], x, y) => Precedes(r_taskQueue[w], x, y)
      /\ \A y \in Holds(r_taskQueue'[w]) : Precedes(r_taskQueue[w], h, y)
  BY <1>0, TakeHead
<1>2. RL!WorkerOf(h) = w /\ Waits(h)
  BY <1>1 DEF PlacesInv, QueuesInv, WorkerQueue, SessionQueues, Waits
<1>w. \A u \in RelayTasks : RL!WorkerOf(u)' = RL!WorkerOf(u) /\ RL!WorkerOf(u) \in RL!Workers
  BY Routes DEF RL!WorkerOf
<1>3. ASSUME NEW v \in RL!Workers
      PROVE  NoRepeat(r_taskQueue'[v]) /\ \A u \in Holds(r_taskQueue'[v]) : RL!WorkerOf(u)' = v
  <2>1. NoRepeat(r_taskQueue[v]) /\ \A u \in Holds(r_taskQueue[v]) : u \in RelayTasks /\ RL!WorkerOf(u) = v
    BY HoldsType DEF RL!TypeOK, PlacesInv, QueuesInv, WorkerQueue, SessionQueues
  <2>2. NoRepeat(r_taskQueue'[v]) /\ Holds(r_taskQueue'[v]) \subseteq Holds(r_taskQueue[v])
    BY <1>0, <1>1, <2>1
  <2> QED
    BY <1>w, <2>1, <2>2
<1>4. ASSUME NEW u \in RelayTasks PROVE Waits(u)' <=> Waits(u) /\ u # h
  <2>1. CASE RL!WorkerOf(u) = w
    BY <1>1, <1>w, <2>1 DEF Waits
  <2>2. CASE RL!WorkerOf(u) # w
    <3>1. r_taskQueue'[RL!WorkerOf(u)] = r_taskQueue[RL!WorkerOf(u)] /\ u # h
      BY <1>0, <1>2, <1>w, <2>2
    <3> QED
      BY <1>w, <3>1 DEF Waits
  <2> QED
    BY <2>1, <2>2
<1>5. QueueOrder'
  <2>1. \A v \in RL!Workers : \A x, y : Precedes(r_taskQueue'[v], x, y) => Precedes(r_taskQueue[v], x, y)
    BY <1>0, <1>1
  <2> QED
    BY <2>1 DEF PlacesInv, QueueOrder
<1> QED
  BY <1>0, <1>1, <1>2, <1>3, <1>4, <1>5 DEF QueuedBut, WorkerQueue

(* Task t of session s is sent or fails, and rest is left behind it. *)
Sends(s, t, rest) ==
  /\ r_dispatched'[s] = Append(r_dispatched[s], t) /\ r_pending'[s] = rest
  /\ \A z \in RL!Sessions \ {s} : /\ r_dispatched'[z] = r_dispatched[z] /\ r_pending'[z] = r_pending[z]
                                  /\ r_inflight'[z] = r_inflight[z]
  /\ \/ r_inflight'[s] = <<t>> /\ r_outcome' = r_outcome
     \/ r_inflight'[s] = <<>> /\ r_outcome'[t] \in {"invalid", "unsent"}
  /\ \A u \in RelayTasks \ {t} : r_outcome'[u] = r_outcome[u]

(* A task is dispatched, from the queue or from the pending ones. *)
LEMMA DispatchPlaces ==
  ASSUME RL!TypeOK, PlacesInv, NEW t \in RelayTasks, NEW rest \in Seq(RelayTasks), RL!Dispatch(t, rest),
         NEW s, s = r_SessionOf[t], r_inflight[s] = <<>>, Waits(t) \/ Behind(t),
         NoRepeat(rest), Holds(rest) = Holds(r_pending[s]) \ {t},
         QueuedBut(t), UNCHANGED <<r_SessionOf, r_pushed, r_epc>>
  PROVE  PlacesInv' /\ r_outcome[t] = "none" /\ Sends(s, t, rest)
<1>s. s \in RL!Sessions /\ r_pending[s] \in Seq(RelayTasks) /\ r_dispatched[s] \in Seq(RelayTasks)
  BY Routes DEF RL!TypeOK
<1>0. /\ r_dispatched'[s] = Append(r_dispatched[s], t) /\ r_pending'[s] = rest
      /\ \A z \in RL!Sessions \ {s} : r_dispatched'[z] = r_dispatched[z] /\ r_pending'[z] = r_pending[z]
  BY <1>s, Zenon DEF RL!Dispatch, RL!TypeOK
<1>1. /\ r_outcome[t] = "none" /\ r_callbacks[t] = 0 /\ Accepted(t) /\ ~AtServer(t) /\ ~Dispatched(t) /\ r_epc[t] = "returned"
  BY Zenon DEF PlacesInv, LedgerInv, TaskLedger
<1>2. t \notin Holds(r_dispatched[s])
  BY <1>1, Zenon DEF Dispatched
<1>3. Holds(r_dispatched'[s]) = Holds(r_dispatched[s]) \cup {t}
  <2>1. t \in RelayTasks
    BY Zenon
  <2>2. Holds(Append(r_dispatched[s], t)) = Holds(r_dispatched[s]) \cup {t}
    BY ONLY <1>2, <1>s, <2>1, PutNew
  <2> QED
    BY <1>0, <2>2, Zenon
<1>4. /\ \A z \in RL!Sessions \ {s} : r_inflight'[z] = r_inflight[z]
      /\ \A u \in RelayTasks \ {t} : r_outcome'[u] = r_outcome[u] /\ r_callbacks'[u] = r_callbacks[u]
      /\ \/ r_inflight'[s] = <<t>> /\ r_outcome' = r_outcome /\ r_callbacks' = r_callbacks
         \/ r_inflight'[s] = <<>> /\ r_outcome'[t] \in {"invalid", "unsent"} /\ r_callbacks'[t] = 1
  <2>1. PICK o \in RelayResults :
        IF o = "sent"
        THEN /\ r_inflight' = [r_inflight EXCEPT ![s] = <<t>>]
             /\ r_wire' = r_wire \cup {t} /\ UNCHANGED <<r_outcome, r_callbacks>>
        ELSE RL!Report(t, o) /\ UNCHANGED <<r_inflight, r_wire>>
    BY DEF RL!Dispatch, RL!results
  <2>2. CASE o = "sent"
    BY <1>s, <2>1, <2>2, Zenon DEF RL!TypeOK
  <2>3. CASE o # "sent"
    <3>1. o \in {"invalid", "unsent"}
      BY <2>3, RelayResultsAssumption
    <3> QED
      BY <1>1, <2>1, <2>3, <3>1, SMTT(20) DEF RL!Report, RL!TypeOK
  <2> QED
    BY <2>2, <2>3
<1>5. /\ Holds(r_inflight[s]) = {} /\ NoRepeat(r_inflight'[s])
      /\ Holds(r_inflight'[s]) = (IF r_outcome'[t] = "none" THEN {t} ELSE {})
  <2>1. CASE r_inflight'[s] = <<t>> /\ r_outcome' = r_outcome
    BY <1>1, <2>1, HoldsFew, Zenon
  <2>2. CASE r_inflight'[s] = <<>> /\ r_outcome'[t] \in {"invalid", "unsent"}
    BY <2>2, HoldsFew, Zenon
  <2> QED
    BY <1>4, <2>1, <2>2, Zenon
<1>6. QueuesInv'
  <2>1. ASSUME NEW z \in RL!Sessions PROVE SessionQueues(z)'
    <3>0. SessionQueues(z)
      BY DEF PlacesInv, QueuesInv
    <3>1. CASE z = s
      <4>1. /\ NoRepeat(r_pushed[s]) /\ \A u \in Holds(r_pending[s]) : r_SessionOf[u] = s
            /\ \A u \in Holds(r_pushed[s]) : r_SessionOf[u] = s
            /\ \A u \in Holds(r_dispatched[s]) : r_SessionOf[u] = s
        BY <3>0, <3>1, Zenon DEF SessionQueues
      <4>2. r_inflight'[s] = <<>> \/ \E u \in RelayTasks : r_inflight'[s] = <<u>>
        BY <1>4, Zenon
      <4>3. \A u \in Holds(r_inflight'[s]) : u = t
        BY <1>5
      <4>4. \A u \in Holds(r_pending'[s]) : r_SessionOf[u] = s
        BY <1>0, <4>1
      <4>5. \A u \in Holds(r_dispatched'[s]) : r_SessionOf[u] = s
        BY <1>3, <4>1, Zenon
      <4> QED
        BY <1>0, <1>5, <3>1, <4>1, <4>2, <4>3, <4>4, <4>5, Zenon DEF SessionQueues
    <3>2. CASE z # s
      BY <1>0, <1>4, <3>0, <3>2, Zenon DEF SessionQueues
    <3> QED
      BY <3>1, <3>2
  <2> QED
    BY <2>1, Zenon DEF QueuesInv, QueuedBut
<1>7. ASSUME NEW u \in RelayTasks
      PROVE  /\ Behind(u)' <=> Behind(u) /\ u # t
             /\ AtServer(u)' <=> AtServer(u) \/ (u = t /\ r_outcome'[t] = "none")
             /\ Dispatched(u)' <=> Dispatched(u) \/ u = t
             /\ Accepted(u)' <=> Accepted(u)
  <2>0. r_SessionOf[u] \in RL!Sessions
    BY Routes, Zenon
  <2>1. Accepted(u)' <=> Accepted(u)
    BY DEF Accepted
  <2>2. CASE r_SessionOf[u] = s
    <3>1. Behind(u)' <=> Behind(u) /\ u # t
      BY <1>0, <2>2, Zenon DEF Behind
    <3>2. AtServer(u)' <=> AtServer(u) \/ (u = t /\ r_outcome'[t] = "none")
      <4>1. AtServer(u)' <=> u \in Holds(r_inflight'[s])
        BY <2>2 DEF AtServer
      <4>2. ~AtServer(u)
        BY <1>5, <2>2 DEF AtServer
      <4> QED
        BY <1>5, <4>1, <4>2, Zenon
    <3>3. Dispatched(u)' <=> Dispatched(u) \/ u = t
      BY <1>3, <2>2 DEF Dispatched
    <3> QED
      BY <2>1, <3>1, <3>2, <3>3, Zenon
  <2>3. CASE r_SessionOf[u] # s
    <3>1. u # t /\ r_dispatched'[r_SessionOf[u]] = r_dispatched[r_SessionOf[u]]
          /\ r_pending'[r_SessionOf[u]] = r_pending[r_SessionOf[u]]
          /\ r_inflight'[r_SessionOf[u]] = r_inflight[r_SessionOf[u]]
      BY <1>0, <1>4, <2>0, <2>3, Zenon
    <3> QED
      BY <2>1, <3>1, Zenon DEF Behind, AtServer, Dispatched
  <2> QED
    BY <2>2, <2>3, Zenon
<1>8. LedgerInv'
  <2>1. \A u \in RelayTasks \ {t} : r_outcome'[u] = r_outcome[u] /\ r_callbacks'[u] = r_callbacks[u]
    BY <1>4, Zenon
  <2>2. /\ r_callbacks'[t] = (IF r_outcome'[t] = "none" THEN 0 ELSE 1)
    BY <1>1, <1>4
  <2>3. \A u \in RelayTasks \ {t} : Unmoved(u)
    BY <1>7, <2>1, Zenon DEF Unmoved, QueuedBut
  <2>4. TaskLedger(t)'
    BY <1>1, <1>7, <2>2, Zenon DEF TaskLedger, QueuedBut
  <2> QED
    BY <2>3, <2>4, UnmovedLedger DEF LedgerInv
<1> QED
  BY <1>0, <1>1, <1>4, <1>6, <1>8, Zenon DEF PlacesInv, QueuedBut, Sends

(* A task of a session with a request in flight goes behind it. *)
LEMMA DeferPlaces ==
  ASSUME RL!TypeOK, PlacesInv, NEW w \in RL!Workers, r_taskQueue[w] # <<>>,
         r_taskQueue' = [r_taskQueue EXCEPT ![w] = Tail(@)],
         NEW h, h = Head(r_taskQueue[w]), NEW s, s = r_SessionOf[h],
         r_pending' = [r_pending EXCEPT ![s] = Append(@, h)],
         UNCHANGED <<r_SessionOf, r_pushed, r_inflight, r_dispatched, r_outcome, r_callbacks, r_epc>>
  PROVE  /\ PlacesInv' /\ Holds(r_pending'[s]) = Holds(r_pending[s]) \cup {h}
         /\ r_pending'[s] = Append(r_pending[s], h) /\ \A z \in RL!Sessions \ {s} : r_pending'[z] = r_pending[z]
<1>0. /\ h \in RelayTasks /\ Waits(h)
      /\ QueuedBut(h)
  BY PopPlaces, Zenon
<1>s. s \in RL!Sessions /\ r_pending[s] \in Seq(RelayTasks) /\ NoRepeat(r_pending[s])
  BY <1>0, Routes, Zenon DEF RL!TypeOK, PlacesInv, QueuesInv, WorkerQueue, SessionQueues
<1>1. /\ r_outcome[h] = "none" /\ Accepted(h) /\ ~AtServer(h) /\ ~Dispatched(h) /\ ~Behind(h)
  BY <1>0, Zenon DEF PlacesInv, LedgerInv, TaskLedger
<1>2. r_pending'[s] = Append(r_pending[s], h) /\ \A z \in RL!Sessions \ {s} : r_pending'[z] = r_pending[z]
  BY <1>s, Zenon DEF RL!TypeOK
<1>3. h \notin Holds(r_pending[s])
  BY <1>1 DEF Behind
<1>4. Holds(r_pending'[s]) = Holds(r_pending[s]) \cup {h} /\ NoRepeat(r_pending'[s])
  <2>1. h \in RelayTasks
    BY <1>0
  <2>2. /\ Holds(Append(r_pending[s], h)) = Holds(r_pending[s]) \cup {h}
        /\ NoRepeat(r_pending[s]) => NoRepeat(Append(r_pending[s], h))
    BY ONLY <1>3, <1>s, <2>1, PutNew
  <2> QED
    BY <1>2, <1>s, <2>2, Zenon
<1>5. ASSUME NEW z \in RL!Sessions PROVE SessionQueues(z)'
  <2>1. SessionQueues(z)
    BY DEF PlacesInv, QueuesInv
  <2>2. CASE z = s
    BY <1>4, <2>1, <2>2, Zenon DEF SessionQueues
  <2>3. CASE z # s
    BY <1>2, <2>1, <2>3, Zenon DEF SessionQueues
  <2> QED
    BY <2>2, <2>3
<1>6. QueuesInv'
  BY <1>0, <1>5 DEF QueuesInv, QueuedBut
<1>7. ASSUME NEW u \in RelayTasks
      PROVE  /\ Behind(u)' <=> Behind(u) \/ u = h
             /\ AtServer(u)' <=> AtServer(u)
             /\ Dispatched(u)' <=> Dispatched(u)
             /\ Accepted(u)' <=> Accepted(u)
  <2>0. r_SessionOf[u] \in RL!Sessions
    BY Routes
  <2>1. Behind(u)' <=> Behind(u) \/ u = h
    <3>1. CASE r_SessionOf[u] = s
      BY <1>4, <3>1 DEF Behind
    <3>2. CASE r_SessionOf[u] # s
      BY <1>2, <2>0, <3>2, Zenon DEF Behind
    <3> QED
      BY <3>1, <3>2
  <2> QED
    BY <2>1 DEF AtServer, Dispatched, Accepted
<1>8. LedgerInv'
  <2>1. \A u \in RelayTasks \ {h} : Unmoved(u)
    BY <1>0, <1>7, Zenon DEF Unmoved, QueuedBut
  <2>2. TaskLedger(h)
    BY <1>0 DEF PlacesInv, LedgerInv
  <2>3. TaskLedger(h)'
    BY <1>0, <1>1, <1>7, <2>2, Zenon DEF TaskLedger, QueuedBut
  <2> QED
    BY <2>1, <2>3, UnmovedLedger DEF LedgerInv
<1> QED
  BY <1>0, <1>2, <1>4, <1>6, <1>8, Zenon DEF PlacesInv, QueuedBut

(* ShutdownDrain answers what the sessions of one worker hold, ... *)
LEMMA HeldPlaces ==
  ASSUME RL!TypeOK, PlacesInv, RL!ShutdownDrain_Sessions
  PROVE  PlacesInv' /\ \A u \in RelayTasks : r_outcome[u] # "none" => r_outcome'[u] = r_outcome[u]
<1>0. UNCHANGED <<r_SessionOf, r_taskQueue, r_pushed, r_dispatched, r_epc>>
  BY Zenon DEF RL!ShutdownDrain_Sessions, RL!queues
<1>1. CASE r_spc' = "down"
  <2>1. UNCHANGED <<r_inflight, r_pending, r_outcome, r_callbacks>>
    BY <1>1 DEF RL!ShutdownDrain_Sessions, RL!session, RL!results
  <2> QED
    BY <1>0, <2>1, StayPut
<1>2. CASE r_spc' # "down"
  <2> DEFINE O == RL!Owned(r_sIdx)
  <2>1. /\ \A s \in RL!Sessions : /\ r_inflight'[s] = (IF s \in O THEN <<>> ELSE r_inflight[s])
                                  /\ r_pending'[s] = (IF s \in O THEN <<>> ELSE r_pending[s])
        /\ \A u \in RelayTasks : /\ r_outcome'[u] = (IF u \in Held THEN "shutdown" ELSE r_outcome[u])
                                 /\ r_callbacks'[u] = (IF u \in Held THEN r_callbacks[u] + 1 ELSE r_callbacks[u])
    BY <1>2, DrainSessions
  <2>2. O \subseteq RL!Sessions
    BY DEF RL!Owned
  <2> HIDE DEF O
  <2>3. ASSUME NEW u \in RelayTasks PROVE u \in Held <=> r_SessionOf[u] \in O /\ (Behind(u) \/ AtServer(u))
    <3>1. u \in Held <=> \E s \in O : u \in Holds(r_inflight[s]) \/ u \in Holds(r_pending[s])
      BY SameHolds DEF Held, O
    <3>2. \A s \in O : u \in Holds(r_inflight[s]) \/ u \in Holds(r_pending[s]) => r_SessionOf[u] = s
      BY <2>2 DEF PlacesInv, QueuesInv, WorkerQueue, SessionQueues
    <3> QED
      BY <3>1, <3>2 DEF Behind, AtServer
  <2>4. ASSUME NEW u \in RelayTasks
        PROVE  /\ Waits(u)' <=> Waits(u)
               /\ Behind(u)' <=> Behind(u) /\ u \notin Held
               /\ AtServer(u)' <=> AtServer(u) /\ u \notin Held
               /\ Accepted(u)' <=> Accepted(u)
               /\ Dispatched(u)' <=> Dispatched(u)
    <3>1. /\ Waits(u)' <=> Waits(u)
          /\ Accepted(u)' <=> Accepted(u)
          /\ Dispatched(u)' <=> Dispatched(u)
      BY <1>0 DEF Waits, Accepted, Dispatched, RL!WorkerOf
    <3>2. r_SessionOf[u] \in RL!Sessions /\ r_SessionOf'[u] = r_SessionOf[u]
      BY <1>0, Routes
    <3>3. CASE r_SessionOf[u] \in O
      <4>1. ~Behind(u)' /\ ~AtServer(u)'
        BY <2>1, <3>2, <3>3, HoldsFew, Zenon DEF Behind, AtServer
      <4> QED
        BY <2>3, <3>1, <3>3, <4>1
    <3>4. CASE r_SessionOf[u] \notin O
      <4>1. (Behind(u)' <=> Behind(u)) /\ (AtServer(u)' <=> AtServer(u))
        BY <2>1, <3>2, <3>4 DEF Behind, AtServer
      <4> QED
        BY <2>3, <3>1, <3>4, <4>1
    <3> QED
      BY <3>3, <3>4
  <2>5. \A u \in RelayTasks : u \in Held => r_outcome[u] = "none" /\ r_callbacks[u] = 0 /\ r_epc[u] = "returned" /\ ~Waits(u)
    BY <2>3 DEF PlacesInv, LedgerInv, TaskLedger
  <2>6. LedgerInv'
    <3>1. ASSUME NEW u \in RelayTasks PROVE TaskLedger(u)'
      <4>1. CASE u \in Held
        <5>1. TaskLedger(u) /\ (Behind(u) \/ AtServer(u))
          BY <2>3, <4>1 DEF PlacesInv, LedgerInv
        <5>2. r_outcome'[u] = "shutdown" /\ r_callbacks'[u] = 1
          BY <2>1, <2>5, <4>1
        <5> QED
          BY <1>0, <2>4, <2>5, <4>1, <5>1, <5>2, Zenon DEF TaskLedger
      <4>2. CASE u \notin Held
        <5>1. Unmoved(u)
          BY <1>0, <2>1, <2>4, <4>2, Zenon DEF Unmoved
        <5> QED
          BY <5>1, UnmovedLedger
      <4> QED
        BY <4>1, <4>2
    <3> QED
      BY <3>1 DEF LedgerInv
  <2>7. QueuesInv'
    <3>1. ASSUME NEW s \in RL!Sessions PROVE SessionQueues(s)'
      <4>0. SessionQueues(s)
        BY DEF PlacesInv, QueuesInv
      <4>1. CASE s \in O
        BY <1>0, <2>1, <4>0, <4>1, HoldsFew, Zenon DEF SessionQueues
      <4>2. CASE s \notin O
        BY <1>0, <2>1, <4>0, <4>2 DEF SessionQueues
      <4> QED
        BY <4>1, <4>2
    <3> QED
      BY <1>0, <3>1, Zenon DEF PlacesInv, QueuesInv, WorkerQueue, SessionQueues, RL!WorkerOf
  <2>8. QueueOrder'
    BY <1>0 DEF PlacesInv, QueueOrder
  <2> QED
    BY <2>1, <2>5, <2>6, <2>7, <2>8 DEF PlacesInv
<1> QED
  BY <1>1, <1>2

(* ... and then its queue, task by task. *)
LEMMA LeftPlaces ==
  ASSUME RL!TypeOK, PlacesInv, ControlInv, RL!ShutdownDrain_Tasks
  PROVE  PlacesInv' /\ \A u \in RelayTasks : r_outcome[u] # "none" => r_outcome'[u] = r_outcome[u]
<1>0. UNCHANGED <<r_SessionOf, r_inflight, r_pending, r_pushed, r_dispatched, r_epc>>
  BY DEF RL!ShutdownDrain_Tasks, RL!session
<1>w. r_sIdx \in RL!Workers
  BY RelayWorkersAssumption DEF RL!ShutdownDrain_Tasks, ControlInv, WorkerControl, RL!TypeOK, RL!Workers
<1>1. CASE r_taskQueue[r_sIdx] = <<>>
  BY <1>0, <1>1, StayPut DEF RL!ShutdownDrain_Tasks, RL!results
<1>2. CASE r_taskQueue[r_sIdx] # <<>>
  <2> SUFFICES ASSUME NEW h, h = Head(r_taskQueue[r_sIdx])
               PROVE  PlacesInv' /\ \A u \in RelayTasks : r_outcome[u] # "none" => r_outcome'[u] = r_outcome[u]
    OBVIOUS
  <2>1. r_taskQueue' = [r_taskQueue EXCEPT ![r_sIdx] = Tail(@)] /\ RL!Report(h, "shutdown")
    BY <1>2 DEF RL!ShutdownDrain_Tasks
  <2>2. /\ h \in RelayTasks /\ Waits(h)
        /\ QueuedBut(h)
    BY <1>0, <1>2, <1>w, <2>1, PopPlaces, Zenon
  <2>3. /\ r_outcome[h] = "none" /\ r_callbacks[h] = 0 /\ r_epc[h] = "returned" /\ ~Behind(h) /\ ~AtServer(h)
    BY <2>2, Zenon DEF PlacesInv, LedgerInv, TaskLedger
  <2>4. /\ r_outcome'[h] = "shutdown" /\ r_callbacks'[h] = 1
        /\ \A u \in RelayTasks \ {h} : r_outcome'[u] = r_outcome[u] /\ r_callbacks'[u] = r_callbacks[u]
    BY <2>1, <2>2, <2>3 DEF RL!Report, RL!TypeOK
  <2>5. \A u \in RelayTasks : /\ Behind(u)' <=> Behind(u)
                              /\ AtServer(u)' <=> AtServer(u)
                              /\ Accepted(u)' <=> Accepted(u)
                              /\ Dispatched(u)' <=> Dispatched(u)
    BY <1>0 DEF Behind, AtServer, Accepted, Dispatched
  <2>6. LedgerInv'
    <3>1. \A u \in RelayTasks \ {h} : Unmoved(u)
      BY <1>0, <2>2, <2>4, <2>5, Zenon DEF Unmoved, QueuedBut
    <3>2. TaskLedger(h)
      BY <2>2 DEF PlacesInv, LedgerInv
    <3>3. TaskLedger(h)'
      BY <1>0, <2>2, <2>3, <2>4, <2>5, <3>2, Zenon DEF TaskLedger, QueuedBut
    <3> QED
      BY <3>1, <3>3, UnmovedLedger DEF LedgerInv
  <2>7. QueuesInv'
    BY <1>0, <2>2, Zenon DEF PlacesInv, QueuesInv, QueuedBut, SessionQueues
  <2> QED
    BY <2>2, <2>3, <2>4, <2>6, <2>7 DEF PlacesInv, QueuedBut
<1> QED
  BY <1>1, <1>2

(***************************************************************************)
(* Control                                                                 *)
(***************************************************************************)
(* A worker moves: what it owes the others. *)
LEMMA WorkerKeeps ==
  ASSUME RL!TypeOK, ControlInv, NEW w \in RL!Workers, UNCHANGED <<r_spc, r_sIdx>>,
         \A v \in RL!Workers \ {w} : UNCHANGED <<r_timedOut[v], r_wpc[v], r_cur[v]>>,
         \A z \in RL!Sessions \ RL!Owned(w) : r_inflight'[z] = r_inflight[z],
         WorkerControl(w)'
  PROVE  ControlInv'
<1>1. ASSUME NEW v \in RL!Workers \ {w} PROVE WorkerControl(v)'
  <2>1. WorkerControl(v)
    BY Zenon DEF ControlInv, WorkerControl
  <2>2. \A z \in RL!Owned(v) : z \in RL!Sessions \ RL!Owned(w)
    BY Routes, SMTT(20)
  <2>3. \A z \in RL!Owned(v) : r_inflight'[z] = r_inflight[z]
    BY <2>2
  <2>4. UNCHANGED <<r_timedOut[v], r_wpc[v], r_cur[v]>>
    OBVIOUS
  <2> QED
    BY <2>1, <2>3, <2>4, Zenon DEF WorkerControl, RL!Owned
<1> QED
  BY <1>1, Zenon DEF ControlInv, WorkerControl

LEMMA CompleteControl ==
  ASSUME RL!TypeOK, ControlInv, NEW w \in RL!Workers, NEW s \in RL!Owned(w),
         r_wpc[w] \in {"expire", "respond"}, s \notin r_timedOut'[w],
         r_timedOut'[w] \subseteq r_timedOut[w], r_wpc'[w] \in NextDue, r_cur'[w] = s,
         r_timedOut'[w] # {} => r_wpc'[w] = "expireNext",
         \A v \in RL!Workers \ {w} : UNCHANGED <<r_timedOut[v], r_wpc[v], r_cur[v]>>,
         r_inflight'[s] = <<>>, \A z \in RL!Sessions \ {s} : r_inflight'[z] = r_inflight[z],
         UNCHANGED <<r_spc, r_sIdx>>
  PROVE  ControlInv'
<1>0. RL!Owned(w) \subseteq RL!Sessions /\ WorkerControl(w) /\ RL!Owned(w)' = RL!Owned(w)
  BY DEF RL!Owned, ControlInv
<1>1. WorkerControl(w)'
  <2>1. \A z \in r_timedOut'[w] : z \in RL!Owned(w)' /\ r_inflight'[z] # <<>>
    BY <1>0, Zenon DEF WorkerControl
  <2>2. r_spc \notin Draining /\ r_spc # "created"
    BY <1>0 DEF WorkerControl
  <2> QED
    BY <1>0, <2>1, <2>2, Zenon DEF WorkerControl
<1> QED
  BY <1>0, <1>1, WorkerKeeps, Zenon

LEMMA DispatchControl ==
  ASSUME RL!TypeOK, ControlInv, NEW w \in RL!Workers, NEW s \in RL!Owned(w),
         r_wpc[w] \in {"expireNext", "respondNext", "tasks"},
         UNCHANGED <<r_timedOut, r_cur, r_spc, r_sIdx>>,
         \A v \in RL!Workers \ {w} : r_wpc'[v] = r_wpc[v],
         r_wpc'[w] = (IF r_wpc[w] = "expireNext" THEN "expire" ELSE IF r_wpc[w] = "tasks" THEN "tasks" ELSE "respond"),
         \A z \in RL!Sessions \ {s} : r_inflight'[z] = r_inflight[z],
         r_inflight[s] = <<>> \/ r_inflight'[s] = r_inflight[s]
  PROVE  ControlInv'
<1>0. RL!Owned(w) \subseteq RL!Sessions /\ WorkerControl(w) /\ RL!Owned(w)' = RL!Owned(w)
  BY DEF RL!Owned, ControlInv
<1>1. WorkerControl(w)'
  <2>1. \A z \in r_timedOut[w] : z \in RL!Owned(w)' /\ r_inflight'[z] # <<>>
    BY <1>0, Zenon DEF WorkerControl
  <2>2. r_spc \notin Draining /\ r_spc # "created"
    BY <1>0 DEF WorkerControl
  <2>3. r_timedOut[w] # {} => r_wpc'[w] = "expire"
    BY <1>0 DEF WorkerControl
  <2>4. r_wpc'[w] \notin NextDue
    BY DEF NextDue
  <2> QED
    BY <2>1, <2>2, <2>3, <2>4, Zenon DEF WorkerControl
<1> QED
  BY <1>0, <1>1, WorkerKeeps

LEMMA LifeControl ==
  ASSUME RL!TypeOK, ControlInv, RL!Initialize \/ RL!Shutdown_Stop \/ RL!Shutdown
  PROVE  ControlInv'
<1>a. RelayWorkers \in Nat \ {0} /\ r_sIdx \in Nat
  BY RelayWorkersAssumption DEF RL!TypeOK
<1>1. CASE RL!Initialize
  <2>1. ASSUME NEW w \in RL!Workers PROVE WorkerControl(w)'
    <3>1. WorkerControl(w) /\ r_spc = "created" /\ r_spc' = "up" /\ r_wpc'[w] = "loop" /\ r_timedOut' = r_timedOut
      BY <1>1 DEF ControlInv, RL!Initialize
    <3>2. r_timedOut[w] = {}
      BY <3>1 DEF WorkerControl
    <3> QED
      BY <3>1, <3>2 DEF WorkerControl, NextDue, Draining
  <2>2. r_sIdx' = r_sIdx /\ r_spc' = "up"
    BY <1>1 DEF RL!Initialize
  <2> QED
    BY <2>1, <2>2 DEF ControlInv
<1>2. CASE RL!Shutdown_Stop
  <2>1. UNCHANGED <<r_timedOut, r_wpc, r_cur, r_inflight>> /\ r_spc' = "join" /\ r_sIdx' = 0
    BY <1>2 DEF RL!Shutdown_Stop, RL!session
  <2>2. \A w \in RL!Workers : WorkerControl(w)'
    BY <2>1 DEF ControlInv, WorkerControl, Draining, RL!Owned
  <2> QED
    BY <1>a, <2>1, <2>2 DEF ControlInv
<1>3. CASE RL!Shutdown_Join
  <2>1. UNCHANGED <<r_timedOut, r_wpc, r_cur, r_inflight>> /\ r_spc' = "drain" /\ r_sIdx' = 0
        /\ \A w \in RL!Workers : r_wpc[w] = "exited"
    BY <1>3 DEF RL!Shutdown_Join, RL!session
  <2>2. \A w \in RL!Workers : WorkerControl(w)'
    BY <2>1 DEF ControlInv, WorkerControl, RL!Owned
  <2> QED
    BY <1>a, <2>1, <2>2 DEF ControlInv
<1>4. CASE RL!ShutdownDrain_Sessions \/ RL!ShutdownDrain_Tasks
  <2>1. UNCHANGED <<r_timedOut, r_wpc, r_cur>> /\ r_spc \in Draining /\ r_spc' \in Draining
    BY <1>4, Zenon DEF RL!ShutdownDrain_Sessions, RL!ShutdownDrain_Tasks, Draining
  <2>2. ASSUME NEW w \in RL!Workers PROVE WorkerControl(w)'
    <3>1. r_wpc[w] = "exited" /\ r_timedOut[w] = {}
      BY <2>1 DEF ControlInv, WorkerControl
    <3> QED
      BY <2>1, <3>1 DEF WorkerControl, NextDue, Draining
  <2>3. r_sIdx' <= RelayWorkers /\ (r_spc' = "drainTasks" => r_sIdx' < RelayWorkers)
    <3>1. CASE RL!ShutdownDrain_Sessions
      BY <3>1, Zenon DEF RL!ShutdownDrain_Sessions, ControlInv
    <3>2. CASE RL!ShutdownDrain_Tasks
      <4>1. r_sIdx < RelayWorkers
        BY <3>2 DEF RL!ShutdownDrain_Tasks, ControlInv
      <4>2. r_sIdx' = r_sIdx \/ (r_sIdx' = r_sIdx + 1 /\ r_spc' = "drain")
        BY <3>2 DEF RL!ShutdownDrain_Tasks
      <4> QED
        BY <1>a, <4>1, <4>2
    <3> QED
      BY <1>4, <3>1, <3>2
  <2> QED
    BY <2>2, <2>3 DEF ControlInv
<1> QED
  BY <1>1, <1>2, <1>3, <1>4 DEF RL!Shutdown

(***************************************************************************)
(* The order of a session                                                  *)
(***************************************************************************)
OrderInv == \A s \in RL!Sessions : SessionOrder(s)

LEMMA FailedKept ==
  ASSUME RL!TypeOK, UNCHANGED r_SessionOf,
         \A u \in RelayTasks : r_outcome[u] # "none" => r_outcome'[u] = r_outcome[u]
  PROVE  \A s \in RL!Sessions : RL!FailedIn(s)' = {} => RL!FailedIn(s) = {}
BY DEF RL!FailedIn

(* The order within a session that a step leaves alone. *)
LEMMA OrderFrame ==
  ASSUME NEW s \in RL!Sessions, SessionOrder(s), RL!FailedIn(s)' = {} => RL!FailedIn(s) = {},
         UNCHANGED <<r_dispatched[s], r_pushed[s]>>,
         r_spc' \notin Draining =>
           /\ r_spc \notin Draining /\ UNCHANGED <<r_pending[s]>>
           /\ \A u \in Holds(r_pushed[s]) : u \in Holds(r_taskQueue[s % RelayWorkers]) =>
                                             u \in Holds(r_taskQueue'[s % RelayWorkers])
           /\ \/ r_pending[s] = <<>>
              \/ UNCHANGED <<r_inflight[s], r_wpc[s % RelayWorkers], r_cur[s % RelayWorkers]>>
              \/ r_inflight'[s] # <<>>
              \/ r_wpc'[s % RelayWorkers] \in NextDue /\ r_cur'[s % RelayWorkers] = s
              \/ r_inflight'[s] = r_inflight[s] /\ r_wpc[s % RelayWorkers] \notin NextDue
              \/ r_inflight'[s] = r_inflight[s] /\ r_cur[s % RelayWorkers] # s
  PROVE  SessionOrder(s)'
<1>1. SUFFICES ASSUME RL!FailedIn(s)' = {}
               PROVE  /\ Begins(r_dispatched'[s], r_pushed'[s])
                      /\ r_spc' \notin Draining =>
                           /\ Begins(r_dispatched'[s] \o r_pending'[s], r_pushed'[s])
                           /\ Holds(r_pushed'[s]) \subseteq Holds(r_dispatched'[s]) \cup Holds(r_pending'[s])
                                                           \cup Holds(r_taskQueue'[s % RelayWorkers])
                           /\ r_pending'[s] # <<>> =>
                                \/ r_inflight'[s] # <<>>
                                \/ r_wpc'[s % RelayWorkers] \in NextDue /\ r_cur'[s % RelayWorkers] = s
  BY Zenon DEF SessionOrder
<1>2. Begins(r_dispatched'[s], r_pushed'[s])
  BY <1>1, Zenon DEF SessionOrder
<1>3. ASSUME r_spc' \notin Draining
      PROVE  /\ Begins(r_dispatched'[s] \o r_pending'[s], r_pushed'[s])
             /\ Holds(r_pushed'[s]) \subseteq Holds(r_dispatched'[s]) \cup Holds(r_pending'[s])
                                             \cup Holds(r_taskQueue'[s % RelayWorkers])
             /\ r_pending'[s] # <<>> =>
                  \/ r_inflight'[s] # <<>>
                  \/ r_wpc'[s % RelayWorkers] \in NextDue /\ r_cur'[s % RelayWorkers] = s
  <2>1. /\ Begins(r_dispatched[s] \o r_pending[s], r_pushed[s])
        /\ Holds(r_pushed[s]) \subseteq Holds(r_dispatched[s]) \cup Holds(r_pending[s])
                                        \cup Holds(r_taskQueue[s % RelayWorkers])
        /\ r_pending[s] # <<>> =>
             \/ r_inflight[s] # <<>>
             \/ r_wpc[s % RelayWorkers] \in NextDue /\ r_cur[s % RelayWorkers] = s
        /\ r_pending'[s] = r_pending[s]
    BY <1>1, <1>3, Zenon DEF SessionOrder
  <2>2. Holds(r_pushed'[s]) \subseteq Holds(r_dispatched'[s]) \cup Holds(r_pending'[s])
                                             \cup Holds(r_taskQueue'[s % RelayWorkers])
    BY <1>3, <2>1, Zenon
  <2>3. r_pending'[s] # <<>> => \/ r_inflight'[s] # <<>>
                                \/ r_wpc'[s % RelayWorkers] \in NextDue /\ r_cur'[s % RelayWorkers] = s
    BY <1>3, <2>1, Zenon
  <2> QED
    BY <2>1, <2>2, <2>3, Zenon
<1> QED
  BY <1>2, <1>3, Zenon

LEMMA PushOrder ==
  ASSUME RL!TypeOK, RL!TypeOK', PlacesInv, OrderInv, NEW t \in RelayTasks, RL!EnqueueTask_Push(t)
  PROVE  OrderInv'
<1> SUFFICES ASSUME NEW w, w = RL!WorkerOf(t), NEW s, s = r_SessionOf[t]
             PROVE  OrderInv'
  OBVIOUS
<1>r. w \in RL!Workers /\ s \in RL!Sessions /\ w = s % RelayWorkers
      /\ \A z \in RL!Sessions : z % RelayWorkers \in RL!Workers
  BY Routes
<1>0. /\ \A v \in RL!Workers \ {w} : r_taskQueue'[v] = r_taskQueue[v]
      /\ r_pushed'[s] = Append(r_pushed[s], t) /\ \A z \in RL!Sessions \ {s} : r_pushed'[z] = r_pushed[z]
      /\ UNCHANGED <<r_SessionOf, r_inflight, r_pending, r_dispatched, r_outcome, r_spc, r_wpc, r_cur>>
  BY <1>r, Zenon DEF RL!EnqueueTask_Push, RL!TypeOK, RL!session, RL!results
<1>1. /\ Holds(r_taskQueue'[w]) = Holds(r_taskQueue[w]) \cup {t}
      /\ Holds(r_pushed'[s]) = Holds(r_pushed[s]) \cup {t}
  BY PushPlaces, Zenon
<1>2. \A z \in RL!Sessions : RL!FailedIn(z)' = {} => RL!FailedIn(z) = {}
  BY <1>0, FailedKept
<1>3. \A v \in RL!Workers : Holds(r_taskQueue[v]) \subseteq Holds(r_taskQueue'[v])
  BY <1>0, <1>1
<1>4. SessionOrder(s)'
  <2>1. SUFFICES ASSUME RL!FailedIn(s) = {}
                 PROVE  /\ Begins(r_dispatched[s], r_pushed'[s])
                        /\ r_spc \notin Draining =>
                             /\ Begins(r_dispatched[s] \o r_pending[s], r_pushed'[s])
                             /\ Holds(r_pushed'[s]) \subseteq Holds(r_dispatched[s]) \cup Holds(r_pending[s])
                                                             \cup Holds(r_taskQueue'[s % RelayWorkers])
                             /\ r_pending[s] # <<>> =>
                                  \/ r_inflight[s] # <<>>
                                  \/ r_wpc[s % RelayWorkers] \in NextDue /\ r_cur[s % RelayWorkers] = s
    BY <1>0, <1>2, <1>r, Zenon DEF SessionOrder
  <2>2. SessionOrder(s)
    BY <1>r DEF OrderInv
  <2>3. /\ r_pushed[s] \in Seq(RelayTasks) /\ r_dispatched[s] \in Seq(RelayTasks) /\ r_pending[s] \in Seq(RelayTasks)
        /\ r_dispatched[s] \o r_pending[s] \in Seq(RelayTasks)
    BY <1>r, ConcatProperties, ZenonT(30) DEF RL!TypeOK
  <2>4. Begins(r_dispatched[s], r_pushed'[s])
    <3>1. Begins(r_dispatched[s], r_pushed[s])
      BY <2>1, <2>2, Zenon DEF SessionOrder
    <3>2. Begins(r_dispatched[s], Append(r_pushed[s], t))
      BY ONLY <2>3, <3>1, BeginsLonger
    <3> QED
      BY <1>0, <3>2
  <2>5. ASSUME r_spc \notin Draining
        PROVE  /\ Begins(r_dispatched[s] \o r_pending[s], r_pushed'[s])
               /\ Holds(r_pushed'[s]) \subseteq Holds(r_dispatched[s]) \cup Holds(r_pending[s])
                                               \cup Holds(r_taskQueue'[s % RelayWorkers])
    <3>1. /\ Begins(r_dispatched[s] \o r_pending[s], r_pushed[s])
          /\ Holds(r_pushed[s]) \subseteq Holds(r_dispatched[s]) \cup Holds(r_pending[s])
                                               \cup Holds(r_taskQueue[s % RelayWorkers])
      BY <2>1, <2>2, <2>5, Zenon DEF SessionOrder
    <3> DEFINE L == r_dispatched[s] \o r_pending[s]
    <3>3. L \in Seq(RelayTasks) /\ Begins(L, r_pushed[s])
      BY <2>3, <3>1, SMTT(20)
    <3> HIDE DEF L
    <3>4. Begins(L, Append(r_pushed[s], t))
      BY ONLY <2>3, <3>3, BeginsLonger
    <3>2. Begins(r_dispatched[s] \o r_pending[s], r_pushed'[s])
      BY <1>0, <3>4 DEF L
    <3> QED
      BY <1>1, <1>r, <3>1, <3>2, Zenon
  <2> QED
    BY <2>1, <2>2, <2>4, <2>5, Zenon DEF SessionOrder
<1>5. ASSUME NEW z \in RL!Sessions \ {s} PROVE SessionOrder(z)'
  <2>1. SessionOrder(z)
    BY DEF OrderInv
  <2>2. Holds(r_taskQueue[z % RelayWorkers]) \subseteq Holds(r_taskQueue'[z % RelayWorkers])
    BY <1>3, <1>r, Zenon
  <2> QED
    BY <1>0, <1>2, <2>1, <2>2, OrderFrame, Zenon
<1> QED
  BY <1>4, <1>5 DEF OrderInv

(* The head of a queue is the next of its session, if nothing has failed. *)
LEMMA NextFromQueue ==
  ASSUME RL!TypeOK, PlacesInv, NEW w \in RL!Workers, r_taskQueue[w] # <<>>, r_spc \notin Draining,
         r_taskQueue' = [r_taskQueue EXCEPT ![w] = Tail(@)], UNCHANGED <<r_SessionOf, r_pushed>>,
         NEW h, h = Head(r_taskQueue[w]), NEW s, s = r_SessionOf[h],
         SessionOrder(s), RL!FailedIn(s) = {}
  PROVE  /\ Begins(Append(r_dispatched[s] \o r_pending[s], h), r_pushed[s])
         /\ Holds(r_pushed[s]) \subseteq Holds(r_dispatched[s]) \cup Holds(r_pending[s])
                                         \cup {h} \cup Holds(r_taskQueue'[s % RelayWorkers])
<1>0. /\ h \in RelayTasks /\ Waits(h) /\ RL!WorkerOf(h) = w
      /\ Holds(r_taskQueue'[w]) = Holds(r_taskQueue[w]) \ {h}
      /\ \A y \in Holds(r_taskQueue'[w]) : Precedes(r_taskQueue[w], h, y)
  BY PopPlaces, Zenon
<1>1. s \in RL!Sessions /\ s % RelayWorkers = w
  BY <1>0, Routes
<1>2. Accepted(h) /\ ~Dispatched(h) /\ ~Behind(h)
  BY <1>0, Zenon DEF PlacesInv, LedgerInv, TaskLedger
<1>3. h \in Holds(r_pushed[s]) /\ h \notin Holds(r_dispatched[s]) /\ h \notin Holds(r_pending[s])
  BY <1>2, Zenon DEF Accepted, Dispatched, Behind
<1>4. /\ r_pushed[s] \in Seq(RelayTasks) /\ r_dispatched[s] \in Seq(RelayTasks) /\ r_pending[s] \in Seq(RelayTasks)
      /\ r_dispatched[s] \o r_pending[s] \in Seq(RelayTasks)
      /\ Holds(r_dispatched[s] \o r_pending[s]) = Holds(r_dispatched[s]) \cup Holds(r_pending[s])
      /\ Holds(r_pushed[s]) \subseteq RelayTasks
  <2>1. r_pushed[s] \in Seq(RelayTasks) /\ r_dispatched[s] \in Seq(RelayTasks) /\ r_pending[s] \in Seq(RelayTasks)
    BY <1>1 DEF RL!TypeOK
  <2>2. r_dispatched[s] \o r_pending[s] \in Seq(RelayTasks)
    BY <2>1, ConcatProperties, Zenon
  <2>3. Holds(r_dispatched[s] \o r_pending[s]) = Holds(r_dispatched[s]) \cup Holds(r_pending[s])
    BY ONLY <2>1, HoldsConcat, SMTT(20)
  <2>4. Holds(r_pushed[s]) \subseteq RelayTasks
    BY <2>1, HoldsType
  <2> QED
    BY <2>1, <2>2, <2>3, <2>4, Zenon
<1>5. NoRepeat(r_pushed[s]) /\ \A y \in Holds(r_pushed[s]) : r_SessionOf[y] = s
  BY <1>1, Zenon DEF PlacesInv, QueuesInv, WorkerQueue, SessionQueues
<1>6. /\ Begins(r_dispatched[s] \o r_pending[s], r_pushed[s])
      /\ Holds(r_pushed[s]) \subseteq Holds(r_dispatched[s]) \cup Holds(r_pending[s]) \cup Holds(r_taskQueue[w])
  BY <1>1, Zenon DEF SessionOrder
<1>7. ASSUME NEW y \in Holds(r_pushed[s]), y \notin Holds(r_dispatched[s] \o r_pending[s])
      PROVE  y = h \/ Precedes(r_pushed[s], h, y)
  <2>1. y = h \/ Precedes(r_taskQueue[w], h, y)
    BY <1>0, <1>4, <1>6, <1>7, Zenon
  <2>2. y \in RelayTasks /\ r_SessionOf[y] = r_SessionOf[h]
    BY <1>4, <1>5, Zenon
  <2> QED
    BY <1>0, <2>1, <2>2, Zenon DEF PlacesInv, QueueOrder
<1>8. h \notin Holds(r_dispatched[s] \o r_pending[s])
  BY <1>3, <1>4
<1>9. Begins(Append(r_dispatched[s] \o r_pending[s], h), r_pushed[s])
  BY <1>3, <1>4, <1>5, <1>6, <1>7, <1>8, BeginsNext, Zenon
<1> QED
  BY <1>0, <1>1, <1>6, <1>9, Zenon

(***************************************************************************)
(* The steps                                                               *)
(***************************************************************************)
Inv == RL!TypeOK /\ PlacesInv /\ ControlInv /\ OrderInv

(* A worker moves on and touches no task. *)
LEMMA IdleStep ==
  ASSUME Inv, NEW w \in RL!Workers, WorkerControl(w)',
         UNCHANGED <<r_SessionOf, r_taskQueue, r_inflight, r_pending, r_pushed, r_dispatched, r_outcome,
                     r_callbacks, r_epc, r_cur, r_spc, r_sIdx>>,
         \A v \in RL!Workers \ {w} : UNCHANGED <<r_timedOut[v], r_wpc[v]>>,
         r_wpc[w] \in NextDue => r_pending[r_cur[w]] = <<>>
  PROVE  PlacesInv' /\ ControlInv' /\ OrderInv'
<1>0. RL!TypeOK /\ PlacesInv /\ ControlInv /\ OrderInv
  BY DEF Inv
<1>1. PlacesInv'
  BY <1>0, StayPut, SMTT(20)
<1>2. ControlInv'
  BY <1>0, WorkerKeeps
<1>3. \A z \in RL!Sessions : RL!FailedIn(z)' = {} => RL!FailedIn(z) = {}
  BY <1>0, FailedKept
<1>4. ASSUME NEW z \in RL!Sessions PROVE SessionOrder(z)'
  <2>1. SessionOrder(z) /\ z % RelayWorkers \in RL!Workers
    BY <1>0, Routes, Zenon DEF OrderInv
  <2>2. \/ r_pending[z] = <<>>
        \/ UNCHANGED <<r_inflight[z], r_wpc[z % RelayWorkers], r_cur[z % RelayWorkers]>>
        \/ r_inflight'[z] = r_inflight[z] /\ r_wpc[z % RelayWorkers] \notin NextDue
        \/ r_inflight'[z] = r_inflight[z] /\ r_cur[z % RelayWorkers] # z
    BY <2>1
  <2> QED
    BY <1>3, <2>1, <2>2, OrderFrame, Zenon
<1> QED
  BY <1>1, <1>2, <1>4 DEF OrderInv

(* The request in flight of one of its sessions is over. *)
LEMMA CompleteStep ==
  ASSUME Inv, NEW w \in RL!Workers, NEW s \in RL!Owned(w), NEW t \in RelayTasks, r_inflight[s] = <<t>>,
         r_inflight' = [r_inflight EXCEPT ![s] = <<>>],
         NEW o \in {"answered", "timeout"}, RL!Report(t, o),
         UNCHANGED <<r_SessionOf, r_taskQueue, r_pending, r_pushed, r_dispatched, r_epc, r_spc, r_sIdx>>,
         r_wpc[w] \in {"expire", "respond"}, s \notin r_timedOut'[w],
         r_timedOut'[w] \subseteq r_timedOut[w], r_wpc'[w] \in NextDue, r_cur'[w] = s,
         r_timedOut'[w] # {} => r_wpc'[w] = "expireNext",
         \A v \in RL!Workers \ {w} : UNCHANGED <<r_timedOut[v], r_wpc[v], r_cur[v]>>
  PROVE  PlacesInv' /\ ControlInv' /\ OrderInv'
<1>0. RL!TypeOK /\ PlacesInv /\ ControlInv /\ OrderInv /\ s \in RL!Sessions /\ s % RelayWorkers = w
  BY Routes DEF Inv
<1>1. PlacesInv' /\ r_outcome[t] = "none"
  BY <1>0, CompletePlaces, Zenon
<1>2. r_inflight'[s] = <<>> /\ \A z \in RL!Sessions \ {s} : r_inflight'[z] = r_inflight[z]
  BY <1>0, Zenon DEF RL!TypeOK
<1>3. ControlInv'
  BY <1>0, <1>2, CompleteControl, Zenon
<1>4. \A u \in RelayTasks : r_outcome[u] # "none" => r_outcome'[u] = r_outcome[u]
  BY <1>0, <1>1, Zenon DEF RL!Report, RL!TypeOK
<1>5. \A z \in RL!Sessions : RL!FailedIn(z)' = {} => RL!FailedIn(z) = {}
  BY <1>0, <1>4, FailedKept, Zenon
<1>6. r_wpc[w] \notin NextDue
  BY Zenon DEF NextDue
<1>7. ASSUME NEW z \in RL!Sessions PROVE SessionOrder(z)'
  <2>1. SessionOrder(z) /\ z % RelayWorkers \in RL!Workers
    BY <1>0, Routes, Zenon DEF OrderInv
  <2>2. \/ UNCHANGED <<r_inflight[z], r_wpc[z % RelayWorkers], r_cur[z % RelayWorkers]>>
        \/ r_wpc'[z % RelayWorkers] \in NextDue /\ r_cur'[z % RelayWorkers] = z
        \/ r_inflight'[z] = r_inflight[z] /\ r_wpc[z % RelayWorkers] \notin NextDue
    <3>1. CASE z = s
      BY <1>0, <3>1, Zenon
    <3>2. CASE z # s /\ z % RelayWorkers = w
      BY <1>2, <1>6, <3>2, SMTT(20)
    <3>3. CASE z # s /\ z % RelayWorkers # w
      BY <1>2, <2>1, <3>3
    <3> QED
      BY <3>1, <3>2, <3>3, Zenon
  <2> QED
    BY <1>5, <2>1, <2>2, OrderFrame, Zenon
<1> QED
  BY <1>1, <1>3, <1>7, SMTT(20) DEF OrderInv

(* Task t is the next of session s, and rest follows it. *)
NextInOrder(s, t, rest) ==
  SessionOrder(s) /\ RL!FailedIn(s) = {} =>
    /\ Begins(Append(r_dispatched[s], t) \o rest, r_pushed[s])
    /\ Holds(r_pushed[s]) \subseteq Holds(r_dispatched[s]) \cup {t} \cup Holds(rest)
                                    \cup Holds(r_taskQueue'[s % RelayWorkers])

OnlyWorker(w) ==
  \A v \in RL!Workers \ {w} : r_wpc'[v] = r_wpc[v] /\ r_taskQueue'[v] = r_taskQueue[v]

(* A task of the session is dispatched. *)
LEMMA DispatchOrder ==
  ASSUME Inv, NEW w \in RL!Workers, NEW t \in RelayTasks, NEW s, s = r_SessionOf[t], s \in RL!Owned(w),
         NEW rest \in Seq(RelayTasks), r_outcome[t] = "none", Sends(s, t, rest), NextInOrder(s, t, rest),
         UNCHANGED <<r_SessionOf, r_pushed, r_cur, r_spc>>, r_spc \notin Draining,
         OnlyWorker(w), Holds(r_taskQueue[w]) \subseteq Holds(r_taskQueue'[w]) \cup {t},
         r_wpc[w] \in NextDue => r_cur[w] = s
  PROVE  OrderInv'
<1>0. RL!TypeOK /\ PlacesInv /\ OrderInv /\ s \in RL!Sessions /\ s % RelayWorkers = w
  BY Routes, Zenon DEF Inv
<1>1. \A u \in RelayTasks : r_outcome[u] # "none" => r_outcome'[u] = r_outcome[u]
  BY Zenon DEF Sends
<1>2. \A z \in RL!Sessions : RL!FailedIn(z)' = {} => RL!FailedIn(z) = {}
  BY <1>0, <1>1, FailedKept, Zenon
<1>3. SessionOrder(s)'
  <2>1. SUFFICES ASSUME RL!FailedIn(s)' = {}
                 PROVE  /\ Begins(r_dispatched'[s], r_pushed'[s])
                        /\ Begins(r_dispatched'[s] \o r_pending'[s], r_pushed'[s])
                        /\ Holds(r_pushed'[s]) \subseteq Holds(r_dispatched'[s]) \cup Holds(r_pending'[s])
                                                        \cup Holds(r_taskQueue'[s % RelayWorkers])
                        /\ r_inflight'[s] # <<>>
    BY Zenon DEF SessionOrder
  <2>2. r_outcome'[t] \notin {"invalid", "unsent"}
    BY <2>1, Zenon DEF RL!FailedIn
  <2>3. r_inflight'[s] # <<>>
    <3>1. r_inflight'[s] = <<t>>
      BY <2>2, Zenon DEF Sends
    <3> QED
      BY ONLY <3>1
  <2>4. /\ Begins(Append(r_dispatched[s], t) \o rest, r_pushed[s])
        /\ Holds(r_pushed[s]) \subseteq Holds(r_dispatched[s]) \cup {t} \cup Holds(rest)
                                        \cup Holds(r_taskQueue'[s % RelayWorkers])
    BY <1>0, <1>2, <2>1, Zenon DEF OrderInv, NextInOrder
  <2>5. r_dispatched[s] \in Seq(RelayTasks) /\ r_pushed[s] \in Seq(RelayTasks)
        /\ Append(r_dispatched[s], t) \in Seq(RelayTasks) /\ t \in RelayTasks
    BY <1>0, AppendEnd, Zenon DEF RL!TypeOK
  <2>6. Begins(Append(r_dispatched[s], t), r_pushed[s])
    BY <2>4, <2>5, BeginsPart, Zenon
  <2>7. Holds(Append(r_dispatched[s], t)) = Holds(r_dispatched[s]) \cup {t}
    BY ONLY <2>5, HoldsAppend
  <2> QED
    BY <2>3, <2>4, <2>6, <2>7, Zenon DEF Sends
<1>4. ASSUME NEW z \in RL!Sessions \ {s} PROVE SessionOrder(z)'
  <2>0. r_dispatched'[z] = r_dispatched[z] /\ r_pending'[z] = r_pending[z] /\ r_inflight'[z] = r_inflight[z]
    BY Zenon DEF Sends
  <2>1. SessionOrder(z) /\ z % RelayWorkers \in RL!Workers
    BY <1>0, Routes, Zenon DEF OrderInv
  <2>2. t \notin Holds(r_pushed[z])
    BY <1>0, Zenon DEF PlacesInv, QueuesInv, WorkerQueue, SessionQueues
  <2>3. \A u \in Holds(r_pushed[z]) : u \in Holds(r_taskQueue[z % RelayWorkers]) =>
                                      u \in Holds(r_taskQueue'[z % RelayWorkers])
    <3>1. CASE z % RelayWorkers = w
      BY <2>2, <3>1, Zenon
    <3>2. CASE z % RelayWorkers # w
      BY <2>0, <2>1, <3>2, Zenon DEF OnlyWorker
    <3> QED
      BY <3>1, <3>2, Zenon
  <2>4. \/ UNCHANGED <<r_inflight[z], r_wpc[z % RelayWorkers], r_cur[z % RelayWorkers]>>
        \/ r_inflight'[z] = r_inflight[z] /\ r_wpc[z % RelayWorkers] \notin NextDue
        \/ r_inflight'[z] = r_inflight[z] /\ r_cur[z % RelayWorkers] # z
    <3>1. CASE z % RelayWorkers = w
      BY <2>0, <3>1, Zenon
    <3>2. CASE z % RelayWorkers # w
      BY <2>0, <2>1, <3>2, Zenon DEF OnlyWorker
    <3> QED
      BY <3>1, <3>2, Zenon
  <2> QED
    BY <1>2, <2>0, <2>1, <2>3, <2>4, OrderFrame, Zenon
<1> QED
  BY <1>3, <1>4, Zenon DEF OrderInv

LEMMA NextStep ==
  ASSUME Inv, NEW w \in RL!Workers, RL!Worker_Next(w)
  PROVE  PlacesInv' /\ ControlInv' /\ OrderInv'
<1>0. /\ RL!TypeOK /\ PlacesInv /\ ControlInv /\ OrderInv /\ WorkerControl(w)
      /\ r_wpc[w] \in NextDue /\ r_wpc \in [RL!Workers -> {"none", "loop", "expire", "expireNext", "respond",
                          "respondNext", "tasks", "exited"}]
  BY SMTT(20) DEF Inv, ControlInv, RL!Worker_Next, NextDue, RL!TypeOK
<1>1. /\ r_wpc'[w] = (IF r_wpc[w] = "expireNext" THEN "expire" ELSE "respond")
      /\ \A v \in RL!Workers \ {w} : r_wpc'[v] = r_wpc[v]
      /\ UNCHANGED <<r_SessionOf, r_taskQueue, r_timedOut, r_cur, r_epc, r_spc, r_sIdx, r_pushed>>
  BY <1>0 DEF RL!Worker_Next, RL!queues
<1>c. r_spc \notin Draining /\ r_spc # "created"
  BY <1>0 DEF WorkerControl, NextDue
<1> SUFFICES ASSUME NEW s, s = r_cur[w]
             PROVE  PlacesInv' /\ ControlInv' /\ OrderInv'
  BY SMTT(20)
<1>2. s \in RL!Owned(w) /\ s \in RL!Sessions /\ r_inflight[s] = <<>> /\ r_pending[s] \in Seq(RelayTasks)
      /\ s % RelayWorkers = w
  BY <1>0, Routes DEF WorkerControl, RL!TypeOK
<1>3. CASE r_pending[s] = <<>> /\ UNCHANGED <<r_inflight, r_pending, r_wire, r_outcome, r_callbacks, r_dispatched>>
  <2>1. r_timedOut[w] # {} => r_wpc'[w] = "expire"
    BY <1>0, <1>1, Zenon DEF WorkerControl, NextDue
  <2>2. r_wpc'[w] \notin NextDue
    BY <1>1 DEF NextDue
  <2>3. WorkerControl(w)'
    BY <1>0, <1>1, <1>3, <1>c, <2>1, <2>2, Zenon DEF WorkerControl, RL!Owned
  <2> QED
    BY <1>1, <1>3, <2>3, IdleStep, Zenon
<1>4. CASE r_pending[s] # <<>> /\ RL!Dispatch(Head(r_pending[s]), Tail(r_pending[s]))
  <2> SUFFICES ASSUME NEW t, t = Head(r_pending[s]), NEW rest, rest = Tail(r_pending[s])
               PROVE  PlacesInv' /\ ControlInv' /\ OrderInv'
    BY Zenon
  <2>1. NoRepeat(r_pending[s])
    BY <1>0, <1>2, Zenon DEF PlacesInv, QueuesInv, WorkerQueue, SessionQueues
  <2>2. /\ t \in Holds(r_pending[s]) /\ t \in RelayTasks /\ rest \in Seq(RelayTasks)
        /\ Holds(rest) = Holds(r_pending[s]) \ {t} /\ NoRepeat(rest)
    BY <1>2, <1>4, <2>1, TakeHead, Zenon
  <2>3. r_SessionOf[t] = s /\ Behind(t)
    BY <1>0, <1>2, <2>2, Zenon DEF PlacesInv, QueuesInv, WorkerQueue, SessionQueues, Behind
  <2>4. (\A v \in RL!Workers : WorkerQueue(v)') /\ QueueOrder'
    BY <1>0, <1>1, Zenon DEF PlacesInv, QueuesInv, WorkerQueue, QueueOrder, RL!WorkerOf
  <2>5. QueuedBut(t)
    <3>1. ~Waits(t)
      BY <1>0, <2>2, <2>3, Zenon DEF PlacesInv, LedgerInv, TaskLedger
    <3>2. \A u \in RelayTasks : Waits(u)' <=> Waits(u)
      BY <1>1, Zenon DEF Waits, RL!WorkerOf
    <3> QED
      BY <2>4, <3>1, <3>2 DEF QueuedBut
  <2>6. PlacesInv' /\ r_outcome[t] = "none" /\ Sends(s, t, rest)
    BY <1>0, <1>1, <1>2, <1>4, <2>2, <2>3, <2>5, DispatchPlaces, ZenonT(30)
  <2>7. ControlInv'
    BY <1>0, <1>1, <1>2, <2>6, DispatchControl, Zenon DEF NextDue, Sends
  <2>8. NextInOrder(s, t, rest)
    <3>0. SUFFICES ASSUME SessionOrder(s), RL!FailedIn(s) = {}
                   PROVE  /\ Begins(Append(r_dispatched[s], t) \o rest, r_pushed[s])
                          /\ Holds(r_pushed[s]) \subseteq Holds(r_dispatched[s]) \cup {t} \cup Holds(rest)
                                                          \cup Holds(r_taskQueue'[s % RelayWorkers])
      BY Zenon DEF NextInOrder
    <3>1. /\ Begins(r_dispatched[s] \o r_pending[s], r_pushed[s])
          /\ Holds(r_pushed[s]) \subseteq Holds(r_dispatched[s]) \cup Holds(r_pending[s])
                                          \cup Holds(r_taskQueue[s % RelayWorkers])
      BY <1>c, <3>0, Zenon DEF SessionOrder
    <3>2. Append(r_dispatched[s], t) \o rest = r_dispatched[s] \o r_pending[s]
      <4>1. r_dispatched[s] \in Seq(RelayTasks) /\ r_pending[s] \in Seq(RelayTasks) /\ r_pending[s] # <<>>
        BY <1>0, <1>2, <1>4 DEF RL!TypeOK
      <4>2. Append(r_dispatched[s], Head(r_pending[s])) \o Tail(r_pending[s]) = r_dispatched[s] \o r_pending[s]
        BY ONLY <4>1, MoveHead, Zenon
      <4> QED
        BY <4>2, Zenon
    <3>3. Begins(Append(r_dispatched[s], t) \o rest, r_pushed[s])
      BY <3>1, <3>2, Zenon
    <3> QED
      BY <1>1, <2>2, <3>1, <3>3, Zenon
  <2>9. OnlyWorker(w) /\ Holds(r_taskQueue[w]) \subseteq Holds(r_taskQueue'[w]) \cup {t}
    BY <1>1 DEF OnlyWorker
  <2>10. OrderInv'
    BY <1>1, <1>2, <1>c, <2>2, <2>3, <2>6, <2>8, <2>9, DispatchOrder, Zenon
  <2> QED
    BY <2>6, <2>7, <2>10
<1> QED
  BY <1>3, <1>4, Zenon DEF RL!Worker_Next, RL!session, RL!results

LEMMA TasksStep ==
  ASSUME Inv, NEW w \in RL!Workers, RL!Worker_Tasks(w)
  PROVE  PlacesInv' /\ ControlInv' /\ OrderInv'
<1>0. /\ RL!TypeOK /\ PlacesInv /\ ControlInv /\ OrderInv /\ WorkerControl(w) /\ r_wpc[w] = "tasks"
      /\ r_wpc \in [RL!Workers -> {"none", "loop", "expire", "expireNext", "respond",
                          "respondNext", "tasks", "exited"}]
  BY DEF Inv, ControlInv, RL!Worker_Tasks, RL!TypeOK
<1>1. UNCHANGED <<r_SessionOf, r_timedOut, r_cur, r_epc, r_spc, r_sIdx, r_pushed>>
  BY DEF RL!Worker_Tasks
<1>c. r_spc \notin Draining /\ r_spc # "created" /\ r_timedOut[w] = {}
  BY <1>0 DEF WorkerControl
<1>2. CASE /\ r_wpc' = [r_wpc EXCEPT ![w] = "loop"]
           /\ UNCHANGED <<r_taskQueue, r_mPendingCount, r_inflight, r_pending, r_wire, r_outcome, r_callbacks, r_dispatched>>
  <2>1. WorkerControl(w)' /\ \A v \in RL!Workers \ {w} : r_wpc'[v] = r_wpc[v]
    BY <1>0, <1>1, <1>2, <1>c, Zenon DEF WorkerControl, NextDue
  <2> QED
    BY <1>0, <1>1, <1>2, <2>1, IdleStep DEF NextDue
<1>3. CASE /\ r_taskQueue[w] # <<>> /\ r_wpc' = r_wpc
           /\ r_taskQueue' = [r_taskQueue EXCEPT ![w] = Tail(@)]
           /\ RL!ProcessTask(Head(r_taskQueue[w]))
  <2> SUFFICES ASSUME NEW h, h = Head(r_taskQueue[w]), NEW s, s = r_SessionOf[h]
               PROVE  PlacesInv' /\ ControlInv' /\ OrderInv'
    OBVIOUS
  <2>1. /\ h \in RelayTasks /\ Waits(h) /\ RL!WorkerOf(h) = w
        /\ QueuedBut(h)
        /\ Holds(r_taskQueue'[w]) = Holds(r_taskQueue[w]) \ {h}
        /\ \A v \in RL!Workers \ {w} : r_taskQueue'[v] = r_taskQueue[v]
    BY <1>0, <1>1, <1>3, PopPlaces, Zenon
  <2>2. s \in RL!Sessions /\ s % RelayWorkers = w /\ s \in RL!Owned(w)
    BY <1>0, <2>1, Routes, Zenon
  <2>3. r_pending[s] \in Seq(RelayTasks) /\ r_dispatched[s] \in Seq(RelayTasks) /\ r_pushed[s] \in Seq(RelayTasks)
    BY <1>0, <2>2 DEF RL!TypeOK
  <2>4. ASSUME SessionOrder(s), RL!FailedIn(s) = {}
        PROVE  /\ Begins(Append(r_dispatched[s] \o r_pending[s], h), r_pushed[s])
               /\ Holds(r_pushed[s]) \subseteq Holds(r_dispatched[s]) \cup Holds(r_pending[s])
                                               \cup {h} \cup Holds(r_taskQueue'[s % RelayWorkers])
    BY <1>0, <1>1, <1>3, <1>c, <2>4, NextFromQueue, ZenonT(30)
  <2>5. CASE r_inflight[s] = <<>> /\ RL!Dispatch(h, r_pending[s])
    <3>1. NoRepeat(r_pending[s]) /\ Holds(r_pending[s]) = Holds(r_pending[s]) \ {h}
      <4>1. ~Behind(h)
        BY <1>0, <2>1, Zenon DEF PlacesInv, LedgerInv, TaskLedger
      <4>2. h \notin Holds(r_pending[s])
        BY <4>1 DEF Behind
      <4>3. NoRepeat(r_pending[s])
        BY <1>0, <2>2, Zenon DEF PlacesInv, QueuesInv, SessionQueues
      <4> QED
        BY <4>2, <4>3
    <3>2. PlacesInv' /\ r_outcome[h] = "none" /\ Sends(s, h, r_pending[s])
      BY <1>0, <1>1, <2>1, <2>3, <2>5, <3>1, DispatchPlaces, Zenon
    <3>3. ControlInv'
      BY <1>0, <1>1, <1>3, <2>2, <2>5, <3>2, DispatchControl, Zenon DEF Sends
    <3>4. NextInOrder(s, h, r_pending[s])
      <4>0. SUFFICES ASSUME SessionOrder(s), RL!FailedIn(s) = {}
                     PROVE  /\ Begins(Append(r_dispatched[s], h) \o r_pending[s], r_pushed[s])
                            /\ Holds(r_pushed[s]) \subseteq Holds(r_dispatched[s]) \cup {h} \cup Holds(r_pending[s])
                                                            \cup Holds(r_taskQueue'[s % RelayWorkers])
        BY Zenon DEF NextInOrder
      <4>1. r_pending[s] = <<>>
        BY <1>0, <1>c, <2>2, <2>5, <4>0, Zenon DEF SessionOrder, NextDue
      <4>2. r_dispatched[s] \o <<>> = r_dispatched[s] /\ Append(r_dispatched[s], h) \o <<>> = Append(r_dispatched[s], h)
        <5>1. Append(r_dispatched[s], h) \in Seq(RelayTasks)
          BY <2>1, <2>3, AppendEnd, Zenon
        <5> QED
          BY <2>3, <5>1, ConcatEmptySeq
      <4>3. Begins(Append(r_dispatched[s], h) \o r_pending[s], r_pushed[s])
        BY <2>4, <4>0, <4>1, <4>2, Zenon
      <4> QED
        BY <2>4, <4>0, <4>3, Zenon
    <3>5. /\ OnlyWorker(w)
          /\ Holds(r_taskQueue[w]) \subseteq Holds(r_taskQueue'[w]) \cup {h}
          /\ r_wpc[w] \notin NextDue
      BY <1>0, <1>3, <2>1 DEF NextDue, OnlyWorker
    <3>6. OrderInv'
      BY <1>1, <1>c, <2>1, <2>2, <2>3, <3>2, <3>4, <3>5, DispatchOrder, ZenonT(30)
    <3> QED
      BY <3>2, <3>3, <3>6, Zenon
  <2>6. CASE /\ r_inflight[s] # <<>> /\ r_pending' = [r_pending EXCEPT ![s] = Append(@, h)]
             /\ UNCHANGED <<r_inflight, r_wire, r_outcome, r_callbacks, r_dispatched>>
    <3>1. /\ PlacesInv' /\ Holds(r_pending'[s]) = Holds(r_pending[s]) \cup {h}
          /\ r_pending'[s] = Append(r_pending[s], h) /\ \A z \in RL!Sessions \ {s} : r_pending'[z] = r_pending[z]
      BY <1>0, <1>1, <1>3, <2>6, DeferPlaces, Zenon
    <3>2. ControlInv'
      BY <1>0, <1>1, <1>3, <2>6, Zenon DEF ControlInv, WorkerControl, RL!Owned
    <3>3. \A z \in RL!Sessions : RL!FailedIn(z)' = {} => RL!FailedIn(z) = {}
      BY <1>0, <1>1, <2>6, FailedKept, Zenon
    <3>4. SessionOrder(s)'
      <4>1. SUFFICES ASSUME RL!FailedIn(s) = {}
                     PROVE  /\ Begins(r_dispatched[s], r_pushed[s])
                            /\ Begins(r_dispatched[s] \o r_pending'[s], r_pushed[s])
                            /\ Holds(r_pushed[s]) \subseteq Holds(r_dispatched[s]) \cup Holds(r_pending'[s])
                                                            \cup Holds(r_taskQueue'[s % RelayWorkers])
        BY <1>1, <2>2, <2>6, <3>3, Zenon DEF SessionOrder
      <4>2. SessionOrder(s)
        BY <1>0, <2>2 DEF OrderInv
      <4>3. r_dispatched[s] \o r_pending'[s] = Append(r_dispatched[s] \o r_pending[s], h)
        <5>1. h \in RelayTasks
          BY <2>1
        <5>2. \A f, q \in Seq(RelayTasks) : \A e \in RelayTasks : f \o Append(q, e) = Append(f \o q, e)
          BY ONLY PutLast
        <5>3. r_dispatched[s] \o Append(r_pending[s], h) = Append(r_dispatched[s] \o r_pending[s], h)
          BY ONLY <2>3, <5>1, <5>2, Zenon
        <5> QED
          BY <3>1, <5>3, Zenon
      <4> QED
        BY <2>4, <3>1, <4>1, <4>2, <4>3, Zenon DEF SessionOrder
    <3>5. ASSUME NEW z \in RL!Sessions \ {s} PROVE SessionOrder(z)'
      <4>1. SessionOrder(z) /\ z % RelayWorkers \in RL!Workers
        BY <1>0, Routes DEF OrderInv
      <4>2. h \notin Holds(r_pushed[z])
        BY <1>0, Zenon DEF PlacesInv, QueuesInv, WorkerQueue, SessionQueues
      <4>3. \A u \in Holds(r_pushed[z]) : u \in Holds(r_taskQueue[z % RelayWorkers]) =>
                                          u \in Holds(r_taskQueue'[z % RelayWorkers])
        <5>1. CASE z % RelayWorkers = w
          BY <2>1, <4>2, <5>1, SMTT(20)
        <5>2. CASE z % RelayWorkers # w
          BY <2>1, <4>1, <5>2
        <5> QED
          BY <5>1, <5>2, SMTT(20)
      <4> QED
        BY <1>1, <1>3, <2>6, <3>1, <3>3, <4>1, <4>3, OrderFrame, Zenon
    <3> QED
      BY <3>1, <3>2, <3>4, <3>5, Zenon DEF OrderInv
  <2> QED
    BY <1>3, <2>5, <2>6, Zenon DEF RL!ProcessTask, RL!results
<1> QED
  BY <1>2, <1>3, SMTT(20) DEF RL!Worker_Tasks, RL!session, RL!results

LEMMA LoopStep ==
  ASSUME Inv, NEW w \in RL!Workers, RL!Worker_Loop(w)
  PROVE  PlacesInv' /\ ControlInv' /\ OrderInv'
<1>0. /\ WorkerControl(w) /\ r_wpc[w] = "loop" /\ r_timedOut \in [RL!Workers -> SUBSET RL!Sessions]
      /\ r_wpc \in [RL!Workers -> {"none", "loop", "expire", "expireNext", "respond",
                                   "respondNext", "tasks", "exited"}]
  BY DEF Inv, ControlInv, RL!Worker_Loop, RL!TypeOK
<1>1. UNCHANGED <<r_SessionOf, r_taskQueue, r_inflight, r_pending, r_pushed, r_dispatched, r_outcome,
                  r_callbacks, r_epc, r_cur, r_spc, r_sIdx>>
  BY Zenon DEF RL!Worker_Loop, RL!queues, RL!session, RL!results
<1>2. \A v \in RL!Workers \ {w} : UNCHANGED <<r_timedOut[v], r_wpc[v]>>
  BY <1>0, Zenon DEF RL!Worker_Loop
<1>3. r_timedOut[w] = {} /\ r_spc \notin Draining /\ r_spc # "created" /\ r_wpc[w] \notin NextDue
  BY <1>0, Zenon DEF WorkerControl, NextDue
<1>4. \/ r_wpc'[w] = "expire" /\ \A s \in r_timedOut'[w] : s \in RL!Owned(w) /\ r_inflight[s] # <<>>
      \/ r_wpc'[w] = "exited" /\ r_timedOut'[w] = {}
  BY <1>0, <1>3, Zenon DEF RL!Worker_Loop
<1>5. WorkerControl(w)'
  BY <1>1, <1>3, <1>4, Zenon DEF WorkerControl, NextDue, RL!Owned
<1> QED
  BY <1>1, <1>2, <1>3, <1>5, IdleStep, Zenon

LEMMA TimeoutStep ==
  ASSUME Inv, NEW w \in RL!Workers, RL!CheckTimeouts(w)
  PROVE  PlacesInv' /\ ControlInv' /\ OrderInv'
<1>0. /\ WorkerControl(w) /\ r_wpc[w] = "expire" /\ r_timedOut \in [RL!Workers -> SUBSET RL!Sessions]
      /\ r_cur \in [RL!Workers -> Nat]
      /\ r_wpc \in [RL!Workers -> {"none", "loop", "expire", "expireNext", "respond",
                                   "respondNext", "tasks", "exited"}]
  BY DEF Inv, ControlInv, RL!CheckTimeouts, RL!TypeOK
<1>1. UNCHANGED <<r_SessionOf, r_taskQueue, r_pending, r_pushed, r_dispatched, r_epc, r_spc, r_sIdx>>
  BY DEF RL!CheckTimeouts, RL!queues
<1>3. r_spc \notin Draining /\ r_spc # "created" /\ r_wpc[w] \notin NextDue
  BY <1>0 DEF WorkerControl, NextDue
<1>4. ASSUME NEW s \in r_timedOut[w],
             r_timedOut' = [r_timedOut EXCEPT ![w] = @ \ {s}],
             r_inflight' = [r_inflight EXCEPT ![s] = <<>>],
             RL!Report(Head(r_inflight[s]), "timeout"),
             r_cur' = [r_cur EXCEPT ![w] = s],
             r_wpc' = [r_wpc EXCEPT ![w] = "expireNext"]
      PROVE  PlacesInv' /\ ControlInv' /\ OrderInv'
  <2>1. s \in RL!Owned(w) /\ s \in RL!Sessions /\ r_inflight[s] # <<>>
    BY <1>0, Zenon DEF WorkerControl
  <2>2. SessionQueues(s)
    BY <2>1, Zenon DEF Inv, PlacesInv, QueuesInv
  <2>3. PICK t \in RelayTasks : r_inflight[s] = <<t>>
    BY <2>1, <2>2, Zenon DEF SessionQueues
  <2>4. RL!Report(t, "timeout")
    BY <1>4, <2>3
  <2>5. /\ s \notin r_timedOut'[w] /\ r_timedOut'[w] \subseteq r_timedOut[w] /\ r_cur'[w] = s
        /\ r_wpc'[w] = "expireNext"
        /\ \A v \in RL!Workers \ {w} : UNCHANGED <<r_timedOut[v], r_wpc[v], r_cur[v]>>
    BY <1>0, <1>4
  <2>6. r_wpc'[w] \in NextDue
    BY <2>5 DEF NextDue
  <2> QED
    BY <1>0, <1>1, <1>4, <2>1, <2>3, <2>4, <2>5, <2>6, CompleteStep, Zenon
<1>5. CASE /\ r_timedOut[w] = {} /\ r_wpc' = [r_wpc EXCEPT ![w] = "respond"]
           /\ UNCHANGED <<r_timedOut, r_inflight, r_outcome, r_callbacks, r_cur>>
  <2>1. r_wpc'[w] = "respond" /\ \A v \in RL!Workers \ {w} : UNCHANGED <<r_timedOut[v], r_wpc[v]>>
    BY <1>0, <1>5
  <2>2. WorkerControl(w)'
    BY <1>1, <1>3, <1>5, <2>1, Zenon DEF WorkerControl, NextDue
  <2> QED
    BY <1>1, <1>3, <1>5, <2>1, <2>2, IdleStep
<1> QED
  BY <1>4, <1>5 DEF RL!CheckTimeouts, RL!results

LEMMA ResponseStep ==
  ASSUME Inv, NEW w \in RL!Workers, RL!HandleResponse(w)
  PROVE  PlacesInv' /\ ControlInv' /\ OrderInv'
<1>0. /\ WorkerControl(w) /\ r_wpc[w] = "respond" /\ r_cur \in [RL!Workers -> Nat]
      /\ r_wpc \in [RL!Workers -> {"none", "loop", "expire", "expireNext", "respond",
                                   "respondNext", "tasks", "exited"}]
  BY Zenon DEF Inv, ControlInv, RL!HandleResponse, RL!TypeOK
<1>1. UNCHANGED <<r_SessionOf, r_taskQueue, r_pending, r_pushed, r_dispatched, r_epc, r_spc, r_sIdx, r_timedOut>>
  BY DEF RL!HandleResponse
<1>3. r_timedOut[w] = {} /\ r_spc \notin Draining /\ r_spc # "created" /\ r_wpc[w] \notin NextDue
  BY <1>0, Zenon DEF WorkerControl, NextDue
<1>4. ASSUME NEW s \in RL!Owned(w), NEW h, r_inflight[s] = <<h>>,
             r_inflight' = [r_inflight EXCEPT ![s] = <<>>],
             RL!Report(h, "answered"),
             r_cur' = [r_cur EXCEPT ![w] = s],
             r_wpc' = [r_wpc EXCEPT ![w] = "respondNext"]
      PROVE  PlacesInv' /\ ControlInv' /\ OrderInv'
  <2>1. s \in RL!Sessions
    BY Routes DEF Inv
  <2>2. SessionQueues(s)
    BY <2>1 DEF Inv, PlacesInv, QueuesInv
  <2>3. PICK t \in RelayTasks : r_inflight[s] = <<t>>
    <3>1. <<h>> # <<>>
      OBVIOUS
    <3> QED
      BY <1>4, <2>2, <3>1, Zenon DEF SessionQueues
  <2>4. h = t
    BY <1>4, <2>3
  <2>5. /\ s \notin r_timedOut'[w] /\ r_timedOut'[w] = {} /\ r_timedOut'[w] \subseteq r_timedOut[w] /\ r_cur'[w] = s
        /\ r_wpc'[w] = "respondNext"
        /\ \A v \in RL!Workers \ {w} : UNCHANGED <<r_timedOut[v], r_wpc[v], r_cur[v]>>
    BY <1>0, <1>1, <1>3, <1>4, Zenon
  <2>6. r_wpc'[w] \in NextDue
    BY <2>5 DEF NextDue
  <2> QED
    BY <1>0, <1>1, <1>4, <2>3, <2>4, <2>5, <2>6, CompleteStep, Zenon
<1>5. CASE /\ r_wpc' = r_wpc \/ r_wpc' = [r_wpc EXCEPT ![w] = "tasks"]
           /\ UNCHANGED <<r_inflight, r_outcome, r_callbacks, r_cur>>
  <2>1. r_wpc'[w] \in {"respond", "tasks"} /\ \A v \in RL!Workers \ {w} : UNCHANGED <<r_timedOut[v], r_wpc[v]>>
    BY <1>0, <1>1, <1>5
  <2>2. WorkerControl(w)'
    BY <1>1, <1>3, <1>5, <2>1, Zenon DEF WorkerControl, NextDue
  <2> QED
    BY <1>1, <1>3, <1>5, <2>1, <2>2, IdleStep, Zenon
<1> QED
  BY <1>4, <1>5 DEF RL!HandleResponse, RL!results

(* The order of every session, under a step that takes no task anywhere or   *)
(* belongs to the drain.                                                     *)
LEMMA OrderStays ==
  ASSUME RL!TypeOK, OrderInv, UNCHANGED <<r_SessionOf, r_dispatched, r_pushed>>,
         \A u \in RelayTasks : r_outcome[u] # "none" => r_outcome'[u] = r_outcome[u],
         r_spc' \notin Draining =>
           /\ r_spc \notin Draining /\ UNCHANGED <<r_pending, r_taskQueue, r_inflight, r_cur>>
           /\ r_wpc' = r_wpc \/ \A w \in RL!Workers : r_wpc[w] \notin NextDue
  PROVE  OrderInv'
<1>1. \A z \in RL!Sessions : RL!FailedIn(z)' = {} => RL!FailedIn(z) = {}
  BY FailedKept
<1>2. ASSUME NEW z \in RL!Sessions PROVE SessionOrder(z)'
  <2>1. SessionOrder(z) /\ z % RelayWorkers \in RL!Workers
    BY Routes, Zenon DEF OrderInv
  <2>2. CASE r_spc' \in Draining
    BY <1>1, <2>1, <2>2, OrderFrame, Zenon
  <2>3. CASE r_spc' \notin Draining
    BY <1>1, <2>1, <2>3, OrderFrame, Zenon
  <2> QED
    BY <2>2, <2>3, SMTT(20)
<1> QED
  BY <1>2, Zenon DEF OrderInv

(* EnqueueTask, and what arrives or is lost on the link. *)
LEMMA CallStep ==
  ASSUME Inv, RL!TypeOK', NEW t \in RelayTasks,
         \/ RL!EnqueueTask_Check(t) \/ RL!EnqueueTask_Lock(t) \/ RL!EnqueueTask_Push(t)
         \/ RL!OnDBResponse(t) \/ RL!LinkLoss(t)
  PROVE  PlacesInv' /\ ControlInv' /\ OrderInv'
<1>0. RL!TypeOK /\ PlacesInv /\ ControlInv /\ OrderInv
  BY DEF Inv
<1>1. UNCHANGED <<r_SessionOf, r_inflight, r_pending, r_timedOut, r_cur, r_wpc, r_spc, r_sIdx, r_dispatched>>
  BY Zenon DEF RL!EnqueueTask_Check, RL!EnqueueTask_Lock, RL!EnqueueTask_Push, RL!OnDBResponse, RL!LinkLoss, RL!session
<1>2. ControlInv'
  BY <1>0, <1>1, Zenon DEF ControlInv, WorkerControl, RL!Owned
<1>3. CASE RL!EnqueueTask_Push(t)
  BY <1>0, <1>2, <1>3, PushPlaces, PushOrder, Zenon
<1>4. CASE \/ RL!EnqueueTask_Check(t) \/ RL!EnqueueTask_Lock(t) \/ RL!OnDBResponse(t) \/ RL!LinkLoss(t)
  <2>1. UNCHANGED <<r_taskQueue, r_pushed>>
    BY <1>4, Zenon DEF RL!EnqueueTask_Check, RL!EnqueueTask_Lock, RL!OnDBResponse, RL!LinkLoss, RL!queues
  <2>2. \/ UNCHANGED <<r_outcome, r_callbacks>> /\ \A u \in RelayTasks : r_epc'[u] # "returned" => r_epc[u] # "returned"
        \/ r_epc[t] # "returned" /\ RL!Report(t, "shutdown") /\ r_epc' = [r_epc EXCEPT ![t] = "returned"]
    BY <1>0, <1>4, Zenon DEF RL!EnqueueTask_Check, RL!EnqueueTask_Lock, RL!OnDBResponse, RL!LinkLoss, RL!results, RL!TypeOK
  <2>3. PlacesInv'
    BY <1>0, <1>1, <2>1, <2>2, StayPut
  <2>4. r_epc[t] # "returned" => r_outcome[t] = "none"
    BY <1>0, Zenon DEF PlacesInv, LedgerInv, TaskLedger
  <2>5. \A u \in RelayTasks : r_outcome[u] # "none" => r_outcome'[u] = r_outcome[u]
    BY <1>0, <2>2, <2>4, SMTT(20) DEF RL!Report, RL!TypeOK
  <2>6. OrderInv'
    BY <1>0, <1>1, <2>1, <2>5, OrderStays
  <2> QED
    BY <1>2, <2>3, <2>6
<1> QED
  BY <1>3, <1>4

(* Initialize and Shutdown. *)
LEMMA LifeStep ==
  ASSUME Inv, RL!Initialize \/ RL!Shutdown_Stop \/ RL!Shutdown
  PROVE  PlacesInv' /\ ControlInv' /\ OrderInv'
<1>0. RL!TypeOK /\ PlacesInv /\ ControlInv /\ OrderInv
  BY DEF Inv
<1>1. ControlInv'
  BY <1>0, LifeControl, SMTT(20)
<1>2. UNCHANGED <<r_SessionOf, r_dispatched, r_pushed>>
  BY DEF RL!Initialize, RL!Shutdown_Stop, RL!Shutdown, RL!Shutdown_Join, RL!ShutdownDrain_Sessions,
         RL!ShutdownDrain_Tasks
<1>3. CASE RL!Initialize \/ RL!Shutdown_Stop \/ RL!Shutdown_Join
  <2>1. UNCHANGED <<r_taskQueue, r_inflight, r_pending, r_outcome, r_callbacks, r_epc, r_cur>>
    BY <1>3 DEF RL!Initialize, RL!Shutdown_Stop, RL!Shutdown_Join, RL!queues, RL!session, RL!results
  <2>2. PlacesInv'
    BY <1>0, <1>2, <2>1, StayPut
  <2>3. r_spc' \notin Draining => r_spc \notin Draining /\ (r_wpc' = r_wpc \/ \A w \in RL!Workers : r_wpc[w] \notin NextDue)
    BY <1>0, <1>3, Zenon DEF RL!Initialize, RL!Shutdown_Stop, RL!Shutdown_Join, Draining, NextDue, ControlInv, WorkerControl
  <2>4. OrderInv'
    BY <1>0, <1>2, <2>1, <2>3, OrderStays
  <2> QED
    BY <1>1, <2>2, <2>4
<1>4. CASE RL!ShutdownDrain_Sessions \/ RL!ShutdownDrain_Tasks
  <2>1. PlacesInv' /\ \A u \in RelayTasks : r_outcome[u] # "none" => r_outcome'[u] = r_outcome[u]
    BY <1>0, <1>4, HeldPlaces, LeftPlaces
  <2>2. r_spc' \in Draining
    BY <1>4, Zenon DEF RL!ShutdownDrain_Sessions, RL!ShutdownDrain_Tasks, Draining
  <2>3. OrderInv'
    BY <1>0, <1>2, <2>1, <2>2, OrderStays
  <2> QED
    BY <1>1, <2>1, <2>3
<1> QED
  BY <1>3, <1>4 DEF RL!Shutdown

(***************************************************************************)
(* The theorem                                                             *)
(***************************************************************************)
LEMMA RelayInit == ASSUME CountFacts, RL!Init PROVE RelayInv
<1>a. RelayWorkers \in Nat \ {0}
  BY RelayWorkersAssumption
<1>1. RL!TypeOK
  <2>1. <<>> \in Seq(RelayTasks)
    OBVIOUS
  <2>2. /\ r_taskQueue \in [RL!Workers -> Seq(RelayTasks)] /\ r_responseQueue \in [RL!Workers -> Seq(RelayTasks)]
        /\ r_inflight \in [RL!Sessions -> Seq(RelayTasks)] /\ r_pending \in [RL!Sessions -> Seq(RelayTasks)]
        /\ r_pushed \in [RL!Sessions -> Seq(RelayTasks)] /\ r_dispatched \in [RL!Sessions -> Seq(RelayTasks)]
    BY <2>1 DEF RL!Init
  <2>3. /\ r_outcome \in [RelayTasks -> RL!Outcomes] /\ r_callbacks \in [RelayTasks -> Nat]
        /\ r_timedOut \in [RL!Workers -> SUBSET RL!Sessions] /\ r_cur \in [RL!Workers -> Nat]
    BY DEF RL!Init, RL!Outcomes
  <2>4. r_mIsRunning \in BOOLEAN
    BY Zenon DEF RL!Init
  <2> QED
    BY <2>2, <2>3, <2>4 DEF RL!Init, RL!TypeOK
<1>2. /\ \A w \in RL!Workers : r_taskQueue[w] = <<>> /\ r_timedOut[w] = {} /\ r_wpc[w] = "none"
      /\ \A s \in RL!Sessions : /\ r_pending[s] = <<>> /\ r_pushed[s] = <<>>
                                /\ r_inflight[s] = <<>> /\ r_dispatched[s] = <<>>
      /\ \A t \in RelayTasks : r_outcome[t] = "none" /\ r_callbacks[t] = 0
      /\ r_spc = "created" /\ r_sIdx = 0 /\ r_mPendingCount = 0
  BY DEF RL!Init
<1>3. Holds(<<>>) = {} /\ NoRepeat(<<>>) /\ (\A x, y : ~Precedes(<<>>, x, y)) /\ Begins(<<>>, <<>>)
  <2>1. Holds(<<>>) = {} /\ NoRepeat(<<>>)
    BY HoldsFew, Zenon
  <2>2. \A x, y : ~Precedes(<<>>, x, y)
    BY DEF Precedes
  <2>3. Begins(<<>>, <<>>)
    BY DEF Begins
  <2> QED
    BY <2>1, <2>2, <2>3
<1>4. QueuesInv
  BY <1>2, <1>3, Zenon DEF QueuesInv, WorkerQueue, SessionQueues
<1>5. LedgerInv
  <2>1. ASSUME NEW t \in RelayTasks PROVE ~Waits(t) /\ ~Behind(t) /\ ~AtServer(t) /\ ~Accepted(t) /\ ~Dispatched(t)
    <3>1. r_SessionOf[t] \in RL!Sessions /\ RL!WorkerOf(t) \in RL!Workers
      BY <1>1, Routes
    <3> QED
      BY <1>2, <1>3, <3>1 DEF Waits, Behind, AtServer, Accepted, Dispatched
  <2> QED
    BY <1>2, <2>1, Zenon DEF LedgerInv, TaskLedger
<1>6. ControlInv
  BY <1>a, <1>2 DEF ControlInv, WorkerControl, NextDue, Draining
<1>7. CountInv
  BY <1>2, SlotsEmpty DEF CountInv
<1>8. QueueOrder
  BY <1>2, <1>3 DEF QueueOrder
<1>9. ASSUME NEW s \in RL!Sessions PROVE SessionOrder(s)
  <2>1. <<>> \o <<>> = <<>>
    OBVIOUS
  <2> QED
    BY <1>2, <1>3, <2>1, Zenon DEF SessionOrder
<1> QED
  BY <1>1, <1>4, <1>5, <1>6, <1>7, <1>8, <1>9 DEF RelayInv

LEMMA RelayStep == ASSUME CountFacts, RelayInv, [RL!Next]_(RL!vars) PROVE RelayInv'
<1>1. RL!TypeOK' /\ CountInv'
  BY TypeStep DEF RelayInv
<1>2. Inv
  BY DEF Inv, RelayInv, PlacesInv, OrderInv
<1>3. PlacesInv' /\ ControlInv' /\ OrderInv'
  <2>1. CASE RL!Initialize \/ RL!Shutdown_Stop \/ RL!Shutdown
    BY <1>2, <2>1, LifeStep
  <2>2. ASSUME NEW t \in RelayTasks,
               \/ RL!EnqueueTask_Check(t) \/ RL!EnqueueTask_Lock(t) \/ RL!EnqueueTask_Push(t)
               \/ RL!OnDBResponse(t) \/ RL!LinkLoss(t)
        PROVE  PlacesInv' /\ ControlInv' /\ OrderInv'
    BY <1>1, <1>2, <2>2, CallStep
  <2>3. ASSUME NEW w \in RL!Workers, RL!WorkerThreadFunc(w)
        PROVE  PlacesInv' /\ ControlInv' /\ OrderInv'
    BY <1>2, <2>3, LoopStep, TimeoutStep, ResponseStep, NextStep, TasksStep DEF RL!WorkerThreadFunc
  <2>4. CASE UNCHANGED (RL!vars)
    <3>1. UNCHANGED <<r_SessionOf, r_taskQueue, r_inflight, r_pending, r_pushed, r_dispatched, r_outcome,
                      r_callbacks, r_epc, r_cur, r_spc, r_sIdx, r_wpc, r_timedOut>>
      BY <2>4 DEF RL!vars
    <3>2. PlacesInv'
      BY <1>2, <3>1, StayPut DEF Inv
    <3>3. ControlInv'
      BY <1>2, <3>1, Zenon DEF Inv, ControlInv, WorkerControl, RL!Owned
    <3>4. OrderInv'
      BY <1>2, <3>1, OrderStays DEF Inv
    <3> QED
      BY <3>2, <3>3, <3>4
  <2> QED
    BY <2>1, <2>2, <2>3, <2>4 DEF RL!Next
<1> QED
  BY <1>1, <1>3 DEF RelayInv, PlacesInv, OrderInv

LEMMA OneCount ==
  ASSUME CountFacts, NEW S, IsFiniteSet(S), NEW T, T \subseteq S, Cardinality(S) <= 1
  PROVE  Cardinality(T) <= 1
BY DEF CountFacts, CountsPart, CountsType

LEMMA RelayEnds == ASSUME CountFacts, RelayInv PROVE RelayExact
<1>0. RL!TypeOK /\ QueuesInv /\ LedgerInv
  BY DEF RelayInv
<1>1. RL!AnsweredOnce
  <2>1. ASSUME NEW t \in RelayTasks
        PROVE  /\ r_callbacks[t] = (IF r_outcome[t] = "none" THEN 0 ELSE 1)
               /\ RL!Places(t) = (IF t \in RL!AcceptedTasks /\ r_outcome[t] = "none" THEN 1 ELSE 0)
    <3> SUFFICES ASSUME NEW w, w = RL!WorkerOf(t), NEW s, s = r_SessionOf[t]
                 PROVE  /\ r_callbacks[t] = (IF r_outcome[t] = "none" THEN 0 ELSE 1)
                        /\ RL!Places(t) = (IF t \in RL!AcceptedTasks /\ r_outcome[t] = "none" THEN 1 ELSE 0)
      OBVIOUS
    <3>1. w \in RL!Workers /\ s \in RL!Sessions /\ TaskLedger(t) /\ WorkerQueue(w) /\ SessionQueues(s)
      BY <1>0, Routes DEF LedgerInv, QueuesInv
    <3>2. r_taskQueue[w] \in Seq(RelayTasks) /\ r_pending[s] \in Seq(RelayTasks) /\ r_inflight[s] \in Seq(RelayTasks)
      BY <1>0, <3>1 DEF RL!TypeOK
    <3>3. NoRepeat(r_taskQueue[w]) /\ NoRepeat(r_pending[s]) /\ NoRepeat(r_inflight[s])
      BY <3>1, Zenon DEF WorkerQueue, SessionQueues
    <3>4. /\ Cardinality({n \in 1 .. Len(r_taskQueue[w]) : r_taskQueue[w][n] = t}) = IF Waits(t) THEN 1 ELSE 0
          /\ Cardinality({n \in 1 .. Len(r_pending[s]) : r_pending[s][n] = t}) = IF Behind(t) THEN 1 ELSE 0
          /\ Cardinality({n \in 1 .. Len(r_inflight[s]) : r_inflight[s][n] = t}) = IF AtServer(t) THEN 1 ELSE 0
      BY <3>2, <3>3, CountOnce, Zenon DEF Waits, Behind, AtServer
    <3>5. RL!Places(t) = (IF Waits(t) THEN 1 ELSE 0) + (IF Behind(t) THEN 1 ELSE 0) + (IF AtServer(t) THEN 1 ELSE 0)
      BY <3>4, SameCount, Zenon DEF RL!Places
    <3>6. t \in RL!AcceptedTasks <=> Accepted(t)
      <4>1. RL!AcceptedTasks = UNION {Holds(r_pushed[z]) : z \in RL!Sessions}
        BY SameHolds DEF RL!AcceptedTasks
      <4>2. \A z \in RL!Sessions : t \in Holds(r_pushed[z]) => z = s
        BY <1>0 DEF QueuesInv, SessionQueues
      <4> QED
        BY <3>1, <4>1, <4>2 DEF Accepted
    <3>7. /\ r_callbacks[t] = (IF r_outcome[t] = "none" THEN 0 ELSE 1)
          /\ ~(Waits(t) /\ Behind(t)) /\ ~(Waits(t) /\ AtServer(t)) /\ ~(Behind(t) /\ AtServer(t))
          /\ Waits(t) \/ Behind(t) \/ AtServer(t) <=> t \in RL!AcceptedTasks /\ r_outcome[t] = "none"
      BY <3>1, <3>6, Zenon DEF TaskLedger
    <3>8. CASE Waits(t) \/ Behind(t) \/ AtServer(t)
      BY <3>5, <3>7, <3>8, SMTT(20)
    <3>9. CASE ~(Waits(t) \/ Behind(t) \/ AtServer(t))
      BY <3>5, <3>7, <3>9
    <3> QED
      BY <3>8, <3>9, Zenon
  <2> QED
    BY <2>1, Zenon DEF RL!AnsweredOnce
<1>2. RL!OneInFlight
  <2>1. ASSUME NEW s \in RL!Sessions
        PROVE  Cardinality({t \in Holds(r_dispatched[s]) : r_outcome[t] = "none"}) <= 1
    <3>1. SessionQueues(s) /\ r_dispatched[s] \in Seq(RelayTasks)
      BY <1>0 DEF QueuesInv, RL!TypeOK
    <3>2. Holds(r_dispatched[s]) \subseteq RelayTasks
      BY <3>1, HoldsType
    <3>3. {t \in Holds(r_dispatched[s]) : r_outcome[t] = "none"} \subseteq Holds(r_inflight[s])
      <4>1. ASSUME NEW t \in Holds(r_dispatched[s]), r_outcome[t] = "none" PROVE t \in Holds(r_inflight[s])
        <5>1. t \in RelayTasks /\ r_SessionOf[t] = s
          BY <3>1, <3>2 DEF SessionQueues
        <5>2. TaskLedger(t) /\ Dispatched(t)
          BY <1>0, <5>1 DEF LedgerInv, Dispatched
        <5>3. AtServer(t)
          BY <4>1, <5>2, Zenon DEF TaskLedger
        <5> QED
          BY <5>1, <5>3 DEF AtServer
      <4> QED
        BY <4>1
    <3>4. IsFiniteSet(Holds(r_inflight[s])) /\ Cardinality(Holds(r_inflight[s])) <= 1
      <4>1. CASE r_inflight[s] = <<>>
        <5>1. Holds(r_inflight[s]) = {}
          BY <4>1, HoldsFew, Zenon
        <5>2. IsFiniteSet({}) /\ Cardinality({}) = 0
          BY Zenon DEF CountFacts, CountsFew
        <5> QED
          BY <5>1, <5>2
      <4>2. ASSUME NEW t \in RelayTasks, r_inflight[s] = <<t>>
            PROVE  IsFiniteSet(Holds(r_inflight[s])) /\ Cardinality(Holds(r_inflight[s])) <= 1
        <5>1. Holds(r_inflight[s]) = {t}
          BY <4>2, HoldsFew
        <5>2. IsFiniteSet({t}) /\ Cardinality({t}) = 1
          BY Zenon DEF CountFacts, CountsFew
        <5> QED
          BY <5>1, <5>2
      <4> QED
        BY <3>1, <4>1, <4>2, Zenon DEF SessionQueues
    <3> QED
      BY <3>3, <3>4, OneCount
  <2> QED
    BY <2>1, SameCount, SameHolds DEF RL!OneInFlight
<1>3. RL!OrderKept
  BY Zenon DEF RelayInv, SessionOrder, Begins, RL!OrderKept
<1> QED
  BY <1>0, <1>1, <1>2, <1>3 DEF RelayExact

INSTANCE FiniteSetTheorems

(* What the lemmas above take of the library's facts on finite sets. *)
LEMMA Counting == CountFacts
BY FS_CardinalityType, FS_EmptySet, FS_Singleton, FS_AddElement, FS_RemoveElement, FS_Subset, Zenon
   DEF CountFacts, CountsFew, CountsType, CountsAdd, CountsRemove, CountsPart

(* The relay to the DB server, for any tasks, sessions and worker count:     *)
(* across answers, late answers, timeouts, failed sends and the drain of     *)
(* Shutdown every accepted task is in exactly one place or answered exactly  *)
(* once, a session has one request in flight, and a session without a failed *)
(* task is sent in the order in which EnqueueTask accepted it.               *)
THEOREM RelayIsExact == RL!Spec => []RelayExact
<1>1. RL!Init => RelayInv
  BY Counting, RelayInit
<1>2. RelayInv /\ [RL!Next]_(RL!vars) => RelayInv'
  BY Counting, RelayStep
<1>3. RelayInv => RelayExact
  BY Counting, RelayEnds
<1> QED
  BY <1>1, <1>2, <1>3, PTL DEF RL!Spec
=============================================================================
