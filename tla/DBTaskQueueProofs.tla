------------------------- MODULE DBTaskQueueProofs -------------------------
(***************************************************************************)
(* Types, order, size, and what the log and the callers know of every      *)
(* task, for every set of tasks, assignment of sessions and number of      *)
(* workers.                                                                *)
(*                                                                         *)
(* FifoPerWorker is not inductive alone: that the task in hand is really   *)
(* the next one needs Control, which says who may hold a task at all (a    *)
(* worker inside ProcessTask, or Shutdown after every worker has exited).  *)
(* The promises about crashes and callers need, in addition to types,      *)
(* control and order, the position of every task in the order in which it  *)
(* entered its queue - Ledger.                                             *)
(***************************************************************************)
EXTENDS DBTaskQueue, SequenceLemmas

\* The time limits of a leaf that names no prover of its own.
USE SMTT(30), ZenonT(30)

Draining == {"collect", "drain", "drainMark"}

(* Who may hold a task: after the joins every worker has exited; a worker   *)
(* holds a task only inside ProcessTask; Shutdown only in its drain loop.   *)
ControlOf(w) ==
  /\ spc = "created" => wpc[w] = "none"
  /\ spc \in Draining \cup {"close", "down"} => wpc[w] = "exited"
  /\ spc = "join" /\ w < sIdx => wpc[w] = "exited"
  /\ wpc[w] = "process" => current[w] # <<>>
  /\ current[w] # <<>> => wpc[w] = "process" \/ (spc = "drain" /\ sIdx = w)
  /\ wpc[w] = "mark" => finished[w] # <<>>

Control ==
  /\ sIdx <= NumWorkers
  /\ spc \in {"drain", "drainMark"} => sIdx < NumWorkers
  /\ \A w \in Workers : ControlOf(w)
  /\ spc = "drainMark" => finished[sIdx] # <<>>
  /\ spc \notin Draining \/ sIdx = NumWorkers => drainTasks = <<>>

(***************************************************************************)
(* Sequences                                                               *)
(***************************************************************************)
(* Taking the first element out and putting it in front changes nothing. *)
LEMMA TakeFront ==
  ASSUME NEW q \in Seq(Tasks), q # <<>>
  PROVE  /\ Head(q) \in Tasks /\ Tail(q) \in Seq(Tasks)
         /\ <<Head(q)>> \in Seq(Tasks) /\ Len(<<Head(q)>>) = 1
         /\ <<Head(q)>> \o Tail(q) = q
<1>1. Head(q) \in Tasks /\ Tail(q) \in Seq(Tasks) /\ Len(Tail(q)) = Len(q) - 1
      /\ \A i \in 1 .. Len(Tail(q)) : Tail(q)[i] = q[i + 1]
  BY HeadTailProperties
<1>2. <<Head(q)>> \in Seq(Tasks) /\ Len(<<Head(q)>>) = 1
  BY <1>1
<1>3. /\ <<Head(q)>> \o Tail(q) \in Seq(Tasks)
      /\ Len(<<Head(q)>> \o Tail(q)) = 1 + Len(Tail(q))
      /\ \A i \in 1 .. (1 + Len(Tail(q))) : (<<Head(q)>> \o Tail(q))[i] =
            IF i <= 1 THEN <<Head(q)>>[i] ELSE Tail(q)[i - 1]
  BY <1>1, <1>2, ConcatProperties
<1>4. \A i \in 1 .. Len(q) : (<<Head(q)>> \o Tail(q))[i] = q[i]
  BY <1>1, <1>3
<1> QED BY <1>1, <1>2, <1>3, <1>4, SeqEqual, EmptySeq

(* A sequence of one element is the sequence of its head. *)
LEMMA Singleton ==
  ASSUME NEW c \in Seq(Tasks), c # <<>>, Len(c) <= 1
  PROVE  Head(c) \in Tasks /\ c = <<Head(c)>> /\ Len(c) = 1 /\ c[1] = Head(c)
<1>1. Len(c) \in Nat \ {0}
  BY EmptySeq
<1>2. Len(c) = 1
  BY <1>1
<1> QED BY <1>2, SMT

(* What has been appended to is a sequence, and not an empty one. *)
LEMMA AppendHead ==
  ASSUME NEW f \in Seq(Tasks), NEW c \in Seq(Tasks), c # <<>>
  PROVE  /\ Append(f, Head(c)) \in Seq(Tasks)
         /\ Append(f, Head(c)) # <<>>
<1>1. Head(c) \in Tasks
  BY HeadTailProperties
<1> QED BY <1>1, AppendProperties

(***************************************************************************)
(* Typing                                                                  *)
(***************************************************************************)
(* Every task is routed to a worker that exists. *)
LEMMA Routing == \A t \in Tasks : WorkerOf(t) \in Workers
BY WorkersAssumption, SessionsAssumption DEF WorkerOf, Workers

(* The last element of a sequence that is not empty is one of its elements. *)
LEMMA LastElement ==
  ASSUME NEW f \in Seq(Tasks), f # <<>>
  PROVE  Len(f) \in 1 .. Len(f) /\ f[Len(f)] \in Tasks
<1>1. Len(f) \in Nat \ {0}
  BY EmptySeq
<1> QED BY <1>1, ElementOfSeq

(* A log record changes nothing but the log. *)
LEMMA LogTypes ==
  ASSUME TypeOK, NEW t \in Tasks, WalWritePending(t) \/ WalWriteDone(t)
  PROVE  walP' \in SUBSET Tasks /\ walD' \in SUBSET Tasks /\ walOpen' \in BOOLEAN
BY Zenon DEF TypeOK, WalWritePending, WalWriteDone, EnsureWalOpen

(* A callback is counted and the outcome recorded. *)
LEMMA ReportTypes ==
  ASSUME TypeOK, NEW t \in Tasks, NEW result \in Outcomes, Report(t, result)
  PROVE  outcome' \in [Tasks -> Outcomes] /\ callbacks' \in [Tasks -> Nat]
<1>1. outcome' \in [Tasks -> Outcomes]
  BY DEF TypeOK, Report
<1>2. callbacks' \in [Tasks -> Nat]
  BY DEF TypeOK, Report
<1> QED BY <1>1, <1>2

(* The end of ProcessTask keeps the types. *)
LEMMA ProcessTypes ==
  ASSUME TypeOK, NEW w \in Workers, NEW result \in HandlerResults,
         current[w] # <<>>, ProcessTask(w, result)
  PROVE  /\ outcome' \in [Tasks -> Outcomes] /\ callbacks' \in [Tasks -> Nat]
         /\ finished' \in [Workers -> Seq(Tasks)]
         /\ current' \in [Workers -> Seq(Tasks)]
<1>1. Head(current[w]) \in Tasks
  BY HeadTailProperties DEF TypeOK
<1>2. Append(finished[w], Head(current[w])) \in Seq(Tasks) /\ <<>> \in Seq(Tasks)
  BY <1>1, AppendProperties, EmptySeq DEF TypeOK
<1>3. outcome' \in [Tasks -> Outcomes] /\ callbacks' \in [Tasks -> Nat]
  BY <1>1, ReportTypes DEF ProcessTask, HandlerResults, Outcomes
<1>4. finished' \in [Workers -> Seq(Tasks)]
  BY <1>2 DEF TypeOK, ProcessTask
<1>5. current' \in [Workers -> Seq(Tasks)]
  BY <1>2 DEF TypeOK, ProcessTask
<1> QED BY <1>3, <1>4, <1>5

(* Every step of every thread keeps the types. *)
LEMMA TypeStep ==
  ASSUME TypeOK, Control, [Next]_vars
  PROVE  TypeOK'
<1> USE DEF queueVars, walVars, resultVars
<1>1. CASE Initialize
  BY <1>1 DEF TypeOK, Initialize
<1>2. ASSUME NEW t \in Tasks, EnqueueTask(t)
      PROVE  TypeOK'
  <2>1. CASE EnqueueTask_Check(t)
    <3>1. outcome' \in [Tasks -> Outcomes] /\ callbacks' \in [Tasks -> Nat]
      <4>1. CASE mIsRunning
        BY <2>1, <4>1 DEF TypeOK, EnqueueTask_Check
      <4>2. CASE ~mIsRunning
        BY <2>1, <4>2, ReportTypes DEF EnqueueTask_Check, Outcomes
      <4> QED BY <4>1, <4>2
    <3>2. epc' \in [Tasks -> {"idle", "admitted", "logged", "push", "notify",
                              "cancel", "returned"}]
      BY <2>1, Zenon DEF TypeOK, EnqueueTask_Check
    <3> QED BY <2>1, <3>1, <3>2 DEF TypeOK, EnqueueTask_Check
  <2>2. CASE EnqueueTask_Log(t)
    BY <2>2, LogTypes DEF TypeOK, EnqueueTask_Log
  <2>3. CASE EnqueueTask_Lock(t)
    BY <2>3 DEF TypeOK, EnqueueTask_Lock
  <2>4. CASE EnqueueTask_Push(t)
    <3>1. /\ Append(taskQueue[WorkerOf(t)], t) \in Seq(Tasks)
          /\ Append(pushed[WorkerOf(t)], t) \in Seq(Tasks)
      BY Routing, AppendProperties DEF TypeOK
    <3>2. /\ taskQueue' \in [Workers -> Seq(Tasks)]
          /\ pushed' \in [Workers -> Seq(Tasks)]
      BY <2>4, <3>1, Zenon DEF TypeOK, EnqueueTask_Push
    <3>3. mQueueSize' \in Int
      BY <2>4 DEF TypeOK, EnqueueTask_Push
    <3> QED BY <2>4, <3>2, <3>3 DEF TypeOK, EnqueueTask_Push
  <2>5. CASE EnqueueTask_Notify(t)
    BY <2>5, Zenon DEF TypeOK, EnqueueTask_Notify
  <2>6. CASE EnqueueTask_Cancel(t)
    BY <2>6, LogTypes DEF TypeOK, EnqueueTask_Cancel, Report, Outcomes
  <2> QED BY <1>2, <2>1, <2>2, <2>3, <2>4, <2>5, <2>6 DEF EnqueueTask
<1>3. ASSUME NEW w \in Workers, WorkerThreadFunc(w) \/ Worker_Spurious(w)
      PROVE  TypeOK'
  <2>1. CASE Worker_Loop(w)
    BY <2>1 DEF TypeOK, Worker_Loop
  <2>2. CASE Worker_Lock(w)
    <3>1. CASE taskQueue[w] # <<>>
      <4>1. Tail(taskQueue[w]) \in Seq(Tasks) /\ <<Head(taskQueue[w])>> \in Seq(Tasks)
        BY <3>1, TakeFront DEF TypeOK
      <4>2. taskQueue' \in [Workers -> Seq(Tasks)]
        BY <2>2, <3>1, <4>1, Zenon DEF TypeOK, Worker_Lock
      <4>3. current' \in [Workers -> Seq(Tasks)]
        BY <2>2, <3>1, <4>1, Zenon DEF TypeOK, Worker_Lock
      <4>4. mQueueSize' \in Int
        BY <2>2, <3>1 DEF TypeOK, Worker_Lock
      <4> QED BY <2>2, <3>1, <4>2, <4>3, <4>4, Zenon DEF TypeOK, Worker_Lock
    <3>2. CASE taskQueue[w] = <<>>
      BY <2>2, <3>2, Zenon DEF TypeOK, Worker_Lock
    <3> QED BY <3>1, <3>2
  <2>3. CASE Worker_Park(w)
    BY <2>3 DEF TypeOK, Worker_Park
  <2>4. CASE Worker_Spurious(w)
    BY <2>4 DEF TypeOK, Worker_Spurious
  <2>5. CASE Worker_Process(w)
    <3>1. current[w] # <<>>
      BY <2>5 DEF Control, ControlOf, Worker_Process
    <3>2. PICK result \in HandlerResults : ProcessTask(w, result)
      BY <2>5 DEF Worker_Process
    <3>3. /\ outcome' \in [Tasks -> Outcomes] /\ callbacks' \in [Tasks -> Nat]
          /\ finished' \in [Workers -> Seq(Tasks)]
          /\ current' \in [Workers -> Seq(Tasks)]
      BY <3>1, <3>2, ProcessTypes
    <3> QED BY <2>5, <3>3, Zenon DEF TypeOK, Worker_Process
  <2>6. CASE Worker_Mark(w)
    <3>1. finished[w][Len(finished[w])] \in Tasks
      BY <2>6, LastElement DEF TypeOK, Control, ControlOf, Worker_Mark
    <3> QED BY <2>6, <3>1, LogTypes DEF TypeOK, Worker_Mark
  <2> QED BY <1>3, <2>1, <2>2, <2>3, <2>4, <2>5, <2>6 DEF WorkerThreadFunc
<1>4. CASE Shutdown_Stop
  BY <1>4, Zenon DEF TypeOK, Shutdown_Stop
<1>5. CASE Shutdown
  <2>1. CASE Shutdown_Notify
    BY <2>1 DEF TypeOK, Shutdown_Notify
  <2>2. CASE Shutdown_Join
    BY <2>2 DEF TypeOK, Shutdown_Join
  <2>3. CASE Shutdown_Collect
    <3>1. CASE sIdx < NumWorkers /\ taskQueue[sIdx] # <<>>
      <4>1. sIdx \in Workers
        BY <3>1, WorkersAssumption DEF TypeOK, Workers
      <4>2. /\ Append(drainTasks, Head(taskQueue[sIdx])) \in Seq(Tasks)
            /\ Tail(taskQueue[sIdx]) \in Seq(Tasks)
        BY <3>1, <4>1, TakeFront, AppendProperties DEF TypeOK
      <4> QED BY <2>3, <3>1, <4>2, Zenon DEF TypeOK, Shutdown_Collect
    <3>2. CASE ~(sIdx < NumWorkers /\ taskQueue[sIdx] # <<>>)
      BY <2>3, <3>2 DEF TypeOK, Shutdown_Collect
    <3> QED BY <3>1, <3>2
  <2>4. CASE Shutdown_Drain
    <3>0. sIdx \in Workers
      BY <2>4, WorkersAssumption DEF TypeOK, Control, Workers, Shutdown_Drain
    <3>1. CASE current[sIdx] = <<>> /\ drainTasks # <<>>
      <4>1. <<Head(drainTasks)>> \in Seq(Tasks) /\ Tail(drainTasks) \in Seq(Tasks)
        BY <3>1, TakeFront DEF TypeOK
      <4> QED BY <2>4, <3>1, <4>1, Zenon DEF TypeOK, Shutdown_Drain
    <3>2. CASE current[sIdx] # <<>>
      <4>1. PICK result \in HandlerResults : ProcessTask(sIdx, result)
        BY <2>4, <3>2 DEF Shutdown_Drain
      <4>2. /\ outcome' \in [Tasks -> Outcomes] /\ callbacks' \in [Tasks -> Nat]
            /\ finished' \in [Workers -> Seq(Tasks)]
            /\ current' \in [Workers -> Seq(Tasks)]
        BY <3>0, <3>2, <4>1, ProcessTypes
      <4> QED BY <2>4, <3>2, <4>2, Zenon DEF TypeOK, Shutdown_Drain
    <3>3. CASE current[sIdx] = <<>> /\ drainTasks = <<>>
      BY <2>4, <3>3 DEF TypeOK, Shutdown_Drain
    <3> QED BY <3>1, <3>2, <3>3
  <2>5. CASE Shutdown_Mark
    <3>1. finished[sIdx][Len(finished[sIdx])] \in Tasks
      BY <2>5, LastElement, WorkersAssumption
         DEF TypeOK, Control, Workers, Shutdown_Mark
    <3> QED BY <2>5, <3>1, LogTypes, Zenon DEF TypeOK, Shutdown_Mark
  <2>6. CASE Shutdown_Close
    <3>1. walOpen' \in BOOLEAN
      BY <2>6, Zenon DEF Shutdown_Close
    <3>2. mQueueSize' \in Int
      BY <2>6, SMT DEF Shutdown_Close
    <3> QED BY <2>6, <3>1, <3>2 DEF TypeOK, Shutdown_Close
  <2> QED BY <1>5, <2>1, <2>2, <2>3, <2>4, <2>5, <2>6 DEF Shutdown
<1>6. CASE UNCHANGED vars
  BY <1>6 DEF TypeOK, vars
<1> QED BY <1>1, <1>2, <1>3, <1>4, <1>5, <1>6 DEF Next

(***************************************************************************)
(* Who holds a task                                                        *)
(***************************************************************************)
(* Every step keeps Control: the workers that Shutdown has joined stay      *)
(* exited, so nobody but Shutdown takes a task from then on.                *)
LEMMA ControlStep ==
  ASSUME TypeOK, Control, [Next]_vars
  PROVE  Control'
<1> USE WorkersAssumption DEF queueVars, walVars, resultVars, Workers, Draining
<1>1. CASE Initialize
  BY <1>1 DEF TypeOK, Control, ControlOf, Initialize
<1>2. ASSUME NEW t \in Tasks, EnqueueTask(t)
      PROVE  Control'
  <2>1. CASE EnqueueTask_Check(t)
    BY <2>1 DEF TypeOK, Control, ControlOf, EnqueueTask_Check
  <2>2. CASE EnqueueTask_Log(t)
    BY <2>2 DEF TypeOK, Control, ControlOf, EnqueueTask_Log
  <2>3. CASE EnqueueTask_Lock(t)
    BY <2>3 DEF TypeOK, Control, ControlOf, EnqueueTask_Lock
  <2>4. CASE EnqueueTask_Push(t)
    BY <2>4 DEF TypeOK, Control, ControlOf, EnqueueTask_Push
  <2>5. CASE EnqueueTask_Notify(t)
    BY <2>5, Zenon DEF TypeOK, Control, ControlOf, EnqueueTask_Notify
  <2>6. CASE EnqueueTask_Cancel(t)
    BY <2>6 DEF TypeOK, Control, ControlOf, EnqueueTask_Cancel
  <2> QED BY <1>2, <2>1, <2>2, <2>3, <2>4, <2>5, <2>6 DEF EnqueueTask
<1>3. ASSUME NEW w \in Workers, WorkerThreadFunc(w) \/ Worker_Spurious(w)
      PROVE  Control'
  <2>1. CASE Worker_Loop(w)
    BY <2>1, Zenon DEF TypeOK, Control, ControlOf, Worker_Loop
  <2>2. CASE Worker_Lock(w)
    <3>1. CASE taskQueue[w] # <<>>
      <4>1. /\ current' = [current EXCEPT ![w] = <<Head(taskQueue[w])>>]
            /\ wpc' = [wpc EXCEPT ![w] = "process"]
            /\ wpc[w] = "lock" /\ UNCHANGED <<spc, sIdx, finished, drainTasks>>
        BY <2>2, <3>1 DEF Worker_Lock
      <4>2. \A u \in Workers : ControlOf(u)'
        <5>1. <<Head(taskQueue[w])>> # <<>>
          OBVIOUS
        <5> QED BY <4>1, <5>1, Zenon DEF TypeOK, Control, ControlOf
      <4> QED BY <4>1, <4>2 DEF Control
    <3>2. CASE taskQueue[w] = <<>>
      BY <2>2, <3>2, Zenon DEF TypeOK, Control, ControlOf, Worker_Lock
    <3> QED BY <3>1, <3>2
  <2>3. CASE Worker_Park(w)
    BY <2>3, Zenon DEF TypeOK, Control, ControlOf, Worker_Park
  <2>4. CASE Worker_Spurious(w)
    BY <2>4, Zenon DEF TypeOK, Control, ControlOf, Worker_Spurious
  <2>5. CASE Worker_Process(w)
    <3>1. /\ current' = [current EXCEPT ![w] = <<>>]
          /\ finished' = [finished EXCEPT ![w] = Append(@, Head(current[w]))]
          /\ wpc' = [wpc EXCEPT ![w] = "mark"] \/ wpc' = [wpc EXCEPT ![w] = "loop"]
          /\ wpc[w] = "process" /\ UNCHANGED <<spc, sIdx, drainTasks>>
      BY <2>5, Zenon DEF Worker_Process, ProcessTask
    <3>2. Append(finished[w], Head(current[w])) # <<>>
      BY <3>1, AppendHead, Zenon DEF TypeOK, Control, ControlOf
    <3>3. \A u \in Workers : ControlOf(u)'
      BY <3>1, <3>2, Zenon DEF TypeOK, Control, ControlOf
    <3>4. spc \notin Draining
      BY <3>1 DEF Control, ControlOf
    <3> QED BY <3>1, <3>3, <3>4 DEF TypeOK, Control
  <2>6. CASE Worker_Mark(w)
    BY <2>6, Zenon DEF TypeOK, Control, ControlOf, Worker_Mark
  <2> QED BY <1>3, <2>1, <2>2, <2>3, <2>4, <2>5, <2>6 DEF WorkerThreadFunc
<1>4. CASE Shutdown_Stop
  BY <1>4 DEF TypeOK, Control, ControlOf, Shutdown_Stop
<1>5. CASE Shutdown
  <2>1. CASE Shutdown_Notify
    <3>1. ASSUME NEW u \in Workers PROVE ControlOf(u)'
      <4>1. ControlOf(u) /\ spc = "notify" /\ spc' \in {"notify", "join"}
        BY <2>1 DEF Control, Shutdown_Notify
      <4>2. ~(spc' = "join" /\ u < sIdx')
        BY <2>1 DEF TypeOK, Shutdown_Notify
      <4>3. wpc'[u] = wpc[u] \/ (wpc[u] = "waiting" /\ wpc'[u] = "lock")
        BY <2>1, ZenonT(30) DEF TypeOK, Shutdown_Notify
      <4>4. UNCHANGED <<current, finished>>
        BY <2>1 DEF Shutdown_Notify
      <4> QED BY <4>1, <4>2, <4>3, <4>4 DEF ControlOf
    <3> QED BY <2>1, <3>1, SMTT(30) DEF TypeOK, Control, Shutdown_Notify
  <2>2. CASE Shutdown_Join
    <3>1. ASSUME NEW u \in Workers PROVE ControlOf(u)'
      <4>1. ControlOf(u) /\ spc = "join" /\ spc' \in {"join", "collect"}
        BY <2>2 DEF Control, Shutdown_Join
      <4>2. spc' = "collect" \/ u < sIdx' => wpc[u] = "exited"
        <5>1. u < sIdx => wpc[u] = "exited"
          BY <4>1 DEF ControlOf
        <5>2. u \in Int /\ u < NumWorkers /\ sIdx \in Int /\ NumWorkers \in Int
          BY DEF TypeOK
        <5>3. \/ sIdx' = sIdx + 1 /\ wpc[sIdx] = "exited" /\ spc' = spc
              \/ sIdx = NumWorkers /\ sIdx' = 0
          BY <2>2 DEF Shutdown_Join
        <5> QED BY <4>1, <5>1, <5>2, <5>3
      <4>3. UNCHANGED <<current, finished, wpc>>
        BY <2>2 DEF Shutdown_Join
      <4> QED BY <4>1, <4>2, <4>3 DEF ControlOf
    <3> QED BY <2>2, <3>1, SMTT(30) DEF TypeOK, Control, Shutdown_Join
  <2>3. CASE Shutdown_Collect
    <3>1. \A u \in Workers : ControlOf(u)'
      BY <2>3, Zenon DEF TypeOK, Control, ControlOf, Shutdown_Collect
    <3>2. /\ sIdx' = sIdx /\ finished' = finished
          /\ spc' = "drain" => sIdx < NumWorkers
          /\ spc' \in {"collect", "drain", "close"}
          /\ spc' = "close" \/ sIdx = NumWorkers => drainTasks' = <<>>
      BY <2>3 DEF TypeOK, Control, Shutdown_Collect
    <3> QED BY <3>1, <3>2 DEF Control
  <2>4. CASE Shutdown_Drain
    <3>0. sIdx \in Workers /\ spc = "drain"
      BY <2>4 DEF TypeOK, Control, Shutdown_Drain
    <3>1. CASE current[sIdx] = <<>> /\ drainTasks # <<>>
      <4>1. \A u \in Workers : ControlOf(u)'
        BY <2>4, <3>0, <3>1, Zenon DEF TypeOK, Control, ControlOf, Shutdown_Drain
      <4> QED BY <2>4, <3>0, <3>1, <4>1, Zenon DEF TypeOK, Control, Shutdown_Drain
    <3>2. CASE current[sIdx] # <<>>
      <4>1. /\ current' = [current EXCEPT ![sIdx] = <<>>]
            /\ finished' = [finished EXCEPT ![sIdx] = Append(@, Head(current[sIdx]))]
            /\ spc' \in {"drain", "drainMark"} /\ UNCHANGED <<sIdx, wpc, drainTasks>>
        BY <2>4, <3>2 DEF Shutdown_Drain, ProcessTask
      <4>2. Append(finished[sIdx], Head(current[sIdx])) # <<>>
        BY <3>0, <3>2, AppendHead, Zenon DEF TypeOK
      <4>3. \A u \in Workers : ControlOf(u)'
        BY <3>0, <4>1, <4>2, Zenon DEF TypeOK, Control, ControlOf
      <4> QED BY <3>0, <4>1, <4>2, <4>3, Zenon DEF TypeOK, Control
    <3>3. CASE current[sIdx] = <<>> /\ drainTasks = <<>>
      <4>1. \A u \in Workers : ControlOf(u)'
        BY <2>4, <3>0, <3>3, Zenon DEF TypeOK, Control, ControlOf, Shutdown_Drain
      <4> QED BY <2>4, <3>0, <3>3, <4>1 DEF TypeOK, Control, Shutdown_Drain
    <3> QED BY <3>1, <3>2, <3>3
  <2>5. CASE Shutdown_Mark
    BY <2>5, ZenonT(30) DEF TypeOK, Control, ControlOf, Shutdown_Mark
  <2>6. CASE Shutdown_Close
    BY <2>6 DEF TypeOK, Control, ControlOf, Shutdown_Close
  <2> QED BY <1>5, <2>1, <2>2, <2>3, <2>4, <2>5, <2>6 DEF Shutdown
<1>6. CASE UNCHANGED vars
  BY <1>6 DEF Control, ControlOf, vars
<1> QED BY <1>1, <1>2, <1>3, <1>4, <1>5, <1>6 DEF Next

(***************************************************************************)
(* The order of a worker's tasks                                           *)
(***************************************************************************)
(* The library's theorem in a form whose set the provers need not guess. *)
LEMMA Associative ==
  \A x, y, z \in Seq(Tasks) : (x \o y) \o z = x \o (y \o z)
BY ConcatAssociative

(* The four parts of FifoPerWorker, read left to right. *)
Parts(f, c, d, q) == f \o c \o d \o q

(* Appending to the last part appends to the whole. *)
LEMMA PartsPush ==
  ASSUME NEW q \in Seq(Tasks), NEW t \in Tasks, NEW g \in Seq(Tasks)
  PROVE  g \o Append(q, t) = Append(g \o q, t)
<1>1. g \o q \in Seq(Tasks) /\ <<t>> \in Seq(Tasks)
  BY ConcatProperties
<1>2. Append(q, t) = q \o <<t>> /\ Append(g \o q, t) = (g \o q) \o <<t>>
  BY <1>1, AppendIsConcat
<1> QED BY <1>1, <1>2, Associative

(* A worker's pop moves the head of the queue into its hand. *)
LEMMA PartsPop ==
  ASSUME NEW f \in Seq(Tasks), NEW q \in Seq(Tasks), q # <<>>
  PROVE  Parts(f, <<Head(q)>>, <<>>, Tail(q)) = Parts(f, <<>>, <<>>, q)
<1>1. <<Head(q)>> \in Seq(Tasks) /\ Tail(q) \in Seq(Tasks) /\ <<Head(q)>> \o Tail(q) = q
  BY TakeFront
<1>2. f \o <<Head(q)>> \in Seq(Tasks)
  BY <1>1, ConcatProperties
<1>3. (f \o <<Head(q)>>) \o <<>> = f \o <<Head(q)>> /\ f \o <<>> = f
  BY <1>2, ConcatEmptySeq
<1>4. (f \o <<Head(q)>>) \o Tail(q) = f \o (<<Head(q)>> \o Tail(q))
  BY <1>1, Associative
<1> QED BY <1>1, <1>3, <1>4 DEF Parts

(* Finishing moves the task in hand to the end of what is finished. *)
LEMMA PartsFinish ==
  ASSUME NEW f \in Seq(Tasks), NEW c \in Seq(Tasks), NEW d \in Seq(Tasks),
         NEW q \in Seq(Tasks), c # <<>>, Len(c) <= 1
  PROVE  Parts(Append(f, Head(c)), <<>>, d, q) = Parts(f, c, d, q)
<1>1. Head(c) \in Tasks /\ c = <<Head(c)>>
  BY Singleton
<1>2. Append(f, Head(c)) = f \o c /\ f \o c \in Seq(Tasks)
  BY <1>1, AppendIsConcat, ConcatProperties
<1> QED BY <1>2, ConcatEmptySeq, Zenon DEF Parts

(* Shutdown collects the head of a queue at the end of drainTasks. *)
LEMMA PartsCollect ==
  ASSUME NEW f \in Seq(Tasks), NEW c \in Seq(Tasks), NEW d \in Seq(Tasks),
         NEW q \in Seq(Tasks), q # <<>>
  PROVE  Parts(f, c, Append(d, Head(q)), Tail(q)) = Parts(f, c, d, q)
<1>1. /\ Head(q) \in Tasks /\ <<Head(q)>> \in Seq(Tasks) /\ Tail(q) \in Seq(Tasks)
      /\ <<Head(q)>> \o Tail(q) = q
  BY TakeFront
<1>2. Append(d, Head(q)) = d \o <<Head(q)>>
  BY <1>1, AppendIsConcat
<1>3. f \o c \in Seq(Tasks)
  BY ConcatProperties
<1>4. ASSUME NEW g \in Seq(Tasks)
      PROVE  (g \o (d \o <<Head(q)>>)) \o Tail(q) = (g \o d) \o q
  <2>1. g \o d \in Seq(Tasks)
    BY ConcatProperties
  <2>2. g \o (d \o <<Head(q)>>) = (g \o d) \o <<Head(q)>>
    BY <1>1, Associative, ZenonT(30)
  <2>3. ((g \o d) \o <<Head(q)>>) \o Tail(q) = (g \o d) \o (<<Head(q)>> \o Tail(q))
    BY <1>1, <2>1, Associative, ZenonT(30)
  <2> QED BY <1>1, <2>2, <2>3, SMTT(30)
<1> QED BY <1>2, <1>3, <1>4, Zenon DEF Parts

(* Shutdown takes the first drained task in hand. *)
LEMMA PartsTake ==
  ASSUME NEW f \in Seq(Tasks), NEW d \in Seq(Tasks), NEW q \in Seq(Tasks), d # <<>>
  PROVE  Parts(f, <<Head(d)>>, Tail(d), q) = Parts(f, <<>>, d, q)
<1>1. <<Head(d)>> \in Seq(Tasks) /\ Tail(d) \in Seq(Tasks) /\ <<Head(d)>> \o Tail(d) = d
  BY TakeFront
<1>2. (f \o <<Head(d)>>) \o Tail(d) = f \o d
  BY <1>1, Associative
<1>3. f \o <<>> = f
  BY ConcatEmptySeq
<1> QED BY <1>2, <1>3 DEF Parts

(***************************************************************************)
(* Order                                                                   *)
(***************************************************************************)
FifoOf(w) ==
  /\ Parts(finished[w], current[w], Drained(w), taskQueue[w]) = pushed[w]
  /\ Len(current[w]) <= 1

(* FifoPerWorker, one worker at a time. *)
LEMMA FifoUnfolded == FifoPerWorker <=> \A w \in Workers : FifoOf(w)
BY DEF FifoPerWorker, FifoOf, Parts

(* A step that moves none of worker u's tasks keeps its order. *)
LEMMA FifoFrame ==
  ASSUME NEW u \in Workers, FifoOf(u), Drained(u)' = Drained(u),
         finished'[u] = finished[u], current'[u] = current[u],
         taskQueue'[u] = taskQueue[u], pushed'[u] = pushed[u]
  PROVE  FifoOf(u)'
BY Zenon DEF FifoOf, Parts

(* Every step keeps each worker's tasks in the order of their pushes. *)
LEMMA FifoStep ==
  ASSUME TypeOK, Control, FifoPerWorker, [Next]_vars
  PROVE  FifoPerWorker'
<1> SUFFICES ASSUME NEW u \in Workers
             PROVE  FifoOf(u)'
  BY Zenon DEF FifoPerWorker, FifoOf, Parts
<1> USE DEF queueVars, walVars, resultVars
<1>0. /\ FifoOf(u) /\ ControlOf(u)
      /\ finished[u] \in Seq(Tasks) /\ current[u] \in Seq(Tasks)
      /\ taskQueue[u] \in Seq(Tasks) /\ pushed[u] \in Seq(Tasks)
      /\ drainTasks \in Seq(Tasks) /\ Drained(u) \in Seq(Tasks)
      /\ u \in Int /\ u < NumWorkers /\ sIdx \in Nat
  BY FifoUnfolded, WorkersAssumption, EmptySeq DEF TypeOK, Control, Workers, Drained
<1>1. CASE Initialize
  BY <1>0, <1>1, FifoFrame DEF Initialize, Drained
<1>2. ASSUME NEW t \in Tasks, EnqueueTask(t)
      PROVE  FifoOf(u)'
  <2>1. CASE EnqueueTask_Check(t)
    BY <1>0, <2>1, FifoFrame DEF EnqueueTask_Check, Drained
  <2>2. CASE EnqueueTask_Log(t)
    BY <1>0, <2>2, FifoFrame DEF EnqueueTask_Log, Drained
  <2>3. CASE EnqueueTask_Lock(t)
    BY <1>0, <2>3, FifoFrame DEF EnqueueTask_Lock, Drained
  <2>4. CASE EnqueueTask_Push(t)
    <3>1. Drained(u)' = Drained(u) /\ finished' = finished /\ current' = current
      BY <2>4 DEF EnqueueTask_Push, Drained
    <3>2. CASE WorkerOf(t) = u
      <4>1. taskQueue'[u] = Append(taskQueue[u], t) /\ pushed'[u] = Append(pushed[u], t)
        BY <2>4, <3>2 DEF TypeOK, EnqueueTask_Push
      <4>2. finished[u] \o current[u] \o Drained(u) \in Seq(Tasks)
        BY <1>0, ConcatProperties
      <4>3. ASSUME NEW g \in Seq(Tasks)
            PROVE  g \o Append(taskQueue[u], t) = Append(g \o taskQueue[u], t)
        BY <1>0, PartsPush, Zenon
      <4>4. Parts(finished[u], current[u], Drained(u), Append(taskQueue[u], t))
              = Append(Parts(finished[u], current[u], Drained(u), taskQueue[u]), t)
        BY <4>2, <4>3, Zenon DEF Parts
      <4> QED BY <1>0, <3>1, <4>1, <4>4 DEF FifoOf
    <3>3. CASE WorkerOf(t) # u
      <4>1. taskQueue'[u] = taskQueue[u] /\ pushed'[u] = pushed[u]
        BY <2>4, <3>3 DEF TypeOK, EnqueueTask_Push
      <4> QED BY <1>0, <3>1, <4>1, FifoFrame
    <3> QED BY <3>2, <3>3
  <2>5. CASE EnqueueTask_Notify(t)
    BY <1>0, <2>5, FifoFrame DEF EnqueueTask_Notify, Drained
  <2>6. CASE EnqueueTask_Cancel(t)
    BY <1>0, <2>6, FifoFrame DEF EnqueueTask_Cancel, Drained
  <2> QED BY <1>2, <2>1, <2>2, <2>3, <2>4, <2>5, <2>6 DEF EnqueueTask
<1>3. ASSUME NEW w \in Workers, WorkerThreadFunc(w) \/ Worker_Spurious(w)
      PROVE  FifoOf(u)'
  <2>1. CASE Worker_Loop(w)
    BY <1>0, <2>1, FifoFrame DEF Worker_Loop, Drained
  <2>2. CASE Worker_Lock(w)
    <3>1. CASE taskQueue[w] # <<>> /\ u = w
      <4>1. /\ taskQueue'[u] = Tail(taskQueue[u])
            /\ current'[u] = <<Head(taskQueue[u])>>
            /\ finished' = finished /\ pushed' = pushed
        BY <2>2, <3>1 DEF TypeOK, Worker_Lock
      <4>2. current[u] = <<>> /\ Drained(u) = <<>> /\ Drained(u)' = <<>>
        BY <1>0, <2>2, <3>1 DEF ControlOf, Draining, Worker_Lock, Drained
      <4>3. Len(current'[u]) <= 1
        BY <1>0, <3>1, <4>1, TakeFront
      <4> QED BY <1>0, <3>1, <4>1, <4>2, <4>3, PartsPop DEF FifoOf
    <3>2. CASE taskQueue[w] = <<>> \/ u # w
      <4>1. taskQueue'[u] = taskQueue[u] /\ current'[u] = current[u]
        BY <2>2, <3>2 DEF TypeOK, Worker_Lock
      <4> QED BY <1>0, <2>2, <4>1, FifoFrame DEF Worker_Lock, Drained
    <3> QED BY <3>1, <3>2
  <2>3. CASE Worker_Park(w)
    BY <1>0, <2>3, FifoFrame DEF Worker_Park, Drained
  <2>4. CASE Worker_Spurious(w)
    BY <1>0, <2>4, FifoFrame DEF Worker_Spurious, Drained
  <2>5. CASE Worker_Process(w)
    <3>1. Drained(u)' = Drained(u) /\ taskQueue' = taskQueue /\ pushed' = pushed
      BY <2>5 DEF Worker_Process, Drained
    <3>2. CASE u = w
      <4>1. current[u] # <<>>
        BY <1>0, <2>5, <3>2 DEF ControlOf, Worker_Process
      <4>2. finished'[u] = Append(finished[u], Head(current[u])) /\ current'[u] = <<>>
        BY <2>5, <3>2 DEF TypeOK, Worker_Process, ProcessTask
      <4>3. Len(current'[u]) <= 1
        BY <4>2, EmptySeq
      <4> QED BY <1>0, <3>1, <4>1, <4>2, <4>3, PartsFinish DEF FifoOf
    <3>3. CASE u # w
      <4>1. finished'[u] = finished[u] /\ current'[u] = current[u]
        BY <2>5, <3>3 DEF TypeOK, Worker_Process, ProcessTask
      <4> QED BY <1>0, <3>1, <4>1, FifoFrame
    <3> QED BY <3>2, <3>3
  <2>6. CASE Worker_Mark(w)
    BY <1>0, <2>6, FifoFrame DEF Worker_Mark, Drained
  <2> QED BY <1>3, <2>1, <2>2, <2>3, <2>4, <2>5, <2>6 DEF WorkerThreadFunc
<1>4. CASE Shutdown_Stop
  BY <1>0, <1>4, FifoFrame DEF Shutdown_Stop, Drained
<1>5. CASE Shutdown
  <2>1. CASE Shutdown_Notify
    BY <1>0, <2>1, FifoFrame DEF Shutdown_Notify, Drained
  <2>2. CASE Shutdown_Join
    <3>1. Drained(u)' = Drained(u)
      BY <2>2 DEF Control, Draining, Shutdown_Join, Drained
    <3> QED BY <1>0, <2>2, <3>1, FifoFrame DEF Shutdown_Join
  <2>3. CASE Shutdown_Collect
    <3>1. CASE sIdx = u /\ taskQueue[sIdx] # <<>>
      <4>1. /\ taskQueue'[u] = Tail(taskQueue[u])
            /\ drainTasks' = Append(drainTasks, Head(taskQueue[u]))
            /\ spc' = "collect" /\ spc = "collect" /\ sIdx' = sIdx
            /\ UNCHANGED <<finished, current, pushed>>
        BY <1>0, <2>3, <3>1 DEF TypeOK, Shutdown_Collect
      <4>2. Drained(u) = drainTasks /\ Drained(u)' = drainTasks'
        BY <3>1, <4>1 DEF Drained
      <4> QED BY <1>0, <3>1, <4>1, <4>2, PartsCollect DEF FifoOf
    <3>2. CASE ~(sIdx = u /\ taskQueue[sIdx] # <<>>)
      <4>1. taskQueue'[u] = taskQueue[u]
        BY <2>3, <3>2 DEF TypeOK, Shutdown_Collect
      <4>2. Drained(u)' = Drained(u)
        BY <1>0, <2>3, <3>2 DEF Control, Draining, Shutdown_Collect, Drained
      <4> QED BY <1>0, <2>3, <4>1, <4>2, FifoFrame DEF Shutdown_Collect
    <3> QED BY <3>1, <3>2
  <2>4. CASE Shutdown_Drain
    <3>0. spc = "drain" /\ UNCHANGED <<taskQueue, pushed>>
      BY <2>4 DEF Shutdown_Drain
    <3>1. CASE sIdx = u /\ current[sIdx] = <<>> /\ drainTasks # <<>>
      <4>1. /\ current'[u] = <<Head(drainTasks)>> /\ drainTasks' = Tail(drainTasks)
            /\ UNCHANGED <<finished, spc, sIdx>>
        BY <2>4, <3>1 DEF TypeOK, Shutdown_Drain
      <4>2. Drained(u) = drainTasks /\ Drained(u)' = drainTasks'
        BY <3>0, <3>1, <4>1 DEF Drained
      <4>3. Len(current'[u]) <= 1
        BY <1>0, <3>1, <4>1, TakeFront
      <4> QED BY <1>0, <3>0, <3>1, <4>1, <4>2, <4>3, PartsTake DEF FifoOf
    <3>2. CASE sIdx = u /\ current[sIdx] # <<>>
      <4>1. /\ finished'[u] = Append(finished[u], Head(current[u])) /\ current'[u] = <<>>
            /\ drainTasks' = drainTasks /\ sIdx' = sIdx /\ spc' \in {"drain", "drainMark"}
        BY <2>4, <3>2 DEF TypeOK, Shutdown_Drain, ProcessTask
      <4>2. Drained(u)' = Drained(u)
        BY <3>0, <4>1 DEF Drained
      <4>3. Len(current'[u]) <= 1
        BY <4>1, EmptySeq
      <4> QED BY <1>0, <3>0, <3>2, <4>1, <4>2, <4>3, PartsFinish DEF FifoOf
    <3>3. CASE sIdx # u \/ (current[sIdx] = <<>> /\ drainTasks = <<>>)
      <4>1. finished'[u] = finished[u] /\ current'[u] = current[u]
        BY <2>4, <3>3 DEF TypeOK, Shutdown_Drain, ProcessTask
      <4>2. Drained(u)' = Drained(u)
        <5>1. CASE sIdx' = sIdx
          BY <2>4, <3>0, <3>3, <5>1 DEF Shutdown_Drain, Drained
        <5>2. CASE sIdx' # sIdx
          BY <2>4, <3>0, <5>2 DEF Shutdown_Drain, Drained
        <5> QED BY <5>1, <5>2
      <4> QED BY <1>0, <3>0, <4>1, <4>2, FifoFrame
    <3> QED BY <3>1, <3>2, <3>3
  <2>5. CASE Shutdown_Mark
    BY <1>0, <2>5, FifoFrame DEF Shutdown_Mark, Drained
  <2>6. CASE Shutdown_Close
    BY <1>0, <2>6, FifoFrame DEF Shutdown_Close, Drained
  <2> QED BY <1>5, <2>1, <2>2, <2>3, <2>4, <2>5, <2>6 DEF Shutdown
<1>6. CASE UNCHANGED vars
  BY <1>0, <1>6, FifoFrame DEF vars, Drained
<1> QED BY <1>1, <1>2, <1>3, <1>4, <1>5, <1>6 DEF Next

(***************************************************************************)
(* The first two results                                                   *)
(***************************************************************************)
Ordered == TypeOK /\ Control /\ FifoPerWorker

(* The queue starts empty, so in order. *)
LEMMA OrderedInit == Init => Ordered
<1> SUFFICES ASSUME Init PROVE Ordered
  OBVIOUS
<1>1. TypeOK
  <2>1. mIsRunning \in BOOLEAN /\ walOpen \in BOOLEAN
    BY Zenon DEF Init
  <2>2. /\ taskQueue \in [Workers -> Seq(Tasks)] /\ current \in [Workers -> Seq(Tasks)]
        /\ pushed \in [Workers -> Seq(Tasks)] /\ finished \in [Workers -> Seq(Tasks)]
        /\ drainTasks \in Seq(Tasks)
    BY EmptySeq DEF Init
  <2>3. mQueueSize \in Int /\ sIdx \in Nat /\ callbacks \in [Tasks -> Nat]
    BY DEF Init
  <2>4. outcome \in [Tasks -> Outcomes] /\ walP \in SUBSET Tasks /\ walD \in SUBSET Tasks
    BY DEF Init, Outcomes
  <2> QED BY <2>1, <2>2, <2>3, <2>4 DEF Init, TypeOK
<1>2. Control
  BY WorkersAssumption DEF Init, Control, ControlOf, Workers, Draining
<1>3. FifoPerWorker
  <2>1. <<>> \o <<>> \o <<>> \o <<>> = <<>> /\ Len(<<>>) <= 1
    BY ConcatEmptySeq, EmptySeq
  <2> QED BY <2>1 DEF Init, FifoPerWorker, Drained
<1> QED BY <1>1, <1>2, <1>3 DEF Ordered

(* Types, control and order hold together in every reachable state. *)
THEOREM OrderedAlways == Spec => []Ordered
<1>1. Ordered /\ [Next]_vars => Ordered'
  BY TypeStep, ControlStep, FifoStep DEF Ordered
<1> QED BY OrderedInit, <1>1, PTL DEF Spec

(* DBTaskQueue's variables keep their types, whatever the number of tasks,  *)
(* sessions and workers: in particular no thread reads the front of an      *)
(* empty queue and no log record is written for a task that is not there.   *)
THEOREM TypeCorrect == Spec => []TypeOK
<1>1. Ordered => TypeOK
  BY DEF Ordered
<1> QED BY OrderedAlways, <1>1, PTL

(* The guarantee of key-affinity routing: every worker runs the tasks routed *)
(* to it one at a time in the order in which EnqueueTask pushed them, and    *)
(* Shutdown's drain keeps that order.                                        *)
THEOREM WorkersAreFifo == Spec => []FifoPerWorker
<1>1. Ordered => FifoPerWorker
  BY DEF Ordered
<1> QED BY OrderedAlways, <1>1, PTL

(***************************************************************************)
(* The number of queued tasks                                              *)
(***************************************************************************)
Alive == {"created", "up", "notify", "join"}

SizeInv == spc \in Alive => IsFiniteSet(Queued) /\ mQueueSize = Cardinality(Queued)

(* Every push adds a place and one to the counter, every pop of a worker     *)
(* takes both; Shutdown's collection, which does not count, comes later.     *)
LEMMA SizeStep ==
  ASSUME CountFacts, TypeOK, TypeOK', SizeInv, [Next]_vars
  PROVE  SizeInv'
<1>q. Queued = Slots(Workers, taskQueue) /\ Queued' = Slots(Workers, taskQueue')
  BY DEF Queued, Slots
<1>t. taskQueue \in [Workers -> Seq(Tasks)] /\ taskQueue' \in [Workers -> Seq(Tasks)]
  BY DEF TypeOK
<1>1. ASSUME NEW t \in Tasks, EnqueueTask_Push(t) PROVE SizeInv'
  <2>1. PushedTo(Tasks, Workers, taskQueue, taskQueue', WorkerOf(t), t) /\ mQueueSize' = mQueueSize + 1
        /\ spc' = spc
    BY <1>1, <1>t, Routing DEF EnqueueTask_Push, PushedTo
  <2>2. CASE spc \in Alive
    <3>0. IsFiniteSet(Slots(Workers, taskQueue))
      BY <1>q, <2>2 DEF SizeInv
    <3>1. IsFiniteSet(Slots(Workers, taskQueue')) /\
          Cardinality(Slots(Workers, taskQueue')) = Cardinality(Slots(Workers, taskQueue)) + 1
      BY <2>1, <3>0, SlotsAppend
    <3> QED
      BY <1>q, <2>1, <2>2, <3>1 DEF SizeInv
  <2> QED
    BY <2>1, <2>2 DEF SizeInv
<1>2. ASSUME NEW w \in Workers, Worker_Lock(w), taskQueue[w] # <<>> PROVE SizeInv'
  <2>1. PoppedFrom(Tasks, Workers, taskQueue, taskQueue', w) /\ mQueueSize' = mQueueSize - 1
        /\ spc' = spc
    BY <1>2, <1>t DEF Worker_Lock, PoppedFrom
  <2>2. CASE spc \in Alive
    <3>0. IsFiniteSet(Slots(Workers, taskQueue))
      BY <1>q, <2>2 DEF SizeInv
    <3>1. IsFiniteSet(Slots(Workers, taskQueue')) /\
          Cardinality(Slots(Workers, taskQueue')) = Cardinality(Slots(Workers, taskQueue)) - 1
      BY <2>1, <3>0, SlotsTail
    <3> QED
      BY <1>q, <2>1, <2>2, <3>1 DEF SizeInv
  <2> QED
    BY <2>1, <2>2 DEF SizeInv
<1>3. ASSUME UNCHANGED <<taskQueue, mQueueSize>>, spc' \in Alive => spc \in Alive PROVE SizeInv'
  BY <1>3 DEF SizeInv, Queued
<1>4. ASSUME NEW t \in Tasks, EnqueueTask(t) PROVE SizeInv'
  BY <1>1, <1>3, <1>4 DEF EnqueueTask, EnqueueTask_Check, EnqueueTask_Log, EnqueueTask_Lock,
     EnqueueTask_Notify, EnqueueTask_Cancel, queueVars
<1>5. ASSUME NEW w \in Workers, WorkerThreadFunc(w) \/ Worker_Spurious(w) PROVE SizeInv'
  BY <1>2, <1>3, <1>5 DEF WorkerThreadFunc, Worker_Spurious, Worker_Loop, Worker_Lock, Worker_Park,
     Worker_Process, Worker_Mark, queueVars
<1>6. CASE Initialize \/ Shutdown_Stop \/ Shutdown
  <2>1. spc' \in Alive => spc \in Alive /\ UNCHANGED <<taskQueue, mQueueSize>>
    BY <1>6 DEF Initialize, Shutdown_Stop, Shutdown, Shutdown_Notify, Shutdown_Join, Shutdown_Collect,
       Shutdown_Drain, Shutdown_Mark, Shutdown_Close, queueVars, Alive
  <2> QED
    BY <1>3, <2>1 DEF SizeInv
<1>7. CASE UNCHANGED vars
  BY <1>3, <1>7 DEF vars
<1> QED
  BY <1>4, <1>5, <1>6, <1>7 DEF Next

(***************************************************************************)
(* The log and the callers                                                 *)
(***************************************************************************)
(* The n-th task pushed to w: it is finished exactly when w has finished n. *)
Entry(w, n) ==
  /\ WorkerOf(pushed[w][n]) = w
  /\ epc[pushed[w][n]] \in {"notify", "returned"}
  /\ outcome[pushed[w][n]] \in IF n <= Len(finished[w]) THEN HandlerResults ELSE {"none"}
  /\ ~WalMayFail => pushed[w][n] \in walP

Entries == \A w \in Workers : \A n \in 1 .. Len(pushed[w]) : Entry(w, n)

Distinct == \A w \in Workers : \A m, n \in 1 .. Len(pushed[w]) :
              pushed[w][m] = pushed[w][n] => m = n

(* The records of one task, along the way of its EnqueueTask call. *)
Slip(t) ==
  /\ epc[t] \in {"idle", "admitted", "logged", "push", "cancel"} => outcome[t] = "none"
  /\ epc[t] \in {"idle", "admitted"} => t \notin walP
  /\ epc[t] \in {"logged", "push", "cancel"} /\ ~WalMayFail => t \in walP
  /\ callbacks[t] = IF outcome[t] = "none" THEN 0 ELSE 1
  /\ t \in walD => outcome[t] \in {"ok", "rejected"}
  /\ outcome[t] = "rejected" /\ t \in walP /\ ~WalMayFail => t \in walD

Slips == \A t \in Tasks : Slip(t)

(* A D record is about to be written only for a task that succeeded. *)
Marks ==
  /\ \A w \in Workers : wpc[w] = "mark" => outcome[finished[w][Len(finished[w])]] = "ok"
  /\ spc = "drainMark" => outcome[finished[sIdx][Len(finished[sIdx])]] = "ok"

Ledger == Entries /\ Distinct /\ Slips /\ Marks

(* The task in hand is the next one in the order of the pushes. *)
LEMMA NextInHand ==
  ASSUME TypeOK, NEW w \in Workers, FifoOf(w), current[w] # <<>>
  PROVE  /\ Head(current[w]) \in Tasks
         /\ Len(finished[w]) + 1 \in 1 .. Len(pushed[w])
         /\ pushed[w][Len(finished[w]) + 1] = Head(current[w])
<1> DEFINE f == finished[w]
           c == current[w]
           rest == Drained(w) \o taskQueue[w]
<1>1. /\ f \in Seq(Tasks) /\ c \in Seq(Tasks) /\ Drained(w) \in Seq(Tasks)
      /\ taskQueue[w] \in Seq(Tasks) /\ Len(c) <= 1
  BY EmptySeq DEF TypeOK, Drained, FifoOf
<1>2. Head(c) \in Tasks /\ Len(c) = 1 /\ c[1] = Head(c)
  BY <1>1, Singleton
<1>3. rest \in Seq(Tasks) /\ f \o c \in Seq(Tasks) /\ Len(f \o c) = Len(f) + 1
      /\ (f \o c)[Len(f) + 1] = Head(c)
  <2>2. /\ Len(f \o c) = Len(f) + Len(c) /\ f \o c \in Seq(Tasks)
        /\ \A i \in 1 .. Len(f) + Len(c) : (f \o c)[i] =
              IF i <= Len(f) THEN f[i] ELSE c[i - Len(f)]
    BY <1>1, ConcatProperties, Zenon
  <2>3. Len(f) \in Nat
    BY <1>1, LenProperties
  <2>4. rest \in Seq(Tasks)
    BY <1>1, ConcatProperties
  <2> HIDE DEF f, c, rest
  <2> QED BY <1>2, <2>2, <2>3, <2>4
<1>4. pushed[w] = (f \o c) \o rest
  <2>1. ASSUME NEW g \in Seq(Tasks)
        PROVE  (g \o Drained(w)) \o taskQueue[w] = g \o (Drained(w) \o taskQueue[w])
    BY <1>1, Associative, Zenon
  <2> QED BY <1>3, <2>1, Zenon DEF FifoOf, Parts
<1> HIDE DEF f, c, rest
<1>5. ASSUME NEW g \in Seq(Tasks), NEW n \in Nat, Len(g) = n + 1
      PROVE  n + 1 \in 1 .. Len(g \o rest) /\ (g \o rest)[n + 1] = g[n + 1]
  <2>1. /\ Len(g \o rest) = Len(g) + Len(rest)
        /\ \A i \in 1 .. Len(g) + Len(rest) : (g \o rest)[i] =
              IF i <= Len(g) THEN g[i] ELSE rest[i - Len(g)]
    BY <1>3, ConcatProperties
  <2>2. Len(rest) \in Nat
    BY <1>3, LenProperties
  <2> QED BY <1>5, <2>1, <2>2
<1>6. Len(f) \in Nat
  BY <1>1, LenProperties
<1>7. /\ Len(f) + 1 \in 1 .. Len(pushed[w])
      /\ pushed[w][Len(f) + 1] = Head(c)
  BY <1>3, <1>4, <1>5, <1>6
<1> QED BY <1>2, <1>7 DEF f, c

(* A step that touches neither the records nor the order keeps the ledger. *)
LEMMA LedgerFrame ==
  ASSUME Ledger, UNCHANGED <<pushed, epc, outcome, callbacks, finished, walP, walD>>,
         \A w \in Workers : wpc'[w] = "mark" => wpc[w] = "mark",
         spc' = "drainMark" => spc = "drainMark" /\ sIdx' = sIdx
  PROVE  Ledger'
<1>1. Entries'
  BY DEF Ledger, Entries, Entry
<1>2. Distinct'
  BY DEF Ledger, Distinct
<1>3. Slips'
  BY DEF Ledger, Slips, Slip
<1>4. Marks'
  BY DEF Ledger, Marks
<1> QED BY <1>1, <1>2, <1>3, <1>4 DEF Ledger

(* No more is finished than was pushed. *)
LEMMA FinishedWerePushed ==
  ASSUME TypeOK, NEW w \in Workers, FifoOf(w)
  PROVE  Len(finished[w]) <= Len(pushed[w])
<1> DEFINE f == finished[w]
           c == current[w]
           d == Drained(w)
           q == taskQueue[w]
<1>1. f \in Seq(Tasks) /\ c \in Seq(Tasks) /\ d \in Seq(Tasks) /\ q \in Seq(Tasks)
  BY EmptySeq DEF TypeOK, Drained
<1>2. pushed[w] = ((f \o c) \o d) \o q
  BY DEF FifoOf, Parts
<1> HIDE DEF f, c, d, q
<1>3. f \o c \in Seq(Tasks) /\ Len(f \o c) = Len(f) + Len(c)
  BY <1>1, ConcatProperties
<1>4. (f \o c) \o d \in Seq(Tasks) /\ Len((f \o c) \o d) = Len(f \o c) + Len(d)
  BY <1>1, <1>3, ConcatProperties
<1>5. Len(((f \o c) \o d) \o q) = Len((f \o c) \o d) + Len(q)
  BY <1>1, <1>4, ConcatProperties
<1>6. Len(f) \in Nat /\ Len(c) \in Nat /\ Len(d) \in Nat /\ Len(q) \in Nat
  BY <1>1, LenProperties
<1>7. Len(f) <= Len(pushed[w])
  BY <1>2, <1>3, <1>4, <1>5, <1>6
<1> QED BY <1>7 DEF f

(* What is about to be marked is a task. *)
LEMMA MarkedIsTask ==
  ASSUME TypeOK, Control
  PROVE  /\ \A w \in Workers : wpc[w] = "mark" => finished[w][Len(finished[w])] \in Tasks
         /\ spc = "drainMark" =>
              sIdx \in Workers /\ finished[sIdx][Len(finished[sIdx])] \in Tasks
<1>1. spc = "drainMark" => sIdx \in Workers
  BY WorkersAssumption DEF TypeOK, Control, Workers
<1> QED BY <1>1, LastElement DEF TypeOK, Control, ControlOf

(* A step of the EnqueueTask call of a task that is in no queue changes the *)
(* records of that task only.                                               *)
LEMMA CallFrame ==
  ASSUME TypeOK, Control, Ledger, NEW t \in Tasks,
         epc[t] \notin {"notify", "returned"},
         UNCHANGED <<pushed, finished, wpc, spc, sIdx>>,
         walP \subseteq walP',
         \A x \in Tasks \ {t} :
           /\ epc'[x] = epc[x] /\ outcome'[x] = outcome[x] /\ callbacks'[x] = callbacks[x]
           /\ (x \in walP' <=> x \in walP) /\ (x \in walD' <=> x \in walD),
         outcome[t] # "ok",
         Slip(t)'
  PROVE  Ledger'
<1>1. \A w \in Workers : \A n \in 1 .. Len(pushed[w]) :
        pushed[w][n] \in Tasks /\ pushed[w][n] # t
  BY ElementOfSeq DEF TypeOK, Ledger, Entries, Entry
<1>2. Entries'
  BY <1>1 DEF Ledger, Entries, Entry
<1>3. Distinct'
  BY DEF Ledger, Distinct
<1>4. Slips'
  BY Zenon DEF Ledger, Slips, Slip
<1>5. Marks'
  BY MarkedIsTask, Zenon DEF Ledger, Marks
<1> QED BY <1>2, <1>3, <1>4, <1>5 DEF Ledger

(* EnqueueTask keeps the ledger. *)
LEMMA EnqueueKeepsLedger ==
  ASSUME TypeOK, Control, FifoPerWorker, Ledger, NEW t \in Tasks, EnqueueTask(t)
  PROVE  Ledger'
<1> USE DEF queueVars, walVars, resultVars
<1>0. Slip(t) /\ t \in Tasks
  BY DEF Ledger, Slips
<1>1. CASE EnqueueTask_Check(t)
  <2>1. CASE mIsRunning
    <3>1. Slip(t)'
      BY <1>0, <1>1, <2>1 DEF TypeOK, EnqueueTask_Check, Slip
    <3> QED BY <1>0, <1>1, <2>1, <3>1, CallFrame, Zenon DEF TypeOK, EnqueueTask_Check, Slip
  <2>2. CASE ~mIsRunning
    <3>1. Slip(t)'
      BY <1>0, <1>1, <2>2 DEF TypeOK, EnqueueTask_Check, Report, Slip
    <3> QED BY <1>0, <1>1, <2>2, <3>1, CallFrame, Zenon
            DEF TypeOK, EnqueueTask_Check, Report, Slip
  <2> QED BY <2>1, <2>2
<1>2. CASE EnqueueTask_Log(t)
  <2>1. walP \subseteq walP' /\ walP' \subseteq walP \cup {t} /\ walD' = walD
        /\ (~WalMayFail => t \in walP')
    BY <1>2, WalAssumption, Zenon
       DEF TypeOK, EnqueueTask_Log, WalWritePending, EnsureWalOpen
  <2>2. Slip(t)'
    BY <1>0, <1>2, <2>1 DEF TypeOK, EnqueueTask_Log, Slip
  <2> QED BY <1>0, <1>2, <2>1, <2>2, CallFrame, Zenon DEF TypeOK, EnqueueTask_Log, Slip
<1>3. CASE EnqueueTask_Lock(t)
  <2>1. Slip(t)'
    BY <1>0, <1>3 DEF TypeOK, EnqueueTask_Lock, Slip
  <2> QED BY <1>0, <1>3, <2>1, CallFrame, Zenon DEF TypeOK, EnqueueTask_Lock, Slip
<1>4. CASE EnqueueTask_Push(t)
  <2> DEFINE v == WorkerOf(t)
  <2>1. /\ v \in Workers /\ epc[t] = "push" /\ epc' = [epc EXCEPT ![t] = "notify"]
        /\ pushed' = [pushed EXCEPT ![v] = Append(pushed[v], t)]
        /\ UNCHANGED <<wpc, spc, sIdx, walP, walD, outcome, callbacks, finished>>
    BY <1>4, Routing DEF EnqueueTask_Push
  <2>2. /\ pushed[v] \in Seq(Tasks) /\ Len(pushed[v]) \in Nat
        /\ pushed'[v] = Append(pushed[v], t) /\ Len(pushed'[v]) = Len(pushed[v]) + 1
        /\ \A n \in 1 .. Len(pushed[v]) : pushed'[v][n] = pushed[v][n]
        /\ pushed'[v][Len(pushed[v]) + 1] = t
    <3>1. pushed \in [Workers -> Seq(Tasks)]
      BY DEF TypeOK
    <3>2. pushed[v] \in Seq(Tasks) /\ pushed'[v] = Append(pushed[v], t)
      BY <2>1, <3>1
    <3> HIDE DEF v
    <3> QED
      BY <3>2, AppendEnd, LenProperties
  <2>3. \A w \in Workers : w # v => pushed'[w] = pushed[w]
    BY <2>1 DEF TypeOK
  <2>4. outcome[t] = "none" /\ (~WalMayFail => t \in walP)
    BY <1>0, <2>1 DEF Slip
  <2>5. Len(finished[v]) <= Len(pushed[v]) /\ Len(finished[v]) \in Nat
    BY <2>1, FifoUnfolded, FinishedWerePushed, LenProperties DEF TypeOK
  <2>6. \A w \in Workers : \A n \in 1 .. Len(pushed[w]) :
          pushed[w][n] \in Tasks /\ pushed[w][n] # t
    BY <2>1, ElementOfSeq, Zenon DEF TypeOK, Ledger, Entries, Entry
  <2> HIDE DEF v
  <2>7. Entries'
    <3>1. ASSUME NEW w \in Workers, w # v PROVE \A n \in 1 .. Len(pushed'[w]) : Entry(w, n)'
      BY <2>1, <2>3, <2>6, <3>1, SMTT(30) DEF TypeOK, Ledger, Entries, Entry
    <3>2. ASSUME NEW n \in 1 .. Len(pushed[v]) PROVE Entry(v, n)'
      BY <2>1, <2>2, <2>6 DEF TypeOK, Ledger, Entries, Entry
    <3>3. ASSUME NEW k \in Nat, k = Len(pushed[v]) + 1 PROVE Entry(v, k)'
      BY <2>1, <2>2, <2>4, <2>5, <3>3 DEF TypeOK, Entry, v
    <3>4. \A n \in 1 .. Len(pushed'[v]) : n \in 1 .. Len(pushed[v]) \/ n = Len(pushed[v]) + 1
      BY <2>2
    <3>5. Len(pushed[v]) + 1 \in Nat
      BY <2>2
    <3>6. \A n \in 1 .. Len(pushed'[v]) : Entry(v, n)'
      BY <3>2, <3>3, <3>4, <3>5
    <3> QED BY <3>1, <3>6 DEF Entries
  <2>8. Distinct'
    <3>1. ASSUME NEW w \in Workers, w # v,
                 NEW m \in 1 .. Len(pushed'[w]), NEW n \in 1 .. Len(pushed'[w]),
                 pushed'[w][m] = pushed'[w][n]
          PROVE  m = n
      BY <2>3, <3>1 DEF Ledger, Distinct
    <3>2. ASSUME NEW m \in 1 .. Len(pushed'[v]), NEW n \in 1 .. Len(pushed'[v]),
                 pushed'[v][m] = pushed'[v][n]
          PROVE  m = n
      BY <2>1, <2>2, <2>6, <3>2 DEF Ledger, Distinct
    <3> QED BY <3>1, <3>2 DEF Distinct
  <2>9. Slips'
    BY <1>0, <2>1, <2>4 DEF TypeOK, Ledger, Slips, Slip
  <2>10. Marks'
    BY <2>1, Zenon DEF Ledger, Marks
  <2> QED BY <2>7, <2>8, <2>9, <2>10 DEF Ledger
<1>5. CASE EnqueueTask_Notify(t)
  <2>1. /\ epc[t] = "notify" /\ epc' = [epc EXCEPT ![t] = "returned"]
        /\ UNCHANGED <<pushed, outcome, callbacks, finished, walP, walD, spc, sIdx>>
        /\ \A w \in Workers : wpc'[w] = "mark" => wpc[w] = "mark"
    BY <1>5 DEF TypeOK, EnqueueTask_Notify
  <2>2. Entries'
    BY <2>1 DEF TypeOK, Ledger, Entries, Entry
  <2>3. Distinct' /\ Marks'
    BY <2>1, Zenon DEF Ledger, Distinct, Marks
  <2>4. Slips'
    BY <2>1 DEF TypeOK, Ledger, Slips, Slip
  <2> QED BY <2>2, <2>3, <2>4 DEF Ledger
<1>6. CASE EnqueueTask_Cancel(t)
  <2>1. walD \subseteq walD' /\ walD' \subseteq walD \cup {t} /\ walP' = walP
        /\ (~WalMayFail => t \in walD')
    BY <1>6, WalAssumption, Zenon
       DEF TypeOK, EnqueueTask_Cancel, WalWriteDone, EnsureWalOpen
  <2>2. Slip(t)'
    BY <1>0, <1>6, <2>1 DEF TypeOK, EnqueueTask_Cancel, Report, Slip
  <2> QED BY <1>0, <1>6, <2>1, <2>2, CallFrame, Zenon
          DEF TypeOK, EnqueueTask_Cancel, Report, Slip
<1> QED BY <1>1, <1>2, <1>3, <1>4, <1>5, <1>6 DEF EnqueueTask

(* The end of ProcessTask: the task in hand, which had no outcome, gets one. *)
LEMMA FinishKeepsRecords ==
  ASSUME TypeOK, FifoPerWorker, Ledger, NEW w \in Workers, NEW result \in HandlerResults,
         current[w] # <<>>, ProcessTask(w, result), UNCHANGED <<pushed, epc, walP, walD>>
  PROVE  /\ Entries' /\ Distinct' /\ Slips'
         /\ \A x \in Tasks : outcome[x] = "ok" => outcome'[x] = "ok"
         /\ finished'[w][Len(finished'[w])] = Head(current[w])
         /\ outcome'[Head(current[w])] = result
         /\ \A u \in Workers : u # w => finished'[u] = finished[u]
<1> DEFINE h == Head(current[w])
           k == Len(finished[w])
<1>1. h \in Tasks /\ k + 1 \in 1 .. Len(pushed[w]) /\ pushed[w][k + 1] = h
  BY FifoUnfolded, NextInHand
<1>2. /\ outcome' = [outcome EXCEPT ![h] = result]
      /\ callbacks' = [callbacks EXCEPT ![h] = callbacks[h] + 1]
      /\ finished' = [finished EXCEPT ![w] = Append(finished[w], h)]
  BY DEF ProcessTask, Report
<1>3. /\ k \in Nat /\ Len(finished'[w]) = k + 1 /\ finished'[w][k + 1] = h
      /\ \A u \in Workers : u # w => finished'[u] = finished[u]
  <2>1. finished \in [Workers -> Seq(Tasks)]
    BY DEF TypeOK
  <2>2. finished[w] \in Seq(Tasks) /\ finished'[w] = Append(finished[w], h)
        /\ \A u \in Workers : u # w => finished'[u] = finished[u]
    BY <1>2, <2>1
  <2> HIDE DEF h
  <2> QED
    BY <1>1, <2>2, AppendEnd, LenProperties
<1> HIDE DEF h, k
<1>4. WorkerOf(h) = w /\ outcome[h] = "none"
  <2>1. Entry(w, k + 1)
    BY <1>1 DEF Ledger, Entries
  <2> QED BY <1>1, <1>3, <2>1 DEF Entry, k
<1>5. outcome'[h] = result /\ \A x \in Tasks : x # h => outcome'[x] = outcome[x]
  BY <1>1, <1>2 DEF TypeOK
<1>6. \A u \in Workers : \A n \in 1 .. Len(pushed[u]) : pushed[u][n] \in Tasks
  BY ElementOfSeq DEF TypeOK
<1>7. Entries'
  <2>1. ASSUME NEW u \in Workers, u # w, NEW n \in 1 .. Len(pushed[u])
        PROVE  Entry(u, n)'
    <3>1. Entry(u, n) /\ pushed[u][n] \in Tasks
      BY <1>6, Zenon DEF Ledger, Entries
    <3>2. pushed[u][n] # h
      BY <1>4, <2>1, <3>1, Zenon DEF Entry
    <3> QED BY <1>3, <1>5, <2>1, <3>1, <3>2, Zenon DEF Entry
  <2>2. ASSUME NEW n \in 1 .. Len(pushed[w]) PROVE Entry(w, n)'
    <3>1. Entry(w, n) /\ pushed[w][n] \in Tasks
      BY <1>6 DEF Ledger, Entries
    <3>2. CASE n = k + 1
      BY <1>1, <1>3, <1>5, <3>1, <3>2 DEF Entry
    <3>3. CASE n # k + 1
      <4>1. pushed[w][n] # h
        BY <1>1, <3>3 DEF Ledger, Distinct
      <4>2. n <= k + 1 <=> n <= Len(finished[w])
        BY <1>3, <3>3 DEF k
      <4> QED BY <1>3, <1>5, <3>1, <4>1, <4>2, Zenon DEF Entry
    <3> QED BY <3>2, <3>3
  <2> QED BY <2>1, <2>2 DEF Entries
<1>8. Distinct'
  BY DEF Ledger, Distinct
<1>9. Slips'
  <2>1. ASSUME NEW x \in Tasks, x # h PROVE Slip(x)'
    <3>1. callbacks'[x] = callbacks[x]
      BY <1>2, <2>1 DEF TypeOK
    <3> QED BY <1>5, <2>1, <3>1 DEF Ledger, Slips, Slip
  <2>2. ASSUME NEW x \in Tasks, x = h PROVE Slip(x)'
    <3>1. epc[x] \in {"notify", "returned"}
      BY <1>1, <2>2 DEF Ledger, Entries, Entry
    <3>2. Slip(x)
      BY DEF Ledger, Slips
    <3>3. callbacks'[x] = 1
      BY <1>2, <1>4, <2>2, <3>2 DEF TypeOK, Slip
    <3>4. result # "none" /\ result # "rejected" /\ x \notin walD
      BY <1>4, <2>2, <3>2 DEF HandlerResults, Slip
    <3> QED BY <1>5, <2>2, <3>1, <3>3, <3>4 DEF Slip
  <2> QED BY <2>1, <2>2 DEF Slips
<1> QED BY <1>3, <1>4, <1>5, <1>7, <1>8, <1>9, Zenon DEF h

(* WalWriteDone of a task that succeeded keeps the ledger. *)
LEMMA MarkKeepsLedger ==
  ASSUME TypeOK, Ledger, NEW t \in Tasks, outcome[t] = "ok", WalWriteDone(t),
         UNCHANGED <<pushed, epc, outcome, callbacks, finished>>,
         \A w \in Workers : wpc'[w] = "mark" => wpc[w] = "mark",
         spc' = "drainMark" => spc = "drainMark" /\ sIdx' = sIdx
  PROVE  Ledger'
<1>1. walP' = walP /\ (walD' = walD \/ walD' = walD \cup {t})
  BY Zenon DEF WalWriteDone
<1>2. Entries'
  BY <1>1, Zenon DEF Ledger, Entries, Entry
<1>3. Distinct' /\ Marks'
  BY DEF Ledger, Distinct, Marks
<1>4. Slips'
  BY <1>1 DEF Ledger, Slips, Slip
<1> QED BY <1>2, <1>3, <1>4, Zenon DEF Ledger

(* The worker threads keep the ledger. *)
LEMMA WorkerKeepsLedger ==
  ASSUME TypeOK, Control, FifoPerWorker, Ledger, NEW w \in Workers,
         WorkerThreadFunc(w) \/ Worker_Spurious(w)
  PROVE  Ledger'
<1> USE DEF queueVars, walVars, resultVars
<1>1. CASE Worker_Loop(w)
  BY <1>1, LedgerFrame DEF TypeOK, Worker_Loop
<1>2. CASE Worker_Lock(w)
  <2>1. \A u \in Workers : wpc'[u] = "mark" => wpc[u] = "mark"
    BY <1>2 DEF TypeOK, Worker_Lock
  <2> QED BY <1>2, <2>1, LedgerFrame DEF Worker_Lock
<1>3. CASE Worker_Park(w)
  BY <1>3, LedgerFrame DEF TypeOK, Worker_Park
<1>4. CASE Worker_Spurious(w)
  BY <1>4, LedgerFrame DEF TypeOK, Worker_Spurious
<1>5. CASE Worker_Process(w)
  <2>1. PICK result \in HandlerResults :
          /\ ProcessTask(w, result)
          /\ wpc' = [wpc EXCEPT ![w] = IF result = "ok" THEN "mark" ELSE "loop"]
    BY <1>5, Zenon DEF Worker_Process
  <2>2. /\ current[w] # <<>> /\ wpc[w] = "process"
        /\ UNCHANGED <<pushed, epc, walP, walD, spc, sIdx>>
    BY <1>5 DEF Control, ControlOf, Worker_Process
  <2>3. /\ Entries' /\ Distinct' /\ Slips'
        /\ \A x \in Tasks : outcome[x] = "ok" => outcome'[x] = "ok"
        /\ finished'[w][Len(finished'[w])] = Head(current[w])
        /\ outcome'[Head(current[w])] = result
        /\ \A u \in Workers : u # w => finished'[u] = finished[u]
    BY <2>1, <2>2, FinishKeepsRecords
  <2>4. \A u \in Workers : wpc'[u] = "mark" => (u = w /\ result = "ok") \/ (u # w /\ wpc[u] = "mark")
    BY <2>1 DEF TypeOK
  <2>5. spc # "drainMark"
    BY <2>2 DEF Control, ControlOf, Draining
  <2>6. Marks'
    BY <2>2, <2>3, <2>4, <2>5, MarkedIsTask, ZenonT(30) DEF Ledger, Marks
  <2> QED BY <2>3, <2>6 DEF Ledger
<1>6. CASE Worker_Mark(w)
  <2>1. finished[w][Len(finished[w])] \in Tasks /\ outcome[finished[w][Len(finished[w])]] = "ok"
    BY <1>6, MarkedIsTask DEF Ledger, Marks, Worker_Mark
  <2>2. \A u \in Workers : wpc'[u] = "mark" => wpc[u] = "mark"
    BY <1>6 DEF TypeOK, Worker_Mark
  <2> QED BY <1>6, <2>1, <2>2, MarkKeepsLedger, Zenon DEF Worker_Mark
<1> QED BY <1>1, <1>2, <1>3, <1>4, <1>5, <1>6 DEF WorkerThreadFunc

(* Shutdown keeps the ledger. *)
LEMMA ShutdownKeepsLedger ==
  ASSUME TypeOK, Control, FifoPerWorker, Ledger, Shutdown
  PROVE  Ledger'
<1> USE DEF queueVars, walVars, resultVars
<1>1. CASE Shutdown_Notify
  <2>1. \A u \in Workers : wpc'[u] = "mark" => wpc[u] = "mark"
    BY <1>1 DEF TypeOK, Shutdown_Notify
  <2> QED BY <1>1, <2>1, LedgerFrame DEF Shutdown_Notify
<1>2. CASE Shutdown_Join
  BY <1>2, LedgerFrame DEF Shutdown_Join
<1>3. CASE Shutdown_Collect
  BY <1>3, LedgerFrame DEF Shutdown_Collect
<1>4. CASE Shutdown_Drain
  <2>1. CASE current[sIdx] = <<>>
    BY <1>4, <2>1, LedgerFrame DEF Shutdown_Drain
  <2>2. CASE current[sIdx] # <<>>
    <3>1. sIdx \in Workers /\ UNCHANGED <<pushed, epc, walP, walD, wpc, sIdx>>
      BY <1>4, <2>2, WorkersAssumption DEF TypeOK, Control, Workers, Shutdown_Drain
    <3>2. PICK result \in HandlerResults :
            /\ ProcessTask(sIdx, result)
            /\ spc' = IF result = "ok" THEN "drainMark" ELSE "drain"
      BY <1>4, <2>2 DEF Shutdown_Drain
    <3>3. /\ Entries' /\ Distinct' /\ Slips'
          /\ \A x \in Tasks : outcome[x] = "ok" => outcome'[x] = "ok"
          /\ finished'[sIdx][Len(finished'[sIdx])] = Head(current[sIdx])
          /\ outcome'[Head(current[sIdx])] = result
          /\ \A u \in Workers : u # sIdx => finished'[u] = finished[u]
      BY <2>2, <3>1, <3>2, FinishKeepsRecords
    <3>4. \A u \in Workers : wpc'[u] # "mark"
      BY <1>4, <3>1 DEF Control, ControlOf, Draining, Shutdown_Drain
    <3>5. Marks'
      BY <3>1, <3>2, <3>3, <3>4 DEF Marks
    <3> QED BY <3>3, <3>5 DEF Ledger
  <2> QED BY <2>1, <2>2
<1>5. CASE Shutdown_Mark
  <2>1. /\ finished[sIdx][Len(finished[sIdx])] \in Tasks
        /\ outcome[finished[sIdx][Len(finished[sIdx])]] = "ok"
    BY <1>5, MarkedIsTask DEF Ledger, Marks, Shutdown_Mark
  <2> QED BY <1>5, <2>1, MarkKeepsLedger DEF Shutdown_Mark
<1>6. CASE Shutdown_Close
  BY <1>6, LedgerFrame DEF Shutdown_Close
<1> QED BY <1>1, <1>2, <1>3, <1>4, <1>5, <1>6 DEF Shutdown

(* The records of every task are consistent in every reachable state. *)
THEOREM LedgerAlways == Spec => []Ledger
<1>1. Init => Ledger
  BY EmptySeq DEF Init, Ledger, Entries, Distinct, Slips, Slip, Marks
<1>2. Ordered /\ Ledger /\ [Next]_vars => Ledger'
  <2> SUFFICES ASSUME Ordered, Ledger, [Next]_vars PROVE Ledger'
    OBVIOUS
  <2> USE DEF Ordered
  <2>1. CASE Initialize
    BY <2>1, LedgerFrame DEF Initialize, walVars, resultVars
  <2>2. CASE \E t \in Tasks : EnqueueTask(t)
    BY <2>2, EnqueueKeepsLedger
  <2>3. CASE \E w \in Workers : WorkerThreadFunc(w) \/ Worker_Spurious(w)
    BY <2>3, WorkerKeepsLedger
  <2>4. CASE Shutdown_Stop
    BY <2>4, LedgerFrame DEF Shutdown_Stop, walVars, resultVars
  <2>5. CASE Shutdown
    BY <2>5, ShutdownKeepsLedger
  <2>6. CASE UNCHANGED vars
    BY <2>6, LedgerFrame DEF vars
  <2> QED BY <2>1, <2>2, <2>3, <2>4, <2>5, <2>6 DEF Next
<1> QED BY OrderedAlways, <1>1, <1>2, PTL DEF Spec

(* The log accounts for every accepted task at every instant: whenever the   *)
(* process dies, a task that entered a queue and has not succeeded still has *)
(* its P record and no D record, for every number of tasks and workers.      *)
THEOREM CrashLosesNothing == Spec => []NothingLostByCrash
<1>1. Ledger => NothingLostByCrash
  <2> SUFFICES ASSUME Ledger, NEW t \in Tasks
               PROVE  /\ t \in walD => outcome[t] \in {"ok", "rejected"}
                      /\ Accepted(t) /\ outcome[t] # "ok" /\ ~WalMayFail => t \in walP
    BY DEF NothingLostByCrash
  <2>1. Slip(t)
    BY DEF Ledger, Slips
  <2>2. Accepted(t) /\ ~WalMayFail => t \in walP
    BY Routing DEF Ledger, Entries, Entry, Accepted
  <2> QED BY <2>1, <2>2 DEF Slip
<1> QED BY LedgerAlways, <1>1, PTL

(* Every caller hears of its task at most once, and a refused task is never  *)
(* queued nor replayed, for every number of tasks and workers.               *)
THEOREM CallersAnsweredOnce == Spec => []AnsweredOnce
<1>1. Ledger => AnsweredOnce
  <2> SUFFICES ASSUME Ledger, NEW t \in Tasks
               PROVE  /\ callbacks[t] = (IF outcome[t] = "none" THEN 0 ELSE 1)
                      /\ outcome[t] = "rejected" =>
                           /\ ~Accepted(t)
                           /\ t \in walP /\ ~WalMayFail => t \in walD
    BY DEF AnsweredOnce
  <2>1. Slip(t)
    BY DEF Ledger, Slips
  <2>2. Accepted(t) => outcome[t] \in HandlerResults \cup {"none"}
    BY Routing DEF Ledger, Entries, Entry, Accepted
  <2> QED BY <2>1, <2>2 DEF Slip, HandlerResults
<1> QED BY LedgerAlways, <1>1, PTL

INSTANCE FiniteSetTheorems

(* What the lemmas above take of the library's facts on finite sets. *)
LEMMA Counting == CountFacts
BY FS_CardinalityType, FS_EmptySet, FS_Singleton, FS_AddElement, FS_RemoveElement, FS_Subset, Zenon
   DEF CountFacts, CountsFew, CountsType, CountsAdd, CountsRemove, CountsPart

(* The types hold throughout, and as long as the workers are alive the       *)
(* counter of GetQueueSize is exactly the number of queued tasks: it never   *)
(* goes below zero, though pushes and pops run under different mutexes.      *)
THEOREM SizeIsExact == Spec => []SizeCounterExact
<1>1. Init => SizeInv
  <2> SUFFICES ASSUME Init PROVE IsFiniteSet(Queued) /\ mQueueSize = Cardinality(Queued)
    BY DEF SizeInv
  <2>1. Queued = Slots(Workers, taskQueue) /\ \A w \in Workers : taskQueue[w] = <<>>
    BY DEF Init, Queued, Slots
  <2> QED
    BY <2>1, Counting, SlotsEmpty DEF Init
<1>2. TypeOK /\ TypeOK' /\ SizeInv /\ [Next]_vars => SizeInv'
  BY Counting, SizeStep
<1>3. TypeOK /\ SizeInv => SizeCounterExact
  BY DEF SizeInv, SizeCounterExact, Alive
<1> QED
  BY <1>1, <1>2, <1>3, TypeCorrect, PTL DEF Spec
=============================================================================
