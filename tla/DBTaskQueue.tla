---------------------------- MODULE DBTaskQueue ----------------------------
(***************************************************************************)
(* TestServer's asynchronous database queue (DBTaskQueue.cpp).             *)
(*                                                                         *)
(* Three kinds of threads meet here: callers of EnqueueTask (one call per  *)
(* task, program counter epc), the worker threads (wpc, one per worker)    *)
(* and the thread that runs Initialize and Shutdown (spc).  A worker's     *)
(* mutex is not a variable: it is held exactly by a worker that has found  *)
(* nothing to do and has not blocked yet ("park"), or by a caller that has *)
(* found the queue running and has not pushed yet ("push").                *)
(*                                                                         *)
(* The write-ahead log is the set of tasks with a P record and the set     *)
(* with a D record: a call draws a fresh sequence number, so a record      *)
(* stands for its task.  The files themselves are in WalRecovery.          *)
(***************************************************************************)
EXTENDS Integers, Sequences, FiniteSets

CONSTANTS Tasks,       \* the tasks submitted during one life of the queue
          SessionOf,   \* task -> ConnectionId
          NumWorkers,  \* workerThreadCount
          WalMayFail   \* TRUE when opening the log file may fail

ASSUME WorkersAssumption == NumWorkers \in Nat \ {0}
ASSUME SessionsAssumption == SessionOf \in [Tasks -> Nat]
ASSUME WalAssumption == WalMayFail \in BOOLEAN

Workers == 0 .. (NumWorkers - 1)

VARIABLES
  mIsRunning,   \* the atomic flag
  taskQueue,    \* worker -> its std::queue
  mQueueSize,   \* the global counter
  wpc,          \* worker -> where its thread is
  epc,          \* task -> where the EnqueueTask call that carries it is
  spc, sIdx,    \* the lifecycle thread, and the worker its loop has reached
  drainTasks,   \* the vector Shutdown collects a worker's leftovers in
  current,      \* worker -> the task inside ProcessTask, as a sequence
  walP, walD,   \* tasks with a pending record, tasks with a done record
  walOpen,      \* the log's handle is open
  outcome,      \* task -> what became of it
  callbacks,    \* task -> how often its callback ran
  pushed,       \* history: worker -> tasks pushed, in order
  finished      \* history: worker -> tasks processed, in order

queueVars == <<taskQueue, mQueueSize, drainTasks, current>>
walVars   == <<walP, walD, walOpen>>
resultVars == <<outcome, callbacks, finished>>
vars == <<mIsRunning, taskQueue, mQueueSize, wpc, epc, spc, sIdx, drainTasks,
          current, walP, walD, walOpen, outcome, callbacks, pushed, finished>>

Outcomes == {"none", "ok", "failed", "rejected"}

TypeOK ==
  /\ mIsRunning \in BOOLEAN
  /\ taskQueue \in [Workers -> Seq(Tasks)]
  /\ mQueueSize \in Int   \* a size_t: that it never wraps is SizeCounterExact
  /\ wpc \in [Workers -> {"none", "loop", "lock", "park", "waiting",
                          "process", "mark", "exited"}]
  /\ epc \in [Tasks -> {"idle", "admitted", "logged", "push", "notify",
                        "cancel", "returned"}]
  /\ spc \in {"created", "up", "notify", "join", "collect", "drain",
              "drainMark", "close", "down"}
  /\ sIdx \in Nat
  /\ drainTasks \in Seq(Tasks)
  /\ current \in [Workers -> Seq(Tasks)]
  /\ walP \in SUBSET Tasks
  /\ walD \in SUBSET Tasks
  /\ walOpen \in BOOLEAN
  /\ outcome \in [Tasks -> Outcomes]
  /\ callbacks \in [Tasks -> Nat]
  /\ pushed \in [Workers -> Seq(Tasks)]
  /\ finished \in [Workers -> Seq(Tasks)]

Init ==
  /\ mIsRunning = FALSE
  /\ taskQueue = [w \in Workers |-> <<>>]
  /\ mQueueSize = 0
  /\ wpc = [w \in Workers |-> "none"]
  /\ epc = [t \in Tasks |-> "idle"]
  /\ spc = "created" /\ sIdx = 0
  /\ drainTasks = <<>>
  /\ current = [w \in Workers |-> <<>>]
  /\ walP = {} /\ walD = {} /\ walOpen = FALSE
  /\ outcome = [t \in Tasks |-> "none"]
  /\ callbacks = [t \in Tasks |-> 0]
  /\ pushed = [w \in Workers |-> <<>>]
  /\ finished = [w \in Workers |-> <<>>]

(***************************************************************************)
(* Helpers                                                                 *)
(***************************************************************************)
(* sessionId % mWorkers.size() *)
WorkerOf(t) == SessionOf[t] % NumWorkers

LockFree(w) ==
  /\ wpc[w] # "park"
  /\ \A t \in Tasks : epc[t] = "push" => WorkerOf(t) # w

(* EnsureWalOpen: an open handle is kept, otherwise opening it may fail. *)
EnsureWalOpen == walOpen' \in {TRUE} \cup (IF walOpen \/ ~WalMayFail THEN {} ELSE {FALSE})

WalWritePending(t) ==
  /\ EnsureWalOpen
  /\ walP' = IF walOpen' THEN walP \cup {t} ELSE walP
  /\ walD' = walD

WalWriteDone(t) ==
  /\ EnsureWalOpen
  /\ walD' = IF walOpen' THEN walD \cup {t} ELSE walD
  /\ walP' = walP

(* The caller's callback, with the result the call reports. *)
Report(t, result) ==
  /\ outcome' = [outcome EXCEPT ![t] = result]
  /\ callbacks' = [callbacks EXCEPT ![t] = @ + 1]

(* What the three handlers can answer: the stored procedure ran (or there   *)
(* is no live connection and the handler only logs), or it failed or threw. *)
HandlerResults == {"ok", "failed"}

(* The end of ProcessTask for the task worker w (or the drain of w) has in  *)
(* hand: the counters (here the outcome) and the callback.                  *)
ProcessTask(w, result) ==
  /\ Report(Head(current[w]), result)
  /\ finished' = [finished EXCEPT ![w] = Append(@, Head(current[w]))]
  /\ current' = [current EXCEPT ![w] = <<>>]

(***************************************************************************)
(* Faulty variants, one per mistake the properties have to notice.         *)
(***************************************************************************)
(* The new task overtakes the queued ones. *)
EnqueueTask_PushFront(t) ==
  /\ epc[t] = "push"
  /\ taskQueue' = [taskQueue EXCEPT ![WorkerOf(t)] = <<t>> \o @]
  /\ pushed' = [pushed EXCEPT ![WorkerOf(t)] = Append(@, t)]
  /\ mQueueSize' = mQueueSize + 1
  /\ epc' = [epc EXCEPT ![t] = "notify"]
  /\ UNCHANGED <<mIsRunning, drainTasks, current, walVars, resultVars, wpc, spc, sIdx>>

(* The counter is not incremented. *)
EnqueueTask_PushUncounted(t) ==
  /\ epc[t] = "push"
  /\ taskQueue' = [taskQueue EXCEPT ![WorkerOf(t)] = Append(@, t)]
  /\ pushed' = [pushed EXCEPT ![WorkerOf(t)] = Append(@, t)]
  /\ epc' = [epc EXCEPT ![t] = "notify"]
  /\ UNCHANGED <<mIsRunning, mQueueSize, drainTasks, current, walVars, resultVars, wpc,
                 spc, sIdx>>

(* No notify after the push. *)
EnqueueTask_NoNotify(t) ==
  /\ epc[t] = "notify"
  /\ epc' = [epc EXCEPT ![t] = "returned"]
  /\ UNCHANGED <<mIsRunning, queueVars, walVars, resultVars, wpc, spc, sIdx, pushed>>

(* A task refused after it was logged is left pending in the log. *)
EnqueueTask_CancelUnlogged(t) ==
  /\ epc[t] = "cancel"
  /\ Report(t, "rejected")
  /\ epc' = [epc EXCEPT ![t] = "returned"]
  /\ UNCHANGED <<mIsRunning, queueVars, walVars, wpc, spc, sIdx, pushed, finished>>

(* Nothing is logged before the task is queued. *)
EnqueueTask_NoLog(t) ==
  /\ epc[t] = "admitted"
  /\ epc' = [epc EXCEPT ![t] = "logged"]
  /\ UNCHANGED <<mIsRunning, queueVars, walVars, resultVars, wpc, spc, sIdx, pushed>>

(* The worker copies the front of its queue and does not pop it. *)
Worker_LockNoPop(w) ==
  /\ wpc[w] = "lock"
  /\ LockFree(w)
  /\ \/ /\ taskQueue[w] # <<>>
        /\ current' = [current EXCEPT ![w] = <<Head(taskQueue[w])>>]
        /\ mQueueSize' = mQueueSize - 1
        /\ wpc' = [wpc EXCEPT ![w] = "process"]
        /\ UNCHANGED taskQueue
     \/ /\ taskQueue[w] = <<>>
        /\ wpc' = [wpc EXCEPT ![w] = IF mIsRunning THEN "park" ELSE "loop"]
        /\ UNCHANGED <<taskQueue, mQueueSize, current>>
  /\ UNCHANGED <<mIsRunning, drainTasks, walVars, resultVars, epc, spc, sIdx, pushed>>

(***************************************************************************)
(* Initialize                                                              *)
(***************************************************************************)
Initialize ==
  /\ spc = "created"
  /\ mIsRunning' = TRUE
  /\ wpc' = [w \in Workers |-> "loop"]
  /\ spc' = "up"
  /\ UNCHANGED <<queueVars, walVars, resultVars, epc, sIdx, pushed>>

(***************************************************************************)
(* EnqueueTask                                                             *)
(***************************************************************************)
EnqueueTask_Check(t) ==
  /\ epc[t] = "idle" /\ spc # "created"
  /\ \/ /\ mIsRunning
        /\ epc' = [epc EXCEPT ![t] = "admitted"]
        /\ UNCHANGED <<outcome, callbacks>>
     \/ /\ ~mIsRunning
        /\ epc' = [epc EXCEPT ![t] = "returned"]
        /\ Report(t, "rejected")
  /\ UNCHANGED <<mIsRunning, queueVars, walVars, wpc, spc, sIdx, pushed, finished>>

EnqueueTask_Log(t) ==
  /\ epc[t] = "admitted"
  /\ WalWritePending(t)
  /\ epc' = [epc EXCEPT ![t] = "logged"]
  /\ UNCHANGED <<mIsRunning, queueVars, resultVars, wpc, spc, sIdx, pushed>>

EnqueueTask_Lock(t) ==
  /\ epc[t] = "logged"
  /\ LockFree(WorkerOf(t))
  /\ epc' = [epc EXCEPT ![t] = IF mIsRunning THEN "push" ELSE "cancel"]
  /\ UNCHANGED <<mIsRunning, queueVars, walVars, resultVars, wpc, spc, sIdx, pushed>>

EnqueueTask_Push(t) ==
  /\ epc[t] = "push"
  /\ taskQueue' = [taskQueue EXCEPT ![WorkerOf(t)] = Append(@, t)]
  /\ pushed' = [pushed EXCEPT ![WorkerOf(t)] = Append(@, t)]
  /\ mQueueSize' = mQueueSize + 1
  /\ epc' = [epc EXCEPT ![t] = "notify"]
  /\ UNCHANGED <<mIsRunning, drainTasks, current, walVars, resultVars, wpc, spc, sIdx>>

(* notify_one: the only thread that waits on this cv is the worker's. *)
EnqueueTask_Notify(t) ==
  /\ epc[t] = "notify"
  /\ wpc' = [wpc EXCEPT ![WorkerOf(t)] = IF @ = "waiting" THEN "lock" ELSE @]
  /\ epc' = [epc EXCEPT ![t] = "returned"]
  /\ UNCHANGED <<mIsRunning, queueVars, walVars, resultVars, spc, sIdx, pushed>>

EnqueueTask_Cancel(t) ==
  /\ epc[t] = "cancel"
  /\ WalWriteDone(t)
  /\ Report(t, "rejected")
  /\ epc' = [epc EXCEPT ![t] = "returned"]
  /\ UNCHANGED <<mIsRunning, queueVars, wpc, spc, sIdx, pushed, finished>>

EnqueueTask(t) ==
  \/ EnqueueTask_Check(t) \/ EnqueueTask_Log(t) \/ EnqueueTask_Lock(t)
  \/ EnqueueTask_Push(t) \/ EnqueueTask_Notify(t) \/ EnqueueTask_Cancel(t)

(***************************************************************************)
(* WorkerThreadFunc                                                        *)
(***************************************************************************)
Worker_Loop(w) ==
  /\ wpc[w] = "loop"
  /\ wpc' = [wpc EXCEPT ![w] = IF mIsRunning THEN "lock" ELSE "exited"]
  /\ UNCHANGED <<mIsRunning, queueVars, walVars, resultVars, epc, spc, sIdx, pushed>>

(* Takes the mutex (first, or again after a wake-up), evaluates the wait     *)
(* predicate and, when it holds, pops a task if there is one and unlocks.    *)
Worker_Lock(w) ==
  /\ wpc[w] = "lock"
  /\ LockFree(w)
  /\ \/ /\ taskQueue[w] # <<>>
        /\ current' = [current EXCEPT ![w] = <<Head(taskQueue[w])>>]
        /\ taskQueue' = [taskQueue EXCEPT ![w] = Tail(@)]
        /\ mQueueSize' = mQueueSize - 1
        /\ wpc' = [wpc EXCEPT ![w] = "process"]
     \/ /\ taskQueue[w] = <<>>
        /\ wpc' = [wpc EXCEPT ![w] = IF mIsRunning THEN "park" ELSE "loop"]
        /\ UNCHANGED <<taskQueue, mQueueSize, current>>
  /\ UNCHANGED <<mIsRunning, drainTasks, walVars, resultVars, epc, spc, sIdx, pushed>>

(* The second half of cv.wait: unlock and block, in one step. *)
Worker_Park(w) ==
  /\ wpc[w] = "park"
  /\ wpc' = [wpc EXCEPT ![w] = "waiting"]
  /\ UNCHANGED <<mIsRunning, queueVars, walVars, resultVars, epc, spc, sIdx, pushed>>

(* A condition variable may wake its waiter for no reason. *)
Worker_Spurious(w) ==
  /\ wpc[w] = "waiting"
  /\ wpc' = [wpc EXCEPT ![w] = "lock"]
  /\ UNCHANGED <<mIsRunning, queueVars, walVars, resultVars, epc, spc, sIdx, pushed>>

Worker_Process(w) ==
  /\ wpc[w] = "process"
  /\ \E result \in HandlerResults :
       /\ ProcessTask(w, result)
       /\ wpc' = [wpc EXCEPT ![w] = IF result = "ok" THEN "mark" ELSE "loop"]
  /\ UNCHANGED <<mIsRunning, taskQueue, mQueueSize, drainTasks, walVars, epc, spc, sIdx, pushed>>

Worker_Mark(w) ==
  /\ wpc[w] = "mark"
  /\ WalWriteDone(finished[w][Len(finished[w])])
  /\ wpc' = [wpc EXCEPT ![w] = "loop"]
  /\ UNCHANGED <<mIsRunning, queueVars, resultVars, epc, spc, sIdx, pushed>>

WorkerThreadFunc(w) ==
  \/ Worker_Loop(w) \/ Worker_Lock(w) \/ Worker_Park(w)
  \/ Worker_Process(w) \/ Worker_Mark(w)

(***************************************************************************)
(* Shutdown: clear the flag, notify every worker without its mutex, join,  *)
(* then drain every queue without its mutex.                               *)
(***************************************************************************)
Shutdown_Stop ==
  /\ spc = "up" /\ mIsRunning
  /\ mIsRunning' = FALSE
  /\ spc' = "notify" /\ sIdx' = 0
  /\ UNCHANGED <<queueVars, walVars, resultVars, wpc, epc, pushed>>

Shutdown_Notify ==
  /\ spc = "notify"
  /\ \/ /\ sIdx < NumWorkers
        /\ wpc' = [wpc EXCEPT ![sIdx] = IF @ = "waiting" THEN "lock" ELSE @]
        /\ sIdx' = sIdx + 1 /\ spc' = spc
     \/ /\ sIdx = NumWorkers
        /\ spc' = "join" /\ sIdx' = 0 /\ wpc' = wpc
  /\ UNCHANGED <<mIsRunning, queueVars, walVars, resultVars, epc, pushed>>

Shutdown_Join ==
  /\ spc = "join"
  /\ \/ /\ sIdx < NumWorkers /\ wpc[sIdx] = "exited"
        /\ sIdx' = sIdx + 1 /\ spc' = spc
     \/ /\ sIdx = NumWorkers
        /\ spc' = "collect" /\ sIdx' = 0
  /\ UNCHANGED <<mIsRunning, queueVars, walVars, resultVars, wpc, epc, pushed>>

(* One turn of "while (!taskQueue.empty())", or the end of that loop, or    *)
(* the end of the loop over the workers.                                    *)
Shutdown_Collect ==
  /\ spc = "collect"
  /\ \/ /\ sIdx < NumWorkers /\ taskQueue[sIdx] # <<>>
        /\ drainTasks' = Append(drainTasks, Head(taskQueue[sIdx]))
        /\ taskQueue' = [taskQueue EXCEPT ![sIdx] = Tail(@)]
        /\ UNCHANGED <<spc, sIdx>>
     \/ /\ sIdx < NumWorkers /\ taskQueue[sIdx] = <<>>
        /\ spc' = "drain"
        /\ UNCHANGED <<taskQueue, drainTasks, sIdx>>
     \/ /\ sIdx = NumWorkers
        /\ spc' = "close"
        /\ UNCHANGED <<taskQueue, drainTasks, sIdx>>
  /\ UNCHANGED <<mIsRunning, mQueueSize, current, walVars, resultVars, wpc, epc, pushed>>

(* The loop over drainTasks: take the next task, run it, mark it. *)
Shutdown_Drain ==
  /\ spc = "drain"
  /\ \/ /\ current[sIdx] = <<>> /\ drainTasks # <<>>
        /\ current' = [current EXCEPT ![sIdx] = <<Head(drainTasks)>>]
        /\ drainTasks' = Tail(drainTasks)
        /\ UNCHANGED <<resultVars, spc, sIdx>>
     \/ /\ current[sIdx] # <<>>
        /\ \E result \in HandlerResults :
             /\ ProcessTask(sIdx, result)
             /\ spc' = IF result = "ok" THEN "drainMark" ELSE "drain"
        /\ UNCHANGED <<drainTasks, sIdx>>
     \/ /\ current[sIdx] = <<>> /\ drainTasks = <<>>
        /\ spc' = "collect" /\ sIdx' = sIdx + 1
        /\ UNCHANGED <<drainTasks, current, resultVars>>
  /\ UNCHANGED <<mIsRunning, taskQueue, mQueueSize, walVars, wpc, epc, pushed>>

Shutdown_Mark ==
  /\ spc = "drainMark"
  /\ WalWriteDone(finished[sIdx][Len(finished[sIdx])])
  /\ spc' = "drain"
  /\ UNCHANGED <<mIsRunning, queueVars, resultVars, wpc, epc, sIdx, pushed>>

Shutdown_Close ==
  /\ spc = "close"
  /\ mQueueSize' = 0
  /\ walOpen' = FALSE
  /\ spc' = "down"
  /\ UNCHANGED <<mIsRunning, taskQueue, drainTasks, current, walP, walD,
                 resultVars, wpc, epc, sIdx, pushed>>

Shutdown ==
  \/ Shutdown_Notify \/ Shutdown_Join \/ Shutdown_Collect
  \/ Shutdown_Drain \/ Shutdown_Mark \/ Shutdown_Close

Next ==
  \/ Initialize
  \/ \E t \in Tasks : EnqueueTask(t)
  \/ \E w \in Workers : WorkerThreadFunc(w) \/ Worker_Spurious(w)
  \/ Shutdown_Stop \/ Shutdown

Spec == Init /\ [][Next]_vars

(***************************************************************************)
(* Fairness: every thread that can move does.  A mutex that is free again  *)
(* and again is eventually granted (SF on the two acquisitions).  Nothing  *)
(* is assumed of spurious wake-ups, nor that Shutdown is ever called.      *)
(***************************************************************************)
Fairness ==
  /\ WF_vars(Initialize)
  /\ \A t \in Tasks :
       /\ WF_vars(EnqueueTask_Log(t)) /\ SF_vars(EnqueueTask_Lock(t))
       /\ WF_vars(EnqueueTask_Push(t)) /\ WF_vars(EnqueueTask_Notify(t))
       /\ WF_vars(EnqueueTask_Cancel(t))
  /\ \A w \in Workers :
       /\ WF_vars(Worker_Loop(w)) /\ SF_vars(Worker_Lock(w))
       /\ WF_vars(Worker_Park(w)) /\ WF_vars(Worker_Process(w))
       /\ WF_vars(Worker_Mark(w))
  /\ WF_vars(Shutdown)

FairSpec == Spec /\ Fairness

(***************************************************************************)
(* Properties                                                              *)
(***************************************************************************)
Accepted(t) == \E n \in 1 .. Len(pushed[WorkerOf(t)]) : pushed[WorkerOf(t)][n] = t

(* What Shutdown has taken out of w's queue and not started yet. *)
Drained(w) == IF sIdx = w /\ spc \in {"collect", "drain", "drainMark"}
              THEN drainTasks ELSE <<>>

(* Each worker handles the tasks routed to it one at a time and in the order *)
(* they entered its queue, through pops by its thread and the drain in       *)
(* Shutdown alike: what it has finished, has in hand, has been drained and   *)
(* is still queued is, in that order, all that was ever pushed to it.        *)
FifoPerWorker ==
  \A w \in Workers :
    /\ finished[w] \o current[w] \o Drained(w) \o taskQueue[w] = pushed[w]
    /\ Len(current[w]) <= 1

(* Wherever the process dies, the log accounts for every task that entered a *)
(* queue: unless it has succeeded it has a P record (when the log could be   *)
(* opened) and no D record, so WalRecover will run it again.                 *)
NothingLostByCrash ==
  \A t \in Tasks :
    /\ t \in walD => outcome[t] \in {"ok", "rejected"}
    /\ Accepted(t) /\ outcome[t] # "ok" /\ ~WalMayFail => t \in walP

(* A caller hears of its task once: never both a refusal and a result, and a *)
(* refused task neither sits in a queue nor comes back at the next start.    *)
AnsweredOnce ==
  \A t \in Tasks :
    /\ callbacks[t] = (IF outcome[t] = "none" THEN 0 ELSE 1)
    /\ outcome[t] = "rejected" =>
         /\ ~Accepted(t)
         /\ t \in walP /\ ~WalMayFail => t \in walD

(* The places of the queues that hold a task. *)
Queued == UNION {{w} \X (1 .. Len(taskQueue[w])) : w \in Workers}

(* The counter GetQueueSize reads, which callers and workers change under    *)
(* different mutexes, is the number of queued tasks as long as the workers   *)
(* are alive.                                                                *)
SizeCounterExact ==
  TypeOK /\ (spc \in {"created", "up", "notify", "join"} => mQueueSize = Cardinality(Queued))

(* While the queue runs, a task that was pushed is processed: the push is    *)
(* made under the mutex the worker waits with, so its notify cannot be lost. *)
QueuedTaskRuns ==
  LET waiting == {t \in Tasks : Accepted(t) /\ outcome[t] = "none"}
  IN  waiting # {} ~> (waiting = {} \/ ~mIsRunning)

(* "Wake each worker's CV so that it leaves its wait loop": a Shutdown that  *)
(* was called returns.                                                       *)
ShutdownReturns == spc = "notify" ~> spc = "down"
=============================================================================
