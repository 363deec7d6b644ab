-------------------------- MODULE KeyedDispatcher --------------------------
(***************************************************************************)
(* The session-affine worker pool of the engine and of the DB server       *)
(* (Concurrency/KeyedDispatcher.h).  Each worker drains one ExecutionQueue *)
(* whose Push and Pop are single steps here: that module shows that they   *)
(* hand items over in order and exactly once.                              *)
(*                                                                         *)
(* A call of Dispatch holds mWorkersMutex shared while it is "inside";     *)
(* Shutdown takes it exclusively only to clear the worker table.           *)
(***************************************************************************)
EXTENDS Naturals, Sequences, FiniteSets

CONSTANTS Tasks, KeyOf, NumWorkers, Capacity,
          PolicyChoices   \* the policies the pool may be created with

Workers == 0 .. (NumWorkers - 1)

VARIABLES mRunning,
          mBackpressure,        \* the queues' policy, fixed by Initialize
          mQueue, mShutdown,    \* worker -> its queue's content and flag
          dpc,                  \* task -> where the Dispatch call is
          result,               \* task -> what Dispatch returned
          wpc, current,         \* worker -> its thread, the task it runs
          spc, sIdx,            \* Initialize and Shutdown
          pushed, executed,     \* history: worker -> tasks in order
          queuedAtStop          \* history: tasks queued when Shutdown began

vars == <<mRunning, mBackpressure, mQueue, mShutdown, dpc, result, wpc, current, spc, sIdx,
          pushed, executed, queuedAtStop>>
calls == <<dpc, result>>
threads == <<wpc, current, executed>>

Elements(q) == {q[n] : n \in 1 .. Len(q)}

TypeOK ==
  /\ mRunning \in BOOLEAN /\ mBackpressure \in PolicyChoices
  /\ mQueue \in [Workers -> Seq(Tasks)] /\ mShutdown \in [Workers -> BOOLEAN]
  /\ dpc \in [Tasks -> {"idle", "inside", "returned"}]
  /\ result \in [Tasks -> {"none", "queued", "rejected"}]
  /\ wpc \in [Workers -> {"none", "pop", "failed", "stopping", "execute", "exited"}]
  /\ current \in [Workers -> Seq(Tasks)]
  /\ spc \in {"created", "up", "close", "join", "clear", "down"} /\ sIdx \in 0 .. NumWorkers
  /\ pushed \in [Workers -> Seq(Tasks)] /\ executed \in [Workers -> Seq(Tasks)]
  /\ queuedAtStop \subseteq Tasks

Init ==
  /\ mRunning = FALSE /\ mBackpressure \in PolicyChoices
  /\ mQueue = [w \in Workers |-> <<>>] /\ mShutdown = [w \in Workers |-> FALSE]
  /\ dpc = [t \in Tasks |-> "idle"] /\ result = [t \in Tasks |-> "none"]
  /\ wpc = [w \in Workers |-> "none"] /\ current = [w \in Workers |-> <<>>]
  /\ spc = "created" /\ sIdx = 0
  /\ pushed = [w \in Workers |-> <<>>] /\ executed = [w \in Workers |-> <<>>]
  /\ queuedAtStop = {}

(* Faulty variant: tasks go round the workers whatever their key. *)
KeyToWorkerIndex_Any(t) == (KeyOf[t] + Cardinality({u \in Tasks : dpc[u] = "returned"})) % NumWorkers

KeyToWorkerIndex(t) == KeyOf[t] % NumWorkers

Initialize ==
  /\ spc = "created"
  /\ mRunning' = TRUE /\ spc' = "up"
  /\ wpc' = [w \in Workers |-> "pop"]
  /\ UNCHANGED <<mBackpressure, mQueue, mShutdown, calls, current, executed, sIdx, pushed, queuedAtStop>>

(***************************************************************************)
(* Dispatch                                                                *)
(***************************************************************************)
Dispatch_Enter(t) ==
  /\ dpc[t] = "idle"
  /\ \/ /\ mRunning
        /\ dpc' = [dpc EXCEPT ![t] = "inside"]
        /\ UNCHANGED result
     \/ /\ ~mRunning
        /\ dpc' = [dpc EXCEPT ![t] = "returned"]
        /\ result' = [result EXCEPT ![t] = "rejected"]
  /\ UNCHANGED <<mRunning, mBackpressure, mQueue, mShutdown, threads, spc, sIdx, pushed, queuedAtStop>>

(* mQueue.Push: refused after the queue's Shutdown; when the queue is full,  *)
(* refused or (Block policy) held up until there is room.                           *)
Dispatch_Push(t) ==
  LET w == KeyToWorkerIndex(t)
      full == Capacity > 0 /\ Len(mQueue[w]) >= Capacity
  IN
  /\ dpc[t] = "inside"
  /\ dpc' = [dpc EXCEPT ![t] = "returned"]
  /\ \/ /\ ~mShutdown[w] /\ ~full
        /\ mQueue' = [mQueue EXCEPT ![w] = Append(@, t)]
        /\ pushed' = [pushed EXCEPT ![w] = Append(@, t)]
        /\ result' = [result EXCEPT ![t] = "queued"]
     \/ /\ mShutdown[w] \/ (full /\ mBackpressure = "RejectNewest")
        /\ result' = [result EXCEPT ![t] = "rejected"]
        /\ UNCHANGED <<mQueue, pushed>>
  /\ UNCHANGED <<mRunning, mBackpressure, mShutdown, threads, spc, sIdx, queuedAtStop>>

(***************************************************************************)
(* WorkerThreadFunc                                                        *)
(***************************************************************************)
(* Pop(task, 100): a task, or failure (a timeout or a shut-down queue). *)
Worker_Pop(w) ==
  /\ wpc[w] = "pop"
  /\ \/ /\ mQueue[w] # <<>>
        /\ current' = [current EXCEPT ![w] = <<Head(mQueue[w])>>]
        /\ mQueue' = [mQueue EXCEPT ![w] = Tail(@)]
        /\ wpc' = [wpc EXCEPT ![w] = "execute"]
     \/ /\ mQueue[w] = <<>>
        /\ wpc' = [wpc EXCEPT ![w] = "failed"]
        /\ UNCHANGED <<mQueue, current>>
  /\ UNCHANGED <<mRunning, mBackpressure, mShutdown, calls, executed, spc, sIdx, pushed, queuedAtStop>>

(* Faulty variants: a worker that gives up after one timeout ... *)
Worker_FailedExit(w) ==
  /\ \/ wpc[w] = "failed" /\ wpc' = [wpc EXCEPT ![w] = "stopping"]
     \/ wpc[w] = "stopping" /\ wpc' = [wpc EXCEPT ![w] = "exited"]
  /\ UNCHANGED <<mRunning, mBackpressure, mQueue, mShutdown, calls, current, executed, spc, sIdx,
                 pushed, queuedAtStop>>

(* ... and one that leaves without looking into its queue again. *)
Worker_FailedNoRecheck(w) ==
  /\ \/ /\ wpc[w] = "failed"
        /\ wpc' = [wpc EXCEPT ![w] = IF mRunning THEN "pop" ELSE "stopping"]
     \/ wpc[w] = "stopping" /\ wpc' = [wpc EXCEPT ![w] = "exited"]
  /\ UNCHANGED <<mRunning, mBackpressure, mQueue, mShutdown, calls, current, executed, spc, sIdx,
                 pushed, queuedAtStop>>

(* The two loads of "!mRunning && Empty()". *)
Worker_Failed(w) ==
  /\ \/ /\ wpc[w] = "failed"
        /\ wpc' = [wpc EXCEPT ![w] = IF mRunning THEN "pop" ELSE "stopping"]
     \/ /\ wpc[w] = "stopping"
        /\ wpc' = [wpc EXCEPT ![w] = IF mQueue[w] = <<>> THEN "exited" ELSE "pop"]
  /\ UNCHANGED <<mRunning, mBackpressure, mQueue, mShutdown, calls, current, executed, spc, sIdx,
                 pushed, queuedAtStop>>

(* The task returns or throws; the worker catches everything and goes on. *)
Worker_Execute(w) ==
  /\ wpc[w] = "execute"
  /\ executed' = [executed EXCEPT ![w] = Append(@, Head(current[w]))]
  /\ current' = [current EXCEPT ![w] = <<>>]
  /\ wpc' = [wpc EXCEPT ![w] = "pop"]
  /\ UNCHANGED <<mRunning, mBackpressure, mQueue, mShutdown, calls, spc, sIdx, pushed, queuedAtStop>>

WorkerThreadFunc(w) == Worker_Pop(w) \/ Worker_Failed(w) \/ Worker_Execute(w)

(***************************************************************************)
(* Shutdown                                                                *)
(***************************************************************************)
Shutdown_Stop ==
  /\ spc = "up"
  /\ mRunning' = FALSE /\ spc' = "close" /\ sIdx' = 0
  /\ queuedAtStop' = UNION {Elements(mQueue[w]) : w \in Workers}
  /\ UNCHANGED <<mBackpressure, mQueue, mShutdown, calls, threads, pushed>>

(* mQueue.Shutdown() for one worker after the other. *)
Shutdown_Close ==
  /\ spc = "close"
  /\ \/ /\ sIdx < NumWorkers
        /\ mShutdown' = [mShutdown EXCEPT ![sIdx] = TRUE]
        /\ sIdx' = sIdx + 1 /\ spc' = spc
     \/ /\ sIdx = NumWorkers
        /\ spc' = "join" /\ UNCHANGED <<mShutdown, sIdx>>
  /\ UNCHANGED <<mRunning, mBackpressure, mQueue, calls, threads, pushed, queuedAtStop>>

Shutdown_Join ==
  /\ spc = "join"
  /\ \A w \in Workers : wpc[w] = "exited"
  /\ spc' = "clear"
  /\ UNCHANGED <<mRunning, mBackpressure, mQueue, mShutdown, calls, threads, sIdx, pushed, queuedAtStop>>

(* mWorkers.clear() under the exclusive lock: the queues are gone with it. *)
Shutdown_Clear ==
  /\ spc = "clear"
  /\ \A t \in Tasks : dpc[t] # "inside"
  /\ mQueue' = [w \in Workers |-> <<>>]
  /\ spc' = "down"
  /\ UNCHANGED <<mRunning, mBackpressure, mShutdown, calls, threads, sIdx, pushed, queuedAtStop>>

Shutdown == Shutdown_Close \/ Shutdown_Join \/ Shutdown_Clear

Next ==
  \/ Initialize
  \/ \E t \in Tasks : Dispatch_Enter(t) \/ Dispatch_Push(t)
  \/ \E w \in Workers : WorkerThreadFunc(w)
  \/ Shutdown_Stop \/ Shutdown

Spec == Init /\ [][Next]_vars

(* Threads run; nothing obliges anyone to call Dispatch or Shutdown. *)
Fairness ==
  /\ WF_vars(Initialize)
  /\ \A t \in Tasks : WF_vars(Dispatch_Push(t))
  /\ \A w \in Workers : WF_vars(WorkerThreadFunc(w))
  /\ WF_vars(Shutdown)

FairSpec == Spec /\ Fairness

(***************************************************************************)
(* Properties                                                              *)
(***************************************************************************)
ExecutedTasks == UNION {Elements(executed[w]) : w \in Workers}

(* Shutdown loses nothing that was queued when it began: a worker leaves    *)
(* only once it has seen its queue empty after the flag went down.          *)
StopDrains == spc = "down" => queuedAtStop \subseteq ExecutedTasks

(* "The check of mRunning and the access to mWorkers are in the same lock   *)
(* scope": no Dispatch is between the two when the worker table is cleared. *)
NoDispatchAfterClear == spc = "down" => \A t \in Tasks : dpc[t] # "inside"

(* Every task that Dispatch accepted is executed, as long as the pool runs. *)
AcceptedRuns ==
  LET waiting == {t \in Tasks : result[t] = "queued"} \ ExecutedTasks
  IN  waiting # {} ~> (waiting = {} \/ ~mRunning)

(* Shutdown comes to an end, whatever is queued or in progress, when a call  *)
(* of Dispatch never waits.                                                  *)
ShutdownReturns ==
  (spc = "close" /\ mBackpressure = "RejectNewest") ~> spc = "down"
=============================================================================
