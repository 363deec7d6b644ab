----------------------------- MODULE ThreadPool -----------------------------
(***************************************************************************)
(* The worker pool (Utils/ThreadPool.h) over its queue (Utils/SafeQueue.h).*)
(*                                                                         *)
(* A task is one call of Submit.  SafeQueue notifies under its mutex and   *)
(* the workers pop with a time limit, so a call of Push, Pop, Empty or     *)
(* Shutdown is one step.  WaitForAll is called once, by a thread that read *)
(* mActiveTasks and the queue one after the other; mWaitMutex is taken by  *)
(* no worker, so a notify may come between its reading and its sleeping.   *)
(***************************************************************************)
EXTENDS Naturals, Sequences, FiniteSets

CONSTANTS Tasks, Workers,
          MaxQueueDepth   \* 0 for unlimited

VARIABLES mTasks, mStop, mShutdown, mActiveTasks,
          wpc, task,      \* worker -> where it is, the task it took or none
          apc,            \* the caller of WaitForAll
          dpc,            \* the destructor
          submitted,      \* history: accepted tasks
          finished,       \* history: tasks that have run
          covered         \* history: tasks accepted before WaitForAll

vars == <<mTasks, mStop, mShutdown, mActiveTasks, wpc, task, apc, dpc, submitted,
          finished, covered>>

TypeOK ==
  /\ mTasks \in Seq(Tasks) /\ mStop \in BOOLEAN /\ mShutdown \in BOOLEAN
  /\ mActiveTasks \in 0 .. Cardinality(Workers)
  /\ wpc \in [Workers -> {"loop", "pop", "count", "run", "uncount", "notify", "exit"}]
  /\ task \in [Workers -> Tasks \cup {"none"}]
  /\ apc \in {"idle", "active", "empty", "park", "waiting", "returned"}
  /\ dpc \in {"alive", "shutdown", "join", "gone"}
  /\ submitted \subseteq Tasks /\ finished \subseteq Tasks /\ covered \subseteq Tasks

Init ==
  /\ mTasks = <<>> /\ mStop = FALSE /\ mShutdown = FALSE /\ mActiveTasks = 0
  /\ wpc = [w \in Workers |-> "loop"] /\ task = [w \in Workers |-> "none"]
  /\ apc = "idle" /\ dpc = "alive" /\ submitted = {} /\ finished = {} /\ covered = {}

Goto(w, pc) == wpc' = [wpc EXCEPT ![w] = pc]

(***************************************************************************)
(* The owner                                                               *)
(***************************************************************************)
Full == MaxQueueDepth > 0 /\ Len(mTasks) >= MaxQueueDepth

(* SafeQueue::Push refuses when full and does not look at mShutdown. *)
Submit(t) ==
  /\ dpc = "alive" /\ t \notin submitted /\ ~Full
  /\ mTasks' = Append(mTasks, t) /\ submitted' = submitted \cup {t}
  /\ UNCHANGED <<mStop, mShutdown, mActiveTasks, wpc, task, apc, dpc, finished, covered>>

(* wait(lock, mActiveTasks == 0 && mTasks.Empty()), read in that order. *)
WaitForAll ==
  /\ dpc = "alive"
  /\ \/ apc = "idle" /\ apc' = "active" /\ covered' = submitted
     \/ apc = "active" /\ apc' = (IF mActiveTasks = 0 THEN "empty" ELSE "park") /\ UNCHANGED covered
     \/ apc = "empty" /\ apc' = (IF mTasks = <<>> THEN "returned" ELSE "park") /\ UNCHANGED covered
     \/ apc = "park" /\ apc' = "waiting" /\ UNCHANGED covered
  /\ UNCHANGED <<mTasks, mStop, mShutdown, mActiveTasks, wpc, task, dpc, submitted, finished>>

(* The destructor runs when no call is in progress: mStop, Shutdown, join. *)
Destroy ==
  /\ \/ /\ dpc = "alive" /\ apc \in {"idle", "returned"}
        /\ dpc' = "shutdown" /\ mStop' = TRUE /\ UNCHANGED mShutdown
     \/ dpc = "shutdown" /\ dpc' = "join" /\ mShutdown' = TRUE /\ UNCHANGED mStop
     \/ /\ dpc = "join" /\ \A w \in Workers : wpc[w] = "exit"
        /\ dpc' = "gone" /\ UNCHANGED <<mStop, mShutdown>>
  /\ UNCHANGED <<mTasks, mActiveTasks, wpc, task, apc, submitted, finished, covered>>

(***************************************************************************)
(* WorkerThread                                                            *)
(***************************************************************************)
Loop(w) ==
  /\ wpc[w] = "loop"
  /\ Goto(w, IF mStop THEN "exit" ELSE "pop")
  /\ UNCHANGED <<mTasks, mStop, mShutdown, mActiveTasks, task, apc, dpc, submitted,
                 finished, covered>>

(* Faulty variant: a worker leaves when Pop returns nothing. *)
Pop_Leave(w) ==
  /\ wpc[w] = "pop"
  /\ \/ /\ mTasks # <<>>
        /\ task' = [task EXCEPT ![w] = Head(mTasks)] /\ mTasks' = Tail(mTasks)
        /\ Goto(w, "count")
     \/ mTasks = <<>> /\ Goto(w, "exit") /\ UNCHANGED <<mTasks, task>>
  /\ UNCHANGED <<mStop, mShutdown, mActiveTasks, apc, dpc, submitted, finished, covered>>

(* SafeQueue::Pop(task, 100): false on an empty queue, after the time limit  *)
(* or on Shutdown; what was queued before Shutdown is still taken.           *)
Pop(w) ==
  /\ wpc[w] = "pop"
  /\ \/ /\ mTasks # <<>>
        /\ task' = [task EXCEPT ![w] = Head(mTasks)] /\ mTasks' = Tail(mTasks)
        /\ Goto(w, "count")
     \/ mTasks = <<>> /\ Goto(w, "loop") /\ UNCHANGED <<mTasks, task>>
  /\ UNCHANGED <<mStop, mShutdown, mActiveTasks, apc, dpc, submitted, finished, covered>>

(* ++mActiveTasks; the task, whose exceptions are caught; --mActiveTasks. *)
RunTask(w) ==
  /\ \/ wpc[w] = "count" /\ mActiveTasks' = mActiveTasks + 1 /\ Goto(w, "run")
        /\ UNCHANGED <<task, finished>>
     \/ wpc[w] = "run" /\ finished' = finished \cup {task[w]} /\ Goto(w, "uncount")
        /\ UNCHANGED <<task, mActiveTasks>>
     \/ wpc[w] = "uncount" /\ mActiveTasks' = mActiveTasks - 1 /\ Goto(w, "notify")
        /\ task' = [task EXCEPT ![w] = "none"] /\ UNCHANGED finished
  /\ UNCHANGED <<mTasks, mStop, mShutdown, apc, dpc, submitted, covered>>

NotifyWaiter(w) ==
  /\ wpc[w] = "notify" /\ Goto(w, "loop")
  /\ apc' = IF apc = "waiting" THEN "active" ELSE apc
  /\ UNCHANGED <<mTasks, mStop, mShutdown, mActiveTasks, task, dpc, submitted, finished, covered>>

WorkerStep(w) == Loop(w) \/ Pop(w) \/ RunTask(w) \/ NotifyWaiter(w)

Next ==
  \/ \E t \in Tasks : Submit(t)
  \/ WaitForAll \/ Destroy
  \/ \E w \in Workers : WorkerStep(w)

Spec == Init /\ [][Next]_vars

(* The workers keep running; nothing is assumed of the owner except that a   *)
(* destructor once begun goes on.                                            *)
FairSpec ==
  /\ Spec
  /\ \A w \in Workers : WF_vars(WorkerStep(w))
  /\ WF_vars(dpc # "alive" /\ Destroy)

(***************************************************************************)
(* Properties                                                              *)
(***************************************************************************)
(* An accepted task runs unless the pool is destroyed first, and the         *)
(* destructor returns, whatever the workers were doing.                      *)
PoolProgress ==
  /\ submitted # {} ~> (submitted \subseteq finished \/ mStop)
  /\ mStop ~> dpc = "gone"

(* "A complete drain": when WaitForAll returns, every task accepted before   *)
(* the call has finished.                                                    *)
WaitForAllDrains == apc = "returned" => covered \subseteq finished
=============================================================================
