----------------------------- MODULE MCRuntime -----------------------------
(***************************************************************************)
(* The containers of Runtime on small instances: a queue without a limit   *)
(* and queues of capacity one with either policy, where every thread gives *)
(* a timeout or none does; three tasks on two workers of the dispatcher,   *)
(* two of them with the same key, and queues of capacity one; two tasks on *)
(* a pool of two workers.  They share no state; a behaviour is one of one  *)
(* of them, chosen by "active".                                            *)
(***************************************************************************)
EXTENDS Runtime

CONSTANTS t1, t2, t3, PoolTasks, PoolWorkers, PoolDepth

VARIABLES active,
  t_mTasks, t_mStop, t_mShutdown, t_mActiveTasks, t_wpc, t_task, t_apc, t_dpc, t_submitted,
  t_finished, t_covered

TP == INSTANCE ThreadPool WITH
  Tasks <- PoolTasks, Workers <- PoolWorkers, MaxQueueDepth <- PoolDepth, mTasks <- t_mTasks,
  mStop <- t_mStop, mShutdown <- t_mShutdown, mActiveTasks <- t_mActiveTasks, wpc <- t_wpc,
  task <- t_task, apc <- t_apc, dpc <- t_dpc, submitted <- t_submitted, finished <- t_finished,
  covered <- t_covered

tVars == <<t_mTasks, t_mStop, t_mShutdown, t_mActiveTasks, t_wpc, t_task, t_apc, t_dpc,
           t_submitted, t_finished, t_covered>>
runtimeVars == <<active, vars, dVars, tVars>>

RuntimeInit == active \in {"queue", "dispatcher", "pool"} /\ Init /\ KD!Init /\ TP!Init

RuntimeNext ==
  /\ UNCHANGED active
  /\ \/ active = "queue" /\ Next /\ UNCHANGED <<dVars, tVars>>
     \/ active = "dispatcher" /\ KD!Next /\ UNCHANGED <<vars, tVars>>
     \/ active = "pool" /\ TP!Next /\ UNCHANGED <<vars, dVars>>


MCOptions == {[mBackpressure |-> "Block", mCapacity |-> 0],
              [mBackpressure |-> "Block", mCapacity |-> 1],
              [mBackpressure |-> "RejectNewest", mCapacity |-> 1]}
MCTimeouts == {{}, Producers \cup Consumers}
MCKeyOf == [t \in DispatchTasks |-> IF t = t3 THEN 1 ELSE 0]

(* The parts that do not run stay in one initial state of theirs. *)
MCInit ==
  /\ RuntimeInit
  /\ active # "queue" => mOptions.mCapacity = 0 /\ timeouts = {}
  /\ active # "dispatcher" => d_mBackpressure = "Block"

(* The fairness of each part, for the part that runs. *)
QueueFairness ==
  /\ \A p \in Producers : WF_vars(active = "queue" /\ ProducerStep(p) /\ ppc[p] # "idle")
  /\ \A c \in Consumers : SF_vars(active = "queue" /\ ConsumerStep(c))
  /\ WF_vars(active = "queue" /\ Shutdown_Notify)

DispatcherFairness ==
  /\ WF_dVars(active = "dispatcher" /\ KD!Initialize)
  /\ \A t \in DispatchTasks : WF_dVars(active = "dispatcher" /\ KD!Dispatch_Push(t))
  /\ \A w \in KD!Workers : WF_dVars(active = "dispatcher" /\ KD!WorkerThreadFunc(w))
  /\ WF_dVars(active = "dispatcher" /\ KD!Shutdown)

PoolFairness ==
  /\ \A w \in PoolWorkers : WF_tVars(active = "pool" /\ TP!WorkerStep(w))
  /\ WF_tVars(active = "pool" /\ t_dpc # "alive" /\ TP!Destroy)

MCSpec ==
  MCInit /\ [][RuntimeNext]_runtimeVars /\ QueueFairness /\ DispatcherFairness /\ PoolFairness

(* What all workers of the dispatcher together have of a key, so that a task *)
(* on a wrong worker does not go unnoticed.                                  *)
Keys == {DispatchKeyOf[t] : t \in DispatchTasks}
PerKey(f) ==
  LET upTo[n \in 0 .. DispatchWorkers] == IF n = 0 THEN <<>> ELSE upTo[n - 1] \o f[n - 1]
  IN  [k \in Keys |-> SelectSeq(upTo[DispatchWorkers], LAMBDA t : DispatchKeyOf[t] = k)]

Fifo == INSTANCE PerKeyFifo WITH
  Items <- DispatchTasks, KeyOf <- DispatchKeyOf,
  submitted <- PerKey(d_pushed), running <- PerKey(d_current), completed <- PerKey(d_executed)

(***************************************************************************)
(* Properties; the invariants are Runtime's.                               *)
(***************************************************************************)
(* The dispatcher's class comment: tasks with the same key execute one at a  *)
(* time in the order of submission.                                          *)
KeyFifo == Fifo!Spec

(* A task Dispatch accepted is executed as long as the dispatcher runs, and  *)
(* Shutdown returns when a call of Dispatch never waits.                     *)
DispatcherProgress == KD!AcceptedRuns /\ KD!ShutdownReturns

(* An accepted task of ThreadPool runs unless the pool is destroyed first,   *)
(* and the destructor returns, whatever the workers were doing.              *)
PoolProgress == TP!PoolProgress
=============================================================================
