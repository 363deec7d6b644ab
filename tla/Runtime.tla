------------------------------ MODULE Runtime ------------------------------
(***************************************************************************)
(* Two thread-safe containers everything else runs on: ExecutionQueue and, *)
(* its names kept apart by a prefix, the keyed dispatcher (d_).            *)
(***************************************************************************)
EXTENDS ExecutionQueue

CONSTANTS DispatchTasks, DispatchKeyOf, DispatchWorkers, DispatchCapacity, DispatchPolicies

(* A dispatcher has at least one worker, and its keys are unsigned numbers. *)
ASSUME DispatcherAssumption ==
  /\ DispatchWorkers \in Nat \ {0} /\ DispatchCapacity \in Nat
  /\ DispatchKeyOf \in [DispatchTasks -> Nat]

VARIABLES
  d_mRunning, d_mBackpressure, d_mQueue, d_mShutdown, d_dpc, d_result, d_wpc, d_current, d_spc,
  d_sIdx, d_pushed, d_executed, d_queuedAtStop

KD == INSTANCE KeyedDispatcher WITH
  Tasks <- DispatchTasks, KeyOf <- DispatchKeyOf, NumWorkers <- DispatchWorkers,
  Capacity <- DispatchCapacity, PolicyChoices <- DispatchPolicies, mRunning <- d_mRunning,
  mBackpressure <- d_mBackpressure, mQueue <- d_mQueue, mShutdown <- d_mShutdown, dpc <- d_dpc,
  result <- d_result, wpc <- d_wpc, current <- d_current, spc <- d_spc, sIdx <- d_sIdx,
  pushed <- d_pushed, executed <- d_executed, queuedAtStop <- d_queuedAtStop

dVars == <<d_mRunning, d_mBackpressure, d_mQueue, d_mShutdown, d_dpc, d_result, d_wpc,
           d_current, d_spc, d_sIdx, d_pushed, d_executed, d_queuedAtStop>>

(* What the dispatcher's workers do, seen as one FIFO per worker. *)
LaneFifo == INSTANCE PerKeyFifo WITH
  Items <- DispatchTasks, Keys <- KD!Workers,
  KeyOf <- [t \in DispatchTasks |-> DispatchKeyOf[t] % DispatchWorkers],
  submitted <- d_pushed, running <- d_current, completed <- d_executed

(***************************************************************************)
(* Properties                                                              *)
(***************************************************************************)
(* ExecutionQueue: items leave in the order they came, none lost or          *)
(* delivered twice, through all three places that pop; the size counter and  *)
(* the capacity hold under waiting and rejected pushes; and when every       *)
(* consumer has given up after Shutdown, no accepted item is left behind.    *)
QueueExact == TypeOK /\ FifoExactlyOnce /\ WithinCapacity /\ NothingLeftBehind

(* KeyedDispatcher::Shutdown loses nothing that was queued when it began, and *)
(* no Dispatch is between its check of mRunning and its access to mWorkers    *)
(* when the worker table is cleared.                                          *)
StopDrains == KD!TypeOK /\ KD!StopDrains /\ KD!NoDispatchAfterClear

(* The dispatcher implements PerKeyFifo with a worker as the key: a task goes *)
(* to the worker its key determines, and a worker runs its tasks one at a     *)
(* time in the order they were pushed.  So it does for every key.             *)
LanesFifo == LaneFifo!Spec
=============================================================================
