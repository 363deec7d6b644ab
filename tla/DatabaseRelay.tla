---------------------------- MODULE DatabaseRelay ----------------------------
(***************************************************************************)
(* The relay to the DB server as a part of the database side, its names    *)
(* kept apart from those of the local task queue.                          *)
(***************************************************************************)
EXTENDS Naturals

CONSTANTS RelayTasks, RelayWorkers, RelaySessions, RelayResults

ASSUME RelayWorkersAssumption == RelayWorkers \in 1 .. 255
ASSUME RelaySessionsAssumption == RelaySessions \subseteq [RelayTasks -> Nat]
ASSUME RelayResultsAssumption == RelayResults \subseteq {"sent", "invalid", "unsent"}

VARIABLES
  r_SessionOf, r_mIsRunning, r_mPendingCount, r_taskQueue, r_responseQueue, r_inflight,
  r_pending, r_timedOut, r_cur, r_wpc, r_epc, r_spc, r_sIdx, r_wire, r_outcome, r_callbacks,
  r_pushed, r_dispatched

RL == INSTANCE DBServerTaskQueue WITH
  Tasks <- RelayTasks, NumWorkers <- RelayWorkers, SessionChoices <- RelaySessions,
  DispatchResults <- RelayResults, SessionOf <- r_SessionOf,
  mIsRunning <- r_mIsRunning, mPendingCount <- r_mPendingCount, taskQueue <- r_taskQueue,
  responseQueue <- r_responseQueue, inflight <- r_inflight, pending <- r_pending,
  timedOut <- r_timedOut, cur <- r_cur, wpc <- r_wpc, epc <- r_epc, spc <- r_spc,
  sIdx <- r_sIdx, wire <- r_wire, outcome <- r_outcome, callbacks <- r_callbacks,
  pushed <- r_pushed, dispatched <- r_dispatched

rVars == <<r_SessionOf, r_mIsRunning, r_mPendingCount, r_taskQueue, r_responseQueue, r_inflight,
           r_pending, r_timedOut, r_cur, r_wpc, r_epc, r_spc, r_sIdx, r_wire, r_outcome,
           r_callbacks, r_pushed, r_dispatched>>

(* Responses, timeouts, late responses, failed sends and the drain of *)
(* Shutdown never lose a task and never answer it twice; a session has at    *)
(* most one request at the DB server; and while no task of it fails, its     *)
(* tasks are sent in the order in which they were accepted.                  *)
RelayExact == RL!TypeOK /\ RL!AnsweredOnce /\ RL!OneInFlight /\ RL!OrderKept
=============================================================================
