---------------------------- MODULE MCDatabase -----------------------------
(***************************************************************************)
(* The safety of the database side: the local task queue (three tasks on   *)
(* two workers), the relay to the DB server (three tasks of one or of two  *)
(* sessions on one worker), recovery from the write-ahead log with crashes *)
(* outside the rewriting of its files, the schema bootstrap by two         *)
(* processes, and three clients of a pool of two connections.              *)
(***************************************************************************)
EXTENDS DatabaseRelay, DatabaseBackends, MCDBTaskQueue

CONSTANTS WalTasks, WalMaxSeq, WalMaxCrashes, WalCrashPoints, WalRenameMayFail,   \* WalRecovery
          i1, i2, c1, c2, c3

VARIABLES active,
  w_primary, w_backup, w_pc, w_pendingMap, w_nextSeq, w_queue, w_marked, w_accepted,
  w_executed, w_requeued, w_crashes

WR == INSTANCE WalRecovery WITH
  Tasks <- WalTasks, MaxSeq <- WalMaxSeq, MaxCrashes <- WalMaxCrashes,
  CrashPoints <- WalCrashPoints, RenameMayFail <- WalRenameMayFail,
  primary <- w_primary, backup <- w_backup, pc <- w_pc,
  pendingMap <- w_pendingMap, nextSeq <- w_nextSeq, queue <- w_queue, marked <- w_marked,
  accepted <- w_accepted, executed <- w_executed, requeued <- w_requeued, crashes <- w_crashes

wVars == <<w_primary, w_backup, w_pc, w_pendingMap, w_nextSeq, w_queue, w_marked, w_accepted,
           w_executed, w_requeued, w_crashes>>
databaseVars == <<active, vars, rVars, wVars, bVars, pVars>>

MCRelaySessions == {[t \in Tasks |-> 0], [t \in Tasks |-> IF t = t3 THEN 1 ELSE 0]}

(* The parts that do not run stay in one initial state of theirs. *)
MCInit ==
  /\ active \in {"tasks", "relay", "wal", "bootstrap", "pool"}
  /\ Init /\ RL!Init /\ WR!Init /\ SB!Init /\ PT!Init
  /\ active # "relay" => \A t \in Tasks : r_SessionOf[t] = 0

MCNext ==
  /\ UNCHANGED active
  /\ \/ active = "tasks" /\ Next /\ UNCHANGED <<rVars, wVars, bVars, pVars>>
     \/ active = "relay" /\ RL!Next /\ UNCHANGED <<vars, wVars, bVars, pVars>>
     \/ active = "wal" /\ WR!Next /\ UNCHANGED <<vars, rVars, bVars, pVars>>
     \/ active = "bootstrap" /\ SB!Next /\ UNCHANGED <<vars, rVars, wVars, pVars>>
     \/ active = "pool" /\ PT!Next /\ UNCHANGED <<vars, rVars, wVars, bVars>>

MCSpec == MCInit /\ [][MCNext]_databaseVars

(***************************************************************************)
(* Properties; the others are those of the parts.                          *)
(***************************************************************************)
(* Whatever happens between two process lives, every accepted task that has  *)
(* not been executed is still in the log or in memory.                       *)
NoTaskLost == WR!TypeOK /\ WR!NoTaskLost

(* The tasks recovery puts back are queued in the order they were accepted,  *)
(* and none of them was never accepted or already marked done.               *)
ReplayExact == WR!ReplayInOrder /\ WR!NoPhantomReplay

(* DBTaskQueue implements PerKeyFifo, the header's guarantee: the tasks of a *)
(* session run one at a time, in the order in which they entered the queue.  *)
(* (The steps of the other parts leave the mapped state alone; the guard     *)
(* keeps TLC from looking.)                                                  *)
SessionFifo == Fifo!Init /\ [][active = "tasks" => [Fifo!Next]_(Fifo!vars)]_vars
=============================================================================
