----------------------------- MODULE MCEngine ------------------------------
(***************************************************************************)
(* The safety of the network side: a session slot that serves two          *)
(* connections with three messages, the engine (two connections with a     *)
(* limit of one, or one connection and two I/O workers), the readiness     *)
(* providers (one socket and two workers, or two sockets and room for two  *)
(* entries), the completion providers, the event bus, the three packet     *)
(* readers and AsyncScope.  They share no state: a behaviour is one of one *)
(* of them, chosen by "active".                                            *)
(***************************************************************************)
EXTENDS Session, ProviderParts, EngineParts, TLC

CONSTANTS s1, s2, s3, w1, w2, x1, x2, y, v

VARIABLES active,
  n_mRunning, n_stage, n_mSessions, n_mState, n_closes, n_cancelled, n_pc, n_conn, n_pending,
  n_reads, n_sendErrors, n_queue, n_running, n_events, n_snapshot,
  r_kind, r_mPendingRecvOps, r_mPendingSendOps, r_mPendingRequests, r_armed, r_readable, r_hup,
  r_wpc, r_batch, r_rearm, r_entries, r_mIsSending, r_sends, r_closed,
  f_kind, f_sent, f_arrived, f_buf, f_offset, f_delivered, f_open, f_pc

N2 == INSTANCE NetworkEngine WITH
  Conns <- {x1, x2}, IoWorkers <- {v}, MaxConnections <- 1, PoolCapacity <- 1, QueueDepth <- 2,
  MaxReads <- 0, mRunning <- n_mRunning, stage <- n_stage, mSessions <- n_mSessions,
  mState <- n_mState, closes <- n_closes, cancelled <- n_cancelled, pc <- n_pc, conn <- n_conn,
  pending <- n_pending, reads <- n_reads, sendErrors <- n_sendErrors, queue <- n_queue,
  running <- n_running, events <- n_events, snapshot <- n_snapshot

N1 == INSTANCE NetworkEngine WITH
  Conns <- {y}, IoWorkers <- {w1, w2}, MaxConnections <- 1, PoolCapacity <- 1, QueueDepth <- 2,
  MaxReads <- 2, mRunning <- n_mRunning, stage <- n_stage, mSessions <- n_mSessions,
  mState <- n_mState, closes <- n_closes, cancelled <- n_cancelled, pc <- n_pc, conn <- n_conn,
  pending <- n_pending, reads <- n_reads, sendErrors <- n_sendErrors, queue <- n_queue,
  running <- n_running, events <- n_events, snapshot <- n_snapshot

R1 == INSTANCE ReadinessProvider WITH
  Sockets <- {y}, Workers <- {w1, w2}, Kinds <- {"epoll", "kqueue"}, MaxEntries <- 1,
  MsgUnits <- 2, MaxSends <- 2, kind <- r_kind, mPendingRecvOps <- r_mPendingRecvOps,
  mPendingSendOps <- r_mPendingSendOps, mPendingRequests <- r_mPendingRequests,
  armed <- r_armed, readable <- r_readable, hup <- r_hup, wpc <- r_wpc, batch <- r_batch,
  rearm <- r_rearm, entries <- r_entries, mIsSending <- r_mIsSending, sends <- r_sends,
  closed <- r_closed

R2 == INSTANCE ReadinessProvider WITH
  Sockets <- {x1, x2}, Workers <- {v}, Kinds <- {"epoll", "kqueue"}, MaxEntries <- 2,
  MsgUnits <- 2, MaxSends <- 1, kind <- r_kind, mPendingRecvOps <- r_mPendingRecvOps,
  mPendingSendOps <- r_mPendingSendOps, mPendingRequests <- r_mPendingRequests,
  armed <- r_armed, readable <- r_readable, hup <- r_hup, wpc <- r_wpc, batch <- r_batch,
  rearm <- r_rearm, entries <- r_entries, mIsSending <- r_mIsSending, sends <- r_sends,
  closed <- r_closed

PF == INSTANCE PacketFraming WITH
  Kinds <- {"session", "dblink", "client"}, HeaderSize <- 2, PacketSizes <- {1, 2, 3, 4},
  MaxPacketSize <- 4, RecvBufferSize <- 8, MaxPackets <- 3, kind <- f_kind, sent <- f_sent,
  arrived <- f_arrived, buf <- f_buf, offset <- f_offset, delivered <- f_delivered,
  open <- f_open, pc <- f_pc

nVars == <<n_mRunning, n_stage, n_mSessions, n_mState, n_closes, n_cancelled, n_pc, n_conn,
           n_pending, n_reads, n_sendErrors, n_queue, n_running, n_events, n_snapshot>>
rVars == <<r_kind, r_mPendingRecvOps, r_mPendingSendOps, r_mPendingRequests, r_armed,
           r_readable, r_hup, r_wpc, r_batch, r_rearm, r_entries, r_mIsSending, r_sends,
           r_closed>>
fVars == <<f_kind, f_sent, f_arrived, f_buf, f_offset, f_delivered, f_open, f_pc>>
mcVars == <<active, vars, nVars, rVars, kVars, bVars, fVars, aVars>>

(* The parts that do not run stay in one initial state of theirs. *)
MCInit ==
  /\ active \in {"session", "engine1", "engine2", "ready1", "ready2", "completion", "bus", "framing", "scope"}
  /\ Init /\ CP!Init /\ EB!Init /\ PF!Init /\ SC!Init
  /\ IF active = "engine2" THEN N2!Init ELSE N1!Init
  /\ IF active = "ready2" THEN R2!Init ELSE R1!Init
  /\ active \notin {"ready1", "ready2"} => r_kind = "epoll"
  /\ active # "completion" => k_kind = "iocp"
  /\ active # "bus" => b_topic = [x \in BusSubscribers |-> "A"] /\ b_event = [p \in BusPublishers |-> "A"]
  /\ active # "framing" => f_kind = "session" /\ f_sent = <<>>

MCNext ==
  /\ UNCHANGED active
  /\ \/ active = "session" /\ Next /\ UNCHANGED <<nVars, rVars, kVars, bVars, fVars, aVars>>
     \/ active = "engine1" /\ N1!Next /\ UNCHANGED <<vars, rVars, kVars, bVars, fVars, aVars>>
     \/ active = "engine2" /\ N2!Next /\ UNCHANGED <<vars, rVars, kVars, bVars, fVars, aVars>>
     \/ active = "ready1" /\ R1!Next /\ UNCHANGED <<vars, nVars, kVars, bVars, fVars, aVars>>
     \/ active = "ready2" /\ R2!Next /\ UNCHANGED <<vars, nVars, kVars, bVars, fVars, aVars>>
     \/ active = "completion" /\ CP!Next /\ UNCHANGED <<vars, nVars, rVars, bVars, fVars, aVars>>
     \/ active = "bus" /\ EB!Next /\ UNCHANGED <<vars, nVars, rVars, kVars, fVars, aVars>>
     \/ active = "framing" /\ PF!Next /\ UNCHANGED <<vars, nVars, rVars, kVars, bVars, aVars>>
     \/ active = "scope" /\ SC!Next /\ UNCHANGED <<vars, nVars, rVars, kVars, bVars, fVars>>

MCSpec == MCInit /\ [][MCNext]_mcVars

(* Messages, connections, sockets, workers are interchangeable. *)
Symmetry == Permutations({w1, w2}) \cup Permutations({x1, x2})

(***************************************************************************)
(* Properties; the others are Session's and the parts'.                    *)
(***************************************************************************)
(* An accepted socket is closed at most once, whichever of the accept        *)
(* thread, the workers, the application and Stop gets to it first; it is     *)
(* never open without a session that will close it, and once Stop has        *)
(* returned every socket is closed.                                          *)
SocketClosedOnce ==
  /\ active = "engine1" => N1!TypeOK /\ N1!SocketClosedOnce
  /\ active = "engine2" => N2!TypeOK /\ N2!SocketClosedOnce

(* The limit check and the insertion are two critical sections, yet the      *)
(* table never exceeds the limit, nor the sessions in use the pool.          *)
WithinLimit ==
  /\ active = "engine1" => N1!WithinLimit
  /\ active = "engine2" => N2!WithinLimit

(* The Connected event of a session comes before any of its other events     *)
(* and is fired at most once.                                                *)
ConnectedFirst ==
  /\ active = "engine1" => N1!ConnectedFirst
  /\ active = "engine2" => N2!ConnectedFirst

(* A healthy session's receive is in one place, and in the map it is         *)
(* watched; the counter of pending operations agrees with the maps.          *)
RecvNeverLost ==
  /\ active = "ready1" => R1!TypeOK /\ R1!RecvNeverLost
  /\ active = "ready2" => R2!TypeOK /\ R2!RecvNeverLost

(* With kqueue, whose filters are independent, every pending send is watched. *)
SendNeverLostKqueue ==
  /\ active = "ready1" => R1!SendNeverLostKqueue
  /\ active = "ready2" => R2!SendNeverLostKqueue

(* Wherever the stream is cut, the packets delivered are the packets sent,   *)
(* whole and in order; a server-side reader delivers a packet with its last  *)
(* byte; and only an invalid size closes a connection.                       *)
FramesIntact == active = "framing" => PF!FramesIntact
=============================================================================
