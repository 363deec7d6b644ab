------------------------------ MODULE LinkParts ------------------------------
(***************************************************************************)
(* The link to the DB server as one of the services of the server, its     *)
(* names kept apart by the prefix l_.                                      *)
(***************************************************************************)
EXTENDS Naturals

CONSTANT LinkMaxDrops

ASSUME LinkAssumption == LinkMaxDrops \in Nat

VARIABLES
  l_mIsRunning, l_mDBRunning, l_mDBReconnectRunning, l_peer, l_recvThread, l_reconnectThread,
  l_main, l_drops

LK == INSTANCE DBLink WITH
  MaxDrops <- LinkMaxDrops, mIsRunning <- l_mIsRunning, mDBRunning <- l_mDBRunning,
  mDBReconnectRunning <- l_mDBReconnectRunning, peer <- l_peer, recvThread <- l_recvThread,
  reconnectThread <- l_reconnectThread, main <- l_main, drops <- l_drops

lVars == <<l_mIsRunning, l_mDBRunning, l_mDBReconnectRunning, l_peer, l_recvThread,
           l_reconnectThread, l_main, l_drops>>

(* Neither std::thread member of the link is assigned while it is joinable,  *)
(* and a link marked as running has exactly one receiver.                    *)
ThreadsWellUsed == LK!LinkTypeOK /\ LK!ThreadsWellUsed
==============================================================================
