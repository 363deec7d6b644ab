-------------------------------- MODULE DBLink --------------------------------
(***************************************************************************)
(* The link from TestServer to the DB server (TestServer.cpp, Windows      *)
(* build): ConnectToDBServer, the receive thread, the reconnect thread it  *)
(* starts when the link drops, and Stop.  Each std::thread member is a     *)
(* handle that may be joinable and a thread with a place in its code; a    *)
(* thread that is not running is at "none" or "ended".  The flags are      *)
(* atomics: each load and each store is a step.                            *)
(***************************************************************************)
EXTENDS Naturals

CONSTANTS MaxDrops        \* bound on the times the DB server drops the link

VARIABLES mIsRunning, mDBRunning, mDBReconnectRunning,
          peer,           \* the other end of the socket: "none", "up", "gone"
          recvThread, reconnectThread,   \* [joinable, at]
          main,           \* where the main thread is
          drops

vars == <<mIsRunning, mDBRunning, mDBReconnectRunning, peer, recvThread, reconnectThread, main, drops>>
flags == <<mIsRunning, mDBRunning, mDBReconnectRunning>>
threads == <<recvThread, reconnectThread>>

Stopped == {"none", "ended"}
Thread == [joinable |-> FALSE, at |-> "none"]
Started(pc) == [joinable |-> TRUE, at |-> pc]
Moved(t, pc) == [joinable |-> t.joinable, at |-> pc]
Joined(t) == [joinable |-> FALSE, at |-> t.at]

LinkTypeOK ==
  /\ mIsRunning \in BOOLEAN /\ mDBRunning \in BOOLEAN /\ mDBReconnectRunning \in BOOLEAN
  /\ peer \in {"none", "up", "gone"} /\ drops \in 0..MaxDrops
  /\ recvThread \in [joinable : BOOLEAN,
                     at : Stopped \cup {"recv", "down", "ifRunning", "ifReconnecting", "set", "join", "spawn"}]
  /\ reconnectThread \in [joinable : BOOLEAN,
                          at : Stopped \cup {"head", "wait", "ifRunning", "connect", "join", "open", "spawn", "clear"}]
  /\ main \in {"connect", "spawn", "running", "join", "disconnect", "shutdown", "joinRecv", "stopped"}

(* After Start. *)
Init ==
  /\ mIsRunning = TRUE /\ mDBRunning = FALSE /\ mDBReconnectRunning = FALSE /\ peer = "none"
  /\ recvThread = Thread /\ reconnectThread = Thread /\ main = "connect" /\ drops = 0

(***************************************************************************)
(* The DB server (external)                                                *)
(***************************************************************************)
Drop ==
  /\ peer = "up" /\ drops < MaxDrops /\ peer' = "gone" /\ drops' = drops + 1
  /\ UNCHANGED <<flags, threads, main>>

(* The socket is connected and the session made, then mDBRunning is set. *)
Opened == peer' = "up" /\ mDBRunning' = TRUE

(***************************************************************************)
(* DBRecvLoop                                                              *)
(***************************************************************************)
Recv_At(pc) == recvThread' = Moved(recvThread, pc)

(* recv fails once the other end is gone; the flag is looked at before it. *)
DBRecvLoop ==
  /\ recvThread.at = "recv" /\ (~mDBRunning \/ peer = "gone") /\ Recv_At("down")
  /\ UNCHANGED <<flags, peer, reconnectThread, main, drops>>

DBRecvLoop_Down ==
  /\ recvThread.at = "down" /\ mDBRunning' = FALSE /\ Recv_At("ifRunning")
  /\ UNCHANGED <<mIsRunning, mDBReconnectRunning, peer, reconnectThread, main, drops>>

(* A reconnect thread is started if the server runs and none is marked as   *)
(* running: two loads, then the store.                                      *)
DBRecvLoop_Check ==
  /\ \/ recvThread.at = "ifRunning" /\ Recv_At(IF mIsRunning THEN "ifReconnecting" ELSE "ended")
     \/ recvThread.at = "ifReconnecting" /\ Recv_At(IF mDBReconnectRunning THEN "ended" ELSE "set")
  /\ UNCHANGED <<flags, peer, reconnectThread, main, drops>>

DBRecvLoop_Set ==
  /\ recvThread.at = "set" /\ mDBReconnectRunning' = TRUE /\ Recv_At("join")
  /\ UNCHANGED <<mIsRunning, mDBRunning, peer, reconnectThread, main, drops>>

(* Faulty variant: the previous reconnect thread is not joined. *)
DBRecvLoop_Join_Skipped ==
  /\ recvThread.at = "join" /\ Recv_At("spawn")
  /\ UNCHANGED <<flags, peer, reconnectThread, main, drops>>

DBRecvLoop_Join ==
  /\ recvThread.at = "join" /\ Recv_At("spawn")
  /\ reconnectThread.joinable => reconnectThread.at \in Stopped
  /\ reconnectThread' = Joined(reconnectThread)
  /\ UNCHANGED <<flags, peer, main, drops>>

DBRecvLoop_Spawn ==
  /\ recvThread.at = "spawn" /\ Recv_At("ended") /\ reconnectThread' = Started("head")
  /\ UNCHANGED <<flags, peer, main, drops>>

(***************************************************************************)
(* DBReconnectLoop, with ConnectToDBServer inside                          *)
(***************************************************************************)
Reconnect_At(pc) == reconnectThread' = Moved(reconnectThread, pc)

(* The loop condition, the wait for the backoff or for Stop, the check after *)
(* it.                                                                       *)
DBReconnectLoop ==
  /\ \/ reconnectThread.at = "head" /\ Reconnect_At(IF mIsRunning /\ ~mDBRunning THEN "wait" ELSE "clear")
     \/ reconnectThread.at = "wait" /\ Reconnect_At("ifRunning")
     \/ reconnectThread.at = "ifRunning" /\ Reconnect_At(IF mIsRunning THEN "connect" ELSE "clear")
  /\ UNCHANGED <<flags, peer, recvThread, main, drops>>

(* Already connected counts as success; otherwise the old receive thread is *)
(* joined first.                                                            *)
ConnectToDBServer ==
  /\ \/ reconnectThread.at = "connect" /\ Reconnect_At(IF mDBRunning THEN "clear" ELSE "join")
        /\ UNCHANGED recvThread
     \/ /\ reconnectThread.at = "join" /\ Reconnect_At("open")
        /\ recvThread.joinable => recvThread.at \in Stopped
        /\ recvThread' = Joined(recvThread)
  /\ UNCHANGED <<flags, peer, main, drops>>

(* Refused: the next round, after another wait. *)
Open_Fails ==
  /\ reconnectThread.at = "open" /\ Reconnect_At("head")
  /\ UNCHANGED <<flags, peer, recvThread, main, drops>>

Open ==
  /\ reconnectThread.at = "open" /\ Opened /\ Reconnect_At("spawn")
  /\ UNCHANGED <<mIsRunning, mDBReconnectRunning, recvThread, main, drops>>

Spawn ==
  /\ reconnectThread.at = "spawn" /\ recvThread' = Started("recv") /\ Reconnect_At("clear")
  /\ UNCHANGED <<flags, peer, main, drops>>

DBReconnectLoop_End ==
  /\ reconnectThread.at = "clear" /\ mDBReconnectRunning' = FALSE /\ Reconnect_At("ended")
  /\ UNCHANGED <<mIsRunning, mDBRunning, peer, recvThread, main, drops>>

(***************************************************************************)
(* The main thread: the first connection, then Stop                        *)
(***************************************************************************)
Main_Connect ==
  /\ main = "connect"
  /\ \/ Opened /\ main' = "spawn"
     \/ main' = "running" /\ UNCHANGED <<mDBRunning, peer>>
  /\ UNCHANGED <<mIsRunning, mDBReconnectRunning, threads, drops>>

Main_Spawn ==
  /\ main = "spawn" /\ recvThread' = Started("recv") /\ main' = "running"
  /\ UNCHANGED <<flags, peer, reconnectThread, drops>>

(* Faulty variant: the flag is left for the end. *)
Stop_KeepsFlag ==
  /\ main = "running" /\ main' = "join"
  /\ UNCHANGED <<flags, peer, threads, drops>>

Stop ==
  /\ main = "running" /\ mIsRunning' = FALSE /\ main' = "join"
  /\ UNCHANGED <<mDBRunning, mDBReconnectRunning, peer, threads, drops>>

(* The task queue and the timer are stopped between this step and the next. *)
Stop_Join ==
  /\ main = "join" /\ main' = "disconnect"
  /\ reconnectThread.joinable => reconnectThread.at \in Stopped
  /\ reconnectThread' = Joined(reconnectThread)
  /\ UNCHANGED <<flags, peer, recvThread, drops>>

(* Nothing to do for a link that is already down. *)
DisconnectFromDBServer ==
  /\ main = "disconnect" /\ mDBRunning' = FALSE /\ main' = IF mDBRunning THEN "shutdown" ELSE "stopped"
  /\ UNCHANGED <<mIsRunning, mDBReconnectRunning, peer, threads, drops>>

Disconnect_Shutdown ==
  /\ main = "shutdown" /\ peer' = "gone" /\ main' = "joinRecv"
  /\ UNCHANGED <<flags, threads, drops>>

Disconnect_Join ==
  /\ main = "joinRecv" /\ main' = "stopped" /\ peer' = "none"
  /\ recvThread.joinable => recvThread.at \in Stopped
  /\ recvThread' = Joined(recvThread)
  /\ UNCHANGED <<flags, reconnectThread, drops>>

Receiver ==
  DBRecvLoop \/ DBRecvLoop_Down \/ DBRecvLoop_Check \/ DBRecvLoop_Set \/ DBRecvLoop_Join \/ DBRecvLoop_Spawn
Reconnector == DBReconnectLoop \/ ConnectToDBServer \/ Open_Fails \/ Open \/ Spawn \/ DBReconnectLoop_End
Stopping == Stop_Join \/ DisconnectFromDBServer \/ Disconnect_Shutdown \/ Disconnect_Join

Next ==
  \/ Drop
  \/ Receiver
  \/ Reconnector
  \/ Main_Connect
  \/ Main_Spawn
  \/ Stop
  \/ Stopping

(* Threads are scheduled; a DB server that is asked again and again lets the *)
(* link come up some day.  Nothing makes Stop be called or the link drop.    *)
Fairness ==
  /\ WF_vars(Receiver) /\ WF_vars(Reconnector) /\ SF_vars(Open)
  /\ WF_vars(Main_Connect \/ Main_Spawn) /\ WF_vars(Stopping)

Spec == Init /\ [][Next]_vars
FairSpec == Spec /\ Fairness

(***************************************************************************)
(* Properties                                                              *)
(***************************************************************************)
(* Neither std::thread member is ever assigned while it is joinable (that   *)
(* ends the process), and a link marked as running has a receive thread or   *)
(* one about to be started: the three threads that start and join each other *)
(* never leave two receivers or none.                                        *)
ThreadsWellUsed ==
  /\ recvThread.at = "spawn" => ~reconnectThread.joinable
  /\ reconnectThread.at = "spawn" \/ main = "spawn" => ~recvThread.joinable
  /\ mDBRunning => recvThread.at \in {"recv", "down"} \/ reconnectThread.at = "spawn" \/ main = "spawn"

(* Stop returns, wherever the link and the reconnect thread are when it is   *)
(* called: no join waits for a thread that waits for another join.           *)
StopReturns == main = "join" ~> main = "stopped"

(* What the reconnect loop is for: a link that was up and is lost while the  *)
(* server runs comes back.                                                   *)
LinkComesBack == (peer = "gone" /\ mIsRunning) ~> (peer = "up" \/ ~mIsRunning)
===============================================================================
