------------------------------ MODULE TestClient ------------------------------
(***************************************************************************)
(* The client: the connect loop of its main.cpp, TestClient::Connect,      *)
(* Start, Disconnect and the network worker thread.  The handshake is one  *)
(* step.  A std::thread that is assigned or destroyed while it is joinable *)
(* ends the process ("terminated").                                        *)
(***************************************************************************)
EXTENDS Naturals

CONSTANTS MaxReconnectAttempts, MaxLosses   \* MaxLosses: a bound on lost connections

VARIABLES mState, mStopRequested,
          joinable, worker,     \* mWorkerThread, and where the thread is
          socket,               \* "none", "up" or "lost" (closed by the server)
          main, back,           \* the main thread; where Disconnect returns to
          reconnectAttempt, losses

vars == <<mState, mStopRequested, joinable, worker, socket, main, back, reconnectAttempt, losses>>

IsConnected == mState \in {"Connected", "SessionActive"}

Init ==
  /\ mState = "Disconnected" /\ mStopRequested = FALSE /\ joinable = FALSE /\ worker = "none"
  /\ socket = "none" /\ main = "top" /\ back = "exit" /\ reconnectAttempt = 0 /\ losses = 0

(***************************************************************************)
(* Surroundings: the server closes the connection, the user asks to stop   *)
(***************************************************************************)
Lose ==
  /\ socket = "up" /\ losses < MaxLosses /\ socket' = "lost" /\ losses' = losses + 1
  /\ UNCHANGED <<mState, mStopRequested, joinable, worker, main, back, reconnectAttempt>>

(* RequestStop, from a signal handler or the key loop. *)
RequestStop ==
  /\ ~mStopRequested /\ main # "terminated" /\ mStopRequested' = TRUE
  /\ UNCHANGED <<mState, joinable, worker, socket, main, back, reconnectAttempt, losses>>

(***************************************************************************)
(* NetworkWorkerThread                                                     *)
(***************************************************************************)
Worker_Loop ==
  /\ worker = "loop" /\ worker' = IF ~mStopRequested /\ mState = "SessionActive" THEN "recv" ELSE "ended"
  /\ UNCHANGED <<mState, mStopRequested, joinable, socket, main, back, reconnectAttempt, losses>>

(* The last ping has been sent. *)
Worker_MaxPings ==
  /\ worker = "recv" /\ mStopRequested' = TRUE /\ worker' = "ended"
  /\ UNCHANGED <<mState, joinable, socket, main, back, reconnectAttempt, losses>>

(* A packet or a timeout changes nothing here; a lost connection does. *)
Worker_Recv ==
  /\ worker = "recv" /\ worker' = "loop"
  /\ mState' = IF socket = "lost" THEN "Disconnected" ELSE mState
  /\ UNCHANGED <<mStopRequested, joinable, socket, main, back, reconnectAttempt, losses>>

(***************************************************************************)
(* The main thread                                                         *)
(***************************************************************************)
(* The outer loop; while not the first attempt it sleeps and asks again. *)
Main_Top ==
  /\ main = "top"
  /\ main' = IF mStopRequested THEN "shutdown" ELSE IF IsConnected THEN "inner" ELSE "connect"
  /\ UNCHANGED <<mState, mStopRequested, joinable, worker, socket, back, reconnectAttempt, losses>>

(* The stop flag is reset, then the connection and the handshake succeed or *)
(* clean up after themselves.                                               *)
Connect ==
  /\ main = "connect" /\ mState = "Disconnected" /\ mStopRequested' = FALSE
  /\ \/ /\ mState' = "SessionActive" /\ socket' = "up" /\ main' = "start" /\ UNCHANGED reconnectAttempt
     \/ /\ socket' = "none" /\ reconnectAttempt' = reconnectAttempt + 1 /\ UNCHANGED mState
        /\ main' = IF reconnectAttempt + 1 >= MaxReconnectAttempts THEN "shutdown" ELSE "top"
  /\ UNCHANGED <<joinable, worker, back, losses>>

Start ==
  /\ main = "start" /\ mStopRequested' = FALSE
  /\ IF joinable THEN main' = "terminated" /\ UNCHANGED <<joinable, worker, reconnectAttempt>>
     ELSE joinable' = TRUE /\ worker' = "loop" /\ main' = "inner" /\ reconnectAttempt' = 0
  /\ UNCHANGED <<mState, socket, back, losses>>

(* The inner loop ends with a stop request or the loss of the connection. *)
Main_Inner ==
  /\ main = "inner" /\ (mStopRequested \/ ~IsConnected)
  /\ main' = IF mStopRequested THEN "top" ELSE "lost"
  /\ UNCHANGED <<mState, mStopRequested, joinable, worker, socket, back, reconnectAttempt, losses>>

(* Disconnect returns at once when the worker has already marked the client *)
(* as disconnected; otherwise it joins the worker and closes the socket.    *)
Disconnect(then) ==
  IF mState = "Disconnected"
  THEN main' = then /\ UNCHANGED <<mState, mStopRequested, back>>
  ELSE /\ mState' = "Disconnecting" /\ mStopRequested' = TRUE /\ main' = "join" /\ back' = then

Main_Lost ==
  /\ main = "lost" /\ reconnectAttempt' = reconnectAttempt + 1
  /\ Disconnect(IF reconnectAttempt + 1 >= MaxReconnectAttempts THEN "shutdown" ELSE "top")
  /\ UNCHANGED <<joinable, worker, socket, losses>>

Shutdown ==
  /\ main = "shutdown" /\ Disconnect("exit") /\ UNCHANGED <<joinable, worker, socket, reconnectAttempt, losses>>

Disconnect_Join ==
  /\ main = "join" /\ (joinable => worker = "ended") /\ joinable' = FALSE
  /\ socket' = "none" /\ mState' = "Disconnected" /\ main' = back
  /\ UNCHANGED <<mStopRequested, worker, back, reconnectAttempt, losses>>

(* The client object is destroyed. *)
Exit ==
  /\ main = "exit" /\ main' = IF joinable THEN "terminated" ELSE "exited"
  /\ UNCHANGED <<mState, mStopRequested, joinable, worker, socket, back, reconnectAttempt, losses>>

Next ==
  \/ Lose
  \/ RequestStop
  \/ Worker_Loop
  \/ Worker_MaxPings
  \/ Worker_Recv
  \/ Main_Top
  \/ Connect
  \/ Start
  \/ Main_Inner
  \/ Main_Lost
  \/ Shutdown
  \/ Disconnect_Join
  \/ Exit

Spec == Init /\ [][Next]_vars

(***************************************************************************)
(* Properties                                                              *)
(***************************************************************************)
(* A client that has lost its connection connects again: when Start is about *)
(* to assign the worker thread, the previous one has been joined.            *)
ReconnectStarts == main = "start" => ~joinable
===============================================================================
