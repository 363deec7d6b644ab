---------------------------- MODULE NetworkEngine ----------------------------
(***************************************************************************)
(* The engine around a connection's life: the accept thread, the I/O       *)
(* workers and Stop of Network/Platforms/LinuxNetworkEngine.cpp (macOS and *)
(* Windows have the same steps), the completion and close handlers of      *)
(* Network/Core/BaseNetworkEngine.cpp, and the session table and pool of   *)
(* SessionManager.cpp and SessionPool.cpp.                                 *)
(*                                                                         *)
(* Threads: the accept thread, the I/O workers, one application thread     *)
(* that closes connections (the ping timeout takes the same path), the     *)
(* thread that calls Stop, and one logic worker.  KeyedDispatcher and      *)
(* AsyncScope appear by what they promise: one FIFO queue, refused when    *)
(* full or stopped; a scoped task is refused, or skipped when its turn     *)
(* comes, once the scope is cancelled.  The send path is Session.tla.      *)
(***************************************************************************)
EXTENDS Naturals, Sequences, FiniteSets

CONSTANTS Conns,           \* connections; one name for socket, session and id
          IoWorkers,
          MaxConnections,  \* MAX_CONNECTIONS, the limit of the table
          PoolCapacity,    \* slots of the session pool
          QueueDepth,      \* MaxLogicQueueDepth
          MaxReads         \* receive completions with data, per connection

VARIABLES mRunning, stage,   \* how far Stop has come
          mSessions,         \* the table
          mState,            \* connection -> state of its session
          closes,            \* connection -> times its socket was closed
          cancelled,         \* connections whose AsyncScope is cancelled
          pc, conn,          \* thread -> where it is, and on what
          pending,           \* connections with a receive posted
          reads, sendErrors, \* what the peer and the network did so far
          queue, running,    \* the logic queue; the task being run
          events,            \* connection -> events fired for it
          snapshot           \* CloseAllSessions: sessions still to close

net == <<pending, reads, sendErrors>>
logic == <<queue, running, events>>
vars == <<mRunning, stage, mSessions, mState, closes, cancelled, pc, conn, pending, reads,
          sendErrors, queue, running, events, snapshot>>

Threads == IoWorkers \cup {"accept", "app", "stop"}
NoConn == "none"
Task(e, scoped, c) == [event |-> e, scoped |-> scoped, conn |-> c]
NoTask == Task("", FALSE, NoConn)

TypeOK ==
  /\ mRunning \in BOOLEAN /\ stage \in {"up", "flagged", "closing", "draining", "stopped"}
  /\ mSessions \subseteq Conns /\ mState \in [Conns -> {"None", "Connected", "Disconnected"}]
  /\ closes \in [Conns -> Nat] /\ cancelled \subseteq Conns
  /\ conn \in [Threads -> Conns \cup {NoConn}] /\ pending \subseteq Conns
  /\ sendErrors \subseteq Conns /\ reads \in [Conns -> 0 .. MaxReads]
  /\ Len(queue) <= QueueDepth /\ snapshot \subseteq Conns

(* Initialize and Start have succeeded. *)
Init ==
  /\ mRunning = TRUE /\ stage = "up" /\ mSessions = {}
  /\ mState = [c \in Conns |-> "None"] /\ closes = [c \in Conns |-> 0] /\ cancelled = {}
  /\ pc = [t \in Threads |-> "idle"] /\ conn = [t \in Threads |-> NoConn]
  /\ pending = {} /\ reads = [c \in Conns |-> 0] /\ sendErrors = {}
  /\ queue = <<>> /\ running = NoTask /\ events = [c \in Conns |-> <<>>]
  /\ snapshot = {}

Goto(t, l) == pc' = [pc EXCEPT ![t] = l] /\ UNCHANGED conn
Return(t) == pc' = [pc EXCEPT ![t] = "idle"] /\ conn' = [conn EXCEPT ![t] = NoConn]
CloseSocket(c) == closes' = [closes EXCEPT ![c] = @ + 1]

(* A session object is in use while anything refers to it: the table, a     *)
(* thread, a queued or running task.                                        *)
InUse ==
  {c \in Conns : mState[c] # "None" /\
     \/ c \in mSessions \cup snapshot
     \/ \E t \in Threads : conn[t] = c
     \/ running.conn = c
     \/ \E i \in 1 .. Len(queue) : queue[i].conn = c}

(* Dispatch: refused when the queue is full or the dispatcher has stopped. *)
Refused == Len(queue) >= QueueDepth \/ stage = "stopped"
Dispatch(e, c) ==
  queue' = IF Refused THEN queue ELSE Append(queue, Task(e, FALSE, c))

(***************************************************************************)
(* AcceptLoop                                                              *)
(***************************************************************************)
Accept(c) ==
  /\ mRunning /\ pc["accept"] = "idle" /\ mState[c] = "None" /\ closes[c] = 0
  /\ pc' = [pc EXCEPT !["accept"] = "limit"] /\ conn' = [conn EXCEPT !["accept"] = c]
  /\ UNCHANGED <<mRunning, stage, mSessions, mState, closes, cancelled, net, logic, snapshot>>

(* The limit is checked before a slot is taken; refused, the caller closes  *)
(* the socket.                                                              *)
CreateSession_Limit ==
  /\ pc["accept"] = "limit"
  /\ IF Cardinality(mSessions) >= MaxConnections
     THEN CloseSocket(conn["accept"]) /\ Return("accept")
     ELSE Goto("accept", "acquire") /\ UNCHANGED closes
  /\ UNCHANGED <<mRunning, stage, mSessions, mState, cancelled, net, logic, snapshot>>

(* Faulty variant: one session more than the pool has slots. *)
CreateSession_Acquire_OffByOne ==
  /\ pc["accept"] = "acquire"
  /\ IF Cardinality(InUse) > PoolCapacity
     THEN CloseSocket(conn["accept"]) /\ Return("accept") /\ UNCHANGED mState
     ELSE /\ mState' = [mState EXCEPT ![conn["accept"]] = "Connected"]
          /\ Goto("accept", "insert") /\ UNCHANGED closes
  /\ UNCHANGED <<mRunning, stage, mSessions, cancelled, net, logic, snapshot>>

(* SessionPool::Acquire, then Session::Initialize. *)
CreateSession_Acquire ==
  /\ pc["accept"] = "acquire"
  /\ IF Cardinality(InUse) >= PoolCapacity
     THEN CloseSocket(conn["accept"]) /\ Return("accept") /\ UNCHANGED mState
     ELSE /\ mState' = [mState EXCEPT ![conn["accept"]] = "Connected"]
          /\ Goto("accept", "insert") /\ UNCHANGED closes
  /\ UNCHANGED <<mRunning, stage, mSessions, cancelled, net, logic, snapshot>>

CreateSession_Insert ==
  /\ pc["accept"] = "insert" /\ Goto("accept", "associate")
  /\ mSessions' = mSessions \cup {conn["accept"]}
  /\ UNCHANGED <<mRunning, stage, mState, closes, cancelled, net, logic, snapshot>>

(* Faulty variant: the receive is posted before Connected is dispatched. *)
AssociateSocket_PostsRecv ==
  /\ pc["accept"] = "associate"
  /\ \/ Goto("accept", "announce") /\ pending' = pending \cup {conn["accept"]}
     \/ Goto("accept", "remove") /\ UNCHANGED pending
  /\ UNCHANGED <<mRunning, stage, mSessions, mState, closes, cancelled, reads, sendErrors, logic, snapshot>>

(* The session owns the socket by now: a failure only removes the session. *)
AssociateSocket ==
  /\ pc["accept"] = "associate"
  /\ Goto("accept", "announce") \/ Goto("accept", "remove")
  /\ UNCHANGED <<mRunning, stage, mSessions, mState, closes, cancelled, net, logic, snapshot>>

(* The Connected event goes to the logic queue, outside the scope and with  *)
(* the result ignored.                                                      *)
Announce ==
  /\ pc["accept"] = "announce" /\ Goto("accept", "recv") /\ Dispatch("Connected", conn["accept"])
  /\ UNCHANGED <<mRunning, stage, mSessions, mState, closes, cancelled, net, running, events, snapshot>>

(* The first receive; when it fails, a Disconnected event follows the       *)
(* Connected one and the session is removed.                                *)
FirstRecv ==
  /\ pc["accept"] = "recv"
  /\ \/ /\ pending' = pending \cup {conn["accept"]} /\ Return("accept") /\ UNCHANGED queue
     \/ /\ Dispatch("Disconnected", conn["accept"]) /\ Goto("accept", "remove") /\ UNCHANGED pending
  /\ UNCHANGED <<mRunning, stage, mSessions, mState, closes, cancelled, reads, sendErrors, running,
                 events, snapshot>>

(***************************************************************************)
(* ProcessCompletions of an I/O worker                                     *)
(***************************************************************************)
(* A completion for a session no longer in the table is ignored. *)
Completed(w, c, l) ==
  IF c \notin mSessions THEN UNCHANGED <<pc, conn>>
  ELSE pc' = [pc EXCEPT ![w] = l] /\ conn' = [conn EXCEPT ![w] = c]

Completion_Recv(w, c) ==
  /\ mRunning /\ pc[w] = "idle" /\ c \in pending /\ pending' = pending \ {c}
  /\ \/ reads[c] < MaxReads /\ reads' = [reads EXCEPT ![c] = @ + 1] /\ Completed(w, c, "data")
     \/ Completed(w, c, "error") /\ UNCHANGED reads
  /\ UNCHANGED <<mRunning, stage, mSessions, mState, closes, cancelled, sendErrors, logic, snapshot>>

(* Sends start in the session's handlers, OnConnected the first of them. *)
Completion_SendError(w, c) ==
  /\ mRunning /\ pc[w] = "idle" /\ c \in mSessions \ sendErrors
  /\ events[c] # <<>> \/ running.conn = c
  /\ sendErrors' = sendErrors \cup {c} /\ Completed(w, c, "error")
  /\ UNCHANGED <<mRunning, stage, mSessions, mState, closes, cancelled, pending, reads, logic, snapshot>>

(* ProcessRecvCompletion looks at the state first. *)
IsConnected(w) ==
  /\ pc[w] \in {"data", "error"}
  /\ IF mState[conn[w]] = "Connected"
     THEN Goto(w, IF pc[w] = "data" THEN "submit_data" ELSE "submit_disconnect")
     ELSE Return(w)
  /\ UNCHANGED <<mRunning, stage, mSessions, mState, closes, cancelled, net, logic, snapshot>>

Submit(e, c) ==
  queue' = IF c \in cancelled \/ Refused THEN queue ELSE Append(queue, Task(e, TRUE, c))

(* Received data goes through the scope to the logic queue; refused, the    *)
(* session is removed without an event.                                     *)
SubmitData(w) ==
  /\ pc[w] = "submit_data" /\ Submit("DataReceived", conn[w])
  /\ Goto(w, IF conn[w] \in cancelled \/ Refused THEN "remove" ELSE "rearm")
  /\ UNCHANGED <<mRunning, stage, mSessions, mState, closes, cancelled, net, running, events, snapshot>>

(* The Disconnected event goes through the scope; then the session is       *)
(* removed at once.  CloseConnection takes the same two steps.              *)
SubmitDisconnect(t) ==
  /\ pc[t] = "submit_disconnect" /\ Submit("Disconnected", conn[t]) /\ Goto(t, "remove")
  /\ UNCHANGED <<mRunning, stage, mSessions, mState, closes, cancelled, net, running, events, snapshot>>

(* The next receive, if the session is still connected. *)
Rearm(w) ==
  /\ pc[w] = "rearm"
  /\ \/ mState[conn[w]] # "Connected" /\ Return(w) /\ UNCHANGED pending
     \/ /\ mState[conn[w]] = "Connected"
        /\ \/ pending' = pending \cup {conn[w]} /\ Return(w)
           \/ Goto(w, "error") /\ UNCHANGED pending
  /\ UNCHANGED <<mRunning, stage, mSessions, mState, closes, cancelled, reads, sendErrors, logic, snapshot>>

(***************************************************************************)
(* CloseConnection, RemoveSession, Session::Close                          *)
(***************************************************************************)
(* The application learns of a connection from its Connected event; the ping *)
(* timeout of thirty seconds, on the timer's thread, is taken to be longer   *)
(* than that event waits for the logic worker.                               *)
CloseConnection(c) ==
  /\ pc["app"] = "idle" /\ c \in mSessions /\ "Connected" \in {events[c][i] : i \in 1 .. Len(events[c])}
  /\ pc' = [pc EXCEPT !["app"] = "submit_disconnect"] /\ conn' = [conn EXCEPT !["app"] = c]
  /\ UNCHANGED <<mRunning, stage, mSessions, mState, closes, cancelled, net, logic, snapshot>>

(* Faulty variant: a plain store in place of the exchange. *)
Close_Twice(t) ==
  /\ pc[t] = "remove"
  /\ CloseSocket(conn[t]) /\ mState' = [mState EXCEPT ![conn[t]] = "Disconnected"] /\ Goto(t, "clear")
  /\ UNCHANGED <<mRunning, stage, mSessions, cancelled, net, logic, snapshot>>

(* Close: the exchange of the state lets one caller through, which closes   *)
(* the socket.                                                              *)
Close(t) ==
  /\ pc[t] = "remove"
  /\ IF mState[conn[t]] = "Connected"
     THEN /\ mState' = [mState EXCEPT ![conn[t]] = "Disconnected"] /\ CloseSocket(conn[t])
          /\ Goto(t, "clear")
     ELSE Goto(t, "erase") /\ UNCHANGED <<mState, closes>>
  /\ UNCHANGED <<mRunning, stage, mSessions, cancelled, net, logic, snapshot>>

(* Close goes on: the receive buffer is cleared, the scope cancelled. *)
Close_Clear(t) ==
  /\ pc[t] = "clear" /\ Goto(t, "erase") /\ cancelled' = cancelled \cup {conn[t]}
  /\ UNCHANGED <<mRunning, stage, mSessions, mState, closes, net, logic, snapshot>>

(* The session leaves the table (CloseAllSessions empties it at the end). *)
Erase(t) ==
  /\ pc[t] = "erase" /\ Return(t)
  /\ mSessions' = IF t = "stop" THEN mSessions ELSE mSessions \ {conn[t]}
  /\ UNCHANGED <<mRunning, stage, mState, closes, cancelled, net, logic, snapshot>>

(***************************************************************************)
(* The logic worker                                                        *)
(***************************************************************************)
(* A scoped task of a cancelled scope is skipped. *)
Logic_Begin ==
  /\ running = NoTask /\ queue # <<>> /\ queue' = Tail(queue)
  /\ running' = IF Head(queue).scoped /\ Head(queue).conn \in cancelled THEN NoTask ELSE Head(queue)
  /\ UNCHANGED <<mRunning, stage, mSessions, mState, closes, cancelled, pc, conn, net, events, snapshot>>

(* ProcessRawRecv, OnConnected or OnDisconnected has run; FireEvent. *)
Logic_End ==
  /\ running # NoTask /\ running' = NoTask
  /\ events' = [events EXCEPT ![running.conn] = Append(@, running.event)]
  /\ UNCHANGED <<mRunning, stage, mSessions, mState, closes, cancelled, pc, conn, net, queue, snapshot>>

(***************************************************************************)
(* Stop                                                                    *)
(***************************************************************************)
Stop ==
  /\ mRunning /\ mRunning' = FALSE /\ stage' = "flagged"
  /\ UNCHANGED <<mSessions, mState, closes, cancelled, pc, conn, net, logic, snapshot>>

(* StopPlatformIO joins the accept thread and the workers; CloseAllSessions *)
(* copies the table.                                                        *)
StopPlatformIO ==
  /\ stage = "flagged" /\ \A t \in IoWorkers \cup {"accept"} : pc[t] = "idle"
  /\ stage' = "closing" /\ snapshot' = mSessions
  /\ UNCHANGED <<mRunning, mSessions, mState, closes, cancelled, pc, conn, net, logic>>

CloseAllSessions_One ==
  /\ stage = "closing" /\ pc["stop"] = "idle"
  /\ \E c \in snapshot :
       /\ snapshot' = snapshot \ {c}
       /\ pc' = [pc EXCEPT !["stop"] = "remove"] /\ conn' = [conn EXCEPT !["stop"] = c]
  /\ UNCHANGED <<mRunning, stage, mSessions, mState, closes, cancelled, net, logic>>

CloseAllSessions_End ==
  /\ stage = "closing" /\ pc["stop"] = "idle" /\ snapshot = {}
  /\ mSessions' = {} /\ stage' = "draining"
  /\ UNCHANGED <<mRunning, mState, closes, cancelled, pc, conn, net, logic, snapshot>>

(* mLogicDispatcher.Shutdown returns when the queue is drained. *)
Stop_End ==
  /\ stage = "draining" /\ queue = <<>> /\ running = NoTask /\ stage' = "stopped"
  /\ UNCHANGED <<mRunning, mSessions, mState, closes, cancelled, pc, conn, net, logic, snapshot>>

Step(t) ==
  \/ SubmitDisconnect(t)
  \/ Close(t)
  \/ Close_Clear(t)
  \/ Erase(t)

Worker(w) ==
  \/ \E c \in Conns : Completion_Recv(w, c)
  \/ \E c \in Conns : Completion_SendError(w, c)
  \/ IsConnected(w)
  \/ SubmitData(w)
  \/ Rearm(w)

Next ==
  \/ \E c \in Conns : Accept(c)
  \/ CreateSession_Limit
  \/ CreateSession_Acquire
  \/ CreateSession_Insert
  \/ AssociateSocket
  \/ Announce
  \/ FirstRecv
  \/ \E w \in IoWorkers : Worker(w)
  \/ \E c \in Conns : CloseConnection(c)
  \/ \E t \in Threads : Step(t)
  \/ Logic_Begin
  \/ Logic_End
  \/ Stop
  \/ StopPlatformIO
  \/ CloseAllSessions_One
  \/ CloseAllSessions_End
  \/ Stop_End

Spec == Init /\ [][Next]_vars

(***************************************************************************)
(* Properties                                                              *)
(***************************************************************************)
(* An accepted socket is closed at most once, whichever of the accept thread, *)
(* the workers, the application and Stop gets to it first, it is never open   *)
(* without a session that will close it, and once Stop has returned every     *)
(* socket is closed.                                                          *)
SocketClosedOnce ==
  \A c \in Conns :
    /\ closes[c] <= 1
    /\ mState[c] = "Connected" <=> mState[c] # "None" /\ closes[c] = 0
    /\ stage = "stopped" => mState[c] # "Connected"

(* The limit check and the insertion are two critical sections, yet the table *)
(* never exceeds the limit, nor the sessions in use the capacity of the pool. *)
WithinLimit ==
  Cardinality(mSessions) <= MaxConnections /\ Cardinality(InUse) <= PoolCapacity

(* The Connected event of a session comes before any of its other events and  *)
(* is fired at most once.                                                     *)
ConnectedFirst ==
  \A c \in Conns : \A i \in 1 .. Len(events[c]) : events[c][i] = "Connected" => i = 1

(* Every session whose Connected event was fired gets its Disconnected event: *)
(* the pairing AcceptLoop restores by hand when the first receive fails.      *)
(* Stated where it must have happened: the session is closed and no thread    *)
(* or queue refers to it any more.                                            *)
EventsPaired ==
  \A c \in Conns :
    (mState[c] = "Disconnected" /\ c \notin InUse /\ mRunning /\ events[c] # <<>>)
      => "Disconnected" \in {events[c][i] : i \in 1 .. Len(events[c])}

(* Close() never clears the receive buffer while ProcessRawRecv works on it:  *)
(* the comments of CloseConnection and of Close take both to run on the       *)
(* session's logic worker.                                                    *)
CloseSerialized ==
  \A t \in Threads : pc[t] = "clear" => ~(running.conn = conn[t] /\ running.event = "DataReceived")
==============================================================================
