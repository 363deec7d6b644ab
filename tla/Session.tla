------------------------------ MODULE Session ------------------------------
(***************************************************************************)
(* One slot of the session pool over several connections (Session.cpp,     *)
(* with the parts of SessionPool.cpp, SessionManager.cpp and               *)
(* BaseNetworkEngine.cpp that act on it), as built for POSIX: the send     *)
(* queue, the right to send (mIsSending) that is handed from thread to     *)
(* thread, Close against all of it, and the reuse of the slot.             *)
(*                                                                         *)
(* Every sender makes one call of SendData and names its message.  Workers *)
(* are the engine's threads that take send completions, closer is the      *)
(* thread on which a connection ends, acceptor the accept loop.  A thread  *)
(* holds a reference to the session (SessionRef) whenever it is not idle.  *)
(* A section under mSendMutex is one step.                                 *)
(***************************************************************************)
EXTENDS Naturals, Sequences

CONSTANTS Senders, Workers, closer, acceptor,
          MaxConnections,  \* bound on the connections the slot serves
          Threshold        \* SEND_QUEUE_BACKPRESSURE_THRESHOLD

ASSUME BoundsAssumption == MaxConnections \in Nat /\ Threshold \in Nat \ {0}
ASSUME ThreadsAssumption ==
  (Workers \cup {closer, acceptor}) \cap Senders = {}

Threads == Senders \cup Workers \cup {closer, acceptor}
Connections == 1 .. MaxConnections

VARIABLES
  mId, mState,                 \* 0 while the slot is in the pool
  registered,                  \* the session is in SessionManager's map
  mAsyncProvider,              \* TRUE while set
  mSendQueue, mSendQueueSize, mIsSending,
  pc,                          \* thread -> what it does next
  hand,                        \* thread -> the message it has taken to send, if any
  target,                      \* sender -> the connection it sends on
  lastId,                      \* KeyGenerator's counter
  wire,                        \* sends the provider has not completed
  pushed, posted,              \* history: connection -> messages
  clean                        \* history: connections begun with an empty queue

queue == <<mSendQueue, mSendQueueSize>>
life == <<mId, registered, lastId, clean>>
history == <<pushed, posted>>
vars == <<mId, mState, registered, mAsyncProvider, mSendQueue, mSendQueueSize,
          mIsSending, pc, hand, target, lastId, wire, pushed, posted, clean>>

TypeOK ==
  /\ mId \in 0 .. MaxConnections /\ lastId \in 0 .. MaxConnections
  /\ mState \in {"None", "Connected", "Disconnected"}
  /\ registered \in BOOLEAN /\ mAsyncProvider \in BOOLEAN /\ mIsSending \in BOOLEAN
  /\ mSendQueue \in Seq(Senders) /\ mSendQueueSize \in Nat
  /\ pc \in [Threads -> {"idle", "send", "room", "push", "flush", "post", "yield",
                         "recheck", "pop", "snapshot", "submit", "close", "drain",
                         "attach", "remove", "removeClose", "removeDrain", "erase",
                         "done"}]
  /\ hand \in [Threads -> Seq(Senders)]
  /\ target \in [Senders -> 0 .. MaxConnections]
  /\ wire \subseteq (Connections \X Senders)
  /\ pushed \in [Connections -> Seq(Senders)] /\ posted \in [Connections -> Seq(Senders)]
  /\ clean \subseteq Connections

Init ==
  /\ mId = 0 /\ mState = "None" /\ registered = FALSE /\ mAsyncProvider = FALSE
  /\ mSendQueue = <<>> /\ mSendQueueSize = 0 /\ mIsSending = FALSE
  /\ pc = [x \in Threads |-> "idle"] /\ hand = [x \in Threads |-> <<>>]
  /\ target = [s \in Senders |-> 0] /\ lastId = 0 /\ wire = {}
  /\ pushed = [c \in Connections |-> <<>>] /\ posted = [c \in Connections |-> <<>>]
  /\ clean = {}

Goto(x, p) == pc' = [pc EXCEPT ![x] = p]
(* Where a thread is when its call returns; a sender makes only one. *)
Return(x) == IF x \in Senders THEN "done" ELSE "idle"
Referenced == registered \/ \E x \in Threads : pc[x] \notin {"idle", "done"}

(***************************************************************************)
(* Accepting a connection, and the end of the last reference               *)
(***************************************************************************)
(* Acquire, Initialize and the entry in the map.  The callers of GetSession  *)
(* learn the id only after the accept loop has gone on.                      *)
CreateSession ==
  /\ pc[acceptor] = "idle" /\ mId = 0 /\ lastId < MaxConnections
  /\ lastId' = lastId + 1 /\ mId' = lastId + 1
  /\ mState' = "Connected" /\ mIsSending' = FALSE /\ mSendQueueSize' = 0
  /\ registered' = TRUE /\ Goto(acceptor, "attach")
  /\ clean' = IF mSendQueue = <<>> THEN clean \cup {lastId + 1} ELSE clean
  /\ UNCHANGED <<mAsyncProvider, mSendQueue, hand, target, wire, history>>

(* AssociateSocket may fail, and then the session is removed again. *)
AttachProvider ==
  /\ pc[acceptor] = "attach"
  /\ \/ mAsyncProvider' = TRUE /\ Goto(acceptor, "idle")
     \/ UNCHANGED mAsyncProvider /\ Goto(acceptor, "remove")
  /\ UNCHANGED <<mState, queue, mIsSending, life, hand, target, wire, history>>

(* The deleter of the last reference: Close, which does nothing on a closed  *)
(* session, then Reset.                                                      *)
ReleaseInternal ==
  /\ mId # 0 /\ ~Referenced
  /\ mSendQueue' = IF mState = "Disconnected" THEN mSendQueue ELSE <<>>
  /\ mAsyncProvider' = (mState = "Disconnected" /\ mAsyncProvider)
  /\ mId' = 0 /\ mState' = "None" /\ mIsSending' = FALSE /\ mSendQueueSize' = 0
  /\ UNCHANGED <<registered, lastId, clean, pc, hand, target, wire, history>>

(***************************************************************************)
(* Send                                                                    *)
(***************************************************************************)
SendData(s) ==
  /\ pc[s] = "idle" /\ registered /\ pc[acceptor] = "idle"
  /\ target' = [target EXCEPT ![s] = mId]
  /\ Goto(s, "send")
  /\ UNCHANGED <<mState, mAsyncProvider, queue, mIsSending, life, hand, wire, history>>

Send_Check(s) ==
  /\ pc[s] = "send"
  /\ Goto(s, IF mState = "Connected" THEN "room" ELSE "done")
  /\ UNCHANGED <<mState, mAsyncProvider, queue, mIsSending, life, hand, target, wire, history>>

Send_Backpressure(s) ==
  /\ pc[s] = "room"
  /\ Goto(s, IF mSendQueueSize >= Threshold THEN "done" ELSE "push")
  /\ UNCHANGED <<mState, mAsyncProvider, queue, mIsSending, life, hand, target, wire, history>>

(* Faulty variant: the newest message is sent first. *)
Send_PushFront(s) ==
  /\ pc[s] = "push"
  /\ mSendQueue' = <<s>> \o mSendQueue /\ mSendQueueSize' = mSendQueueSize + 1
  /\ pushed' = [pushed EXCEPT ![mId] = Append(@, s)]
  /\ Goto(s, "flush")
  /\ UNCHANGED <<mState, mAsyncProvider, mIsSending, life, hand, target, wire, posted>>

Send_Push(s) ==
  /\ pc[s] = "push"
  /\ mSendQueue' = Append(mSendQueue, s) /\ mSendQueueSize' = mSendQueueSize + 1
  /\ pushed' = [pushed EXCEPT ![mId] = Append(@, s)]
  /\ Goto(s, "flush")
  /\ UNCHANGED <<mState, mAsyncProvider, mIsSending, life, hand, target, wire, posted>>

(* Faulty variant: a plain load instead of compare-and-exchange. *)
FlushSendQueue_NoCas(x) ==
  /\ pc[x] = "flush"
  /\ Goto(x, "post") /\ mIsSending' = TRUE
  /\ UNCHANGED <<mState, mAsyncProvider, queue, life, hand, target, wire, history>>

(* compare_exchange on mIsSending. *)
FlushSendQueue(x) ==
  /\ pc[x] = "flush"
  /\ Goto(x, IF mIsSending THEN Return(x) ELSE "post")
  /\ mIsSending' = TRUE
  /\ UNCHANGED <<mState, mAsyncProvider, queue, life, hand, target, wire, history>>

(***************************************************************************)
(* PostSend, by the thread that has the right to send                      *)
(***************************************************************************)
PostSend(x) ==
  /\ pc[x] = "post"
  /\ Goto(x, IF mSendQueueSize = 0 THEN "yield" ELSE "pop")
  /\ UNCHANGED <<mState, mAsyncProvider, queue, mIsSending, life, hand, target, wire, history>>

(* Faulty variant: no second look at the queue after giving up the right. *)
PostSend_YieldOnly(x) ==
  /\ pc[x] = "yield"
  /\ mIsSending' = FALSE /\ Goto(x, Return(x))
  /\ UNCHANGED <<mState, mAsyncProvider, queue, life, hand, target, wire, history>>

PostSend_Yield(x) ==
  /\ pc[x] = "yield"
  /\ mIsSending' = FALSE /\ Goto(x, "recheck")
  /\ UNCHANGED <<mState, mAsyncProvider, queue, life, hand, target, wire, history>>

PostSend_Recheck(x) ==
  /\ pc[x] = "recheck"
  /\ Goto(x, IF mSendQueueSize > 0 THEN "flush" ELSE Return(x))
  /\ UNCHANGED <<mState, mAsyncProvider, queue, mIsSending, life, hand, target, wire, history>>

PostSend_Pop(x) ==
  /\ pc[x] = "pop"
  /\ \/ /\ mSendQueue # <<>>
        /\ hand' = [hand EXCEPT ![x] = <<Head(mSendQueue)>>]
        /\ mSendQueue' = Tail(mSendQueue) /\ mSendQueueSize' = mSendQueueSize - 1
        /\ Goto(x, "snapshot") /\ UNCHANGED mIsSending
     \/ /\ mSendQueue = <<>>
        /\ mIsSending' = FALSE /\ Goto(x, Return(x))
        /\ UNCHANGED <<hand, queue>>
  /\ UNCHANGED <<mState, mAsyncProvider, life, target, wire, history>>

(* The provider is copied under the mutex and used after it. *)
PostSend_Snapshot(x) ==
  /\ pc[x] = "snapshot"
  /\ \/ mAsyncProvider /\ Goto(x, "submit") /\ UNCHANGED <<mIsSending, hand>>
     \/ /\ ~mAsyncProvider
        /\ mIsSending' = FALSE /\ Goto(x, Return(x))
        /\ hand' = [hand EXCEPT ![x] = <<>>]
  /\ UNCHANGED <<mState, mAsyncProvider, queue, life, target, wire, history>>

(* SendAsync takes the message, or fails and the session is closed. *)
PostSend_Submit(x) ==
  /\ pc[x] = "submit"
  /\ hand' = [hand EXCEPT ![x] = <<>>]
  /\ \/ /\ wire' = wire \cup {<<mId, Head(hand[x])>>}
        /\ posted' = [posted EXCEPT ![mId] = Append(@, Head(hand[x]))]
        /\ Goto(x, Return(x)) /\ UNCHANGED mIsSending
     \/ /\ mIsSending' = FALSE /\ Goto(x, "close")
        /\ UNCHANGED <<wire, posted>>
  /\ UNCHANGED <<mState, mAsyncProvider, queue, life, target, pushed>>

(***************************************************************************)
(* Close, alone or inside SessionManager::RemoveSession                    *)
(***************************************************************************)
(* Only the first caller goes on past the exchange of mState. *)
Close(x) ==
  /\ pc[x] \in {"close", "removeClose"}
  /\ mState' = "Disconnected"
  /\ Goto(x, CASE mState # "Disconnected" /\ pc[x] = "close" -> "drain"
               [] mState # "Disconnected" /\ pc[x] # "close" -> "removeDrain"
               [] mState = "Disconnected" /\ pc[x] = "close" -> Return(x)
               [] OTHER -> "erase")
  /\ UNCHANGED <<mAsyncProvider, queue, mIsSending, life, hand, target, wire, history>>

(* Faulty variant: the queue is emptied and its size forgotten. *)
Close_DrainUncounted(x) ==
  /\ pc[x] \in {"drain", "removeDrain"}
  /\ mAsyncProvider' = FALSE /\ mSendQueue' = <<>>
  /\ Goto(x, IF pc[x] = "drain" THEN Return(x) ELSE "erase")
  /\ UNCHANGED <<mState, mSendQueueSize, mIsSending, life, hand, target, wire, history>>

Close_Drain(x) ==
  /\ pc[x] \in {"drain", "removeDrain"}
  /\ mAsyncProvider' = FALSE /\ mSendQueue' = <<>> /\ mSendQueueSize' = 0
  /\ Goto(x, IF pc[x] = "drain" THEN Return(x) ELSE "erase")
  /\ UNCHANGED <<mState, mIsSending, life, hand, target, wire, history>>

RemoveSession(x) ==
  /\ pc[x] = "remove"
  /\ Goto(x, IF mState = "Connected" THEN "removeClose" ELSE "erase")
  /\ UNCHANGED <<mState, mAsyncProvider, queue, mIsSending, life, hand, target, wire, history>>

RemoveSession_Erase(x) ==
  /\ pc[x] = "erase"
  /\ registered' = FALSE /\ Goto(x, Return(x))
  /\ UNCHANGED <<mId, lastId, clean, mState, mAsyncProvider, queue, mIsSending, hand,
                 target, wire, history>>

(***************************************************************************)
(* The engine's threads                                                    *)
(***************************************************************************)
(* A completion names the connection; it is ignored when that is gone.      *)
(* Success goes on sending, an error ends a connection that is still open.  *)
SendCompletion(x) ==
  /\ pc[x] = "idle"
  /\ \E w \in wire :
       /\ wire' = wire \ {w}
       /\ \/ w[1] = mId /\ registered /\ Goto(x, "post")
          \/ w[1] = mId /\ registered /\ mState = "Connected" /\ Goto(x, "remove")
          \/ (w[1] # mId \/ ~registered \/ mState # "Connected") /\ UNCHANGED pc
  /\ UNCHANGED <<mState, mAsyncProvider, queue, mIsSending, life, hand, target, history>>

(* A receive that ends the connection (ProcessRecvCompletion), or the timer  *)
(* that calls CloseConnection; both look for a connected session first.      *)
Disconnect ==
  /\ pc[closer] = "idle" /\ pc[acceptor] = "idle"
  /\ registered /\ mState = "Connected"
  /\ Goto(closer, "remove")
  /\ UNCHANGED <<mState, mAsyncProvider, queue, mIsSending, life, hand, target, wire, history>>

Sending(x) ==
  \/ FlushSendQueue(x) \/ PostSend(x) \/ PostSend_Yield(x) \/ PostSend_Recheck(x)
  \/ PostSend_Pop(x) \/ PostSend_Snapshot(x) \/ PostSend_Submit(x)
Closing(x) ==
  Close(x) \/ Close_Drain(x) \/ RemoveSession(x) \/ RemoveSession_Erase(x)
Send(s) == Send_Check(s) \/ Send_Backpressure(s) \/ Send_Push(s)

Next ==
  \/ CreateSession \/ AttachProvider \/ ReleaseInternal
  \/ \E s \in Senders : SendData(s) \/ Send(s)
  \/ \E x \in Threads : Sending(x) \/ Closing(x)
  \/ \E x \in Workers : SendCompletion(x)
  \/ Disconnect

Spec == Init /\ [][Next]_vars

(* Threads inside a call go on, and the provider completes every send it    *)
(* has taken.  Nobody has to send, and no connection has to end.            *)
Fairness ==
  /\ WF_vars(AttachProvider) /\ WF_vars(\E x \in Workers : SendCompletion(x))
  /\ \A s \in Senders : WF_vars(Send(s))
  /\ \A x \in Threads : WF_vars(Sending(x) \/ Closing(x))

FairSpec == Spec /\ Fairness

(***************************************************************************)
(* Properties                                                              *)
(***************************************************************************)
(* x is in PostSend and has not handed its message over. *)
Owns(x) == pc[x] \in {"post", "yield", "pop", "snapshot", "submit"}

(* The right to send is exclusive through its hand-over from Send to the    *)
(* provider, to the completion and back: at most one thread is in PostSend   *)
(* or one send of the connection is outstanding, and mIsSending says so.     *)
OneSendAtATime ==
  /\ \A x, y \in Threads : Owns(x) /\ Owns(y) => x = y
  /\ \A v, w \in wire : v[1] = mId /\ w[1] = mId => v = w
  /\ \A x \in Threads, w \in wire : Owns(x) => w[1] # mId
  /\ \A x \in Threads : Owns(x) => mIsSending
  /\ \A w \in wire : w[1] = mId => mIsSending

(* The size read without the lock is the length of the queue, through Close  *)
(* and late pushes, on a connection that began with an empty queue.          *)
SizeExact == mId \in clean => mSendQueueSize = Len(mSendQueue)

(* What reaches the provider on such a connection was sent on it, once and   *)
(* in the order in which Send queued it.                                     *)
InOrder ==
  \A c \in clean : \A i \in 1 .. Len(posted[c]) :
    /\ \E m \in 1 .. Len(pushed[c]) : pushed[c][m] = posted[c][i]
    /\ \A j \in 1 .. i - 1 :
         /\ posted[c][j] # posted[c][i]
         /\ \E m, n \in 1 .. Len(pushed[c]) :
              n < m /\ pushed[c][n] = posted[c][j] /\ pushed[c][m] = posted[c][i]
SendsInOrder == TypeOK /\ InOrder

(* The queue of an open connection is sent ("TOCTOU guard: re-check queue    *)
(* size after releasing flag"): no interleaving of Send, completion and the  *)
(* release of mIsSending leaves a message queued with nobody sending.        *)
SendQueueDrains ==
  (mId \in clean /\ mState = "Connected" /\ mSendQueue # <<>>)
    ~> (mSendQueue = <<>> \/ mState # "Connected")

(* "mAsyncProvider and buffers are already cleaned by Close()": no message   *)
(* reaches a connection other than the one it was sent on.                   *)
NoForeignData ==
  \A c \in Connections : \A n \in 1 .. Len(posted[c]) : target[posted[c][n]] = c
=============================================================================
