--------------------------- MODULE SessionProofs ---------------------------
(***************************************************************************)
(* Theorems about Session for any set of senders, any number of            *)
(* connections and any threshold; about the event bus, which delivers an   *)
(* event once to everyone it is owed to; and about the task scope, whose   *)
(* tasks do not run after it has been drained.                             *)
(***************************************************************************)
EXTENDS Session, EngineParts, SequenceLemmas

\* The time limits of a leaf that names no prover of its own.
USE SMTT(30), ZenonT(30)

(* What ties the slot to its connection: without one there are no            *)
(* references; ids grow; a thread about to hand over a message has one, and  *)
(* the size seen by a thread about to pop is still there unless Close has    *)
(* emptied the queue.                                                        *)
Served ==
  /\ mId = 0 => ~Referenced
  /\ mId <= lastId
  /\ \A w \in wire : w[1] <= lastId
  /\ \A c \in clean : c <= lastId
  /\ \A x \in Threads :
       /\ pc[x] \in {"snapshot", "submit"} => hand[x] # <<>>
       /\ pc[x] = "pop" => (mSendQueue = <<>> \/ mSendQueueSize > 0)

Inv == TypeOK /\ Served /\ OneSendAtATime /\ SizeExact

(* The slot starts in the pool, with nothing queued and nobody sending. *)
LEMMA InitInv == Init => Inv
<1> SUFFICES ASSUME Init PROVE Inv
  OBVIOUS
<1> USE BoundsAssumption DEF Init
<1>1. TypeOK
  <2>1. <<>> \in Seq(Senders)
    OBVIOUS
  <2>2. hand \in [Threads -> Seq(Senders)]
    BY <2>1
  <2>3. pushed \in [Connections -> Seq(Senders)] /\ posted \in [Connections -> Seq(Senders)]
    BY <2>1
  <2>4. mId \in 0 .. MaxConnections /\ lastId \in 0 .. MaxConnections
    OBVIOUS
  <2>5. target \in [Senders -> 0 .. MaxConnections]
    OBVIOUS
  <2> QED
    BY <2>1, <2>2, <2>3, <2>4, <2>5, Zenon DEF TypeOK
<1>2. Served
  BY DEF Served, Referenced, Threads
<1>3. OneSendAtATime
  BY DEF OneSendAtATime, Owns
<1>4. SizeExact
  BY DEF SizeExact
<1> QED
  BY <1>1, <1>2, <1>3, <1>4 DEF Inv

(* Every step of every thread keeps the type, the bookkeeping of ids and     *)
(* references, the exclusive right to send and the exact size.               *)
LEMMA StepInv == Inv /\ [Next]_vars => Inv'
<1> SUFFICES ASSUME Inv, [Next]_vars PROVE Inv'
  OBVIOUS
<1> USE BoundsAssumption, ThreadsAssumption DEF Inv
<1>1. CASE CreateSession
  <2>1. TypeOK'
    <3>1. lastId + 1 \in Connections
      BY <1>1 DEF TypeOK, CreateSession, Connections
    <3>2. pc' \in [Threads -> {"idle", "send", "room", "push", "flush", "post", "yield",
                         "recheck", "pop", "snapshot", "submit", "close", "drain",
                         "attach", "remove", "removeClose", "removeDrain", "erase",
                         "done"}]
      BY <1>1, Zenon DEF TypeOK, CreateSession, Goto
    <3>3. clean' \subseteq Connections
      BY <1>1, <3>1 DEF TypeOK, CreateSession
    <3>4. mId' \in 0 .. MaxConnections /\ lastId' \in 0 .. MaxConnections
      BY <1>1, <3>1 DEF CreateSession, Connections
    <3>5. mState' = "Connected" /\ registered' = TRUE /\ mIsSending' = FALSE /\ mSendQueueSize' = 0
      BY <1>1 DEF CreateSession
    <3>6. UNCHANGED <<mAsyncProvider, mSendQueue, hand, target, wire, pushed, posted>>
      BY <1>1 DEF CreateSession, history
    <3> QED
      BY <3>2, <3>3, <3>4, <3>5, <3>6, Zenon DEF TypeOK
  <2>2. Served'
    <3>1. \A x \in Threads : pc'[x] = pc[x] \/ pc'[x] = "attach"
      BY <1>1 DEF TypeOK, CreateSession, Goto, Threads
    <3>2. \A x \in Threads : pc[x] \in {"idle", "done"}
      BY <1>1 DEF Served, Referenced, CreateSession
    <3>3. \A c \in clean' : c <= lastId'
      BY <1>1 DEF TypeOK, Served, CreateSession, Connections
    <3>4. \A w \in wire' : w[1] <= lastId'
      <4>1. \A w \in wire : w[1] \in Nat /\ w[1] <= lastId
        BY DEF TypeOK, Served, Connections
      <4> QED
        BY <1>1, <4>1 DEF TypeOK, CreateSession
    <3>5. mId' # 0 /\ mId' <= lastId'
      BY <1>1 DEF TypeOK, CreateSession
    <3> QED
      BY <3>1, <3>2, <3>3, <3>4, <3>5 DEF Served
  <2>3. OneSendAtATime'
    <3>1. \A x \in Threads : ~Owns(x)'
      BY <1>1, Zenon DEF TypeOK, Served, Referenced, CreateSession, Goto, Owns
    <3>2. \A w \in wire' : w[1] # mId'
      <4>1. \A w \in wire : w[1] \in Nat /\ w[1] <= lastId
        BY DEF TypeOK, Served, Connections
      <4> QED
        BY <1>1, <4>1 DEF TypeOK, CreateSession
    <3> QED
      BY <3>1, <3>2 DEF OneSendAtATime
  <2>4. SizeExact'
    BY <1>1 DEF TypeOK, Served, Referenced, SizeExact, Threads, Connections, CreateSession,
       Goto, history
  <2> QED
    BY <2>1, <2>2, <2>3, <2>4
<1>2. CASE AttachProvider
  <2>1. TypeOK'
    BY <1>2, Zenon DEF TypeOK, Threads, AttachProvider, Goto, queue, life, history
  <2>2. Served'
    BY <1>2, SMTT(30) DEF TypeOK, Served, Referenced, Threads, AttachProvider, Goto, queue, life,
       history
  <2>3. OneSendAtATime'
    <3>1. \A x \in Threads : Owns(x)' => Owns(x)
      BY <1>2 DEF TypeOK, AttachProvider, Goto, Threads, Owns
    <3> QED
      BY <1>2, <3>1 DEF OneSendAtATime, AttachProvider, life
  <2>4. SizeExact'
    BY <1>2 DEF SizeExact, AttachProvider, queue, life, history
  <2> QED
    BY <2>1, <2>2, <2>3, <2>4
<1>3. CASE ReleaseInternal
  <2>1. TypeOK'
    <3>1. mSendQueue' \in Seq(Senders)
      BY <1>3 DEF TypeOK, ReleaseInternal
    <3>2. mAsyncProvider' \in BOOLEAN
      BY <1>3 DEF TypeOK, ReleaseInternal
    <3>3. mId' \in 0 .. MaxConnections /\ mState' = "None" /\ mIsSending' = FALSE /\ mSendQueueSize' = 0
      BY <1>3 DEF ReleaseInternal
    <3>4. UNCHANGED <<registered, lastId, clean, pc, hand, target, wire, pushed, posted>>
      BY <1>3 DEF ReleaseInternal, history
    <3> QED
      BY <3>1, <3>2, <3>3, <3>4, Zenon DEF TypeOK
  <2>2. Served'
    <3>1. ~Referenced'
      BY <1>3 DEF Referenced, ReleaseInternal
    <3>2. \A x \in Threads : pc'[x] \in {"idle", "done"}
      BY <1>3 DEF Referenced, ReleaseInternal
    <3>3. mId' <= lastId'
      BY <1>3 DEF TypeOK, ReleaseInternal
    <3>4. wire' = wire /\ clean' = clean /\ lastId' = lastId
      BY <1>3 DEF ReleaseInternal
    <3> QED
      BY <3>1, <3>2, <3>3, <3>4 DEF Served
  <2>3. OneSendAtATime'
    <3>1. \A x \in Threads : ~Owns(x)'
      BY <1>3 DEF Referenced, ReleaseInternal, Owns
    <3>2. \A w \in wire' : w[1] # mId'
      BY <1>3 DEF TypeOK, ReleaseInternal, Connections
    <3> QED
      BY <3>1, <3>2 DEF OneSendAtATime
  <2>4. SizeExact'
    BY <1>3 DEF TypeOK, Served, Referenced, SizeExact, Threads, Connections,
       ReleaseInternal, history
  <2> QED
    BY <2>1, <2>2, <2>3, <2>4
<1>4. CASE Disconnect
  <2>1. TypeOK'
    BY <1>4 DEF TypeOK, Threads, Disconnect, Goto, queue, life, history
  <2>2. Served'
    BY <1>4 DEF TypeOK, Served, Referenced, Threads, Disconnect, Goto, queue, life, history
  <2>3. OneSendAtATime'
    BY <1>4 DEF TypeOK, OneSendAtATime, Owns, Threads, Disconnect, Goto, queue, life,
       history
  <2>4. SizeExact'
    BY <1>4 DEF SizeExact, Disconnect, queue, life, history
  <2> QED
    BY <2>1, <2>2, <2>3, <2>4
<1>5. ASSUME NEW s \in Senders, SendData(s) PROVE Inv'
  <2>1. TypeOK'
    BY <1>5 DEF TypeOK, Threads, SendData, Goto, queue, life, history
  <2>2. Served'
    BY <1>5 DEF TypeOK, Served, Referenced, Threads, SendData, Goto, queue, life, history
  <2>3. OneSendAtATime'
    BY <1>5 DEF TypeOK, OneSendAtATime, Owns, Threads, SendData, Goto, queue, life, history
  <2>4. SizeExact'
    BY <1>5 DEF SizeExact, SendData, queue, life, history
  <2> QED
    BY <2>1, <2>2, <2>3, <2>4
<1>6. ASSUME NEW s \in Senders, Send_Check(s) PROVE Inv'
  <2>1. TypeOK'
    BY <1>6 DEF TypeOK, Threads, Send_Check, Goto, queue, life, history
  <2>2. Served'
    BY <1>6 DEF TypeOK, Served, Referenced, Threads, Send_Check, Goto, queue, life, history
  <2>3. OneSendAtATime'
    BY <1>6 DEF TypeOK, OneSendAtATime, Owns, Threads, Send_Check, Goto, queue, life,
       history
  <2>4. SizeExact'
    BY <1>6 DEF SizeExact, Send_Check, queue, life, history
  <2> QED
    BY <2>1, <2>2, <2>3, <2>4
<1>7. ASSUME NEW s \in Senders, Send_Backpressure(s) PROVE Inv'
  <2>1. TypeOK'
    BY <1>7 DEF TypeOK, Threads, Send_Backpressure, Goto, queue, life, history
  <2>2. Served'
    BY <1>7, Zenon DEF TypeOK, Served, Referenced, Threads, Send_Backpressure, Goto, queue, life,
       history
  <2>3. OneSendAtATime'
    BY <1>7 DEF TypeOK, OneSendAtATime, Owns, Threads, Send_Backpressure, Goto, queue,
       life, history
  <2>4. SizeExact'
    BY <1>7 DEF SizeExact, Send_Backpressure, queue, life, history
  <2> QED
    BY <2>1, <2>2, <2>3, <2>4
<1>8. ASSUME NEW s \in Senders, Send_Push(s) PROVE Inv'
  <2>1. TypeOK'
    <3>1. mSendQueue' \in Seq(Senders)
      BY <1>8 DEF TypeOK, Send_Push
    <3>2. pushed' \in [Connections -> Seq(Senders)]
      <4>1. \A c \in Connections : Append(pushed[c], s) \in Seq(Senders)
        BY DEF TypeOK
      <4> QED
        BY <1>8, <4>1, Zenon DEF TypeOK, Send_Push
    <3>3. s \in Threads
      BY DEF Threads
    <3> QED
      BY <1>8, <3>1, <3>2, <3>3, SMTT(30) DEF TypeOK, Send_Push, Goto, life
  <2>2. Served'
    <3>1. \A x \in Threads : pc'[x] = pc[x] \/ pc'[x] = "flush"
      BY <1>8 DEF TypeOK, Send_Push, Goto, Threads
    <3>2. mId # 0
      BY <1>8 DEF Served, Referenced, Send_Push, Threads
    <3>3. mSendQueueSize' > 0
      BY <1>8 DEF TypeOK, Send_Push
    <3>4. UNCHANGED <<hand, mId, lastId, wire, clean>>
      BY <1>8 DEF Send_Push, life
    <3> QED
      BY <3>1, <3>2, <3>3, <3>4 DEF Served
  <2>3. OneSendAtATime'
    BY <1>8 DEF TypeOK, OneSendAtATime, Owns, Threads, Send_Push, Goto, life
  <2>4. SizeExact'
    BY <1>8 DEF SizeExact, Send_Push, life
  <2> QED
    BY <2>1, <2>2, <2>3, <2>4
<1>9. ASSUME NEW x \in Workers, SendCompletion(x) PROVE Inv'
  <2>1. TypeOK'
    BY <1>9, Zenon DEF TypeOK, Threads, SendCompletion, Goto, queue, life, history
  <2>2. Served'
    BY <1>9, Zenon DEF TypeOK, Served, Referenced, Threads, SendCompletion, Goto, queue, life,
       history
  <2>3. OneSendAtATime'
    <3>1. PICK w \in wire :
             /\ wire' = wire \ {w}
             /\ UNCHANGED pc \/ Goto(x, "remove") \/ (w[1] = mId /\ Goto(x, "post"))
      BY <1>9 DEF SendCompletion
    <3>2. wire' \subseteq wire /\ mId' = mId /\ mIsSending' = mIsSending
      BY <1>9, <3>1 DEF SendCompletion, life
    <3>3. CASE UNCHANGED pc
      BY <3>2, <3>3 DEF OneSendAtATime, Owns
    <3>4. CASE Goto(x, "remove")
      <4>1. \A y \in Threads : Owns(y)' => Owns(y)
        BY <3>4 DEF TypeOK, Goto, Threads, Owns
      <4> QED
        BY <3>2, <4>1 DEF OneSendAtATime
    <3>5. CASE w[1] = mId /\ Goto(x, "post")
      <4>1. mIsSending /\ \A y \in Threads : ~Owns(y)
        BY <3>5 DEF OneSendAtATime
      <4>2. \A y \in Threads : Owns(y)' => y = x
        BY <3>5, <4>1 DEF TypeOK, Goto, Threads, Owns
      <4>3. \A v \in wire' : v[1] # mId'
        BY <3>1, <3>2, <3>5 DEF OneSendAtATime
      <4> QED
        BY <3>2, <4>1, <4>2, <4>3 DEF OneSendAtATime
    <3> QED
      BY <3>1, <3>3, <3>4, <3>5
  <2>4. SizeExact'
    BY <1>9 DEF SizeExact, SendCompletion, queue, life, history
  <2> QED
    BY <2>1, <2>2, <2>3, <2>4
<1>10. ASSUME NEW x \in Threads, FlushSendQueue(x) PROVE Inv'
  <2>1. TypeOK'
    BY <1>10 DEF TypeOK, Threads, FlushSendQueue, Goto, Return, queue, life, history
  <2>2. Served'
    BY <1>10 DEF TypeOK, Served, Referenced, Threads, FlushSendQueue, Goto, Return, queue,
       life, history
  <2>3. OneSendAtATime'
    BY <1>10 DEF TypeOK, OneSendAtATime, Owns, Threads, FlushSendQueue, Goto, Return,
       queue, life, history
  <2>4. SizeExact'
    BY <1>10 DEF SizeExact, FlushSendQueue, queue, life, history
  <2> QED
    BY <2>1, <2>2, <2>3, <2>4
<1>11. ASSUME NEW x \in Threads, PostSend(x) PROVE Inv'
  <2>1. TypeOK'
    BY <1>11 DEF TypeOK, Threads, PostSend, Goto, queue, life, history
  <2>2. Served'
    <3>1. \A y \in Threads : y # x => pc'[y] = pc[y]
      BY <1>11 DEF TypeOK, PostSend, Goto
    <3>2. pc'[x] \in {"yield", "pop"} /\ (pc'[x] = "pop" => mSendQueueSize > 0)
      BY <1>11 DEF TypeOK, PostSend, Goto
    <3>3. mId # 0
      BY <1>11 DEF Served, Referenced, PostSend
    <3>4. UNCHANGED <<hand, mId, lastId, wire, clean, mSendQueue, mSendQueueSize>>
      BY <1>11 DEF PostSend, life, queue
    <3> QED
      BY <3>1, <3>2, <3>3, <3>4 DEF Served
  <2>3. OneSendAtATime'
    BY <1>11 DEF TypeOK, OneSendAtATime, Owns, Threads, PostSend, Goto, queue, life, history
  <2>4. SizeExact'
    BY <1>11 DEF SizeExact, PostSend, queue, life, history
  <2> QED
    BY <2>1, <2>2, <2>3, <2>4
<1>12. ASSUME NEW x \in Threads, PostSend_Yield(x) PROVE Inv'
  <2>1. TypeOK'
    BY <1>12, Zenon DEF TypeOK, Threads, PostSend_Yield, Goto, queue, life, history
  <2>2. Served'
    BY <1>12, Zenon DEF TypeOK, Served, Referenced, Threads, PostSend_Yield, Goto, queue, life,
       history
  <2>3. OneSendAtATime'
    BY <1>12 DEF TypeOK, OneSendAtATime, Owns, Threads, PostSend_Yield, Goto, queue, life,
       history
  <2>4. SizeExact'
    BY <1>12 DEF SizeExact, PostSend_Yield, queue, life, history
  <2> QED
    BY <2>1, <2>2, <2>3, <2>4
<1>13. ASSUME NEW x \in Threads, PostSend_Recheck(x) PROVE Inv'
  <2>1. TypeOK'
    BY <1>13 DEF TypeOK, Threads, PostSend_Recheck, Goto, Return, queue, life, history
  <2>2. Served'
    BY <1>13, Zenon DEF TypeOK, Served, Referenced, Threads, PostSend_Recheck, Goto, Return,
       queue, life, history
  <2>3. OneSendAtATime'
    BY <1>13 DEF TypeOK, OneSendAtATime, Owns, Threads, PostSend_Recheck, Goto, Return,
       queue, life, history
  <2>4. SizeExact'
    BY <1>13 DEF SizeExact, PostSend_Recheck, queue, life, history
  <2> QED
    BY <2>1, <2>2, <2>3, <2>4
<1>14. ASSUME NEW x \in Threads, PostSend_Pop(x) PROVE Inv'
  <2>1. TypeOK'
    <3>1. mSendQueue' \in Seq(Senders)
      <4>1. mSendQueue # <<>> => Tail(mSendQueue) \in Seq(Senders)
        BY DEF TypeOK
      <4> QED
        BY <1>14, <4>1, Zenon DEF TypeOK, PostSend_Pop, queue
    <3>2. mSendQueueSize' \in Nat
      BY <1>14 DEF TypeOK, Served, PostSend_Pop, queue
    <3>3. hand' \in [Threads -> Seq(Senders)]
      <4>1. CASE mSendQueue # <<>>
        <5>1. <<Head(mSendQueue)>> \in Seq(Senders)
          BY <4>1 DEF TypeOK
        <5> QED
          BY <1>14, <4>1, <5>1, Zenon DEF TypeOK, PostSend_Pop
      <4> QED
        BY <1>14, <4>1 DEF TypeOK, PostSend_Pop
    <3> QED
      BY <1>14, <3>1, <3>2, <3>3, Zenon DEF TypeOK, PostSend_Pop, Goto, Return, life, history
  <2>2. Served'
    <3>1. \A y \in Threads : y # x => pc'[y] = pc[y] /\ hand'[y] = hand[y]
      BY <1>14 DEF TypeOK, PostSend_Pop, Goto
    <3>2. pc'[x] \in {"snapshot", "idle", "done"}
      BY <1>14 DEF TypeOK, PostSend_Pop, Goto, Return
    <3>3. pc'[x] = "snapshot" => hand'[x] # <<>>
      <4>1. CASE mSendQueue = <<>>
        BY <1>14, <4>1 DEF TypeOK, PostSend_Pop, Goto, Return
      <4>2. CASE mSendQueue # <<>>
        <5>1. hand'[x] = <<Head(mSendQueue)>>
          BY <1>14, <4>2 DEF TypeOK, PostSend_Pop
        <5> QED
          BY <5>1
      <4> QED
        BY <4>1, <4>2
    <3>4. \A y \in Threads : pc'[y] # "pop"
      BY <1>14, <3>1, <3>2 DEF OneSendAtATime, Owns, PostSend_Pop
    <3>5. mId # 0
      BY <1>14 DEF Served, Referenced, PostSend_Pop
    <3>6. UNCHANGED <<mId, lastId, wire, clean>>
      BY <1>14 DEF PostSend_Pop, life
    <3> QED
      BY <3>1, <3>2, <3>3, <3>4, <3>5, <3>6 DEF Served
  <2>3. OneSendAtATime'
    BY <1>14 DEF TypeOK, OneSendAtATime, Owns, Threads, PostSend_Pop, Goto, Return, queue,
       life, history
  <2>4. SizeExact'
    <3>1. mSendQueue # <<>> => Len(Tail(mSendQueue)) = Len(mSendQueue) - 1
      BY DEF TypeOK
    <3> QED
      BY <1>14, <3>1 DEF SizeExact, PostSend_Pop, life, queue
  <2> QED
    BY <2>1, <2>2, <2>3, <2>4
<1>15. ASSUME NEW x \in Threads, PostSend_Snapshot(x) PROVE Inv'
  <2>1. TypeOK'
    <3>1. hand' \in [Threads -> Seq(Senders)]
      <4>1. <<>> \in Seq(Senders)
        OBVIOUS
      <4> QED
        BY <1>15, <4>1, Zenon DEF TypeOK, PostSend_Snapshot
    <3> QED
      BY <1>15, <3>1, Zenon DEF TypeOK, PostSend_Snapshot, Goto, Return, queue, life, history
  <2>2. Served'
    BY <1>15, Zenon DEF TypeOK, Served, Referenced, Threads, PostSend_Snapshot, Goto, Return,
       queue, life, history
  <2>3. OneSendAtATime'
    BY <1>15, Zenon DEF TypeOK, OneSendAtATime, Owns, Threads, PostSend_Snapshot, Goto, Return,
       queue, life, history
  <2>4. SizeExact'
    BY <1>15 DEF SizeExact, PostSend_Snapshot, queue, life, history
  <2> QED
    BY <2>1, <2>2, <2>3, <2>4
<1>16. ASSUME NEW x \in Threads, PostSend_Submit(x) PROVE Inv'
  <2>1. TypeOK'
    <3>1. hand' \in [Threads -> Seq(Senders)]
      BY <1>16 DEF TypeOK, PostSend_Submit
    <3>2. Head(hand[x]) \in Senders
      BY <1>16 DEF TypeOK, Served, PostSend_Submit
    <3>3. mId \in Connections
      <4>1. mId # 0
        BY <1>16 DEF Served, Referenced, PostSend_Submit
      <4> QED
        BY <4>1 DEF TypeOK, Connections
    <3>4. wire' \subseteq (Connections \X Senders)
      BY <1>16, <3>2, <3>3 DEF TypeOK, PostSend_Submit
    <3>5. posted' \in [Connections -> Seq(Senders)]
      <4>1. Append(posted[mId], Head(hand[x])) \in Seq(Senders)
        BY <3>2, <3>3 DEF TypeOK
      <4> QED
        BY <1>16, <4>1, Zenon DEF TypeOK, PostSend_Submit
    <3> QED
      BY <1>16, <3>1, <3>4, <3>5, Zenon DEF TypeOK, PostSend_Submit, Goto, Return, queue, life
  <2>2. Served'
    <3>1. \A y \in Threads : y # x => pc'[y] = pc[y] /\ hand'[y] = hand[y]
      BY <1>16 DEF TypeOK, PostSend_Submit, Goto
    <3>2. pc'[x] \in {"close", "idle", "done"}
      BY <1>16 DEF TypeOK, PostSend_Submit, Goto, Return
    <3>3. mId # 0
      BY <1>16 DEF Served, Referenced, PostSend_Submit
    <3>4. UNCHANGED <<mId, lastId, clean, mSendQueue, mSendQueueSize>>
      BY <1>16 DEF PostSend_Submit, life, queue
    <3>5. \A w \in wire' : w \in wire \/ w[1] = mId
      BY <1>16 DEF PostSend_Submit
    <3> QED
      BY <3>1, <3>2, <3>3, <3>4, <3>5 DEF Served
  <2>3. OneSendAtATime'
    <3>1. Owns(x) /\ mIsSending /\ \A w \in wire : w[1] # mId
      BY <1>16 DEF OneSendAtATime, Owns, PostSend_Submit
    <3>2. \A y \in Threads : ~Owns(y)'
      BY <1>16, <3>1, Zenon DEF TypeOK, OneSendAtATime, Owns, PostSend_Submit, Goto, Return
    <3>3. CASE wire' = wire
      BY <1>16, <3>1, <3>2, <3>3 DEF OneSendAtATime, PostSend_Submit, life
    <3>4. CASE wire' = wire \cup {<<mId, Head(hand[x])>>} /\ UNCHANGED mIsSending
      BY <1>16, <3>1, <3>2, <3>4 DEF OneSendAtATime, PostSend_Submit, life
    <3> QED
      BY <1>16, <3>3, <3>4 DEF PostSend_Submit
  <2>4. SizeExact'
    BY <1>16 DEF SizeExact, PostSend_Submit, queue, life
  <2> QED
    BY <2>1, <2>2, <2>3, <2>4
<1>17. ASSUME NEW x \in Threads, Close(x) PROVE Inv'
  <2>1. TypeOK'
    BY <1>17 DEF TypeOK, Threads, Close, Goto, Return, queue, life, history
  <2>2. Served'
    BY <1>17, Zenon DEF TypeOK, Served, Referenced, Threads, Close, Goto, Return, queue, life,
       history
  <2>3. OneSendAtATime'
    BY <1>17, SMTT(30) DEF TypeOK, OneSendAtATime, Owns, Threads, Close, Goto, Return, queue, life,
       history
  <2>4. SizeExact'
    BY <1>17 DEF SizeExact, Close, queue, life, history
  <2> QED
    BY <2>1, <2>2, <2>3, <2>4
<1>18. ASSUME NEW x \in Threads, Close_Drain(x) PROVE Inv'
  <2>1. TypeOK'
    <3>1. mSendQueue' \in Seq(Senders)
      BY <1>18 DEF Close_Drain
    <3> QED
      BY <1>18, <3>1, Zenon DEF TypeOK, Close_Drain, Goto, Return, life, history
  <2>2. Served'
    BY <1>18, Zenon DEF TypeOK, Served, Referenced, Threads, Close_Drain, Goto, Return, life,
       history
  <2>3. OneSendAtATime'
    BY <1>18 DEF TypeOK, OneSendAtATime, Owns, Threads, Close_Drain, Goto, Return, life,
       history
  <2>4. SizeExact'
    BY <1>18 DEF SizeExact, Close_Drain, life, history
  <2> QED
    BY <2>1, <2>2, <2>3, <2>4
<1>19. ASSUME NEW x \in Threads, RemoveSession(x) PROVE Inv'
  <2>1. TypeOK'
    BY <1>19 DEF TypeOK, Threads, RemoveSession, Goto, queue, life, history
  <2>2. Served'
    BY <1>19, Zenon DEF TypeOK, Served, Referenced, Threads, RemoveSession, Goto, queue, life,
       history
  <2>3. OneSendAtATime'
    BY <1>19 DEF TypeOK, OneSendAtATime, Owns, Threads, RemoveSession, Goto, queue, life,
       history
  <2>4. SizeExact'
    BY <1>19 DEF SizeExact, RemoveSession, queue, life, history
  <2> QED
    BY <2>1, <2>2, <2>3, <2>4
<1>20. ASSUME NEW x \in Threads, RemoveSession_Erase(x) PROVE Inv'
  <2>1. TypeOK'
    BY <1>20, Zenon DEF TypeOK, Threads, RemoveSession_Erase, Goto, Return, queue, history
  <2>2. Served'
    BY <1>20 DEF TypeOK, Served, Referenced, Threads, RemoveSession_Erase, Goto, Return,
       queue, history
  <2>3. OneSendAtATime'
    BY <1>20 DEF TypeOK, OneSendAtATime, Owns, Threads, RemoveSession_Erase, Goto, Return,
       queue, history
  <2>4. SizeExact'
    BY <1>20 DEF SizeExact, RemoveSession_Erase, queue, history
  <2> QED
    BY <2>1, <2>2, <2>3, <2>4
<1>21. CASE UNCHANGED vars
  BY <1>21 DEF vars, TypeOK, Served, Referenced, OneSendAtATime, Owns, SizeExact
<1> QED
  BY <1>1, <1>2, <1>3, <1>4, <1>5, <1>6, <1>7, <1>8, <1>9, <1>10, <1>11, <1>12, <1>13,
       <1>14, <1>15, <1>16, <1>17, <1>18, <1>19, <1>20, <1>21 DEF Next, Send, Sending,
       Closing

(* The slot's state has its type at every step of every interleaving; in     *)
(* particular mSendQueueSize, which PostSend decrements, never wraps below   *)
(* zero, however Close, late pushes and the pops are ordered.                *)
THEOREM SessionTypeCorrect == Spec => []TypeOK
<1>1. Inv => TypeOK
  BY DEF Inv
<1> QED
  BY <1>1, InitInv, StepInv, PTL DEF Spec

(* For any number of senders and connections the right to send, taken by     *)
(* FlushSendQueue and handed through the provider to ProcessSendCompletion,  *)
(* is held once, through Close, failed sends and the reuse of the slot.      *)
THEOREM SendRightExclusive == Spec => []OneSendAtATime
<1>1. Inv => OneSendAtATime
  BY DEF Inv
<1> QED
  BY <1>1, InitInv, StepInv, PTL DEF Spec

(* For any number of senders the size that Send and PostSend read without    *)
(* the mutex agrees with the queue of a connection that began empty.         *)
THEOREM SizeCounterExact == Spec => []SizeExact
<1>1. Inv => SizeExact
  BY DEF Inv
<1> QED
  BY <1>1, InitInv, StepInv, PTL DEF Spec

(***************************************************************************)
(* The order of the messages                                               *)
(***************************************************************************)
(* p has elements of q only, each once and in q's order. *)
Kept(p, q) ==
  NoRepeat(p) /\ Holds(p) \subseteq Holds(q) /\ \A x, y : Precedes(p, x, y) => Precedes(q, x, y)

LEMMA NotItself == ASSUME NEW q, NEW x, NoRepeat(q), Precedes(q, x, x) PROVE FALSE
<1>1. PICK i \in 1 .. Len(q), j \in 1 .. Len(q) : i < j /\ q[i] = x /\ q[j] = x
  BY DEF Precedes
<1>2. i = j
  BY <1>1 DEF NoRepeat
<1> QED
  BY <1>1, <1>2

LEMMA KeptPut ==
  ASSUME NEW S, NEW p \in Seq(S), NEW q, NEW h \in S, Kept(p, q), NoRepeat(q), h \in Holds(q),
         \A u \in Holds(p) : Precedes(q, u, h)
  PROVE  Kept(Append(p, h), q) /\ Holds(Append(p, h)) = Holds(p) \cup {h}
<1>1. h \notin Holds(p)
  BY NotItself
<1>2. /\ Holds(Append(p, h)) = Holds(p) \cup {h}
      /\ NoRepeat(p) => NoRepeat(Append(p, h))
      /\ \A x, y : Precedes(Append(p, h), x, y) => Precedes(p, x, y) \/ (x \in Holds(p) /\ y = h)
  BY <1>1, PutNew
<1> QED
  BY <1>2 DEF Kept

LEMMA KeptGrow ==
  ASSUME NEW S, NEW p \in Seq(S), NEW q \in Seq(S), NEW e \in S, Kept(p, q), e \notin Holds(q)
  PROVE  Kept(p, Append(q, e)) /\ Kept(Append(p, e), Append(q, e)) /\ Holds(Append(p, e)) = Holds(p) \cup {e}
<1>1. /\ Holds(Append(q, e)) = Holds(q) \cup {e}
      /\ \A x, y : Precedes(q, x, y) => Precedes(Append(q, e), x, y)
      /\ \A x \in Holds(q) : Precedes(Append(q, e), x, e)
  BY PutNew
<1>2. e \notin Holds(p)
  BY DEF Kept
<1>3. /\ Holds(Append(p, e)) = Holds(p) \cup {e}
      /\ NoRepeat(p) => NoRepeat(Append(p, e))
      /\ \A x, y : Precedes(Append(p, e), x, y) => Precedes(p, x, y) \/ (x \in Holds(p) /\ y = e)
  BY <1>2, PutNew
<1> QED
  BY <1>1, <1>3 DEF Kept

Before == {"idle", "send", "room", "push"}

(* A sender is in the history of a connection only after its push, and a     *)
(* connection to come has none.                                              *)
Pushes(c) ==
  /\ NoRepeat(pushed[c]) /\ (c > lastId => pushed[c] = <<>> /\ posted[c] = <<>>)
  /\ \A s \in Senders : s \in Holds(pushed[c]) => pc[s] \notin Before
  /\ c \in clean => Kept(posted[c], pushed[c])

(* The message in the hand of the thread that sends comes after those posted *)
(* and before those queued.                                                  *)
Taken(x) ==
  /\ Head(hand[x]) \in Holds(pushed[mId])
  /\ \A u \in Holds(posted[mId]) : Precedes(pushed[mId], u, Head(hand[x]))
  /\ \A v \in Holds(mSendQueue) : Precedes(pushed[mId], Head(hand[x]), v)

OnItsWay ==
  mId \in clean =>
    /\ Kept(mSendQueue, pushed[mId])
    /\ \A u \in Holds(posted[mId]) : \A v \in Holds(mSendQueue) : Precedes(pushed[mId], u, v)
    /\ \A x \in Threads : pc[x] \in {"snapshot", "submit"} => Taken(x)

OrderInv == (\A c \in Connections : Pushes(c)) /\ OnItsWay

LEMMA OrderInit == ASSUME Init PROVE OrderInv
<1>1. Holds(<<>>) = {} /\ NoRepeat(<<>>)
  BY HoldsFew, Zenon
<1>2. \A x, y : ~Precedes(<<>>, x, y)
  BY DEF Precedes
<1>3. \A c \in Connections : pushed[c] = <<>> /\ posted[c] = <<>>
  BY DEF Init
<1>4. \A c \in Connections : Pushes(c)
  BY <1>1, <1>3 DEF Init, Pushes
<1> QED
  BY <1>4 DEF Init, OrderInv, OnItsWay

(* A step that moves no message: nobody takes one in hand, nobody goes back  *)
(* before the push.                                                          *)
LEMMA OrderQuiet ==
  ASSUME OrderInv, UNCHANGED <<mId, lastId, clean, pushed, posted>>,
         UNCHANGED mSendQueue \/ mSendQueue' = <<>>,
         \A s \in Senders : pc'[s] \in Before => pc[s] \in Before,
         \A x \in Threads : pc'[x] \in {"snapshot", "submit"} =>
                              pc[x] \in {"snapshot", "submit"} /\ hand'[x] = hand[x]
  PROVE  OrderInv'
<1>1. ASSUME NEW c \in Connections PROVE Pushes(c)'
  <2>1. Pushes(c)
    BY Zenon DEF OrderInv
  <2> QED
    BY <2>1 DEF Pushes
<1>2. OnItsWay'
  <2>1. CASE UNCHANGED mSendQueue
    BY <2>1, Zenon DEF OrderInv, OnItsWay, Taken
  <2>2. CASE mSendQueue' = <<>>
    <3>1. Holds(mSendQueue') = {} /\ NoRepeat(mSendQueue')
      BY <2>2, HoldsFew, Zenon
    <3>2. \A x, y : ~Precedes(mSendQueue', x, y)
      BY <2>2 DEF Precedes
    <3>3. Kept(mSendQueue', pushed[mId])
      BY <3>1, <3>2 DEF Kept
    <3> QED
      BY <3>1, <3>3, Zenon DEF OrderInv, OnItsWay, Taken
  <2> QED
    BY <2>1, <2>2
<1> QED
  BY <1>1, <1>2 DEF OrderInv

LEMMA OrderCreate == ASSUME Inv, OrderInv, CreateSession PROVE OrderInv'
<1>1. /\ mId' = lastId + 1 /\ lastId' = lastId + 1 /\ lastId \in Nat /\ UNCHANGED <<mSendQueue, pushed, posted, hand>>
      /\ clean' = IF mSendQueue = <<>> THEN clean \cup {lastId + 1} ELSE clean
      /\ pc' = [pc EXCEPT ![acceptor] = "attach"] /\ lastId + 1 \in Connections
  BY BoundsAssumption DEF CreateSession, Goto, history, Inv, TypeOK, Connections
<1>2. \A x \in Threads : pc'[x] \notin {"snapshot", "submit"}
  BY <1>1, Zenon DEF CreateSession, Inv, TypeOK, Served, Referenced
<1>3. \A s \in Senders : pc'[s] = pc[s]
  BY <1>1, ThreadsAssumption DEF Inv, TypeOK
<1>4. pushed[lastId + 1] = <<>> /\ posted[lastId + 1] = <<>>
  BY <1>1 DEF OrderInv, Pushes
<1>5. Holds(<<>>) = {} /\ NoRepeat(<<>>)
  BY HoldsFew, Zenon
<1>6. \A x, y : ~Precedes(<<>>, x, y)
  BY DEF Precedes
<1>7. Kept(<<>>, <<>>)
  BY <1>5, <1>6 DEF Kept
<1>8. ASSUME NEW c \in Connections PROVE Pushes(c)'
  <2>1. Pushes(c) /\ (c > lastId' => c > lastId)
    BY <1>1 DEF OrderInv, Connections
  <2>2. CASE c = lastId + 1
    BY <1>1, <1>3, <1>4, <1>7, <2>1, <2>2 DEF Pushes
  <2>3. CASE c # lastId + 1
    BY <1>1, <1>3, <2>1, <2>3 DEF Pushes
  <2> QED
    BY <2>2, <2>3
<1>9. OnItsWay'
  <2>1. lastId + 1 \notin clean
    BY <1>1 DEF Inv, Served, TypeOK, Connections
  <2>2. CASE mSendQueue = <<>>
    BY <1>1, <1>2, <1>4, <1>5, <1>7, <2>2 DEF OnItsWay
  <2>3. CASE mSendQueue # <<>>
    BY <1>1, <2>1, <2>3 DEF OnItsWay
  <2> QED
    BY <2>2, <2>3
<1> QED
  BY <1>8, <1>9 DEF OrderInv

LEMMA OrderPush == ASSUME Inv, OrderInv, NEW s \in Senders, Send_Push(s) PROVE OrderInv'
<1>1. /\ pc[s] = "push" /\ pc' = [pc EXCEPT ![s] = "flush"] /\ UNCHANGED <<mId, lastId, clean, hand, posted>>
      /\ mSendQueue' = Append(mSendQueue, s) /\ pushed' = [pushed EXCEPT ![mId] = Append(@, s)]
  BY DEF Send_Push, Goto, life
<1>2. s \in Threads /\ mId \in Connections /\ mId <= lastId
  <2>1. s \in Threads
    BY DEF Threads
  <2>2. mId # 0 /\ mId <= lastId
    BY <1>1, <2>1 DEF Inv, Served, Referenced
  <2> QED
    BY <2>1, <2>2 DEF Inv, TypeOK, Connections
<1>3. /\ pushed[mId] \in Seq(Senders) /\ posted[mId] \in Seq(Senders) /\ mSendQueue \in Seq(Senders)
      /\ pushed'[mId] = Append(pushed[mId], s) /\ \A c \in Connections \ {mId} : pushed'[c] = pushed[c]
      /\ s \notin Holds(pushed[mId]) /\ mId \in Nat /\ lastId \in Nat
  BY <1>1, <1>2 DEF Inv, TypeOK, OrderInv, Pushes, Before
<1>4. /\ Holds(pushed'[mId]) = Holds(pushed[mId]) \cup {s}
      /\ NoRepeat(pushed[mId]) => NoRepeat(pushed'[mId])
      /\ \A x, y : Precedes(pushed[mId], x, y) => Precedes(pushed'[mId], x, y)
      /\ \A x \in Holds(pushed[mId]) : Precedes(pushed'[mId], x, s)
  BY <1>3, PutNew
<1>5. \A x \in Threads : /\ pc'[x] \in {"snapshot", "submit"} => pc[x] \in {"snapshot", "submit"}
                         /\ pc'[x] \in Before => pc[x] \in Before
  BY <1>1, <1>2 DEF Inv, TypeOK, Before
<1>6. pc'[s] \notin Before /\ \A x \in Senders : x \in Threads
  BY <1>1, <1>2 DEF Inv, TypeOK, Before, Threads
<1>7. Pushes(mId)'
  <2>1. Pushes(mId)
    BY <1>2 DEF OrderInv
  <2>2. NoRepeat(pushed'[mId])
    BY <1>4, <2>1 DEF Pushes
  <2>3. ~(mId > lastId)
    BY <1>2, <1>3
  <2>4. \A x \in Senders : x \in Holds(pushed'[mId]) => pc'[x] \notin Before
    BY <1>4, <1>5, <1>6, <2>1, Zenon DEF Pushes
  <2>5. mId \in clean => Kept(posted[mId], pushed'[mId])
    BY <1>3, <2>1, KeptGrow DEF Pushes
  <2> QED
    BY <1>1, <2>2, <2>3, <2>4, <2>5 DEF Pushes
<1>8. ASSUME NEW c \in Connections \ {mId} PROVE Pushes(c)'
  <2>1. Pushes(c)
    BY DEF OrderInv
  <2> QED
    BY <1>1, <1>3, <1>5, <1>6, <2>1, Zenon DEF Pushes
<1>9. ASSUME mId \in clean PROVE OnItsWay'
  <2>1. /\ Kept(mSendQueue, pushed[mId]) /\ Kept(posted[mId], pushed[mId])
        /\ \A u \in Holds(posted[mId]) : \A v \in Holds(mSendQueue) : Precedes(pushed[mId], u, v)
        /\ \A x \in Threads : pc[x] \in {"snapshot", "submit"} => Taken(x)
    BY <1>2, <1>9, Zenon DEF OrderInv, OnItsWay, Pushes
  <2>2. Kept(mSendQueue', pushed'[mId]) /\ Holds(mSendQueue') = Holds(mSendQueue) \cup {s}
    BY <1>1, <1>3, <2>1, KeptGrow
  <2>3. \A u \in Holds(posted[mId]) : \A v \in Holds(mSendQueue') : Precedes(pushed'[mId], u, v)
    BY <1>4, <2>1, <2>2, Zenon DEF Kept
  <2>4. ASSUME NEW x \in Threads, pc'[x] \in {"snapshot", "submit"} PROVE Taken(x)'
    <3>1. Taken(x)
      BY <1>5, <2>1, <2>4, Zenon
    <3> QED
      BY <1>1, <1>4, <2>2, <3>1, Zenon DEF Taken
  <2> QED
    BY <1>1, <2>2, <2>3, <2>4, Zenon DEF OnItsWay
<1>10. OnItsWay'
  BY <1>1, <1>9 DEF OnItsWay
<1> QED
  BY <1>1, <1>7, <1>8, <1>10 DEF OrderInv

LEMMA OrderPop == ASSUME Inv, OrderInv, NEW x \in Threads, PostSend_Pop(x) PROVE OrderInv'
<1>1. /\ UNCHANGED <<mId, lastId, clean, pushed, posted>> /\ pc[x] = "pop"
      /\ \A y \in Threads \ {x} : pc'[y] = pc[y]
  BY DEF PostSend_Pop, Goto, life, history, Inv, TypeOK
<1>2. CASE mSendQueue = <<>>
  <2>1. UNCHANGED <<mSendQueue, hand>> /\ pc' = [pc EXCEPT ![x] = Return(x)]
    BY <1>2 DEF PostSend_Pop, Goto, queue
  <2>2. pc'[x] = "done" \/ (pc'[x] = "idle" /\ x \notin Senders)
    BY <2>1 DEF Return, Inv, TypeOK
  <2>3. \A s \in Senders : s \in Threads /\ (pc'[s] \in Before => pc[s] \in Before)
    BY <1>1, <2>2 DEF Before, Threads
  <2>4. \A y \in Threads : pc'[y] \in {"snapshot", "submit"} => pc[y] \in {"snapshot", "submit"} /\ hand'[y] = hand[y]
    BY <1>1, <2>1, <2>2
  <2> QED
    BY <1>1, <2>1, <2>3, <2>4, OrderQuiet
<1>3. CASE mSendQueue # <<>>
  <2>1. /\ hand' = [hand EXCEPT ![x] = <<Head(mSendQueue)>>] /\ mSendQueue' = Tail(mSendQueue)
        /\ pc' = [pc EXCEPT ![x] = "snapshot"]
    BY <1>3 DEF PostSend_Pop, Goto
  <2>2. pc'[x] = "snapshot" /\ hand'[x] = <<Head(mSendQueue)>>
    BY <2>1 DEF Inv, TypeOK
  <2>3. Head(hand'[x]) = Head(mSendQueue)
    BY <2>2
  <2>4. \A s \in Senders : pc'[s] \in Before => pc[s] \in Before
    BY <1>1, <2>2 DEF Before, Threads
  <2>5. ASSUME NEW c \in Connections PROVE Pushes(c)'
    <3>1. Pushes(c)
      BY DEF OrderInv
    <3> QED
      BY <1>1, <2>4, <3>1 DEF Pushes
  <2>6. \A y \in Threads : pc'[y] \in {"snapshot", "submit"} => y = x
    BY <1>1, Zenon DEF Inv, OneSendAtATime, Owns
  <2>7. ASSUME mId \in clean PROVE OnItsWay'
    <3>1. /\ Kept(mSendQueue, pushed[mId])
          /\ \A u \in Holds(posted[mId]) : \A v \in Holds(mSendQueue) : Precedes(pushed[mId], u, v)
      BY <2>7, Zenon DEF OrderInv, OnItsWay
    <3>2. /\ Head(mSendQueue) \in Holds(mSendQueue) /\ Holds(Tail(mSendQueue)) \subseteq Holds(mSendQueue)
          /\ NoRepeat(Tail(mSendQueue))
          /\ \A a, b : Precedes(Tail(mSendQueue), a, b) => Precedes(mSendQueue, a, b)
          /\ \A b \in Holds(Tail(mSendQueue)) : Precedes(mSendQueue, Head(mSendQueue), b)
      <4>1. mSendQueue \in Seq(Senders) /\ NoRepeat(mSendQueue)
        BY <3>1 DEF Inv, TypeOK, Kept
      <4> QED
        BY <1>3, <4>1, TakeHead
    <3>3. Kept(Tail(mSendQueue), pushed[mId])
      BY <3>1, <3>2 DEF Kept
    <3>4. Taken(x)'
      BY <1>1, <2>1, <2>3, <3>1, <3>2 DEF Taken, Kept
    <3> QED
      BY <1>1, <2>1, <2>6, <3>1, <3>2, <3>3, <3>4, Zenon DEF OnItsWay
  <2> QED
    BY <1>1, <2>5, <2>7, Zenon DEF OrderInv, OnItsWay
<1> QED
  BY <1>2, <1>3

LEMMA OrderSubmit == ASSUME Inv, OrderInv, NEW x \in Threads, PostSend_Submit(x) PROVE OrderInv'
<1>1. /\ pc[x] = "submit" /\ UNCHANGED <<mId, lastId, clean, pushed, mSendQueue>>
      /\ \A y \in Threads \ {x} : pc'[y] = pc[y]
  BY DEF PostSend_Submit, Goto, life, queue, Inv, TypeOK
<1>2. pc'[x] \in {"done", "close"} \/ (pc'[x] = "idle" /\ x \notin Senders)
  BY DEF PostSend_Submit, Goto, Return, Inv, TypeOK
<1>3. \A s \in Senders : pc'[s] \in Before => pc[s] \in Before
  BY <1>1, <1>2 DEF Before, Threads
<1>4. \A y \in Threads : pc'[y] \notin {"snapshot", "submit"}
  BY <1>1, <1>2 DEF Inv, OneSendAtATime, Owns
<1>5. CASE UNCHANGED posted
  BY <1>1, <1>3, <1>4, <1>5, OrderQuiet
<1>6. CASE posted' = [posted EXCEPT ![mId] = Append(@, Head(hand[x]))]
  <2>1. mId \in Connections /\ mId <= lastId /\ mId \in Nat /\ lastId \in Nat
    <3>1. mId # 0 /\ mId <= lastId
      BY <1>1 DEF Inv, Served, Referenced
    <3> QED
      BY <3>1 DEF Inv, TypeOK, Connections
  <2>2. /\ posted'[mId] = Append(posted[mId], Head(hand[x])) /\ \A c \in Connections \ {mId} : posted'[c] = posted[c]
        /\ posted[mId] \in Seq(Senders) /\ pushed[mId] \in Seq(Senders)
    BY <1>6, <2>1 DEF Inv, TypeOK
  <2>3. Head(hand[x]) \in Senders
    BY <1>1 DEF Inv, TypeOK, Served
  <2>4. ASSUME mId \in clean
        PROVE  /\ Kept(posted'[mId], pushed[mId]) /\ Holds(posted'[mId]) = Holds(posted[mId]) \cup {Head(hand[x])}
               /\ \A v \in Holds(mSendQueue) : Precedes(pushed[mId], Head(hand[x]), v)
    <3>1. Taken(x) /\ Kept(posted[mId], pushed[mId]) /\ NoRepeat(pushed[mId])
      BY <1>1, <2>1, <2>4, Zenon DEF OrderInv, OnItsWay, Pushes
    <3>2. /\ Head(hand[x]) \in Holds(pushed[mId]) /\ \A u \in Holds(posted[mId]) : Precedes(pushed[mId], u, Head(hand[x]))
          /\ \A v \in Holds(mSendQueue) : Precedes(pushed[mId], Head(hand[x]), v)
      BY <3>1, Zenon DEF Taken
    <3> DEFINE p == posted[mId]
               q == pushed[mId]
               h == Head(hand[x])
    <3>3. /\ p \in Seq(Senders) /\ h \in Senders /\ Kept(p, q) /\ NoRepeat(q) /\ h \in Holds(q)
          /\ \A u \in Holds(p) : Precedes(q, u, h)
      BY <2>2, <2>3, <3>1, <3>2, Zenon
    <3> HIDE DEF p, q, h
    <3>4. Kept(Append(p, h), q) /\ Holds(Append(p, h)) = Holds(p) \cup {h}
      BY ONLY <3>3, KeptPut
    <3> QED
      BY <2>2, <3>2, <3>4, Zenon DEF p, q, h
  <2>5. Pushes(mId)'
    <3>1. Pushes(mId) /\ ~(mId > lastId)
      BY <2>1 DEF OrderInv
    <3> QED
      BY <1>1, <1>3, <2>4, <3>1, Zenon DEF Pushes
  <2>6. ASSUME NEW c \in Connections \ {mId} PROVE Pushes(c)'
    <3>1. Pushes(c)
      BY DEF OrderInv
    <3> QED
      BY <1>1, <1>3, <2>2, <3>1, Zenon DEF Pushes
  <2>7. OnItsWay'
    BY <1>1, <1>4, <2>4, Zenon DEF OrderInv, OnItsWay
  <2> QED
    BY <1>1, <2>5, <2>6, <2>7 DEF OrderInv
<1> QED
  BY <1>5, <1>6 DEF PostSend_Submit

LEMMA OrderStep == ASSUME Inv, OrderInv, [Next]_vars PROVE OrderInv'
<1>0. \A s \in Senders : s \in Threads
  BY DEF Threads
<1>1. ASSUME NEW s \in Senders, SendData(s) \/ Send_Check(s) \/ Send_Backpressure(s) PROVE OrderInv'
  <2>1. UNCHANGED <<mId, lastId, clean, pushed, posted, mSendQueue, hand>>
        /\ \E p \in {"send", "room", "push", "done"} : pc' = [pc EXCEPT ![s] = p] /\ pc[s] \in Before
    BY <1>1 DEF SendData, Send_Check, Send_Backpressure, Goto, life, queue, history, Before
  <2>2. \A x \in Threads : pc'[x] = pc[x] \/ (pc'[x] \in {"send", "room", "push", "done"} /\ pc[x] \in Before)
    BY <2>1 DEF Inv, TypeOK
  <2> QED
    BY <1>0, <2>1, <2>2, OrderQuiet, Zenon
<1>2. ASSUME NEW x \in Threads,
             \/ FlushSendQueue(x) \/ PostSend(x) \/ PostSend_Yield(x) \/ PostSend_Recheck(x)
             \/ Closing(x)
      PROVE  OrderInv'
  <2>1. UNCHANGED <<mId, lastId, clean, pushed, posted, hand>> /\ (UNCHANGED mSendQueue \/ mSendQueue' = <<>>)
    BY <1>2 DEF FlushSendQueue, PostSend, PostSend_Yield, PostSend_Recheck, Closing, Close, Close_Drain,
       RemoveSession, RemoveSession_Erase, life, queue, history
  <2>2. PICK p \in {"post", "yield", "pop", "recheck", "flush", "drain", "removeDrain", "erase",
                    "removeClose", Return(x)} : pc' = [pc EXCEPT ![x] = p]
    BY <1>2 DEF FlushSendQueue, PostSend, PostSend_Yield, PostSend_Recheck, Closing, Close, Close_Drain,
       RemoveSession, RemoveSession_Erase, Goto
  <2>3. p \notin {"snapshot", "submit"} /\ (x \in Senders => p \notin Before)
    BY <2>2 DEF Return, Before
  <2>4. \A y \in Threads : pc'[y] = IF y = x THEN p ELSE pc[y]
    BY <2>2 DEF Inv, TypeOK
  <2> QED
    BY <1>0, <2>1, <2>3, <2>4, OrderQuiet
<1>3. ASSUME NEW x \in Threads, PostSend_Snapshot(x) PROVE OrderInv'
  <2>1. UNCHANGED <<mId, lastId, clean, pushed, posted, mSendQueue>> /\ pc[x] = "snapshot"
    BY <1>3 DEF PostSend_Snapshot, life, queue, history
  <2>2. \/ pc' = [pc EXCEPT ![x] = "submit"] /\ hand' = hand
        \/ pc' = [pc EXCEPT ![x] = Return(x)] /\ hand' = [hand EXCEPT ![x] = <<>>]
    BY <1>3 DEF PostSend_Snapshot, Goto
  <2>3. \A y \in Threads \ {x} : pc'[y] = pc[y] /\ hand'[y] = hand[y]
    BY <2>2 DEF Inv, TypeOK
  <2>4. \/ pc'[x] = "submit" /\ hand'[x] = hand[x]
        \/ pc'[x] = Return(x)
    BY <2>2 DEF Inv, TypeOK
  <2>5. Return(x) \notin {"snapshot", "submit"} /\ (x \in Senders => Return(x) \notin Before)
    BY DEF Return, Before
  <2>6. \A s \in Senders : pc'[s] \in Before => pc[s] \in Before
    BY <1>0, <2>3, <2>4, <2>5 DEF Before
  <2>7. \A y \in Threads : pc'[y] \in {"snapshot", "submit"} => pc[y] \in {"snapshot", "submit"} /\ hand'[y] = hand[y]
    BY <2>1, <2>3, <2>4, <2>5
  <2> QED
    BY <2>1, <2>6, <2>7, OrderQuiet
<1>4. CASE AttachProvider \/ Disconnect \/ \E x \in Workers : SendCompletion(x)
  <2>1. UNCHANGED <<mId, lastId, clean, pushed, posted, mSendQueue, hand>>
    BY <1>4 DEF AttachProvider, Disconnect, SendCompletion, life, queue, history
  <2>2. UNCHANGED pc \/ \E x \in Workers \cup {closer, acceptor} : \E p \in {"idle", "remove", "post"} : pc' = [pc EXCEPT ![x] = p]
    BY <1>4 DEF AttachProvider, Disconnect, SendCompletion, Goto
  <2>3. \A y \in Threads : pc'[y] = pc[y] \/ (y \notin Senders /\ pc'[y] \in {"idle", "remove", "post"})
    BY <2>2, ThreadsAssumption DEF Inv, TypeOK
  <2> QED
    BY <1>0, <2>1, <2>3, OrderQuiet
<1>5. CASE ReleaseInternal
  <2>1. /\ mId' = 0 /\ UNCHANGED <<lastId, clean, pc, pushed, posted>>
    BY <1>5 DEF ReleaseInternal, history
  <2>2. 0 \notin clean
    BY DEF Inv, TypeOK, Connections
  <2>3. ASSUME NEW c \in Connections PROVE Pushes(c)'
    <3>1. Pushes(c)
      BY DEF OrderInv
    <3> QED
      BY <2>1, <3>1 DEF Pushes
  <2> QED
    BY <2>1, <2>2, <2>3 DEF OrderInv, OnItsWay
<1>6. CASE UNCHANGED vars
  <2>1. UNCHANGED <<mId, lastId, clean, pushed, posted, mSendQueue, pc, hand>>
    BY <1>6 DEF vars
  <2> QED
    BY <2>1, OrderQuiet
<1> QED
  BY <1>1, <1>2, <1>3, <1>4, <1>5, <1>6, OrderCreate, OrderPush, OrderPop, OrderSubmit
  DEF Next, Send, Sending

(* For any senders, connections and threshold: what reaches the provider on  *)
(* a connection that began with an empty queue was sent on it, once and in   *)
(* the order of the pushes, through Close, failed sends and the reuse of the *)
(* slot.                                                                     *)
THEOREM SendsKeepOrder == Spec => []SendsInOrder
<1>1. Init => Inv /\ OrderInv
  BY InitInv, OrderInit
<1>2. Inv /\ OrderInv /\ [Next]_vars => Inv' /\ OrderInv'
  BY StepInv, OrderStep
<1>3. Inv /\ OrderInv => SendsInOrder
  <2> SUFFICES ASSUME Inv, OrderInv, NEW c \in clean, NEW i \in 1 .. Len(posted[c])
               PROVE  /\ \E m \in 1 .. Len(pushed[c]) : pushed[c][m] = posted[c][i]
                      /\ \A j \in 1 .. i - 1 :
                           /\ posted[c][j] # posted[c][i]
                           /\ \E m, n \in 1 .. Len(pushed[c]) :
                                n < m /\ pushed[c][n] = posted[c][j] /\ pushed[c][m] = posted[c][i]
    BY DEF SendsInOrder, InOrder, Inv
  <2>1. Kept(posted[c], pushed[c]) /\ posted[c] \in Seq(Senders)
    BY DEF Inv, TypeOK, OrderInv, Pushes
  <2>2. \E m \in 1 .. Len(pushed[c]) : pushed[c][m] = posted[c][i]
    BY <2>1, Zenon DEF Kept, Holds
  <2>3. ASSUME NEW j \in 1 .. i - 1 PROVE Precedes(pushed[c], posted[c][j], posted[c][i]) /\ posted[c][j] # posted[c][i]
    <3>1. j \in 1 .. Len(posted[c]) /\ j < i
      BY <2>1
    <3>2. i \in 1 .. Len(posted[c]) /\ i # j
      BY <3>1
    <3>3. posted[c][j] # posted[c][i]
      BY <2>1, <3>1, <3>2 DEF Kept, NoRepeat
    <3>4. Precedes(posted[c], posted[c][j], posted[c][i])
      BY <3>1, <3>2 DEF Precedes
    <3> QED
      BY <2>1, <3>3, <3>4 DEF Kept
  <2> QED
    BY <2>2, <2>3 DEF Precedes
<1> QED
  BY <1>1, <1>2, <1>3, PTL DEF Spec

(***************************************************************************)
(* The event bus                                                           *)
(***************************************************************************)
LEMMA BusCount == \A S : EB!Cardinality(S) = Cardinality(S)
BY DEF EB!Cardinality, Cardinality

Sent(p, s) == p \in Holds(b_log[s])

(* A subscription stays where Publish looks for it while the owner holds the *)
(* channel, whatever a concurrent Publish prunes.                            *)
Subscription(s) ==
  /\ NoRepeat(b_log[s])
  /\ \A t \in BusTypes : s \in b_mSubscribers[t] => t = b_topic[s]
  /\ b_spc[s] = "subscribed" /\ s \in b_held => s \in b_mSubscribers[b_topic[s]]

(* A channel that was locked is not sent to yet; one that is owed the event  *)
(* is locked or has it, from the snapshot on.                                *)
Delivery(p, s) ==
  /\ s \in b_liveChannels[p] => b_ppc[p] = "send" /\ b_topic[s] = b_event[p] /\ ~Sent(p, s)
  /\ Sent(p, s) => b_ppc[p] \notin {"idle", "called"} /\ b_topic[s] = b_event[p]
  /\ s \in b_due[p] => /\ s \in b_held /\ b_spc[s] = "subscribed" /\ b_topic[s] = b_event[p]
                       /\ b_ppc[p] \in {"send", "prune", "done"} => s \in b_liveChannels[p] \/ Sent(p, s)

BusInv ==
  /\ EB!TypeOK
  /\ \A s \in BusSubscribers : Subscription(s)
  /\ \A p \in BusPublishers : \A s \in BusSubscribers : Delivery(p, s)

LEMMA BusInit == ASSUME EB!Init PROVE BusInv
<1>1. Holds(<<>>) = {} /\ NoRepeat(<<>>) /\ <<>> \in Seq(BusPublishers)
  BY HoldsFew, EmptySeq, Zenon DEF NoRepeat
<1>2. EB!TypeOK
  <2>1. /\ b_mSubscribers \in [BusTypes -> SUBSET BusSubscribers]
        /\ b_liveChannels \in [BusPublishers -> SUBSET BusSubscribers]
        /\ b_due \in [BusPublishers -> SUBSET BusSubscribers]
    BY DEF EB!Init
  <2>2. b_queue \in [BusSubscribers -> Seq(BusPublishers)] /\ b_log = b_queue
    BY <1>1 DEF EB!Init
  <2>3. b_needsPrune \in [BusPublishers -> BOOLEAN]
    BY DEF EB!Init
  <2> QED
    BY <2>1, <2>2, <2>3 DEF EB!Init, EB!TypeOK
<1>3. \A s \in BusSubscribers : b_log[s] = <<>> /\ b_spc[s] = "new"
  BY DEF EB!Init
<1>4. \A s \in BusSubscribers : Subscription(s)
  BY <1>1, <1>3 DEF EB!Init, Subscription
<1>5. \A p \in BusPublishers : \A s \in BusSubscribers : Delivery(p, s)
  BY <1>1, <1>3 DEF EB!Init, Delivery, Sent
<1> QED
  BY <1>2, <1>4, <1>5 DEF BusInv

(* What a subscriber does. *)
LEMMA SubscriberStep ==
  ASSUME BusInv, NEW s \in BusSubscribers,
         EB!Subscribe(s) \/ EB!Unsubscribe(s) \/ EB!CloseChannel(s) \/ EB!Receive(s)
  PROVE  BusInv'
<1>0. /\ EB!TypeOK /\ UNCHANGED <<b_topic, b_log, b_ppc, b_event, b_liveChannels, b_needsPrune>>
      /\ \A x \in BusSubscribers : Subscription(x)
  BY DEF BusInv, EB!Subscribe, EB!Unsubscribe, EB!CloseChannel, EB!Receive, EB!subState, EB!pubState
<1>1. /\ b_mSubscribers' \in [BusTypes -> SUBSET BusSubscribers]
      /\ b_spc' \in [BusSubscribers -> {"new", "subscribed", "unsubscribed"}]
      /\ b_held' \subseteq b_held /\ b_shut' \subseteq BusSubscribers
      /\ b_due' \in [BusPublishers -> SUBSET BusSubscribers]
      /\ \A x \in BusSubscribers \ {s} : b_spc'[x] = b_spc[x] /\ (x \in b_held' <=> x \in b_held)
      /\ \A x \in BusSubscribers \ {s} : \A t \in BusTypes : x \in b_mSubscribers'[t] <=> x \in b_mSubscribers[t]
      /\ \A p \in BusPublishers : b_due'[p] \subseteq b_due[p]
  <2>1. CASE EB!Subscribe(s)
    BY <1>0, <2>1 DEF EB!Subscribe, EB!TypeOK
  <2>2. CASE EB!Unsubscribe(s)
    BY <1>0, <2>2 DEF EB!Unsubscribe, EB!Forget, EB!TypeOK
  <2>3. CASE EB!CloseChannel(s)
    BY <1>0, <2>3 DEF EB!CloseChannel, EB!Forget, EB!TypeOK
  <2>4. CASE EB!Receive(s)
    BY <1>0, <2>4 DEF EB!Receive, EB!subState, EB!TypeOK
  <2> QED
    BY <2>1, <2>2, <2>3, <2>4, Zenon
<1>2. b_queue' \in [BusSubscribers -> Seq(BusPublishers)]
  <2>1. CASE EB!Receive(s)
    <3>1. b_queue[s] \in Seq(BusPublishers) /\ b_queue[s] # <<>>
      BY <1>0, <2>1 DEF EB!Receive, EB!TypeOK
    <3>2. Tail(b_queue[s]) \in Seq(BusPublishers)
      BY <3>1, HeadThenTail
    <3> QED
      BY <1>0, <2>1, <3>2 DEF EB!Receive, EB!TypeOK
  <2>2. CASE b_queue' = b_queue
    BY <1>0, <2>2 DEF EB!TypeOK
  <2> QED
    BY <2>1, <2>2, Zenon DEF EB!Subscribe, EB!Unsubscribe, EB!CloseChannel
<1>3. EB!TypeOK'
  BY <1>0, <1>1, <1>2 DEF EB!TypeOK
<1>4. Subscription(s)'
  <2>0. Subscription(s) /\ b_topic[s] \in BusTypes
    BY <1>0 DEF EB!TypeOK
  <2>1. CASE EB!Subscribe(s)
    <3>1. b_mSubscribers' = [b_mSubscribers EXCEPT ![b_topic[s]] = @ \cup {s}]
      BY <2>1 DEF EB!Subscribe
    <3> QED
      BY <1>0, <2>0, <3>1 DEF Subscription, EB!TypeOK
  <2>2. CASE EB!Unsubscribe(s)
    <3>1. b_spc'[s] = "unsubscribed" /\ \A t \in BusTypes : s \notin b_mSubscribers'[t]
      BY <1>0, <2>2 DEF EB!Unsubscribe, EB!TypeOK
    <3> QED
      BY <1>0, <2>0, <3>1, Zenon DEF Subscription
  <2>3. CASE EB!CloseChannel(s) \/ EB!Receive(s)
    <3>1. UNCHANGED <<b_mSubscribers, b_spc>>
      BY <2>3 DEF EB!CloseChannel, EB!Receive, EB!subState
    <3> QED
      BY <1>0, <1>1, <2>0, <3>1, Zenon DEF Subscription
  <2> QED
    BY <2>1, <2>2, <2>3
<1>5. ASSUME NEW x \in BusSubscribers \ {s} PROVE Subscription(x)'
  <2>1. Subscription(x) /\ b_topic[x] \in BusTypes
    BY <1>0 DEF EB!TypeOK
  <2> QED
    BY <1>0, <1>1, <2>1, Zenon DEF Subscription
<1>6. ASSUME NEW p \in BusPublishers PROVE s \in b_due'[p] => s \in b_held' /\ b_spc'[s] = "subscribed"
  <2>0. s \in b_due[p] => s \in b_held /\ b_spc[s] = "subscribed"
    BY DEF BusInv, Delivery
  <2>1. CASE EB!Subscribe(s)
    BY <1>1, <2>0, <2>1 DEF EB!Subscribe
  <2>2. CASE EB!Unsubscribe(s) \/ EB!CloseChannel(s)
    BY <1>0, <2>2 DEF EB!Unsubscribe, EB!CloseChannel, EB!Forget
  <2>3. CASE EB!Receive(s)
    BY <2>0, <2>3 DEF EB!Receive, EB!subState
  <2> QED
    BY <2>1, <2>2, <2>3
<1>7. ASSUME NEW p \in BusPublishers, NEW x \in BusSubscribers PROVE Delivery(p, x)'
  <2>1. Delivery(p, x)
    BY DEF BusInv
  <2>2. x \in b_due'[p] => x \in b_due[p] /\ x \in b_held' /\ b_spc'[x] = "subscribed"
    BY <1>1, <1>6, <2>1, Zenon DEF Delivery
  <2> QED
    BY <1>0, <2>1, <2>2, Zenon DEF Delivery, Sent
<1> QED
  BY <1>3, <1>4, <1>5, <1>7 DEF BusInv

(* What a publisher does. *)
LEMMA PublisherStep ==
  ASSUME BusInv, NEW p \in BusPublishers,
         \/ EB!Publish_Call(p) \/ EB!Publish_Snapshot(p) \/ EB!Publish_Send(p)
         \/ EB!Publish_Sent(p) \/ EB!Publish_Prune(p)
  PROVE  BusInv'
<1>0. /\ EB!TypeOK /\ UNCHANGED <<b_topic, b_spc, b_held, b_shut, b_event>>
      /\ \A x \in BusSubscribers : Subscription(x) /\ b_topic[x] \in BusTypes /\ b_event[p] \in BusTypes
      /\ \A x \in BusSubscribers : Delivery(p, x)
  BY DEF BusInv, EB!Publish_Call, EB!Publish_Snapshot, EB!Publish_Send, EB!Publish_Sent,
         EB!Publish_Prune, EB!subState, EB!TypeOK
<1>1. ASSUME NEW q \in BusPublishers \ {p}, NEW x \in BusSubscribers,
             b_ppc' \in [BusPublishers -> {"idle", "called", "send", "prune", "done"}],
             UNCHANGED <<b_ppc[q], b_liveChannels[q], b_due[q]>>, Sent(q, x)' <=> Sent(q, x)
      PROVE  Delivery(q, x)'
  <2>1. Delivery(q, x)
    BY DEF BusInv
  <2> QED
    BY <1>0, <1>1, <2>1, Zenon DEF Delivery
<1>2. CASE EB!Publish_Call(p)
  <2>1. /\ b_ppc[p] = "idle" /\ b_ppc' = [b_ppc EXCEPT ![p] = "called"]
        /\ b_due' = [b_due EXCEPT ![p] = {s \in b_held \ b_shut : b_spc[s] = "subscribed" /\ b_topic[s] = b_event[p]}]
        /\ UNCHANGED <<b_mSubscribers, b_queue, b_log, b_liveChannels, b_needsPrune>>
    BY <1>2, Zenon DEF EB!Publish_Call
  <2>2. EB!TypeOK'
    BY <1>0, <2>1 DEF EB!TypeOK
  <2>3. \A x \in BusSubscribers : Subscription(x)'
    BY <1>0, <2>1, Zenon DEF Subscription
  <2>4. ASSUME NEW x \in BusSubscribers PROVE Delivery(p, x)'
    BY <1>0, <2>1 DEF Delivery, Sent, EB!TypeOK
  <2>5. ASSUME NEW q \in BusPublishers \ {p}, NEW x \in BusSubscribers PROVE Delivery(q, x)'
    BY <1>0, <1>1, <2>1, <2>2 DEF Sent, EB!TypeOK
  <2> QED
    BY <2>2, <2>3, <2>4, <2>5 DEF BusInv
<1>3. CASE EB!Publish_Snapshot(p)
  <2> SUFFICES ASSUME NEW live, live = {s \in b_mSubscribers[b_event[p]] : EB!Alive(s)} PROVE BusInv'
    BY Zenon
  <2>1. /\ b_ppc[p] = "called" /\ b_ppc' = [b_ppc EXCEPT ![p] = "send"]
        /\ b_liveChannels' = [b_liveChannels EXCEPT ![p] = live]
        /\ b_needsPrune' = [b_needsPrune EXCEPT ![p] = live # b_mSubscribers[b_event[p]]]
        /\ UNCHANGED <<b_mSubscribers, b_queue, b_log, b_due>>
    BY <1>3, Zenon DEF EB!Publish_Snapshot
  <2>2. /\ live \subseteq BusSubscribers /\ \A x \in live : b_topic[x] = b_event[p]
        /\ \A x \in BusSubscribers : x \in b_due[p] => x \in live
    <3>1. live \subseteq BusSubscribers /\ \A x \in live : b_topic[x] = b_event[p]
      BY <1>0 DEF EB!TypeOK, Subscription
    <3>2. ASSUME NEW x \in BusSubscribers, x \in b_due[p] PROVE x \in live
      BY <1>0, <3>2, Zenon DEF Delivery, Subscription, EB!Alive
    <3> QED
      BY <3>1, <3>2, Zenon
  <2>3. EB!TypeOK'
    <3>1. b_needsPrune' \in [BusPublishers -> BOOLEAN]
      BY <1>0, <2>1 DEF EB!TypeOK
    <3> QED
      BY <1>0, <2>1, <2>2, <3>1 DEF EB!TypeOK
  <2>4. \A x \in BusSubscribers : Subscription(x)'
    BY <1>0, <2>1, Zenon DEF Subscription
  <2>5. ASSUME NEW x \in BusSubscribers PROVE Delivery(p, x)'
    BY <1>0, <2>1, <2>2 DEF Delivery, Sent, EB!TypeOK
  <2>6. ASSUME NEW q \in BusPublishers \ {p}, NEW x \in BusSubscribers PROVE Delivery(q, x)'
    BY <1>0, <1>1, <2>1, <2>3 DEF Sent, EB!TypeOK
  <2> QED
    BY <2>3, <2>4, <2>5, <2>6, Zenon DEF BusInv
<1>4. CASE EB!Publish_Send(p)
  <2>1. PICK s \in b_liveChannels[p] :
          /\ b_liveChannels' = [b_liveChannels EXCEPT ![p] = @ \ {s}]
          /\ \/ /\ s \in b_shut \/ Len(b_queue[s]) >= BusCapacity
                /\ b_due' = [b_due EXCEPT ![p] = @ \ {s}] /\ UNCHANGED <<b_queue, b_log>>
             \/ /\ s \notin b_shut /\ Len(b_queue[s]) < BusCapacity
                /\ b_queue' = [b_queue EXCEPT ![s] = Append(@, p)]
                /\ b_log' = [b_log EXCEPT ![s] = Append(@, p)] /\ UNCHANGED b_due
    BY <1>4, Zenon DEF EB!Publish_Send
  <2>2. UNCHANGED <<b_mSubscribers, b_ppc, b_needsPrune>>
    BY <1>4 DEF EB!Publish_Send
  <2>3. s \in BusSubscribers /\ b_ppc[p] = "send" /\ b_topic[s] = b_event[p] /\ p \notin Holds(b_log[s])
        /\ b_log[s] \in Seq(BusPublishers) /\ b_queue[s] \in Seq(BusPublishers)
    BY <1>0, <2>1 DEF Delivery, Sent, EB!TypeOK
  <2>4. /\ b_liveChannels' \in [BusPublishers -> SUBSET BusSubscribers]
        /\ b_due' \in [BusPublishers -> SUBSET BusSubscribers]
        /\ \A q \in BusPublishers \ {p} : UNCHANGED <<b_ppc[q], b_liveChannels[q], b_due[q]>>
        /\ b_liveChannels'[p] = b_liveChannels[p] \ {s}
    BY <1>0, <2>1, <2>2, Zenon DEF EB!TypeOK
  <2>5. CASE b_due' = [b_due EXCEPT ![p] = @ \ {s}] /\ UNCHANGED <<b_queue, b_log>>
    <3>1. EB!TypeOK'
      BY <1>0, <2>2, <2>4, <2>5 DEF EB!TypeOK
    <3>2. \A x \in BusSubscribers : Subscription(x)'
      BY <1>0, <2>2, <2>5, Zenon DEF Subscription
    <3>3. ASSUME NEW x \in BusSubscribers PROVE Delivery(p, x)'
      <4>1. b_due'[p] = b_due[p] \ {s}
        BY <1>0, <2>5 DEF EB!TypeOK
      <4>2. Delivery(p, x) /\ (Sent(p, x)' <=> Sent(p, x))
        BY <1>0, <2>5, Zenon DEF Sent
      <4>3. /\ b_ppc[p] = "send" /\ b_ppc'[p] = "send" /\ b_topic'[x] = b_topic[x] /\ b_event'[p] = b_event[p]
            /\ b_spc'[x] = b_spc[x] /\ b_held' = b_held /\ b_liveChannels'[p] = b_liveChannels[p] \ {s}
        <5>1. b_topic' = b_topic /\ b_event' = b_event /\ b_spc' = b_spc /\ b_held' = b_held
          BY <1>0, Zenon
        <5>2. b_ppc' = b_ppc /\ b_ppc[p] = "send"
          BY <2>2, <2>3, Zenon
        <5>3. b_liveChannels'[p] = b_liveChannels[p] \ {s}
          BY <2>4, Zenon
        <5> QED
          BY <5>1, <5>2, <5>3, Zenon
      <4> QED
        BY <4>1, <4>2, <4>3, Zenon DEF Delivery
    <3>4. ASSUME NEW q \in BusPublishers \ {p}, NEW x \in BusSubscribers PROVE Delivery(q, x)'
      BY <1>0, <1>1, <2>2, <2>4, <2>5 DEF Sent, EB!TypeOK
    <3> QED
      BY <3>1, <3>2, <3>3, <3>4, Zenon DEF BusInv
  <2>6. CASE /\ b_queue' = [b_queue EXCEPT ![s] = Append(@, p)]
             /\ b_log' = [b_log EXCEPT ![s] = Append(@, p)] /\ UNCHANGED b_due
    <3>1. /\ Append(b_log[s], p) \in Seq(BusPublishers) /\ Append(b_queue[s], p) \in Seq(BusPublishers)
          /\ Holds(Append(b_log[s], p)) = Holds(b_log[s]) \cup {p}
          /\ NoRepeat(b_log[s]) => NoRepeat(Append(b_log[s], p))
      BY <2>3, AppendEnd, PutNew, Zenon
    <3>2. /\ b_log'[s] = Append(b_log[s], p) /\ \A x \in BusSubscribers \ {s} : b_log'[x] = b_log[x]
          /\ b_log' \in [BusSubscribers -> Seq(BusPublishers)]
          /\ b_queue' \in [BusSubscribers -> Seq(BusPublishers)]
      BY <1>0, <2>3, <2>6, <3>1 DEF EB!TypeOK
    <3>3. EB!TypeOK'
      BY <1>0, <2>2, <2>4, <3>2 DEF EB!TypeOK
    <3>4. ASSUME NEW x \in BusSubscribers PROVE Subscription(x)'
      <4>1. Subscription(x) /\ NoRepeat(b_log'[x])
        BY <1>0, <3>1, <3>2, Zenon DEF Subscription
      <4> QED
        BY <1>0, <2>2, <4>1, Zenon DEF Subscription
    <3>5. ASSUME NEW q \in BusPublishers, NEW x \in BusSubscribers
          PROVE  Sent(q, x)' <=> Sent(q, x) \/ (q = p /\ x = s)
      <4>1. CASE x = s
        BY <3>1, <3>2, <4>1, Zenon DEF Sent
      <4>2. CASE x # s
        BY <3>2, <4>2, Zenon DEF Sent
      <4> QED
        BY <4>1, <4>2, Zenon
    <3>6. ASSUME NEW x \in BusSubscribers PROVE Delivery(p, x)'
      <4>1. Delivery(p, x) /\ (Sent(p, x)' <=> Sent(p, x) \/ x = s)
        BY <1>0, <3>5, ZenonT(30)
      <4>2. /\ b_ppc[p] = "send" /\ b_ppc'[p] = "send" /\ b_topic'[x] = b_topic[x] /\ b_event'[p] = b_event[p]
            /\ b_spc'[x] = b_spc[x] /\ b_held' = b_held /\ b_liveChannels'[p] = b_liveChannels[p] \ {s}
        <5>1. b_topic' = b_topic /\ b_event' = b_event /\ b_spc' = b_spc /\ b_held' = b_held
          BY <1>0, ZenonT(30)
        <5>2. b_ppc' = b_ppc /\ b_ppc[p] = "send"
          BY <2>2, <2>3, ZenonT(30)
        <5>3. b_liveChannels'[p] = b_liveChannels[p] \ {s}
          BY <2>4, ZenonT(30)
        <5> QED
          BY <5>1, <5>2, <5>3, ZenonT(30)
      <4>3. b_due'[p] = b_due[p] /\ (x = s => b_topic[x] = b_event[p])
        BY <2>3, <2>6, Zenon
      <4> QED
        BY <4>1, <4>2, <4>3, Zenon DEF Delivery
    <3>7. ASSUME NEW q \in BusPublishers \ {p}, NEW x \in BusSubscribers PROVE Delivery(q, x)'
      <4>1. Sent(q, x)' <=> Sent(q, x)
        BY <3>5, Zenon
      <4> QED
        BY <1>0, <1>1, <2>2, <2>4, <4>1 DEF EB!TypeOK
    <3> QED
      BY <3>3, <3>4, <3>6, <3>7, Zenon DEF BusInv
  <2> QED
    BY <2>1, <2>5, <2>6
<1>5. CASE EB!Publish_Sent(p) \/ EB!Publish_Prune(p)
  <2>1. /\ b_ppc[p] \in {"send", "prune"} /\ UNCHANGED <<b_queue, b_log, b_liveChannels, b_needsPrune, b_due>>
        /\ b_ppc' = [b_ppc EXCEPT ![p] = "prune"] \/ b_ppc' = [b_ppc EXCEPT ![p] = "done"]
        /\ b_liveChannels[p] = {} \/ b_ppc[p] = "prune"
    BY <1>5, Zenon DEF EB!Publish_Sent, EB!Publish_Prune, EB!subState
  <2>2. /\ b_mSubscribers' \in [BusTypes -> SUBSET BusSubscribers]
        /\ \A t \in BusTypes : b_mSubscribers'[t] \subseteq b_mSubscribers[t]
        /\ \A t \in BusTypes : \A x \in b_mSubscribers[t] : x \in b_held => x \in b_mSubscribers'[t]
    <3>1. CASE UNCHANGED b_mSubscribers
      BY <1>0, <3>1 DEF EB!TypeOK
    <3>2. CASE b_mSubscribers' = [b_mSubscribers EXCEPT ![b_event[p]] = {s \in @ : EB!Alive(s)}]
      BY <1>0, <3>2 DEF EB!TypeOK, EB!Alive
    <3> QED
      BY <1>5, <3>1, <3>2, Zenon DEF EB!Publish_Sent, EB!Publish_Prune, EB!subState
  <2>3. b_ppc' \in [BusPublishers -> {"idle", "called", "send", "prune", "done"}]
        /\ b_ppc'[p] \in {"prune", "done"} /\ \A q \in BusPublishers \ {p} : b_ppc'[q] = b_ppc[q]
    BY <1>0, <2>1, Zenon DEF EB!TypeOK
  <2>4. EB!TypeOK'
    BY <1>0, <2>1, <2>2, <2>3 DEF EB!TypeOK
  <2>5. \A x \in BusSubscribers : Subscription(x)'
    BY <1>0, <2>1, <2>2, Zenon DEF Subscription
  <2>6. ASSUME NEW x \in BusSubscribers PROVE Delivery(p, x)'
    <3>1. Delivery(p, x) /\ x \notin b_liveChannels[p]
      BY <1>0, <2>1, Zenon DEF Delivery
    <3> QED
      BY <1>0, <2>1, <2>3, <3>1, Zenon DEF Delivery, Sent
  <2>7. ASSUME NEW q \in BusPublishers \ {p}, NEW x \in BusSubscribers PROVE Delivery(q, x)'
    BY <1>1, <2>1, <2>3, Zenon DEF Sent
  <2> QED
    BY <2>4, <2>5, <2>6, <2>7 DEF BusInv
<1> QED
  BY <1>2, <1>3, <1>4, <1>5

(***************************************************************************)
(* The task scope                                                          *)
(***************************************************************************)
(* The tasks in flight are finitely many, whatever the set of tasks is. *)
ScopeInv ==
  /\ SC!TypeOK /\ SC!CountExact /\ IsFiniteSet(SC!InFlight)
  /\ SC!NothingRunsAfterDrain /\ (a_mCancelled <=> a_opc # "open")

LEMMA ScopeCount == \A S : SC!Cardinality(S) = Cardinality(S)
BY DEF SC!Cardinality, Cardinality

(* The scope starts open, with nothing in flight. *)
LEMMA ScopeInit == ASSUME CountFacts, SC!Init PROVE ScopeInv
<1>1. SC!InFlight = {}
  BY DEF SC!Init, SC!InFlight
<1>2. SC!CountExact /\ IsFiniteSet(SC!InFlight)
  BY <1>1, ScopeCount DEF SC!Init, SC!CountExact, CountFacts, CountsFew
<1>3. SC!TypeOK
  <2>1. a_mCancelled \in BOOLEAN /\ a_lateRun \in BOOLEAN
    BY Zenon DEF SC!Init
  <2>2. a_mInFlight \in Nat /\ a_resets \in 0 .. 1
    BY DEF SC!Init
  <2>3. a_tpc \in [ScopeTasks -> {"idle", "begun", "dispatch", "queued", "running", "end", "notify", "leaked", "done"}]
    BY DEF SC!Init
  <2>4. a_opc \in {"open", "cancelled", "lock", "park", "waiting", "drained", "aborted"}
    BY DEF SC!Init
  <2> QED
    BY <2>1, <2>2, <2>3, <2>4 DEF SC!TypeOK
<1>4. SC!NothingRunsAfterDrain /\ ~a_mCancelled /\ a_opc = "open"
  BY Zenon DEF SC!Init, SC!NothingRunsAfterDrain
<1> QED
  BY <1>2, <1>3, <1>4 DEF ScopeInv

(* A task counts from BeginTask to EndTask. *)
LEMMA ScopeCountStep ==
  ASSUME CountFacts, SC!TypeOK, SC!CountExact, IsFiniteSet(SC!InFlight), NEW t \in ScopeTasks
  PROVE  /\ SC!BeginTask(t) => SC!CountExact' /\ IsFiniteSet(SC!InFlight)'
         /\ SC!EndTask(t) => SC!CountExact' /\ IsFiniteSet(SC!InFlight)' /\ a_mInFlight' \in Nat
<1>2. ASSUME SC!BeginTask(t) PROVE SC!CountExact' /\ IsFiniteSet(SC!InFlight)'
  <2>1. SC!InFlight' = SC!InFlight \cup {t} /\ t \notin SC!InFlight
    BY <1>2 DEF SC!BeginTask, SC!Goto, SC!InFlight, SC!TypeOK
  <2>2. Cardinality(SC!InFlight \cup {t}) = Cardinality(SC!InFlight) + 1 /\ IsFiniteSet(SC!InFlight \cup {t})
    BY <2>1 DEF CountFacts, CountsAdd
  <2> QED
    BY <1>2, <2>1, <2>2, ScopeCount DEF SC!BeginTask, SC!CountExact
<1>3. ASSUME SC!EndTask(t) PROVE SC!CountExact' /\ IsFiniteSet(SC!InFlight)' /\ a_mInFlight' \in Nat
  <2>1. SC!InFlight' = SC!InFlight \ {t} /\ t \in SC!InFlight
    BY <1>3 DEF SC!EndTask, SC!Goto, SC!InFlight, SC!TypeOK
  <2>2. Cardinality(SC!InFlight \ {t}) = Cardinality(SC!InFlight) - 1
    BY <2>1, Zenon DEF CountFacts, CountsRemove
  <2>3. IsFiniteSet(SC!InFlight \ {t}) /\ Cardinality(SC!InFlight \ {t}) \in Nat
    BY DEF CountFacts, CountsRemove, CountsType
  <2> QED
    BY <1>3, <2>1, <2>2, <2>3, ScopeCount DEF SC!EndTask, SC!CountExact
<1> QED
  BY <1>2, <1>3

(* Every step of a task and of the owner keeps the count and the silence     *)
(* after the drain.                                                          *)
LEMMA ScopeStep == ASSUME CountFacts, ScopeInv, [SC!Next]_(SC!vars) PROVE ScopeInv'
<1>1. ASSUME NEW t \in ScopeTasks, SC!BeginTask(t) PROVE ScopeInv'
  <2>1. SC!CountExact' /\ IsFiniteSet(SC!InFlight)'
    BY <1>1, ScopeCountStep DEF ScopeInv
  <2> QED
    BY <1>1, <2>1 DEF SC!BeginTask, SC!Goto, ScopeInv, SC!TypeOK, SC!NothingRunsAfterDrain
<1>2. ASSUME NEW t \in ScopeTasks, SC!EndTask(t) PROVE ScopeInv'
  <2>1. SC!CountExact' /\ IsFiniteSet(SC!InFlight)' /\ a_mInFlight' \in Nat
    BY <1>2, ScopeCountStep DEF ScopeInv
  <2> QED
    BY <1>2, <2>1 DEF SC!EndTask, SC!Goto, ScopeInv, SC!TypeOK, SC!NothingRunsAfterDrain
<1>3. ASSUME NEW t \in ScopeTasks,
             SC!Submit_Check(t) \/ SC!Submit_Dispatch(t) \/ SC!Wrapper_Check(t) \/ SC!Wrapper_Run(t) \/ SC!EndTask_Notify(t)
      PROVE  ScopeInv'
  <2>0. PICK to \in {"begun", "dispatch", "queued", "running", "end", "leaked", "done"} :
          a_tpc' = [a_tpc EXCEPT ![t] = to]
    BY <1>3 DEF SC!Submit_Check, SC!Submit_Dispatch, SC!Wrapper_Check, SC!Wrapper_Run, SC!EndTask_Notify, SC!Goto
  <2>1. SC!InFlight' = SC!InFlight
    BY <1>3 DEF SC!Submit_Check, SC!Submit_Dispatch, SC!Wrapper_Check, SC!Wrapper_Run, SC!EndTask_Notify, SC!Goto,
       SC!InFlight, ScopeInv, SC!TypeOK
  <2>2. SC!CountExact' /\ IsFiniteSet(SC!InFlight)' /\ a_mInFlight' = a_mInFlight /\ a_mCancelled' = a_mCancelled /\ a_resets' = a_resets
    BY <1>3, <2>1 DEF SC!Submit_Check, SC!Submit_Dispatch, SC!Wrapper_Check, SC!Wrapper_Run, SC!EndTask_Notify,
       ScopeInv, SC!CountExact
  <2>3. /\ a_opc' = a_opc \/ (a_opc = "waiting" /\ a_opc' = "lock")
        /\ a_lateRun' = FALSE
        /\ a_opc = "drained" => a_tpc'[t] # "running"
    BY <1>3 DEF SC!Submit_Check, SC!Submit_Dispatch, SC!Wrapper_Check, SC!Wrapper_Run, SC!EndTask_Notify, SC!Goto,
       ScopeInv, SC!TypeOK, SC!NothingRunsAfterDrain
  <2> QED
    BY <2>0, <2>2, <2>3, Zenon DEF ScopeInv, SC!TypeOK, SC!NothingRunsAfterDrain
<1>4. CASE SC!WaitForDrain
  <2>1. SC!CountExact' /\ IsFiniteSet(SC!InFlight)'
    BY <1>4 DEF SC!WaitForDrain, ScopeInv, SC!CountExact, SC!InFlight
  <2>2. a_opc' = "drained" => \A t \in ScopeTasks : a_tpc[t] # "running"
    <3>1. CASE a_mInFlight = 0
      <4>1. IsFiniteSet(SC!InFlight) /\ Cardinality(SC!InFlight) = 0
        BY <3>1, ScopeCount, Zenon DEF ScopeInv, SC!CountExact
      <4>2. SC!InFlight = {}
        BY <4>1 DEF CountFacts, CountsType
      <4> QED
        BY <4>2 DEF SC!InFlight
    <3> QED
      BY <1>4, <3>1 DEF SC!WaitForDrain
  <2> QED
    BY <1>4, <2>1, <2>2 DEF SC!WaitForDrain, ScopeInv, SC!TypeOK, SC!NothingRunsAfterDrain
<1>5. CASE SC!Cancel \/ SC!Spurious \/ SC!Reset
  <2>1. SC!CountExact' /\ IsFiniteSet(SC!InFlight)'
    BY <1>5 DEF SC!Cancel, SC!Spurious, SC!Reset, ScopeInv, SC!CountExact, SC!InFlight
  <2>2. SC!TypeOK'
    <3>1. a_mCancelled' \in BOOLEAN
      BY <1>5, Zenon DEF SC!Cancel, SC!Spurious, SC!Reset, ScopeInv, SC!TypeOK
    <3>2. a_mInFlight' \in Nat /\ a_resets' \in 0 .. 1
      BY <1>5 DEF SC!Cancel, SC!Spurious, SC!Reset, ScopeInv, SC!TypeOK
    <3> QED
      BY <1>5, <3>1, <3>2 DEF SC!Cancel, SC!Spurious, SC!Reset, ScopeInv, SC!TypeOK
  <2>3. SC!NothingRunsAfterDrain'
    BY <1>5 DEF SC!Cancel, SC!Spurious, SC!Reset, ScopeInv, SC!NothingRunsAfterDrain
  <2>4. a_mCancelled' <=> a_opc' # "open"
    <3>1. CASE SC!Cancel
      BY <3>1 DEF SC!Cancel
    <3>2. CASE SC!Spurious
      BY <3>2 DEF SC!Spurious, ScopeInv
    <3>3. CASE SC!Reset
      BY <3>3, Zenon DEF SC!Reset, ScopeInv
    <3> QED
      BY <1>5, <3>1, <3>2, <3>3
  <2> QED
    BY <2>1, <2>2, <2>3, <2>4 DEF ScopeInv
<1>6. CASE UNCHANGED (SC!vars)
  BY <1>6 DEF SC!vars, ScopeInv, SC!TypeOK, SC!CountExact, SC!InFlight, SC!NothingRunsAfterDrain
<1> QED
  BY <1>1, <1>2, <1>3, <1>4, <1>5, <1>6 DEF SC!Next, SC!TaskStep

(***************************************************************************)
(* What the last two need of the library's facts on finite sets            *)
(***************************************************************************)
INSTANCE FiniteSetTheorems

LEMMA Counting == CountFacts
BY FS_CardinalityType, FS_EmptySet, FS_Singleton, FS_AddElement, FS_RemoveElement, FS_Subset, Zenon
   DEF CountFacts, CountsFew, CountsType, CountsAdd, CountsRemove, CountsPart

(* The event bus, for any publishers, subscribers, types and capacity: a     *)
(* Publish that has returned has sent its event exactly once to everyone     *)
(* subscribed before the call who stayed open and had room, and to nobody of *)
(* another type.                                                             *)
THEOREM BusIsExact == EB!Spec => []BusDelivers
<1>1. EB!Init => BusInv
  BY BusInit
<1>2. BusInv /\ [EB!Next]_(EB!vars) => BusInv'
  <2> SUFFICES ASSUME BusInv, [EB!Next]_(EB!vars) PROVE BusInv'
    OBVIOUS
  <2>1. CASE EB!Next
    BY <2>1, SubscriberStep, PublisherStep DEF EB!Next
  <2>2. CASE UNCHANGED (EB!vars)
    <3>1. UNCHANGED <<b_mSubscribers, b_spc, b_topic, b_held, b_shut, b_queue, b_log, b_ppc, b_event,
                      b_liveChannels, b_needsPrune, b_due>>
      BY <2>2 DEF EB!vars
    <3> QED
      BY <3>1, Zenon DEF BusInv, EB!TypeOK, Subscription, Delivery, Sent
  <2> QED
    BY <2>1, <2>2
<1>3. BusInv => BusDelivers
  <2> SUFFICES ASSUME BusInv, NEW p \in BusPublishers, NEW s \in BusSubscribers
               PROVE  /\ b_ppc[p] = "done" /\ s \in b_due[p] => EB!Times(s, p) = 1
                      /\ EB!Times(s, p) <= (IF b_topic[s] = b_event[p] THEN 1 ELSE 0)
    BY Zenon DEF BusDelivers, EB!BusDelivers, BusInv
  <2>1. Delivery(p, s) /\ NoRepeat(b_log[s]) /\ b_log[s] \in Seq(BusPublishers)
    BY DEF BusInv, Subscription, EB!TypeOK
  <2>2. EB!Times(s, p) = IF Sent(p, s) THEN 1 ELSE 0
    BY <2>1, Counting, CountOnce, BusCount DEF EB!Times, Sent
  <2>3. /\ b_ppc[p] = "done" /\ s \in b_due[p] => Sent(p, s)
        /\ Sent(p, s) => b_topic[s] = b_event[p]
    BY <2>1 DEF Delivery
  <2> QED
    BY ONLY <2>2, <2>3
<1> QED
  BY <1>1, <1>2, <1>3, PTL DEF EB!Spec

(* The scope, for any tasks, throwing or not: the count is exactly the tasks *)
(* between BeginTask and EndTask, and once WaitForDrain has returned on a    *)
(* cancelled scope nothing runs until Reset, also for submissions that raced *)
(* with Cancel.                                                              *)
THEOREM ScopeDrains == SC!Spec => []NothingRunsAfterDrain
<1>1. SC!Init => ScopeInv
  BY Counting, ScopeInit
<1>2. ScopeInv /\ [SC!Next]_(SC!vars) => ScopeInv'
  BY Counting, ScopeStep
<1>3. ScopeInv => NothingRunsAfterDrain
  BY DEF ScopeInv, NothingRunsAfterDrain
<1> QED
  BY <1>1, <1>2, <1>3, PTL DEF SC!Spec
=============================================================================
