-------------------------- MODULE CompletionProvider --------------------------
(***************************************************************************)
(* The three providers over a kernel that completes requests itself:       *)
(* Platforms/Windows/IocpAsyncIOProvider.cpp, RIOAsyncIOProvider.cpp and   *)
(* Platforms/Linux/IOUringAsyncIOProvider.cpp, with their buffer pools.    *)
(* A request takes a pool slot, enters the map of pending operations and   *)
(* goes to the kernel; its completion finds the map entry, gives the slot  *)
(* back and becomes one entry for the engine.                              *)
(*                                                                         *)
(* A socket has at most one send and one receive under way, as the engine  *)
(* issues them.  The request queues of RIO (mRequestQueues) are left out:  *)
(* failing to get one is one of the ways a request is refused.             *)
(***************************************************************************)
EXTENDS Naturals, Sequences, FiniteSets

CONSTANTS Sockets, Workers,
          Kinds,           \* subset of {"iocp", "rio", "uring"}
          SendSlots, RecvSlots,
          SqEntries,       \* length of io_uring's submission queue
          MaxOps           \* number of operation keys

VARIABLES kind,
          mInitialized, stage,  \* how far Shutdown has come
          mPendingOps,          \* the map: operations with their keys
          mNextOpKey, mPendingRequests,
          free,                 \* type -> free slots of its pool
          mSocketRecvSlot,      \* RIO: socket -> its receive slot
          sq, posted, cq,       \* prepared; with the kernel; completed
          cpc, held,            \* request -> where its caller is, slot held
          wpc, taken,           \* worker -> where it is, what it handles
          accepted, delivered,  \* keys that returned Success; entries made
          slabFault             \* a copy read a slab already freed

pool == <<free, mSocketRecvSlot>>
kernel == <<sq, posted, cq>>
log == <<accepted, delivered, slabFault>>
vars == <<kind, mInitialized, stage, mPendingOps, mNextOpKey, mPendingRequests, free,
          mSocketRecvSlot, sq, posted, cq, cpc, held, wpc, taken, accepted, delivered, slabFault>>

Types == {"Send", "Recv"}
Requests == Sockets \X Types
NoSlot == "none"
Slots == [Send |-> SendSlots, Recv |-> RecvSlots]
Pooled(t) == kind = "uring" \/ (kind = "rio" /\ t = "Send")
Outcomes == {"data", "zero", "error"}
OpOf(r, k) == [key |-> k, req |-> r, slot |-> held[r]]
Give(t, s) == free' = [free EXCEPT ![t] = @ \cup ({s} \ {NoSlot})]
To(r, pc) == cpc' = [cpc EXCEPT ![r] = pc]

TypeOK ==
  /\ kind \in Kinds /\ mInitialized \in BOOLEAN /\ stage \in {"up", "flagged", "cleared", "freed"}
  /\ mNextOpKey \in 1 .. MaxOps + 1 /\ mPendingRequests \in Nat
  /\ free \in [Types -> SUBSET (SendSlots \cup RecvSlots)]
  /\ mSocketRecvSlot \in [Sockets -> RecvSlots \cup {NoSlot}]
  /\ cpc \in [Requests -> {"idle", "lock", "post"}]
  /\ wpc \in [Workers -> {"idle", "find", "finish"}]

Init ==
  /\ kind \in Kinds /\ mInitialized = TRUE /\ stage = "up"
  /\ mPendingOps = {} /\ mNextOpKey = 1 /\ mPendingRequests = 0
  /\ free = Slots /\ mSocketRecvSlot = [s \in Sockets |-> NoSlot]
  /\ sq = <<>> /\ posted = {} /\ cq = <<>>
  /\ cpc = [r \in Requests |-> "idle"] /\ held = [r \in Requests |-> NoSlot]
  /\ wpc = [w \in Workers |-> "idle"] /\ taken = [w \in Workers |-> {}]
  /\ accepted = {} /\ delivered = [k \in 1 .. MaxOps |-> 0] /\ slabFault = FALSE

(***************************************************************************)
(* AssociateSocket                                                         *)
(***************************************************************************)
(* RIO gives an accepted socket its receive slot, once; IOCP and io_uring   *)
(* keep nothing of their own.                                               *)
AssociateSocket(s) ==
  /\ kind = "rio" /\ mInitialized /\ mSocketRecvSlot[s] = NoSlot
  /\ \E b \in free["Recv"] :
       /\ mSocketRecvSlot' = [mSocketRecvSlot EXCEPT ![s] = b]
       /\ free' = [free EXCEPT !["Recv"] = @ \ {b}]
  /\ UNCHANGED <<kind, mInitialized, stage, mPendingOps, mNextOpKey, mPendingRequests, kernel,
                 cpc, held, wpc, taken, log>>

(***************************************************************************)
(* SendAsync, RecvAsync                                                    *)
(***************************************************************************)
(* The checks and the slot come before the lock; without a free slot the    *)
(* request is refused.                                                      *)
Acquire(r) ==
  /\ mInitialized /\ cpc[r] = "idle" /\ mNextOpKey <= MaxOps
  /\ \A op \in mPendingOps : op.req # r
  /\ \A w \in Workers : \A c \in taken[w] : c.op.req # r
  /\ To(r, "lock")
  /\ IF Pooled(r[2])
     THEN \E b \in free[r[2]] : /\ held' = [held EXCEPT ![r] = b]
                                /\ free' = [free EXCEPT ![r[2]] = @ \ {b}]
     ELSE UNCHANGED <<held, free>>
  /\ UNCHANGED <<kind, mInitialized, stage, mPendingOps, mNextOpKey, mPendingRequests,
                 mSocketRecvSlot, kernel, wpc, taken, log>>

(* The request is refused or fails: nothing stays in the map, the slot goes *)
(* back.                                                                    *)
Refuse(r) ==
  /\ To(r, "idle") /\ Give(r[2], held[r]) /\ held' = [held EXCEPT ![r] = NoSlot]
  /\ UNCHANGED <<mPendingOps, mPendingRequests, accepted>>

Accept(r) ==
  /\ To(r, "idle") /\ held' = [held EXCEPT ![r] = NoSlot] /\ UNCHANGED free
  /\ mPendingOps' = mPendingOps \cup {OpOf(r, mNextOpKey)}
  /\ mPendingRequests' = mPendingRequests + 1 /\ accepted' = accepted \cup {mNextOpKey}

(* io_uring: the entry is prepared in the submission queue; a failed submit *)
(* rolls the request back but leaves the prepared entry.                    *)
Submit_Uring(r) ==
  /\ kind = "uring" /\ mInitialized /\ cpc[r] = "lock" /\ mNextOpKey <= MaxOps
  /\ mNextOpKey' = mNextOpKey + 1
  /\ \/ /\ Len(sq) = SqEntries /\ Refuse(r) /\ UNCHANGED <<sq, posted>>
     \/ /\ Len(sq) < SqEntries
        /\ sq' = Append(sq, OpOf(r, mNextOpKey)) /\ Refuse(r) /\ UNCHANGED posted
     \/ /\ Len(sq) < SqEntries /\ Accept(r)
        /\ posted' = posted \cup {OpOf(r, mNextOpKey)} \cup {sq[i] : i \in 1 .. Len(sq)}
        /\ sq' = <<>>
  /\ UNCHANGED <<kind, mInitialized, stage, mSocketRecvSlot, cq, wpc, taken, delivered, slabFault>>

(* FlushRequests hands over whatever the submission queue holds. *)
FlushRequests ==
  /\ kind = "uring" /\ mInitialized /\ sq # <<>>
  /\ posted' = posted \cup {sq[i] : i \in 1 .. Len(sq)} /\ sq' = <<>>
  /\ UNCHANGED <<kind, mInitialized, stage, mPendingOps, mNextOpKey, mPendingRequests, pool, cq,
                 cpc, held, wpc, taken, log>>

(* RIO: the state is checked again under the lock, a receive needs the       *)
(* socket's slot, and a failed call is undone before the lock is released.   *)
Submit_Rio(r) ==
  /\ kind = "rio" /\ cpc[r] = "lock" /\ mNextOpKey <= MaxOps
  /\ mNextOpKey' = mNextOpKey + 1
  /\ \/ Refuse(r) /\ UNCHANGED posted
     \/ /\ mInitialized /\ (r[2] = "Recv" => mSocketRecvSlot[r[1]] # NoSlot)
        /\ Accept(r) /\ posted' = posted \cup {OpOf(r, mNextOpKey)}
  /\ UNCHANGED <<kind, mInitialized, stage, mSocketRecvSlot, sq, cq, wpc, taken, delivered, slabFault>>

(* IOCP: the map entry is made under the lock, the call follows without it. *)
Insert_Iocp(r) ==
  /\ kind = "iocp" /\ cpc[r] = "lock" /\ mNextOpKey <= MaxOps
  /\ IF ~mInitialized THEN Refuse(r) /\ UNCHANGED mNextOpKey
     ELSE /\ To(r, "post") /\ mNextOpKey' = mNextOpKey + 1
          /\ mPendingOps' = mPendingOps \cup {OpOf(r, mNextOpKey)}
          /\ mPendingRequests' = mPendingRequests + 1 /\ UNCHANGED <<held, free, accepted>>
  /\ UNCHANGED <<kind, mInitialized, stage, mSocketRecvSlot, kernel, wpc, taken, delivered, slabFault>>

(* WSASend, WSARecv: taken by the kernel, or failed and undone. *)
Post_Iocp(r) ==
  /\ cpc[r] = "post" /\ To(r, "idle")
  /\ \E op \in mPendingOps :
       /\ op.req = r
       /\ \/ /\ posted' = posted \cup {op} /\ accepted' = accepted \cup {op.key}
             /\ UNCHANGED <<mPendingOps, mPendingRequests>>
          \/ /\ mPendingOps' = mPendingOps \ {op} /\ mPendingRequests' = mPendingRequests - 1
             /\ UNCHANGED <<posted, accepted>>
  /\ UNCHANGED <<kind, mInitialized, stage, mNextOpKey, pool, sq, cq, held, wpc, taken,
                 delivered, slabFault>>

(* Shutdown emptied the map between the two: a failed call finds no entry   *)
(* and only counts down.                                                    *)
Post_IocpLate(r) ==
  /\ cpc[r] = "post" /\ To(r, "idle") /\ \A op \in mPendingOps : op.req # r
  /\ mPendingRequests' \in {mPendingRequests, mPendingRequests - 1} \cap Nat
  /\ UNCHANGED <<kind, mInitialized, stage, mPendingOps, mNextOpKey, pool, kernel, held, wpc,
                 taken, log>>

(***************************************************************************)
(* The kernel completes a request it holds                                 *)
(***************************************************************************)
Complete ==
  /\ \E op \in posted : \E o \in Outcomes :
       /\ o = "zero" => op.req[2] = "Recv"
       /\ posted' = posted \ {op} /\ cq' = Append(cq, [op |-> op, outcome |-> o])
  /\ UNCHANGED <<kind, mInitialized, stage, mPendingOps, mNextOpKey, mPendingRequests, pool, sq,
                 cpc, held, wpc, taken, log>>

(***************************************************************************)
(* ProcessCompletions                                                      *)
(***************************************************************************)
Deliver(k) == delivered' = [delivered EXCEPT ![k] = @ + 1]
Find(k) == {op \in mPendingOps : op.key = k}

(* Faulty variant: the slot of a send is not given back. *)
Process_Uring_KeepsSend ==
  /\ kind = "uring" /\ mInitialized /\ cq # <<>> /\ cq' = Tail(cq)
  /\ LET c == Head(cq)
     IN  /\ mPendingOps' = mPendingOps \ Find(c.op.key) /\ Deliver(c.op.key)
         /\ mPendingRequests' = mPendingRequests - 1
         /\ IF c.op.req[2] = "Recv" THEN Give("Recv", c.op.slot) ELSE UNCHANGED free
  /\ UNCHANGED <<kind, mInitialized, stage, mNextOpKey, mSocketRecvSlot, sq, posted, cpc, held,
                 wpc, taken, accepted, slabFault>>

(* io_uring: under the lock from end to end; an entry whose key is not in   *)
(* the map is consumed and ignored.                                         *)
Process_Uring ==
  /\ kind = "uring" /\ mInitialized /\ cq # <<>> /\ cq' = Tail(cq)
  /\ LET c == Head(cq)
     IN  IF Find(c.op.key) = {}
         THEN UNCHANGED <<mPendingOps, mPendingRequests, free, delivered>>
         ELSE /\ mPendingOps' = mPendingOps \ Find(c.op.key) /\ Deliver(c.op.key)
              /\ mPendingRequests' = mPendingRequests - 1 /\ Give(c.op.req[2], c.op.slot)
  /\ UNCHANGED <<kind, mInitialized, stage, mNextOpKey, mSocketRecvSlot, sq, posted, cpc, held,
                 wpc, taken, accepted, slabFault>>

(* GetQueuedCompletionStatus, RIODequeueCompletion.  RIO lets one worker at *)
(* a time dequeue (mNotifyMutex), until it has handled what it took.        *)
Dequeue(w) ==
  /\ kind # "uring" /\ wpc[w] = "idle" /\ mInitialized /\ cq # <<>>
  /\ kind = "rio" => \A v \in Workers : wpc[v] = "idle"
  /\ wpc' = [wpc EXCEPT ![w] = "find"] /\ taken' = [taken EXCEPT ![w] = {Head(cq)}]
  /\ cq' = Tail(cq)
  /\ UNCHANGED <<kind, mInitialized, stage, mPendingOps, mNextOpKey, mPendingRequests, pool, sq,
                 posted, cpc, held, log>>

(* Faulty variant: the entry is reported and stays in the map. *)
Find_Iocp_Keeps(w) ==
  /\ kind = "iocp" /\ wpc[w] = "find" /\ wpc' = [wpc EXCEPT ![w] = "idle"]
  /\ \E c \in taken[w] : Deliver(c.op.key)
  /\ taken' = [taken EXCEPT ![w] = {}]
  /\ UNCHANGED <<kind, mInitialized, stage, mPendingOps, mPendingRequests, mNextOpKey, pool, kernel,
                 cpc, held, accepted, slabFault>>

(* IOCP: the entry leaves the map under the lock and is reported. *)
Find_Iocp(w) ==
  /\ kind = "iocp" /\ wpc[w] = "find" /\ wpc' = [wpc EXCEPT ![w] = "idle"]
  /\ \E c \in taken[w] :
       IF Find(c.op.key) = {} THEN UNCHANGED <<mPendingOps, mPendingRequests, delivered>>
       ELSE /\ mPendingOps' = mPendingOps \ Find(c.op.key) /\ Deliver(c.op.key)
            /\ mPendingRequests' = mPendingRequests - 1
  /\ taken' = [taken EXCEPT ![w] = {}]
  /\ UNCHANGED <<kind, mInitialized, stage, mNextOpKey, pool, kernel, cpc, held, accepted, slabFault>>

(* RIO: the entry leaves the map under the lock; with the shutdown flag set *)
(* the slot of a send goes back and nothing is reported.                    *)
Find_Rio(w) ==
  /\ kind = "rio" /\ wpc[w] = "find"
  /\ \E c \in taken[w] :
       /\ mPendingOps' = mPendingOps \ Find(c.op.key)
       /\ IF Find(c.op.key) # {} /\ stage = "up"
          THEN wpc' = [wpc EXCEPT ![w] = "finish"] /\ UNCHANGED <<free, taken>>
          ELSE /\ wpc' = [wpc EXCEPT ![w] = "idle"] /\ taken' = [taken EXCEPT ![w] = {}]
               /\ IF Find(c.op.key) # {} THEN Give("Send", c.op.slot) ELSE UNCHANGED free
  /\ UNCHANGED <<kind, mInitialized, stage, mNextOpKey, mPendingRequests, mSocketRecvSlot, kernel,
                 cpc, held, log>>

(* RIO, under the lock again: the received bytes are copied out of the slab *)
(* while the socket still has its slot, the slot of a send goes back, and a *)
(* receive that ends the connection returns the socket's slot.              *)
Finish_Rio(w) ==
  /\ wpc[w] = "finish" /\ wpc' = [wpc EXCEPT ![w] = "idle"] /\ taken' = [taken EXCEPT ![w] = {}]
  /\ \E c \in taken[w] :
       LET s == c.op.req[1]
           recv == c.op.req[2] = "Recv"
           slot == mSocketRecvSlot[s]
       IN  /\ slabFault' = (slabFault \/ (recv /\ c.outcome = "data" /\ slot # NoSlot /\ stage = "freed"))
           /\ IF ~recv THEN Give("Send", c.op.slot) /\ UNCHANGED mSocketRecvSlot
              ELSE IF c.outcome = "data" THEN UNCHANGED <<free, mSocketRecvSlot>>
              ELSE Give("Recv", slot) /\ mSocketRecvSlot' = [mSocketRecvSlot EXCEPT ![s] = NoSlot]
           /\ Deliver(c.op.key)
  /\ mPendingRequests' = IF mPendingRequests > 0 THEN mPendingRequests - 1 ELSE 0
  /\ UNCHANGED <<kind, mInitialized, stage, mPendingOps, mNextOpKey, kernel, cpc, held, accepted>>

(***************************************************************************)
(* Shutdown                                                                *)
(***************************************************************************)
(* The flag.  io_uring's callers do not look at it again under the lock:    *)
(* the engine shuts that provider down when none is under way.              *)
Shutdown_Flag ==
  /\ mInitialized /\ mInitialized' = FALSE /\ stage' = "flagged"
  /\ kind = "uring" => \A r \in Requests : cpc[r] = "idle"
  /\ UNCHANGED <<kind, mPendingOps, mNextOpKey, mPendingRequests, pool, kernel, cpc, held, wpc,
                 taken, log>>

(* The maps, under the lock. *)
Shutdown_Clear ==
  /\ stage = "flagged" /\ stage' = "cleared"
  /\ mPendingOps' = {} /\ mSocketRecvSlot' = [s \in Sockets |-> NoSlot]
  /\ UNCHANGED <<kind, mInitialized, mNextOpKey, mPendingRequests, free, kernel, cpc, held, wpc,
                 taken, log>>

(* The pools and the completion queue are freed. *)
Shutdown_Pools ==
  /\ stage = "cleared" /\ stage' = "freed" /\ free' = [t \in Types |-> {}]
  /\ sq' = <<>> /\ posted' = {} /\ cq' = <<>>
  /\ UNCHANGED <<kind, mInitialized, mPendingOps, mNextOpKey, mPendingRequests, mSocketRecvSlot,
                 cpc, held, wpc, taken, log>>

Request(r) ==
  \/ Acquire(r)
  \/ Submit_Uring(r)
  \/ Submit_Rio(r)
  \/ Insert_Iocp(r)
  \/ Post_Iocp(r)
  \/ Post_IocpLate(r)

Worker(w) ==
  \/ Dequeue(w)
  \/ Find_Iocp(w)
  \/ Find_Rio(w)
  \/ Finish_Rio(w)

Next ==
  \/ \E s \in Sockets : AssociateSocket(s)
  \/ \E r \in Requests : Request(r)
  \/ \E w \in Workers : Worker(w)
  \/ FlushRequests
  \/ Complete
  \/ Process_Uring
  \/ Shutdown_Flag
  \/ Shutdown_Clear
  \/ Shutdown_Pools

Spec == Init /\ [][Next]_vars

(***************************************************************************)
(* Properties                                                              *)
(***************************************************************************)
(* What the kernel, or an entry prepared for it, still refers to. *)
InUse == posted \cup {sq[i] : i \in 1 .. Len(sq)}
(* The operation a worker has taken out of the map and not finished. *)
InHand == UNION {{c.op : c \in taken[w]} : w \in {v \in Workers : wpc[v] = "finish"}}

SlotOwners(t, b) ==
  {<<"op", op>> : op \in {o \in mPendingOps \cup InHand : o.req[2] = t /\ o.slot = b}}
    \cup {<<"caller", r>> : r \in {q \in Requests : q[2] = t /\ held[q] = b}}
    \cup {<<"socket", s>> : s \in {q \in Sockets : t = "Recv" /\ mSocketRecvSlot[q] = b}}

(* Until Shutdown, every slot of a pool is free or has exactly one owner: a  *)
(* caller that acquired it, a pending operation, or on RIO the socket it is   *)
(* assigned to.  No slot is lost or handed out twice on any failure path, and *)
(* on IOCP and RIO what the kernel works on is in the map.  At any time a     *)
(* received message is copied out of RIO's slab only while it is allocated,   *)
(* although the worker passed the check of mShuttingDown before Shutdown.     *)
SlotsOwned ==
  /\ ~slabFault
  /\ stage = "up" =>
    /\ kind # "iocp" => \A t \in Types : \A b \in Slots[t] :
         Cardinality(SlotOwners(t, b)) = (IF b \in free[t] THEN 0 ELSE 1)
    /\ kind # "uring" => InUse \subseteq mPendingOps

(* After a failed io_uring_submit the pool slot is rolled back "so the caller *)
(* can retry": two requests the kernel works on never share a buffer slot.    *)
(* The entry left in the submission queue still refers to the slot, and the   *)
(* next submit hands it to the kernel beside the retry.                       *)
RetryIsSafe ==
  stage = "up" => \A x, y \in posted : x.slot = y.slot /\ x.req[2] = y.req[2] => x = y

(* Every request that returned Success is reported at most once, and until    *)
(* Shutdown one not reported yet is in the map and on its way: with the       *)
(* kernel, in the completion queue, or in a worker's hands.  The map holds    *)
(* nothing already reported, and the counter of pending requests equals what  *)
(* is in the map or in a worker's hands.                                      *)
CompletesOnce ==
  /\ \A k \in 1 .. MaxOps : delivered[k] <= (IF k \in accepted THEN 1 ELSE 0)
  /\ stage = "up" =>
       /\ \A k \in accepted : delivered[k] = 0 =>
            k \in {op.key : op \in InUse} \cup {cq[i].op.key : i \in 1 .. Len(cq)}
                    \cup UNION {{c.op.key : c \in taken[w]} : w \in Workers}
       /\ \A op \in mPendingOps : delivered[op.key] = 0
       /\ mPendingRequests = Cardinality(mPendingOps \cup InHand)
===============================================================================
