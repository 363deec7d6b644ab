--------------------------- MODULE ProviderLemmas ---------------------------
(***************************************************************************)
(* The inductive invariant of the completion providers (IOCP, RIO and      *)
(* io_uring), and the steps that leave their map of operations alone.      *)
(*                                                                         *)
(* ProviderInv says where an operation can be (the map, the submission     *)
(* queue, the kernel, the completion queue, a worker's hands), that a key  *)
(* names one operation, what a caller or a worker in the middle of its     *)
(* steps has, and which slot belongs to whom.  The steps are proved by     *)
(* what they do: take a slot, give it back, put an operation into the map, *)
(* take it out, move it on, report it, shut down.                          *)
(***************************************************************************)
EXTENDS ProviderParts, SequenceLemmas

\* The time limits of a leaf that names no prover of its own.
USE SMTT(30), ZenonT(30)

(***************************************************************************)
(* The completion providers                                                *)
(***************************************************************************)
(* Operations, and what the kernel says of one when it is done. *)
SlotNames == CompSendSlots \cup CompRecvSlots \cup {CP!NoSlot}
Ops == [key : 1 .. CompMaxOps, req : CP!Requests, slot : SlotNames]
Answers == [op : Ops, outcome : CP!Outcomes]

(* The operations in the completion queue, those a worker has dequeued, and  *)
(* all that the kernel or a worker still has.                                *)
Answered == {c.op : c \in Holds(k_cq)}
With(w) == {c.op : c \in k_taken[w]}
InWork == UNION {With(w) : w \in CompWorkers}
Travelling == k_posted \cup Holds(k_sq) \cup Answered \cup InWork
Working == k_mPendingOps \cup CP!InHand

ProviderTypes ==
  /\ CP!TypeOK
  /\ k_mPendingOps \subseteq Ops /\ k_posted \subseteq Ops /\ k_sq \in Seq(Ops) /\ k_cq \in Seq(Answers)
  /\ k_taken \in [CompWorkers -> SUBSET Answers] /\ k_held \in [CP!Requests -> SlotNames]
  /\ k_accepted \subseteq 1 .. CompMaxOps /\ k_delivered \in [1 .. CompMaxOps -> Nat]

(* A key is never used again, so it names one operation.  Without io_uring's *)
(* submission queue the kernel has an operation before the workers do.       *)
KeysInv ==
  /\ \A k \in k_accepted : k < k_mNextOpKey
  /\ \A x \in k_mPendingOps \cup Travelling : x.key < k_mNextOpKey
  /\ \A x, y \in k_mPendingOps \cup Travelling : x.key = y.key => x = y
  /\ k_kind # "uring" => k_sq = <<>> /\ k_posted \cap (Answered \cup InWork) = {}

(* How far Shutdown has come, and what each caller and worker can have. *)
StageInv ==
  /\ k_mInitialized <=> k_stage = "up"
  /\ k_stage \in {"cleared", "freed"} =>
       k_mPendingOps = {} /\ \A s \in CompSockets : k_mSocketRecvSlot[s] = CP!NoSlot

WorkerInv ==
  /\ \A w \in CompWorkers :
       /\ IF k_wpc[w] = "idle" THEN k_taken[w] = {} ELSE \E c \in Answers : k_taken[w] = {c}
       /\ k_wpc[w] # "idle" => k_kind # "uring"
       /\ k_wpc[w] = "finish" => k_kind = "rio"
  /\ k_kind = "rio" => \A v, w \in CompWorkers : k_wpc[v] # "idle" /\ k_wpc[w] # "idle" => v = w

CallerInv ==
  /\ \A r \in CP!Requests :
       /\ k_cpc[r] = "post" => k_kind = "iocp"
       /\ k_cpc[r] = "post" /\ k_stage \in {"up", "flagged"} => \E x \in k_mPendingOps : x.req = r
       /\ k_held[r] # CP!NoSlot => k_cpc[r] = "lock" /\ k_held[r] \in CP!Slots[r[2]] /\ CP!Pooled(r[2])
  /\ \A x \in k_mPendingOps : /\ k_cpc[x.req] # "lock"
                              /\ k_cpc[x.req] = "post" => x \notin Travelling
  /\ \A x, y \in k_mPendingOps : x.req = y.req => x = y

(* An operation in the map or in a worker's hands was not reported; what the *)
(* kernel has of them was accepted, and what was accepted it has.            *)
ReportInv ==
  /\ \A k \in 1 .. CompMaxOps : k_delivered[k] <= (IF k \in k_accepted THEN 1 ELSE 0)
  /\ \A x \in Working : k_delivered[x.key] = 0 /\ (x \in Travelling => x.key \in k_accepted)
  /\ k_mPendingOps \cap CP!InHand = {}
  /\ k_stage = "up" => \A k \in k_accepted : k_delivered[k] = 0 =>
                         \E x \in Working \cap Travelling : x.key = k
  /\ k_stage = "up" /\ k_kind # "uring" => k_posted \subseteq k_mPendingOps

PendingInv ==
  /\ IsFiniteSet(k_mPendingOps)
  /\ k_stage = "up" \/ (k_stage = "flagged" /\ k_kind = "iocp") =>
       k_mPendingRequests = Cardinality(Working)

(* No slot has two owners, and until Shutdown none is lost. *)
SlotsInv ==
  /\ \A t \in CP!Types : k_free[t] \subseteq CP!Slots[t]
  /\ \A x \in Working : x.slot # CP!NoSlot => x.slot \in CP!Slots[x.req[2]] /\ CP!Pooled(x.req[2])
  /\ k_kind # "rio" => \A s \in CompSockets : k_mSocketRecvSlot[s] = CP!NoSlot

OwnersInv ==
  /\ \A x \in Working : x.slot \notin k_free[x.req[2]]
  /\ \A r \in CP!Requests : k_held[r] \notin k_free[r[2]]
  /\ \A s \in CompSockets : k_mSocketRecvSlot[s] \notin k_free["Recv"]
  /\ \A x, y \in Working : x.slot = y.slot /\ x.req[2] = y.req[2] /\ x.slot # CP!NoSlot => x = y
  /\ \A r, q \in CP!Requests : k_held[r] = k_held[q] /\ r[2] = q[2] /\ k_held[r] # CP!NoSlot => r = q
  /\ \A x \in Working, r \in CP!Requests : x.slot = k_held[r] /\ x.req[2] = r[2] => x.slot = CP!NoSlot
  /\ \A s, u \in CompSockets :
       k_mSocketRecvSlot[s] = k_mSocketRecvSlot[u] /\ k_mSocketRecvSlot[s] # CP!NoSlot => s = u

Owned(t, b) ==
  \/ b \in k_free[t]
  \/ \E x \in Working : x.req[2] = t /\ x.slot = b
  \/ \E r \in CP!Requests : r[2] = t /\ k_held[r] = b
  \/ t = "Recv" /\ \E s \in CompSockets : k_mSocketRecvSlot[s] = b

NoneLost == \A t \in CP!Types : \A b \in CP!Slots[t] : Owned(t, b)

ProviderInv ==
  /\ ProviderTypes /\ KeysInv /\ StageInv /\ WorkerInv /\ CallerInv /\ ReportInv /\ PendingInv
  /\ ~k_slabFault /\ SlotsInv /\ (k_stage = "up" => OwnersInv /\ NoneLost)

LEMMA SlotNamesApart ==
  /\ CP!NoSlot \notin CompSendSlots \cup CompRecvSlots
  /\ CP!Slots["Send"] = CompSendSlots /\ CP!Slots["Recv"] = CompRecvSlots
  /\ CP!Types = {"Send", "Recv"} /\ \A r \in CP!Requests : r[2] \in CP!Types /\ r[1] \in CompSockets
BY CompAssumption DEF CP!NoSlot, CP!Slots, CP!Types, CP!Requests

(* A caller takes a slot from the pool. *)
LEMMA SlotsAcquire ==
  ASSUME ProviderTypes, SlotsInv, OwnersInv, NoneLost, NEW r \in CP!Requests, k_held[r] = CP!NoSlot,
         NEW b \in k_free[r[2]], k_held' = [k_held EXCEPT ![r] = b],
         k_free' = [k_free EXCEPT ![r[2]] = @ \ {b}],
         Working' = Working, UNCHANGED <<k_kind, k_mSocketRecvSlot>>
  PROVE  SlotsInv' /\ OwnersInv' /\ NoneLost'
<1>0. /\ r[2] \in CP!Types /\ b \in CP!Slots[r[2]] /\ b # CP!NoSlot
      /\ k_free \in [CP!Types -> SUBSET (CompSendSlots \cup CompRecvSlots)] /\ k_held \in [CP!Requests -> SlotNames]
  BY SlotNamesApart DEF SlotsInv, ProviderTypes, CP!TypeOK
<1>1. /\ k_held'[r] = b /\ \A q \in CP!Requests \ {r} : k_held'[q] = k_held[q]
      /\ k_free'[r[2]] = k_free[r[2]] \ {b} /\ \A t \in CP!Types \ {r[2]} : k_free'[t] = k_free[t]
  BY <1>0
<1>2. SlotsInv'
  BY <1>0, <1>1 DEF SlotsInv, CP!Pooled
<1>3. OwnersInv'
  <2>1. \A t \in CP!Types : k_free'[t] \subseteq k_free[t]
    BY <1>1
  <2>2. \A q \in CP!Requests \ {r} : q[2] = r[2] => k_held[q] # b
    BY DEF OwnersInv
  <2>3. \A x \in Working : x.req[2] = r[2] => x.slot # b
    BY DEF OwnersInv
  <2> QED
    BY <1>0, <1>1, <2>1, <2>2, <2>3, SlotNamesApart DEF OwnersInv
<1>4. NoneLost'
  <2>1. ASSUME NEW t \in CP!Types, NEW c \in CP!Slots[t] PROVE Owned(t, c)'
    <3>1. Owned(t, c)
      BY DEF NoneLost
    <3>2. CASE t = r[2] /\ c = b
      BY <1>1, <3>2 DEF Owned
    <3>3. CASE ~(t = r[2] /\ c = b)
      <4>1. c \in k_free[t] => c \in k_free'[t]
        BY <1>1, <3>3
      <4>2. \A q \in CP!Requests : k_held[q] = c => k_held'[q] = c
        <5>1. c # CP!NoSlot
          BY SlotNamesApart
        <5> QED
          BY <1>1, <5>1
      <4> QED
        BY <3>1, <4>1, <4>2 DEF Owned
    <3> QED
      BY <3>2, <3>3
  <2> QED
    BY <2>1 DEF NoneLost, CP!Slots
<1> QED
  BY <1>2, <1>3, <1>4

(* RIO gives a socket its receive slot. *)
LEMMA SlotsAssociate ==
  ASSUME ProviderTypes, SlotsInv, OwnersInv, NoneLost, CallerInv, k_kind = "rio", NEW s \in CompSockets,
         k_mSocketRecvSlot[s] = CP!NoSlot, NEW b \in k_free["Recv"],
         k_mSocketRecvSlot' = [k_mSocketRecvSlot EXCEPT ![s] = b],
         k_free' = [k_free EXCEPT !["Recv"] = @ \ {b}],
         Working' = Working, UNCHANGED <<k_kind, k_held>>
  PROVE  SlotsInv' /\ OwnersInv' /\ NoneLost'
<1>0. /\ "Recv" \in CP!Types /\ b \in CompRecvSlots /\ b # CP!NoSlot
      /\ k_free \in [CP!Types -> SUBSET (CompSendSlots \cup CompRecvSlots)]
      /\ k_mSocketRecvSlot \in [CompSockets -> CompRecvSlots \cup {CP!NoSlot}]
  BY SlotNamesApart DEF SlotsInv, ProviderTypes, CP!TypeOK
<1>1. /\ k_mSocketRecvSlot'[s] = b /\ \A u \in CompSockets \ {s} : k_mSocketRecvSlot'[u] = k_mSocketRecvSlot[u]
      /\ k_free'["Recv"] = k_free["Recv"] \ {b} /\ \A t \in CP!Types \ {"Recv"} : k_free'[t] = k_free[t]
  BY <1>0
<1>2. SlotsInv'
  BY <1>0, <1>1 DEF SlotsInv, CP!Pooled
<1>3. OwnersInv'
  <2>1. \A t \in CP!Types : k_free'[t] \subseteq k_free[t]
    BY <1>1
  <2>2. \A u \in CompSockets \ {s} : k_mSocketRecvSlot[u] # b
    BY DEF OwnersInv
  <2>3. /\ \A x \in Working : x.slot \notin k_free'[x.req[2]]
        /\ \A r \in CP!Requests : k_held'[r] \notin k_free'[r[2]]
    <3>1. CP!Types = {"Send", "Recv"}
      BY SlotNamesApart
    <3> QED
      BY <1>1, <3>1 DEF OwnersInv
  <2> QED
    BY <1>0, <1>1, <2>1, <2>2, <2>3, SlotNamesApart DEF OwnersInv
<1>4. NoneLost'
  <2>1. ASSUME NEW t \in CP!Types, NEW c \in CP!Slots[t] PROVE Owned(t, c)'
    <3>1. Owned(t, c)
      BY DEF NoneLost
    <3>2. CASE t = "Recv" /\ c = b
      BY <1>1, <3>2 DEF Owned
    <3>3. CASE ~(t = "Recv" /\ c = b)
      <4>1. c \in k_free[t] => c \in k_free'[t]
        BY <1>1, <3>3
      <4>2. \A u \in CompSockets : k_mSocketRecvSlot[u] = c => k_mSocketRecvSlot'[u] = c
        <5>1. c # CP!NoSlot
          BY SlotNamesApart
        <5> QED
          BY <1>1, <5>1
      <4> QED
        BY <3>1, <4>1, <4>2 DEF Owned
    <3> QED
      BY <3>2, <3>3
  <2> QED
    BY <2>1 DEF NoneLost, CP!Slots
<1> QED
  BY <1>2, <1>3, <1>4

(* The operations there are. *)
LEMMA WorkingTypes ==
  ASSUME ProviderTypes
  PROVE  /\ Answered \subseteq Ops /\ InWork \subseteq Ops /\ Travelling \subseteq Ops
         /\ CP!InHand \subseteq InWork /\ Working \subseteq Ops
         /\ \A x \in Ops : /\ x.key \in 1 .. CompMaxOps /\ x.req \in CP!Requests /\ x.slot \in SlotNames
                           /\ x.req[2] \in CP!Types /\ x.req[1] \in CompSockets
<1>1. \A x \in Ops : /\ x.key \in 1 .. CompMaxOps /\ x.req \in CP!Requests /\ x.slot \in SlotNames
                     /\ x.req[2] \in CP!Types /\ x.req[1] \in CompSockets
  BY SlotNamesApart DEF Ops
<1>2. \A c \in Answers : c.op \in Ops
  BY DEF Answers
<1>3. Holds(k_cq) \subseteq Answers /\ Holds(k_sq) \subseteq Ops
  BY HoldsType DEF ProviderTypes
<1>4. Answered \subseteq Ops
  BY <1>2, <1>3 DEF Answered
<1>5. InWork \subseteq Ops
  BY <1>2 DEF InWork, With, ProviderTypes
<1>6. CP!InHand \subseteq InWork
  BY DEF CP!InHand, InWork, With
<1> QED
  BY <1>1, <1>3, <1>4, <1>5, <1>6 DEF Travelling, Working, ProviderTypes

(* A caller gives its slot back, if it has one. *)
LEMMA SlotsRefuse ==
  ASSUME ProviderTypes, SlotsInv, CallerInv, NEW r \in CP!Requests,
         k_held' = [k_held EXCEPT ![r] = CP!NoSlot], CP!Give(r[2], k_held[r]),
         Working' = Working, UNCHANGED <<k_kind, k_mSocketRecvSlot>>
  PROVE  SlotsInv' /\ (OwnersInv /\ NoneLost => OwnersInv' /\ NoneLost')
<1> DEFINE h == k_held[r]
           t == r[2]
<1>0. /\ h # CP!NoSlot => h \in CP!Slots[t] /\ CP!Pooled(t)
      /\ k_free \in [CP!Types -> SUBSET (CompSendSlots \cup CompRecvSlots)] /\ k_held \in [CP!Requests -> SlotNames]
  BY SlotNamesApart DEF SlotsInv, ProviderTypes, CP!TypeOK, CallerInv
<1>t. t \in CP!Types
  BY SlotNamesApart
<1>1. /\ k_held'[r] = CP!NoSlot /\ \A q \in CP!Requests \ {r} : k_held'[q] = k_held[q]
      /\ k_free'[t] = k_free[t] \cup ({h} \ {CP!NoSlot}) /\ \A u \in CP!Types \ {t} : k_free'[u] = k_free[u]
  BY <1>0, <1>t DEF CP!Give
<1> HIDE DEF h
<1>2. SlotsInv'
  <2>1. \A u \in CP!Types : k_free'[u] \subseteq CP!Slots[u]
    BY <1>0, <1>1, <1>t DEF SlotsInv
  <2> QED
    BY <2>1 DEF SlotsInv, CP!Pooled, CP!Slots
<1>3. ASSUME OwnersInv PROVE OwnersInv'
  <2>1. ASSUME NEW x \in Working PROVE x.slot \notin k_free'[x.req[2]]
    <3>1. x.slot \notin k_free[x.req[2]] /\ (x.slot = h /\ x.req[2] = t => x.slot = CP!NoSlot)
      BY <1>3 DEF OwnersInv, h
    <3> QED
      BY <1>1, <3>1, WorkingTypes
  <2>2. ASSUME NEW q \in CP!Requests PROVE k_held'[q] \notin k_free'[q[2]]
    <3>1. q[2] \in CP!Types /\ k_held[q] \notin k_free[q[2]]
      BY <1>3, SlotNamesApart DEF OwnersInv
    <3>2. CASE q = r
      <4>1. CP!NoSlot \notin k_free[t]
        BY <1>0, <1>t, SlotNamesApart
      <4> QED
        BY <1>1, <3>2, <4>1
    <3>3. CASE q # r
      <4>1. k_held[q] = h /\ q[2] = t => h = CP!NoSlot
        BY <1>3, <3>3 DEF OwnersInv, h
      <4> QED
        BY <1>1, <3>1, <3>3, <4>1
    <3> QED
      BY <3>2, <3>3
  <2>3. ASSUME NEW s \in CompSockets PROVE k_mSocketRecvSlot'[s] \notin k_free'["Recv"]
    <3>1. k_mSocketRecvSlot[s] \notin k_free["Recv"]
      BY <1>3 DEF OwnersInv
    <3>2. CASE t = "Recv" /\ h # CP!NoSlot
      <4>1. k_kind # "rio"
        BY <1>0, <3>2 DEF CP!Pooled
      <4>2. k_mSocketRecvSlot[s] = CP!NoSlot
        BY <4>1 DEF SlotsInv
      <4> QED
        BY <1>1, <3>1, <3>2, <4>2
    <3>3. CASE ~(t = "Recv" /\ h # CP!NoSlot)
      BY <1>1, <3>1, <3>3, SlotNamesApart
    <3> QED
      BY <3>2, <3>3
  <2>4. \A p, q \in CP!Requests : k_held'[p] = k_held'[q] /\ p[2] = q[2] /\ k_held'[p] # CP!NoSlot => p = q
    BY <1>1, <1>3 DEF OwnersInv
  <2>5. \A x \in Working, q \in CP!Requests : x.slot = k_held'[q] /\ x.req[2] = q[2] => x.slot = CP!NoSlot
    BY <1>1, <1>3 DEF OwnersInv
  <2> QED
    BY <1>3, <2>1, <2>2, <2>3, <2>4, <2>5 DEF OwnersInv
<1>4. ASSUME NoneLost PROVE NoneLost'
  <2>1. ASSUME NEW u \in CP!Types, NEW c \in CP!Slots[u] PROVE Owned(u, c)'
    <3>1. Owned(u, c) /\ c # CP!NoSlot
      BY <1>4, SlotNamesApart DEF NoneLost
    <3>2. CASE u = t /\ c = h
      BY <1>1, <3>1, <3>2 DEF Owned
    <3>3. CASE ~(u = t /\ c = h)
      <4>1. c \in k_free[u] => c \in k_free'[u]
        BY <1>1, <1>t
      <4>2. \A q \in CP!Requests : q[2] = u /\ k_held[q] = c => k_held'[q] = c
        BY <1>1, <3>3 DEF h
      <4> QED
        BY <3>1, <4>1, <4>2 DEF Owned
    <3> QED
      BY <3>2, <3>3
  <2> QED
    BY <2>1 DEF NoneLost, CP!Slots
<1> QED
  BY <1>2, <1>3, <1>4

(* A caller's slot goes to its operation. *)
LEMMA SlotsAccept ==
  ASSUME ProviderTypes, SlotsInv, CallerInv, NEW r \in CP!Requests, NEW x \in Ops, x.req = r, x.slot = k_held[r],
         k_held' = [k_held EXCEPT ![r] = CP!NoSlot],
         Working' = Working \cup {x}, UNCHANGED <<k_free, k_kind, k_mSocketRecvSlot>>
  PROVE  SlotsInv' /\ (OwnersInv /\ NoneLost => OwnersInv' /\ NoneLost')
<1>0. k_held \in [CP!Requests -> SlotNames] /\ (x.slot # CP!NoSlot => x.slot \in CP!Slots[r[2]] /\ CP!Pooled(r[2]))
  BY DEF ProviderTypes, CallerInv
<1>1. k_held'[r] = CP!NoSlot /\ \A q \in CP!Requests \ {r} : k_held'[q] = k_held[q]
  BY <1>0
<1>2. SlotsInv'
  BY <1>0 DEF SlotsInv, CP!Pooled, CP!Slots
<1>3. ASSUME OwnersInv PROVE OwnersInv'
  <2>1. \A q \in CP!Requests : k_held'[q] \notin k_free'[q[2]]
    <3>1. CP!NoSlot \notin k_free[r[2]]
      BY SlotNamesApart DEF ProviderTypes, CP!TypeOK
    <3> QED
      BY <1>1, <1>3, <3>1 DEF OwnersInv
  <2>2. \A p, q \in CP!Requests : k_held'[p] = k_held'[q] /\ p[2] = q[2] /\ k_held'[p] # CP!NoSlot => p = q
    BY <1>1, <1>3 DEF OwnersInv
  <2>3. ASSUME NEW y \in Working', NEW q \in CP!Requests, y.slot = k_held'[q], y.req[2] = q[2] PROVE y.slot = CP!NoSlot
    <3>1. CASE y \in Working
      BY <1>1, <1>3, <2>3, <3>1 DEF OwnersInv
    <3>2. CASE y = x /\ q # r
      BY <1>1, <1>3, <2>3, <3>2 DEF OwnersInv
    <3> QED
      BY <1>1, <2>3, <3>1, <3>2
  <2>4. \A y \in Working : y.slot = x.slot /\ y.req[2] = x.req[2] => x.slot = CP!NoSlot
    BY <1>3 DEF OwnersInv
  <2>5. \A y, z \in Working' : y.slot = z.slot /\ y.req[2] = z.req[2] /\ y.slot # CP!NoSlot => y = z
    BY <1>3, <2>4 DEF OwnersInv
  <2>6. \A y \in Working' : y.slot \notin k_free'[y.req[2]]
    BY <1>3 DEF OwnersInv
  <2> QED
    BY <1>3, <2>1, <2>2, <2>3, <2>5, <2>6 DEF OwnersInv
<1>4. ASSUME NoneLost PROVE NoneLost'
  <2>1. ASSUME NEW u \in CP!Types, NEW c \in CP!Slots[u] PROVE Owned(u, c)'
    <3>1. Owned(u, c)
      BY <1>4 DEF NoneLost
    <3>2. CASE u = r[2] /\ c = x.slot
      BY <3>2 DEF Owned
    <3>3. CASE ~(u = r[2] /\ c = x.slot)
      BY <1>1, <3>1, <3>3 DEF Owned
    <3> QED
      BY <3>2, <3>3
  <2> QED
    BY <2>1 DEF NoneLost, CP!Slots
<1> QED
  BY <1>2, <1>3, <1>4

(* An operation ends and its slot is given back, if it had one. *)
LEMMA SlotsRelease ==
  ASSUME ProviderTypes, SlotsInv, CallerInv, NEW x \in Working, Working' = Working \ {x},
         CP!Give(x.req[2], x.slot), UNCHANGED <<k_held, k_kind, k_mSocketRecvSlot>>
  PROVE  SlotsInv' /\ (OwnersInv /\ NoneLost => OwnersInv' /\ NoneLost')
<1> DEFINE h == x.slot
           t == x.req[2]
<1>0. /\ h # CP!NoSlot => h \in CP!Slots[t] /\ CP!Pooled(t)
      /\ k_free \in [CP!Types -> SUBSET (CompSendSlots \cup CompRecvSlots)] /\ t \in CP!Types
      /\ CP!NoSlot \notin k_free[t]
  BY SlotNamesApart, WorkingTypes DEF SlotsInv, ProviderTypes, CP!TypeOK
<1>1. /\ k_free'[t] = k_free[t] \cup ({h} \ {CP!NoSlot}) /\ \A u \in CP!Types \ {t} : k_free'[u] = k_free[u]
  BY <1>0 DEF CP!Give
<1>2. SlotsInv'
  <2>1. \A u \in CP!Types : k_free'[u] \subseteq CP!Slots[u]
    BY <1>0, <1>1 DEF SlotsInv
  <2> QED
    BY <2>1 DEF SlotsInv, CP!Pooled, CP!Slots
<1>3. ASSUME OwnersInv PROVE OwnersInv'
  <2>1. ASSUME NEW y \in Working' PROVE y.slot \notin k_free'[y.req[2]]
    <3>1. y \in Working /\ y.req[2] \in CP!Types /\ y.slot \notin k_free[y.req[2]]
      BY <1>3, WorkingTypes DEF OwnersInv
    <3>2. y.slot = h /\ y.req[2] = t => h = CP!NoSlot
      BY <1>3, <3>1 DEF OwnersInv
    <3> QED
      BY <1>1, <3>1, <3>2
  <2>2. ASSUME NEW q \in CP!Requests PROVE k_held'[q] \notin k_free'[q[2]]
    <3>1. q[2] \in CP!Types /\ k_held[q] \notin k_free[q[2]]
      BY <1>3, SlotNamesApart DEF OwnersInv
    <3>2. k_held[q] = h /\ q[2] = t => h = CP!NoSlot
      BY <1>3 DEF OwnersInv
    <3> QED
      BY <1>1, <3>1, <3>2
  <2>3. ASSUME NEW s \in CompSockets PROVE k_mSocketRecvSlot'[s] \notin k_free'["Recv"]
    <3>1. k_mSocketRecvSlot[s] \notin k_free["Recv"]
      BY <1>3 DEF OwnersInv
    <3>2. CASE t = "Recv" /\ h # CP!NoSlot
      <4>1. k_kind # "rio"
        BY <1>0, <3>2 DEF CP!Pooled
      <4>2. k_mSocketRecvSlot[s] = CP!NoSlot
        BY <4>1 DEF SlotsInv
      <4> QED
        BY <1>1, <3>1, <3>2, <4>2
    <3>3. CASE ~(t = "Recv" /\ h # CP!NoSlot)
      BY <1>1, <3>1, <3>3, SlotNamesApart
    <3> QED
      BY <3>2, <3>3
  <2> QED
    BY <1>3, <2>1, <2>2, <2>3 DEF OwnersInv
<1>4. ASSUME NoneLost PROVE NoneLost'
  <2>1. ASSUME NEW u \in CP!Types, NEW c \in CP!Slots[u] PROVE Owned(u, c)'
    <3>1. Owned(u, c) /\ c # CP!NoSlot
      BY <1>4, SlotNamesApart DEF NoneLost
    <3>2. CASE u = t /\ c = h
      BY <1>1, <3>1, <3>2 DEF Owned
    <3>3. CASE ~(u = t /\ c = h)
      <4>1. c \in k_free[u] => c \in k_free'[u]
        BY <1>1, <1>0
      <4> QED
        BY <3>1, <3>3, <4>1 DEF Owned
    <3> QED
      BY <3>2, <3>3
  <2> QED
    BY <2>1 DEF NoneLost, CP!Slots
<1> QED
  BY <1>2, <1>3, <1>4

(* On RIO a receive that ends the connection returns the socket's slot. *)
LEMMA SlotsReturn ==
  ASSUME ProviderTypes, SlotsInv, CallerInv, NEW x \in Working, Working' = Working \ {x}, x.slot = CP!NoSlot,
         k_kind = "rio", NEW s \in CompSockets, CP!Give("Recv", k_mSocketRecvSlot[s]),
         k_mSocketRecvSlot' = [k_mSocketRecvSlot EXCEPT ![s] = CP!NoSlot], UNCHANGED <<k_held, k_kind>>
  PROVE  SlotsInv' /\ (OwnersInv /\ NoneLost => OwnersInv' /\ NoneLost')
<1> DEFINE h == k_mSocketRecvSlot[s]
<1>0. /\ h # CP!NoSlot => h \in CP!Slots["Recv"]
      /\ k_free \in [CP!Types -> SUBSET (CompSendSlots \cup CompRecvSlots)] /\ "Recv" \in CP!Types
      /\ CP!NoSlot \notin k_free["Recv"] /\ ~CP!Pooled("Recv")
      /\ k_mSocketRecvSlot \in [CompSockets -> CompRecvSlots \cup {CP!NoSlot}]
  BY SlotNamesApart DEF ProviderTypes, CP!TypeOK, CP!Pooled
<1>1. /\ k_free'["Recv"] = k_free["Recv"] \cup ({h} \ {CP!NoSlot}) /\ \A u \in CP!Types \ {"Recv"} : k_free'[u] = k_free[u]
  BY <1>0 DEF CP!Give
<1>s. k_mSocketRecvSlot'[s] = CP!NoSlot /\ \A u \in CompSockets \ {s} : k_mSocketRecvSlot'[u] = k_mSocketRecvSlot[u]
  BY <1>0
<1>2. SlotsInv'
  <2>1. \A u \in CP!Types : k_free'[u] \subseteq CP!Slots[u]
    BY <1>0, <1>1 DEF SlotsInv
  <2> QED
    BY <2>1 DEF SlotsInv, CP!Pooled, CP!Slots
<1>h. h = k_mSocketRecvSlot[s]
  OBVIOUS
<1> HIDE DEF h
<1>3. ASSUME OwnersInv PROVE OwnersInv'
  <2>1. ASSUME NEW y \in Working' PROVE y.slot \notin k_free'[y.req[2]]
    <3>1. y \in Working /\ y.req[2] \in CP!Types /\ y.slot \notin k_free[y.req[2]]
      BY <1>3, WorkingTypes DEF OwnersInv
    <3>2. y.req[2] = "Recv" => y.slot = CP!NoSlot
      BY <1>0, <3>1 DEF SlotsInv
    <3> QED
      BY <1>1, <3>1, <3>2
  <2>2. ASSUME NEW q \in CP!Requests PROVE k_held'[q] \notin k_free'[q[2]]
    <3>1. q[2] \in CP!Types /\ k_held[q] \notin k_free[q[2]]
      BY <1>3, SlotNamesApart DEF OwnersInv
    <3>2. q[2] = "Recv" => k_held[q] = CP!NoSlot
      BY <1>0 DEF CallerInv
    <3> QED
      BY <1>1, <3>1, <3>2
  <2>3. ASSUME NEW u \in CompSockets PROVE k_mSocketRecvSlot'[u] \notin k_free'["Recv"]
    <3>1. k_mSocketRecvSlot[u] \notin k_free["Recv"] /\ (u # s /\ k_mSocketRecvSlot[u] = h => h = CP!NoSlot)
      BY <1>3, <1>h DEF OwnersInv
    <3> QED
      BY <1>0, <1>1, <1>s, <3>1
  <2>4. \A u, v \in CompSockets :
          k_mSocketRecvSlot'[u] = k_mSocketRecvSlot'[v] /\ k_mSocketRecvSlot'[u] # CP!NoSlot => u = v
    BY <1>3, <1>s DEF OwnersInv
  <2> QED
    BY <1>3, <2>1, <2>2, <2>3, <2>4 DEF OwnersInv
<1>4. ASSUME NoneLost PROVE NoneLost'
  <2>1. ASSUME NEW u \in CP!Types, NEW c \in CP!Slots[u] PROVE Owned(u, c)'
    <3>1. Owned(u, c) /\ c # CP!NoSlot
      BY <1>4, SlotNamesApart DEF NoneLost
    <3>2. CASE u = "Recv" /\ c = h
      BY <1>1, <3>1, <3>2 DEF Owned
    <3>3. CASE ~(u = "Recv" /\ c = h)
      <4>1. c \in k_free[u] => c \in k_free'[u]
        BY <1>0, <1>1
      <4>2. u = "Recv" => \A v \in CompSockets : k_mSocketRecvSlot[v] = c => k_mSocketRecvSlot'[v] = c
        BY <1>s, <1>h, <3>3
      <4>3. \A y \in Working : y.slot = c => y \in Working'
        BY <3>1
      <4> QED
        BY <3>1, <4>1, <4>2, <4>3 DEF Owned
    <3> QED
      BY <3>2, <3>3
  <2> QED
    BY <2>1 DEF NoneLost, CP!Slots
<1> QED
  BY <1>2, <1>3, <1>4

LEMMA SameTravel ==
  ASSUME UNCHANGED <<k_posted, k_sq, k_cq, k_taken>>
  PROVE  Travelling' = Travelling /\ Answered' = Answered /\ InWork' = InWork
BY DEF Travelling, Answered, InWork, With

LEMMA SameHand ==
  ASSUME UNCHANGED <<k_wpc, k_taken>>
  PROVE  CP!InHand' = CP!InHand
BY DEF CP!InHand

LEMMA SameWorking ==
  ASSUME UNCHANGED <<k_mPendingOps, k_wpc, k_taken>>
  PROVE  Working' = Working
BY SameHand DEF Working

LEMMA CompCount == \A S : CP!Cardinality(S) = Cardinality(S)
BY DEF CP!Cardinality, Cardinality

(* Keys, when no operation appears. *)
LEMMA KeysKeep ==
  ASSUME ProviderTypes, KeysInv, UNCHANGED k_kind, k_mNextOpKey' \in {k_mNextOpKey, k_mNextOpKey + 1},
         k_mPendingOps' \cup Travelling' \subseteq k_mPendingOps \cup Travelling,
         k_accepted' \subseteq k_accepted \cup {x.key : x \in k_mPendingOps},
         k_kind # "uring" => k_sq' = <<>> /\ k_posted' \cap (Answered' \cup InWork') = {}
  PROVE  KeysInv'
<1>0. /\ k_mNextOpKey \in Nat /\ k_accepted \subseteq Nat /\ k_mPendingOps \subseteq Ops
      /\ \A x \in k_mPendingOps \cup Travelling : x.key \in Nat
  BY CompAssumption, WorkingTypes DEF ProviderTypes, CP!TypeOK
<1>1. ASSUME NEW k \in k_accepted' PROVE k < k_mNextOpKey'
  <2>1. k \in Nat /\ k < k_mNextOpKey
    <3>1. CASE k \in k_accepted
      BY <1>0, <3>1, Zenon DEF KeysInv
    <3>2. ASSUME NEW x \in k_mPendingOps, k = x.key PROVE k \in Nat /\ k < k_mNextOpKey
      BY <1>0, <3>2 DEF KeysInv
    <3> QED
      BY <1>1, <3>1, <3>2
  <2> QED
    BY <1>0, <2>1
<1>2. \A x \in k_mPendingOps' \cup Travelling' : x.key < k_mNextOpKey'
  BY <1>0 DEF KeysInv
<1>3. \A x, y \in k_mPendingOps' \cup Travelling' : x.key = y.key => x = y
  BY DEF KeysInv
<1> QED
  BY <1>1, <1>2, <1>3 DEF KeysInv

(* ... and when one does. *)
LEMMA KeysNew ==
  ASSUME ProviderTypes, KeysInv, UNCHANGED k_kind, k_mNextOpKey' = k_mNextOpKey + 1,
         NEW n \in Ops, n.key = k_mNextOpKey,
         k_mPendingOps' \cup Travelling' \subseteq k_mPendingOps \cup Travelling \cup {n},
         k_accepted' \subseteq k_accepted \cup {n.key},
         k_kind # "uring" => k_sq' = <<>> /\ k_posted' \cap (Answered' \cup InWork') = {}
  PROVE  KeysInv'
<1>0. /\ k_mNextOpKey \in Nat /\ k_accepted \subseteq Nat
      /\ \A x \in k_mPendingOps \cup Travelling : x.key \in Nat
  BY CompAssumption, WorkingTypes DEF ProviderTypes, CP!TypeOK
<1>1. \A k \in k_accepted' : k < k_mNextOpKey'
  BY <1>0 DEF KeysInv
<1>2. \A x \in k_mPendingOps' \cup Travelling' : x.key < k_mNextOpKey'
  BY <1>0 DEF KeysInv
<1>3. \A x, y \in k_mPendingOps' \cup Travelling' : x.key = y.key => x = y
  <2>1. \A x \in k_mPendingOps \cup Travelling : x.key # n.key
    BY <1>0 DEF KeysInv
  <2> QED
    BY <2>1 DEF KeysInv
<1> QED
  BY <1>1, <1>2, <1>3 DEF KeysInv

LEMMA FreshKey ==
  ASSUME ProviderTypes, KeysInv, ReportInv, NEW n \in Ops, n.key = k_mNextOpKey
  PROVE  n \notin k_mPendingOps \cup Travelling /\ n \notin Working /\ n.key \notin k_accepted /\ k_delivered[n.key] = 0
<1>0. /\ k_mNextOpKey \in Nat /\ Working \subseteq k_mPendingOps \cup Travelling /\ n.key \in 1 .. CompMaxOps
      /\ k_delivered \in [1 .. CompMaxOps -> Nat]
  BY CompAssumption, WorkingTypes DEF ProviderTypes, CP!TypeOK, Working, Travelling
<1>1. n \notin k_mPendingOps \cup Travelling /\ n.key \notin k_accepted
  BY <1>0 DEF KeysInv
<1>2. k_delivered[n.key] <= 0
  BY <1>0, <1>1 DEF ReportInv
<1> QED
  BY <1>0, <1>1, <1>2

(* A step that neither adds nor ends an operation. *)
LEMMA Quiet ==
  ASSUME ProviderInv, UNCHANGED <<k_kind, k_mPendingOps, k_accepted, k_delivered, k_slabFault>>,
         CP!InHand' = CP!InHand, Working \cap Travelling' = Working \cap Travelling,
         k_stage' = "up" => k_stage = "up" /\ (k_kind # "uring" => k_posted' \subseteq k_mPendingOps),
         k_stage' \in {"up", "flagged"} => k_stage \in {"up", "flagged"} /\ k_mPendingRequests' = k_mPendingRequests,
         ProviderTypes', KeysInv', StageInv', WorkerInv', CallerInv', SlotsInv',
         k_stage' = "up" => OwnersInv' /\ NoneLost'
  PROVE  ProviderInv'
<1>1. Working' = Working
  BY DEF Working
<1>2. ReportInv'
  BY <1>1 DEF ProviderInv, ReportInv
<1>3. PendingInv'
  BY <1>1 DEF ProviderInv, PendingInv
<1> QED
  BY <1>2, <1>3 DEF ProviderInv

LEMMA CallerKeep ==
  ASSUME CallerInv, UNCHANGED <<k_kind, k_cpc, k_held, k_mPendingOps>>,
         k_mPendingOps \cap Travelling' \subseteq Travelling,
         k_stage' \in {"up", "flagged"} => k_stage \in {"up", "flagged"}
  PROVE  CallerInv'
BY DEF CallerInv, CP!Pooled, CP!Slots

LEMMA SlotsKeep ==
  ASSUME UNCHANGED <<k_kind, k_held, k_free, k_mSocketRecvSlot>>, Working' = Working
  PROVE  /\ SlotsInv => SlotsInv'
         /\ OwnersInv => OwnersInv'
         /\ NoneLost => NoneLost'
BY DEF SlotsInv, OwnersInv, NoneLost, Owned, CP!Pooled, CP!Slots, CP!Types

(* A step of the callers or of Shutdown that touches neither the map nor the *)
(* kernel nor a worker.                                                      *)
LEMMA Aside ==
  ASSUME ProviderInv,
         UNCHANGED <<k_kind, k_mPendingOps, k_posted, k_sq, k_cq, k_wpc, k_taken, k_accepted, k_delivered, k_slabFault>>,
         k_mNextOpKey' \in {k_mNextOpKey, k_mNextOpKey + 1},
         k_stage' = "up" => k_stage = "up",
         k_stage' \in {"up", "flagged"} => k_stage \in {"up", "flagged"} /\ k_mPendingRequests' = k_mPendingRequests,
         ProviderTypes', StageInv', CallerInv', SlotsInv', k_stage' = "up" => OwnersInv' /\ NoneLost'
  PROVE  ProviderInv'
<1>1. /\ Travelling' = Travelling /\ Answered' = Answered /\ InWork' = InWork
      /\ CP!InHand' = CP!InHand
  BY SameTravel, SameHand
<1>2. KeysInv'
  BY <1>1, KeysKeep DEF ProviderInv, KeysInv
<1>3. WorkerInv'
  BY DEF ProviderInv, WorkerInv
<1>4. k_stage' = "up" => (k_kind # "uring" => k_posted' \subseteq k_mPendingOps)
  BY DEF ProviderInv, ReportInv
<1> QED
  BY <1>1, <1>2, <1>3, <1>4, Quiet

LEMMA AssociateStep == ASSUME ProviderInv, NEW s \in CompSockets, CP!AssociateSocket(s) PROVE ProviderInv'
<1> USE DEF CP!AssociateSocket, CP!kernel, CP!log
<1>0. PICK b \in k_free["Recv"] : /\ k_mSocketRecvSlot' = [k_mSocketRecvSlot EXCEPT ![s] = b]
                                  /\ k_free' = [k_free EXCEPT !["Recv"] = @ \ {b}]
  BY Zenon
<1>1. Working' = Working /\ Travelling' = Travelling
  BY SameWorking, SameTravel
<1>2. k_stage = "up"
  BY DEF ProviderInv, StageInv
<1>3. SlotsInv' /\ OwnersInv' /\ NoneLost'
  BY <1>0, <1>1, <1>2, SlotsAssociate, Zenon DEF ProviderInv
<1>4. ProviderTypes'
  <2>1. b \in CompRecvSlots
    BY SlotNamesApart DEF ProviderInv, SlotsInv
  <2> QED
    BY <1>0, <2>1, Zenon DEF ProviderInv, ProviderTypes, CP!TypeOK
<1>5. StageInv'
  BY <1>2 DEF ProviderInv, StageInv
<1>6. CallerInv'
  BY <1>1, CallerKeep DEF ProviderInv
<1> QED
  BY <1>3, <1>4, <1>5, <1>6, Aside

LEMMA AcquireStep == ASSUME ProviderInv, NEW r \in CP!Requests, CP!Acquire(r) PROVE ProviderInv'
<1> USE DEF CP!Acquire, CP!kernel, CP!log, CP!To
<1>0. k_held[r] = CP!NoSlot /\ k_stage = "up" /\ r[2] \in CP!Types
  BY SlotNamesApart DEF ProviderInv, CallerInv, StageInv
<1>1. Working' = Working /\ Travelling' = Travelling
  BY SameWorking, SameTravel, Zenon
<1>2. \/ /\ CP!Pooled(r[2]) /\ \E b \in k_free[r[2]] : /\ k_held' = [k_held EXCEPT ![r] = b]
                                                       /\ k_free' = [k_free EXCEPT ![r[2]] = @ \ {b}]
      \/ UNCHANGED <<k_held, k_free>>
  BY Zenon
<1>3. SlotsInv' /\ OwnersInv' /\ NoneLost'
  <2>1. CASE UNCHANGED <<k_held, k_free>>
    BY <1>0, <1>1, <2>1, SlotsKeep DEF ProviderInv
  <2>2. CASE ~ UNCHANGED <<k_held, k_free>>
    BY <1>0, <1>1, <1>2, <2>2, SlotsAcquire DEF ProviderInv
  <2> QED
    BY <2>1, <2>2
<1>4. ProviderTypes'
  <2>1. k_held' \in [CP!Requests -> SlotNames] /\ k_free' \in [CP!Types -> SUBSET (CompSendSlots \cup CompRecvSlots)]
    <3>1. /\ k_held \in [CP!Requests -> SlotNames] /\ k_free \in [CP!Types -> SUBSET (CompSendSlots \cup CompRecvSlots)]
          /\ CompSendSlots \cup CompRecvSlots \subseteq SlotNames
      BY Zenon DEF ProviderInv, ProviderTypes, CP!TypeOK, SlotNames
    <3>2. k_free[r[2]] \subseteq CompSendSlots \cup CompRecvSlots
      BY <1>0, <3>1
    <3> HIDE DEF CP!Acquire
    <3> QED
      BY <1>2, <3>1, <3>2
  <2> QED
    BY <2>1, Zenon DEF ProviderInv, ProviderTypes, CP!TypeOK
<1>5. StageInv'
  BY DEF ProviderInv, StageInv
<1>6. CallerInv'
  <2>0. k_cpc \in [CP!Requests -> {"idle", "lock", "post"}] /\ k_held \in [CP!Requests -> SlotNames]
        /\ k_mPendingOps \subseteq Ops
    BY Zenon DEF ProviderInv, ProviderTypes, CP!TypeOK
  <2>1. /\ k_cpc'[r] = "lock" /\ \A q \in CP!Requests \ {r} : k_cpc'[q] = k_cpc[q] /\ k_held'[q] = k_held[q]
        /\ k_held'[r] # CP!NoSlot => k_held'[r] \in CP!Slots[r[2]] /\ CP!Pooled(r[2])
    BY <1>0, <1>2, <2>0, Zenon DEF ProviderInv, SlotsInv
  <2>2. \A x \in k_mPendingOps : x.req # r /\ x.req \in CP!Requests
    BY <2>0, WorkingTypes, Zenon DEF ProviderInv
  <2> QED
    BY <1>1, <2>1, <2>2 DEF ProviderInv, CallerInv, CP!Pooled, CP!Slots
<1> QED
  BY <1>3, <1>4, <1>5, <1>6, Aside

(* A request that is refused under the lock. *)
LEMMA RefuseStep ==
  ASSUME ProviderInv, NEW r \in CP!Requests, k_cpc[r] = "lock", CP!Refuse(r),
         UNCHANGED <<k_kind, k_mInitialized, k_stage, k_mSocketRecvSlot, k_wpc, k_taken, k_delivered, k_slabFault>>,
         Working' = Working
  PROVE  /\ k_held' \in [CP!Requests -> SlotNames]
         /\ k_free' \in [CP!Types -> SUBSET (CompSendSlots \cup CompRecvSlots)]
         /\ k_cpc' \in [CP!Requests -> {"idle", "lock", "post"}]
         /\ SlotsInv' /\ (k_stage' = "up" => OwnersInv' /\ NoneLost')
         /\ k_mPendingOps \cap Travelling' \subseteq Travelling => CallerInv'
<1> USE DEF CP!Refuse, CP!To
<1>0. /\ k_cpc \in [CP!Requests -> {"idle", "lock", "post"}] /\ k_held \in [CP!Requests -> SlotNames]
      /\ k_mPendingOps \subseteq Ops /\ k_free \in [CP!Types -> SUBSET (CompSendSlots \cup CompRecvSlots)]
      /\ r[2] \in CP!Types
  BY SlotNamesApart DEF ProviderInv, ProviderTypes, CP!TypeOK
<1>1. k_free' \in [CP!Types -> SUBSET (CompSendSlots \cup CompRecvSlots)] /\ k_held' \in [CP!Requests -> SlotNames]
      /\ k_cpc' \in [CP!Requests -> {"idle", "lock", "post"}]
  BY <1>0 DEF CP!Give, SlotNames
<1>2. SlotsInv' /\ (k_stage' = "up" => OwnersInv' /\ NoneLost')
  BY SlotsRefuse, Zenon DEF ProviderInv
<1>3. ASSUME k_mPendingOps \cap Travelling' \subseteq Travelling PROVE CallerInv'
  <2>1. /\ k_cpc'[r] = "idle" /\ k_held'[r] = CP!NoSlot
        /\ \A q \in CP!Requests \ {r} : k_cpc'[q] = k_cpc[q] /\ k_held'[q] = k_held[q]
    BY <1>0
  <2>2. \A x \in k_mPendingOps : x.req # r /\ x.req \in CP!Requests
    BY <1>0, WorkingTypes DEF ProviderInv, CallerInv
  <2> QED
    BY <1>3, <2>1, <2>2 DEF ProviderInv, CallerInv, CP!Pooled, CP!Slots
<1> QED
  BY <1>1, <1>2, <1>3

(* ... and leaves nothing behind. *)
LEMMA RefusePlain ==
  ASSUME ProviderInv, NEW r \in CP!Requests, k_cpc[r] = "lock", CP!Refuse(r),
         UNCHANGED <<k_kind, k_mInitialized, k_stage, k_mSocketRecvSlot, k_sq, k_posted, k_cq, k_wpc, k_taken,
                     k_delivered, k_slabFault>>,
         k_mNextOpKey' = k_mNextOpKey \/ (k_mNextOpKey' = k_mNextOpKey + 1 /\ k_mNextOpKey <= CompMaxOps)
  PROVE  ProviderInv'
<1>1. Working' = Working /\ Travelling' = Travelling /\ UNCHANGED <<k_mPendingOps, k_mPendingRequests, k_accepted>>
  BY SameWorking, SameTravel DEF CP!Refuse
<1>2. /\ k_held' \in [CP!Requests -> SlotNames]
      /\ k_free' \in [CP!Types -> SUBSET (CompSendSlots \cup CompRecvSlots)]
      /\ k_cpc' \in [CP!Requests -> {"idle", "lock", "post"}]
      /\ SlotsInv' /\ (k_stage' = "up" => OwnersInv' /\ NoneLost') /\ CallerInv'
  BY <1>1, RefuseStep
<1>3. k_mNextOpKey' \in 1 .. CompMaxOps + 1
  BY CompAssumption DEF ProviderInv, ProviderTypes, CP!TypeOK
<1>4. ProviderTypes'
  BY <1>1, <1>2, <1>3 DEF ProviderInv, ProviderTypes, CP!TypeOK
<1>5. StageInv'
  BY <1>1 DEF ProviderInv, StageInv
<1> QED
  BY <1>1, <1>2, <1>4, <1>5, Aside, SMTT(20)

(* A failed call that Shutdown's clearing of the map overtook. *)
LEMMA LateStep == ASSUME ProviderInv, NEW r \in CP!Requests, CP!Post_IocpLate(r) PROVE ProviderInv'
<1> USE DEF CP!Post_IocpLate, CP!pool, CP!kernel, CP!log, CP!To
<1>0. /\ k_cpc \in [CP!Requests -> {"idle", "lock", "post"}] /\ k_held \in [CP!Requests -> SlotNames]
      /\ k_mPendingOps \subseteq Ops
  BY DEF ProviderInv, ProviderTypes, CP!TypeOK
<1>1. Working' = Working /\ Travelling' = Travelling
  BY SameWorking, SameTravel
<1>2. k_stage \notin {"up", "flagged"}
  BY Zenon DEF ProviderInv, CallerInv
<1>3. SlotsInv'
  BY <1>1, SlotsKeep DEF ProviderInv
<1>4. ProviderTypes'
  BY DEF ProviderInv, ProviderTypes, CP!TypeOK
<1>5. StageInv'
  BY DEF ProviderInv, StageInv
<1>6. CallerInv'
  <2>1. /\ k_cpc'[r] = "idle" /\ k_held[r] = CP!NoSlot
        /\ \A q \in CP!Requests \ {r} : k_cpc'[q] = k_cpc[q]
    BY <1>0 DEF ProviderInv, CallerInv
  <2>2. \A x \in k_mPendingOps : x.req # r /\ x.req \in CP!Requests
    BY <1>0, WorkingTypes DEF ProviderInv, CallerInv
  <2> QED
    BY <1>1, <2>1, <2>2, SMTT(20) DEF ProviderInv, CallerInv, CP!Pooled, CP!Slots
<1> QED
  BY <1>2, <1>3, <1>4, <1>5, <1>6, Aside

LEMMA FlagStep == ASSUME ProviderInv, CP!Shutdown_Flag PROVE ProviderInv'
<1> USE DEF CP!Shutdown_Flag, CP!pool, CP!kernel, CP!log
<1>1. Working' = Working /\ Travelling' = Travelling
  BY SameWorking, SameTravel
<1>2. k_stage = "up"
  BY DEF ProviderInv, StageInv
<1>3. SlotsInv'
  BY <1>1, SlotsKeep DEF ProviderInv
<1>4. ProviderTypes'
  BY Zenon DEF ProviderInv, ProviderTypes, CP!TypeOK
<1>5. StageInv'
  BY DEF ProviderInv, StageInv
<1>6. CallerInv'
  BY <1>1, <1>2, CallerKeep DEF ProviderInv
<1> QED
  BY <1>2, <1>3, <1>4, <1>5, <1>6, Aside

(* An operation moves on: from the submission queue to the kernel, to the    *)
(* completion queue, to a worker; or its entry is not in the map and it is    *)
(* dropped.                                                                  *)
LEMMA MoveOn ==
  ASSUME ProviderInv, Travelling' \subseteq Travelling, Working \cap Travelling \subseteq Travelling',
         CP!InHand' = CP!InHand,
         UNCHANGED <<k_kind, k_mInitialized, k_stage, k_mPendingOps, k_mNextOpKey, k_mPendingRequests, k_free,
                     k_mSocketRecvSlot, k_cpc, k_held, k_accepted, k_delivered, k_slabFault>>,
         k_posted' \subseteq Ops, k_sq' \in Seq(Ops), k_cq' \in Seq(Answers),
         k_wpc' \in [CompWorkers -> {"idle", "find", "finish"}],
         k_taken' \in [CompWorkers -> SUBSET Answers], WorkerInv',
         k_kind # "uring" => /\ k_sq' = <<>> /\ k_posted' \subseteq k_posted
                             /\ k_posted' \cap (Answered' \cup InWork') = {}
  PROVE  ProviderInv'
<1>0. Working' = Working
  BY DEF Working
<1>1. KeysInv'
  <2>1. k_mPendingOps' \cup Travelling' \subseteq k_mPendingOps \cup Travelling
    OBVIOUS
  <2> QED
    BY <2>1, KeysKeep DEF ProviderInv
<1>2. StageInv'
  BY DEF ProviderInv, StageInv
<1>3. CallerInv'
  <2>1. k_mPendingOps \cap Travelling' \subseteq Travelling
    OBVIOUS
  <2> QED
    BY <2>1, CallerKeep DEF ProviderInv
<1>4. SlotsInv' /\ (k_stage' = "up" => OwnersInv' /\ NoneLost')
  BY <1>0, SlotsKeep DEF ProviderInv
<1>5. ProviderTypes'
  BY DEF ProviderInv, ProviderTypes, CP!TypeOK
<1>6. k_stage' = "up" => k_stage = "up" /\ (k_kind # "uring" => k_posted' \subseteq k_mPendingOps)
  BY DEF ProviderInv, ReportInv
<1>7. Working \cap Travelling' = Working \cap Travelling
  OBVIOUS
<1> QED
  BY <1>1, <1>2, <1>3, <1>4, <1>5, <1>6, <1>7, Quiet

LEMMA AnswerNew ==
  ASSUME ProviderTypes, NEW c \in Answers, k_cq' = Append(k_cq, c)
  PROVE  k_cq' \in Seq(Answers) /\ Answered' = Answered \cup {c.op}
<1>1. Holds(k_cq') = Holds(k_cq) \cup {c} /\ k_cq' \in Seq(Answers)
  BY HoldsAppend, AppendEnd DEF ProviderTypes
<1> QED
  BY <1>1 DEF Answered

LEMMA AnswerNext ==
  ASSUME ProviderTypes, k_cq # <<>>, k_cq' = Tail(k_cq)
  PROVE  /\ k_cq' \in Seq(Answers) /\ Head(k_cq) \in Answers /\ Head(k_cq).op \in Ops
         /\ Answered = Answered' \cup {Head(k_cq).op}
<1>1. k_cq' \in Seq(Answers) /\ Head(k_cq) \in Answers
  BY HeadThenTail DEF ProviderTypes
<1>2. Holds(k_cq) = Holds(k_cq') \cup {Head(k_cq)}
  BY ElementsTail, Zenon DEF ProviderTypes, Holds
<1> HIDE DEF Answers
<1>3. Answered = Answered' \cup {Head(k_cq).op}
  BY <1>2 DEF Answered
<1> QED
  BY <1>1, <1>3 DEF Answers

LEMMA InHandIs == \A x : x \in CP!InHand <=> \E w \in CompWorkers : k_wpc[w] = "finish" /\ x \in With(w)
BY DEF CP!InHand, With

(* A worker changes what it has. *)
LEMMA TakenNext ==
  ASSUME ProviderTypes, NEW w \in CompWorkers, NEW T \in SUBSET Answers, NEW pc \in {"idle", "find", "finish"},
         k_wpc' = [k_wpc EXCEPT ![w] = pc], k_taken' = [k_taken EXCEPT ![w] = T]
  PROVE  /\ k_wpc' \in [CompWorkers -> {"idle", "find", "finish"}] /\ k_taken' \in [CompWorkers -> SUBSET Answers]
         /\ k_wpc'[w] = pc /\ k_taken'[w] = T /\ With(w)' = {c.op : c \in T}
         /\ \A v \in CompWorkers \ {w} : k_wpc'[v] = k_wpc[v] /\ k_taken'[v] = k_taken[v] /\ With(v)' = With(v)
         /\ InWork \subseteq InWork' \cup With(w) /\ InWork' \subseteq InWork \cup With(w)'
         /\ With(w)' \subseteq InWork'
<1>0. k_wpc \in [CompWorkers -> {"idle", "find", "finish"}] /\ k_taken \in [CompWorkers -> SUBSET Answers]
  BY DEF ProviderTypes, CP!TypeOK
<1>1. /\ k_wpc' \in [CompWorkers -> {"idle", "find", "finish"}] /\ k_taken' \in [CompWorkers -> SUBSET Answers]
      /\ k_wpc'[w] = pc /\ k_taken'[w] = T
      /\ \A v \in CompWorkers \ {w} : k_wpc'[v] = k_wpc[v] /\ k_taken'[v] = k_taken[v]
  BY <1>0
<1>2. With(w)' = {c.op : c \in T} /\ \A v \in CompWorkers \ {w} : With(v)' = With(v)
  BY <1>1 DEF With
<1>3. /\ InWork \subseteq InWork' \cup With(w) /\ InWork' \subseteq InWork \cup With(w)'
      /\ With(w)' \subseteq InWork'
  BY <1>2 DEF InWork
<1> QED
  BY <1>1, <1>2, <1>3

LEMMA FlushStep == ASSUME ProviderInv, CP!FlushRequests PROVE ProviderInv'
<1> USE DEF CP!FlushRequests, CP!pool, CP!log
<1>0. k_posted \subseteq Ops /\ Holds(k_sq) \subseteq Ops
  BY HoldsType DEF ProviderInv, ProviderTypes
<1>1. k_posted' = k_posted \cup Holds(k_sq) /\ Holds(k_sq') = {} /\ k_sq' \in Seq(Ops)
  BY HoldsFew DEF Holds
<1>2. Travelling' = Travelling
  BY <1>1 DEF Travelling, Answered, InWork, With
<1>3. CP!InHand' = CP!InHand
  BY SameHand
<1>4. /\ k_cq' \in Seq(Answers) /\ k_wpc' \in [CompWorkers -> {"idle", "find", "finish"}]
      /\ k_taken' \in [CompWorkers -> SUBSET Answers]
  BY DEF ProviderInv, ProviderTypes, CP!TypeOK
<1>5. WorkerInv'
  BY DEF ProviderInv, WorkerInv
<1> QED
  BY <1>0, <1>1, <1>2, <1>3, <1>4, <1>5, MoveOn

LEMMA CompleteStep == ASSUME ProviderInv, CP!Complete PROVE ProviderInv'
<1> USE DEF CP!Complete, CP!pool, CP!log
<1>0. PICK x \in k_posted, o \in CP!Outcomes :
        k_posted' = k_posted \ {x} /\ k_cq' = Append(k_cq, [op |-> x, outcome |-> o])
  BY Zenon
<1>1. x \in Ops /\ k_posted' \subseteq Ops
  BY <1>0, Zenon DEF ProviderInv, ProviderTypes
<1>2. k_cq' \in Seq(Answers) /\ Answered' = Answered \cup {x}
  <2>1. [op |-> x, outcome |-> o] \in Answers /\ [op |-> x, outcome |-> o].op = x
    BY <1>1 DEF Answers
  <2> QED
    BY <1>0, <2>1, AnswerNew DEF ProviderInv
<1>3. InWork' = InWork /\ CP!InHand' = CP!InHand
  BY SameHand DEF InWork, With
<1>4. Travelling' = Travelling
  BY <1>0, <1>2, <1>3, SMTT(20) DEF Travelling
<1>5. /\ k_sq' \in Seq(Ops) /\ k_wpc' \in [CompWorkers -> {"idle", "find", "finish"}]
      /\ k_taken' \in [CompWorkers -> SUBSET Answers]
  BY DEF ProviderInv, ProviderTypes, CP!TypeOK
<1>6. WorkerInv'
  BY DEF ProviderInv, WorkerInv
<1>7. k_kind # "uring" => k_sq' = <<>> /\ k_posted' \subseteq k_posted /\ k_posted' \cap (Answered' \cup InWork') = {}
  BY <1>0, <1>2, <1>3, SMTT(20) DEF ProviderInv, KeysInv
<1> QED
  BY <1>1, <1>2, <1>3, <1>4, <1>5, <1>6, <1>7, MoveOn

LEMMA DequeueStep == ASSUME ProviderInv, NEW w \in CompWorkers, CP!Dequeue(w) PROVE ProviderInv'
<1> USE DEF CP!Dequeue, CP!pool, CP!log
<1> DEFINE h == Head(k_cq)
<1>1. /\ k_cq' \in Seq(Answers) /\ h \in Answers /\ h.op \in Ops /\ Answered = Answered' \cup {h.op}
  BY AnswerNext DEF ProviderInv
<1> HIDE DEF h
<1>2. k_wpc' = [k_wpc EXCEPT ![w] = "find"] /\ k_taken' = [k_taken EXCEPT ![w] = {h}] /\ {h} \in SUBSET Answers
  BY <1>1 DEF h
<1>3. /\ k_wpc' \in [CompWorkers -> {"idle", "find", "finish"}] /\ k_taken' \in [CompWorkers -> SUBSET Answers]
      /\ k_wpc'[w] = "find" /\ k_taken'[w] = {h} /\ With(w)' = {c.op : c \in {h}}
      /\ \A v \in CompWorkers \ {w} : k_wpc'[v] = k_wpc[v] /\ k_taken'[v] = k_taken[v] /\ With(v)' = With(v)
      /\ InWork \subseteq InWork' \cup With(w) /\ InWork' \subseteq InWork \cup With(w)'
      /\ With(w)' \subseteq InWork'
  BY <1>2, TakenNext, Zenon DEF ProviderInv
<1>4. With(w)' = {h.op} /\ With(w) = {}
  <2>1. k_taken[w] = {}
    BY DEF ProviderInv, WorkerInv
  <2>2. With(w) = {}
    BY <2>1 DEF With
  <2>3. {c.op : c \in {h}} = {h.op}
    BY ONLY TRUE
  <2> QED
    BY <1>3, <2>2, <2>3
<1>5. Answered' \cup InWork' = Answered \cup InWork
  BY <1>1, <1>3, <1>4
<1>6. Travelling' = Travelling
  BY <1>5 DEF Travelling
<1>7. CP!InHand' = CP!InHand
  <2>1. \A x : (\E v \in CompWorkers : k_wpc'[v] = "finish" /\ x \in With(v)')
               <=> (\E v \in CompWorkers : k_wpc[v] = "finish" /\ x \in With(v))
    BY <1>3, <1>4
  <2>2. \A x : x \in CP!InHand' <=> \E v \in CompWorkers : k_wpc'[v] = "finish" /\ x \in With(v)'
    BY SMTT(20) DEF CP!InHand, With
  <2> QED
    BY <2>1, <2>2, InHandIs, Zenon
<1>8. WorkerInv'
  BY <1>1, <1>3, Zenon DEF ProviderInv, WorkerInv
<1>9. k_posted' \subseteq Ops /\ k_sq' \in Seq(Ops)
  BY DEF ProviderInv, ProviderTypes
<1>10. k_kind # "uring" => k_sq' = <<>> /\ k_posted' \subseteq k_posted /\ k_posted' \cap (Answered' \cup InWork') = {}
  BY <1>5 DEF ProviderInv, KeysInv
<1> QED
  BY <1>1, <1>3, <1>6, <1>7, <1>8, <1>9, <1>10, MoveOn, SMTT(20)
=============================================================================
