--------------------------- MODULE ProviderProofs ---------------------------
(***************************************************************************)
(* Proofs about the completion providers (IOCP, RIO and io_uring): every   *)
(* buffer slot has exactly one owner on every failure path, and a request  *)
(* that returned Success is reported once, for any sockets, workers, slots *)
(* and queue depths.  The invariant, and the steps that leave the map of   *)
(* operations alone, are in ProviderLemmas; here are the steps that put an *)
(* operation into the map, take it out or report it, and the theorems.     *)
(***************************************************************************)
EXTENDS ProviderLemmas

\* The time limits of a leaf that names no prover of its own.
USE SMTT(30), ZenonT(30)

(* At most one worker has an operation in hand, and only on RIO. *)
LEMMA HandFinite ==
  ASSUME CountFacts, ProviderInv
  PROVE  IsFiniteSet(Working) /\ Cardinality(Working) \in Nat
<1>1. CP!InHand = {} \/ \E x : CP!InHand = {x}
  <2>1. CASE \A w \in CompWorkers : k_wpc[w] # "finish"
    BY <2>1, InHandIs
  <2>2. ASSUME NEW w \in CompWorkers, k_wpc[w] = "finish" PROVE \E x : CP!InHand = {x}
    <3>1. PICK c : k_taken[w] = {c}
      BY <2>2, Zenon DEF ProviderInv, WorkerInv
    <3>2. With(w) = {c.op}
      BY <3>1 DEF With
    <3>3. \A v \in CompWorkers : k_wpc[v] = "finish" => v = w
      BY <2>2 DEF ProviderInv, WorkerInv
    <3>4. \A x : x \in CP!InHand <=> x = c.op
      BY <2>2, <3>2, <3>3, InHandIs
    <3> QED
      BY <3>4
  <2> QED
    BY <2>1, <2>2
<1>2. IsFiniteSet(CP!InHand)
  BY <1>1, Zenon DEF CountFacts, CountsFew
<1>3. IsFiniteSet(Working)
  <2>1. k_mPendingOps \cup {} = k_mPendingOps /\ IsFiniteSet(k_mPendingOps)
    BY DEF ProviderInv, PendingInv
  <2>2. \A x : IsFiniteSet(k_mPendingOps \cup {x})
    BY <2>1, Zenon DEF CountFacts, CountsAdd
  <2> QED
    BY <1>1, <2>1, <2>2, Zenon DEF Working
<1> QED
  BY <1>3 DEF CountFacts, CountsType

(* A new operation enters the map: with the kernel already, or on its way    *)
(* there.                                                                    *)
LEMMA AddOp ==
  ASSUME CountFacts, ProviderInv, k_stage = "up", NEW r \in CP!Requests, k_cpc[r] = "lock", k_mNextOpKey <= CompMaxOps,
         NEW n \in Ops, n.key = k_mNextOpKey, n.req = r, n.slot = k_held[r], k_mNextOpKey' = k_mNextOpKey + 1,
         k_mPendingOps' = k_mPendingOps \cup {n}, k_mPendingRequests' = k_mPendingRequests + 1,
         k_held' = [k_held EXCEPT ![r] = CP!NoSlot],
         UNCHANGED <<k_kind, k_mInitialized, k_stage, k_free, k_mSocketRecvSlot, k_cq, k_wpc, k_taken, k_delivered,
                     k_slabFault>>,
         NEW pc \in {"idle", "post"}, k_cpc' = [k_cpc EXCEPT ![r] = pc],
         IF pc = "idle" THEN Travelling' = Travelling \cup {n} /\ k_accepted' = k_accepted \cup {n.key}
                        ELSE k_kind = "iocp" /\ Travelling' = Travelling /\ k_accepted' = k_accepted,
         k_posted' \subseteq Ops, k_sq' \in Seq(Ops),
         k_kind # "uring" => k_sq' = <<>> /\ k_posted' \subseteq k_posted \cup {n}
  PROVE  ProviderInv'
<1>0. /\ n \notin k_mPendingOps \cup Travelling /\ n \notin Working /\ n.key \notin k_accepted
      /\ k_delivered[n.key] = 0
  BY FreshKey DEF ProviderInv
<1>1. CP!InHand' = CP!InHand /\ Working' = Working \cup {n} /\ Answered' = Answered /\ InWork' = InWork
  BY SameHand DEF Working, Answered, InWork, With
<1>2. ProviderTypes'
  <2>1. /\ k_held' \in [CP!Requests -> SlotNames] /\ k_cpc' \in [CP!Requests -> {"idle", "lock", "post"}]
        /\ k_mNextOpKey' \in 1 .. CompMaxOps + 1 /\ k_mPendingRequests' \in Nat
    <3>1. k_held' \in [CP!Requests -> SlotNames]
      BY DEF ProviderInv, ProviderTypes, SlotNames
    <3>2. k_cpc' \in [CP!Requests -> {"idle", "lock", "post"}]
      BY DEF ProviderInv, ProviderTypes, CP!TypeOK
    <3>3. k_mNextOpKey \in Nat \ {0} /\ k_mPendingRequests \in Nat
      BY CompAssumption DEF ProviderInv, ProviderTypes, CP!TypeOK
    <3>4. k_mNextOpKey' \in 1 .. CompMaxOps + 1 /\ k_mPendingRequests' \in Nat
      BY CompAssumption, <3>3
    <3> QED
      BY <3>1, <3>2, <3>4
  <2>2. n.key \in 1 .. CompMaxOps
    BY DEF Ops
  <2>3. k_accepted' \subseteq 1 .. CompMaxOps /\ k_mPendingOps' \subseteq Ops
    BY <2>2, Zenon DEF ProviderInv, ProviderTypes
  <2> QED
    BY <2>1, <2>3, Zenon DEF ProviderInv, ProviderTypes, CP!TypeOK
<1>3. KeysInv'
  <2>1. k_kind # "uring" => k_sq' = <<>> /\ k_posted' \cap (Answered' \cup InWork') = {}
    BY <1>0, <1>1 DEF ProviderInv, KeysInv, Travelling
  <2>2. /\ k_mPendingOps' \cup Travelling' \subseteq k_mPendingOps \cup Travelling \cup {n}
        /\ k_accepted' \subseteq k_accepted \cup {n.key}
    BY Zenon
  <2> QED
    BY <2>1, <2>2, KeysNew, Zenon DEF ProviderInv
<1>4. StageInv' /\ WorkerInv'
  BY DEF ProviderInv, StageInv, WorkerInv
<1>5. CallerInv'
  <2>0. k_cpc \in [CP!Requests -> {"idle", "lock", "post"}] /\ k_held \in [CP!Requests -> SlotNames]
        /\ k_mPendingOps \subseteq Ops
    BY Zenon DEF ProviderInv, ProviderTypes, CP!TypeOK
  <2>1. /\ k_cpc'[r] = pc /\ k_held'[r] = CP!NoSlot
        /\ \A q \in CP!Requests \ {r} : k_cpc'[q] = k_cpc[q] /\ k_held'[q] = k_held[q]
    BY <2>0
  <2>2. \A x \in k_mPendingOps : x.req # r /\ x.req \in CP!Requests /\ x # n
    BY <1>0, <2>0, WorkingTypes DEF ProviderInv, CallerInv
  <2>3. \A x \in k_mPendingOps' : k_cpc'[x.req] # "lock" /\ (k_cpc'[x.req] = "post" => x \notin Travelling')
    BY <1>0, <2>1, <2>2 DEF ProviderInv, CallerInv
  <2>4. \A x, y \in k_mPendingOps' : x.req = y.req => x = y
    BY <2>2 DEF ProviderInv, CallerInv
  <2>5. ASSUME NEW q \in CP!Requests
        PROVE  /\ k_cpc'[q] = "post" => k_kind = "iocp"
               /\ k_cpc'[q] = "post" => \E x \in k_mPendingOps' : x.req = q
               /\ k_held'[q] # CP!NoSlot => k_cpc'[q] = "lock" /\ k_held'[q] \in CP!Slots[q[2]] /\ CP!Pooled(q[2])
    BY <2>1 DEF ProviderInv, CallerInv
  <2> QED
    BY <2>3, <2>4, <2>5 DEF CallerInv, CP!Pooled, CP!Slots
<1>6. ReportInv'
  <2>1. \A k \in 1 .. CompMaxOps : k_delivered[k] <= (IF k \in k_accepted' THEN 1 ELSE 0)
    BY DEF ProviderInv, ReportInv, ProviderTypes
  <2>2. \A x \in Working' : k_delivered[x.key] = 0 /\ (x \in Travelling' => x.key \in k_accepted')
    BY <1>0, <1>1 DEF ProviderInv, ReportInv
  <2>3. k_mPendingOps' \cap CP!InHand' = {}
    BY <1>0, <1>1 DEF ProviderInv, ReportInv, Working
  <2>4. \A k \in k_accepted' : k_delivered[k] = 0 => \E x \in Working' \cap Travelling' : x.key = k
    BY <1>1 DEF ProviderInv, ReportInv
  <2>5. k_kind # "uring" => k_posted' \subseteq k_mPendingOps'
    BY DEF ProviderInv, ReportInv
  <2> QED
    BY <2>1, <2>2, <2>3, <2>4, <2>5, Zenon DEF ReportInv
<1>7. PendingInv'
  <2>1. IsFiniteSet(k_mPendingOps')
    BY DEF ProviderInv, PendingInv, CountFacts, CountsAdd
  <2>2. Cardinality(Working') = Cardinality(Working) + 1
    BY <1>0, <1>1, HandFinite, Zenon DEF CountFacts, CountsAdd
  <2> QED
    BY <2>1, <2>2 DEF ProviderInv, PendingInv
<1>8. SlotsInv' /\ OwnersInv' /\ NoneLost'
  BY <1>1, SlotsAccept, Zenon DEF ProviderInv
<1> QED
  BY <1>2, <1>3, <1>4, <1>5, <1>6, <1>7, <1>8 DEF ProviderInv

LEMMA NewOperation ==
  ASSUME ProviderInv, NEW r \in CP!Requests, k_mNextOpKey <= CompMaxOps
  PROVE  /\ CP!OpOf(r, k_mNextOpKey) \in Ops
         /\ CP!OpOf(r, k_mNextOpKey).key = k_mNextOpKey /\ CP!OpOf(r, k_mNextOpKey).req = r
         /\ CP!OpOf(r, k_mNextOpKey).slot = k_held[r]
<1>1. k_mNextOpKey \in 1 .. CompMaxOps /\ k_held[r] \in SlotNames
  BY CompAssumption DEF ProviderInv, ProviderTypes, CP!TypeOK
<1> QED
  BY <1>1 DEF CP!OpOf, Ops

(* io_uring: the submit failed, the entry stays prepared. *)
LEMMA PrepareStep ==
  ASSUME ProviderInv, NEW r \in CP!Requests, k_kind = "uring", k_cpc[r] = "lock", k_mNextOpKey <= CompMaxOps,
         k_mNextOpKey' = k_mNextOpKey + 1, k_sq' = Append(k_sq, CP!OpOf(r, k_mNextOpKey)), CP!Refuse(r),
         UNCHANGED <<k_kind, k_mInitialized, k_stage, k_mSocketRecvSlot, k_posted, k_cq, k_wpc, k_taken, k_delivered,
                     k_slabFault>>
  PROVE  ProviderInv'
<1> DEFINE n == CP!OpOf(r, k_mNextOpKey)
<1>1. n \in Ops /\ n.key = k_mNextOpKey
  BY NewOperation, Zenon
<1> HIDE DEF n
<1>2. k_sq' \in Seq(Ops) /\ Holds(k_sq') = Holds(k_sq) \cup {n}
  BY <1>1, HoldsAppend, AppendEnd DEF ProviderInv, ProviderTypes, n
<1>3. /\ n \notin k_mPendingOps \cup Travelling /\ n \notin Working
  BY <1>1, FreshKey DEF ProviderInv
<1>4. /\ Working' = Working /\ CP!InHand' = CP!InHand /\ UNCHANGED <<k_mPendingOps, k_mPendingRequests, k_accepted>>
  BY SameWorking, SameHand, Zenon DEF CP!Refuse
<1>5. Travelling' = Travelling \cup {n}
  BY <1>2, Zenon DEF Travelling, Answered, InWork, With
<1>6. /\ k_held' \in [CP!Requests -> SlotNames]
      /\ k_free' \in [CP!Types -> SUBSET (CompSendSlots \cup CompRecvSlots)]
      /\ k_cpc' \in [CP!Requests -> {"idle", "lock", "post"}]
      /\ SlotsInv' /\ (k_stage' = "up" => OwnersInv' /\ NoneLost') /\ CallerInv'
  <2>1. k_mPendingOps \cap Travelling' \subseteq Travelling
    BY <1>3, <1>5
  <2> QED
    BY <1>4, <2>1, RefuseStep
<1>7. ProviderTypes'
  <2>1. k_mNextOpKey' \in 1 .. CompMaxOps + 1
    BY CompAssumption DEF ProviderInv, ProviderTypes, CP!TypeOK
  <2> QED
    BY <1>2, <1>4, <1>6, <2>1 DEF ProviderInv, ProviderTypes, CP!TypeOK
<1>8. KeysInv'
  <2>1. /\ k_mPendingOps' \cup Travelling' \subseteq k_mPendingOps \cup Travelling \cup {n}
        /\ k_accepted' \subseteq k_accepted \cup {n.key}
    BY <1>4, <1>5
  <2> QED
    BY <1>1, <2>1, KeysNew DEF ProviderInv
<1>9. StageInv' /\ WorkerInv'
  BY <1>4, Zenon DEF ProviderInv, StageInv, WorkerInv
<1>10. Working \cap Travelling' = Working \cap Travelling
  BY <1>3, <1>5
<1> QED
  BY <1>4, <1>6, <1>7, <1>8, <1>9, <1>10, Quiet

LEMMA UringStep == ASSUME CountFacts, ProviderInv, NEW r \in CP!Requests, CP!Submit_Uring(r) PROVE ProviderInv'
<1> DEFINE n == CP!OpOf(r, k_mNextOpKey)
<1>1. /\ k_kind = "uring" /\ k_mInitialized /\ k_cpc[r] = "lock" /\ k_mNextOpKey <= CompMaxOps
      /\ k_mNextOpKey' = k_mNextOpKey + 1
      /\ UNCHANGED <<k_kind, k_mInitialized, k_stage, k_mSocketRecvSlot, k_cq, k_wpc, k_taken, k_delivered, k_slabFault>>
  BY DEF CP!Submit_Uring
<1>2. \/ CP!Refuse(r) /\ UNCHANGED <<k_sq, k_posted>>
      \/ k_sq' = Append(k_sq, n) /\ CP!Refuse(r) /\ UNCHANGED k_posted
      \/ CP!Accept(r) /\ k_posted' = k_posted \cup {n} \cup Holds(k_sq) /\ k_sq' = <<>>
  BY DEF CP!Submit_Uring, Holds
<1>3. CASE CP!Refuse(r) /\ UNCHANGED <<k_sq, k_posted>>
  BY <1>1, <1>3, RefusePlain
<1>4. CASE k_sq' = Append(k_sq, n) /\ CP!Refuse(r) /\ UNCHANGED k_posted
  BY <1>1, <1>4, PrepareStep
<1>5. CASE CP!Accept(r) /\ k_posted' = k_posted \cup {n} \cup Holds(k_sq) /\ k_sq' = <<>>
  <2>0. k_stage = "up"
    BY <1>1 DEF ProviderInv, StageInv
  <2>1. n \in Ops /\ n.key = k_mNextOpKey /\ n.req = r /\ n.slot = k_held[r]
    BY <1>1, NewOperation
  <2>2. /\ k_mPendingOps' = k_mPendingOps \cup {n} /\ k_mPendingRequests' = k_mPendingRequests + 1
        /\ k_held' = [k_held EXCEPT ![r] = CP!NoSlot] /\ k_cpc' = [k_cpc EXCEPT ![r] = "idle"]
        /\ k_accepted' = k_accepted \cup {k_mNextOpKey} /\ k_free' = k_free
    BY <1>5 DEF CP!Accept, CP!To
  <2> HIDE DEF n
  <2>3. Holds(k_sq') = {} /\ k_sq' \in Seq(Ops) /\ Holds(k_sq) \subseteq Ops /\ k_posted \subseteq Ops
    <3>1. Holds(k_sq') = {} /\ k_sq' \in Seq(Ops)
      <4>1. k_sq' = <<>>
        BY <1>5
      <4> QED
        BY <4>1 DEF Holds
    <3>2. k_sq \in Seq(Ops) /\ k_posted \subseteq Ops
      BY DEF ProviderInv, ProviderTypes
    <3> QED
      BY <3>1, <3>2, HoldsType
  <2>4. Travelling' = Travelling \cup {n}
    BY <1>1, <1>5, <2>3 DEF Travelling, Answered, InWork, With
  <2>5. k_posted' \subseteq Ops /\ k_accepted' = k_accepted \cup {n.key}
    BY <1>5, <2>1, <2>2, <2>3
  <2> QED
    BY <1>1, <2>0, <2>1, <2>2, <2>3, <2>4, <2>5, AddOp, Zenon
<1> QED
  BY <1>2, <1>3, <1>4, <1>5

LEMMA RioStep == ASSUME CountFacts, ProviderInv, NEW r \in CP!Requests, CP!Submit_Rio(r) PROVE ProviderInv'
<1> DEFINE n == CP!OpOf(r, k_mNextOpKey)
<1>1. /\ k_kind = "rio" /\ k_cpc[r] = "lock" /\ k_mNextOpKey <= CompMaxOps
      /\ k_mNextOpKey' = k_mNextOpKey + 1
      /\ UNCHANGED <<k_kind, k_mInitialized, k_stage, k_mSocketRecvSlot, k_sq, k_cq, k_wpc, k_taken, k_delivered,
                     k_slabFault>>
  BY DEF CP!Submit_Rio
<1>2. \/ CP!Refuse(r) /\ UNCHANGED k_posted
      \/ CP!Accept(r) /\ k_posted' = k_posted \cup {n} /\ k_mInitialized
  BY DEF CP!Submit_Rio
<1>3. CASE CP!Refuse(r) /\ UNCHANGED k_posted
  BY <1>1, <1>3, RefusePlain
<1>4. CASE CP!Accept(r) /\ k_posted' = k_posted \cup {n} /\ k_mInitialized
  <2>0. k_stage = "up"
    BY <1>4 DEF ProviderInv, StageInv
  <2>1. n \in Ops /\ n.key = k_mNextOpKey /\ n.req = r /\ n.slot = k_held[r]
    BY <1>1, NewOperation
  <2>2. /\ k_mPendingOps' = k_mPendingOps \cup {n} /\ k_mPendingRequests' = k_mPendingRequests + 1
        /\ k_held' = [k_held EXCEPT ![r] = CP!NoSlot] /\ k_cpc' = [k_cpc EXCEPT ![r] = "idle"]
        /\ k_accepted' = k_accepted \cup {k_mNextOpKey} /\ k_free' = k_free
    BY <1>4 DEF CP!Accept, CP!To
  <2> HIDE DEF n
  <2>3. k_sq' \in Seq(Ops) /\ k_posted \subseteq Ops /\ (k_kind # "uring" => k_sq' = <<>>)
    BY <1>1 DEF ProviderInv, ProviderTypes, KeysInv
  <2>4. Travelling' = Travelling \cup {n}
    BY <1>1, <1>4 DEF Travelling, Answered, InWork, With
  <2>5. k_posted' \subseteq Ops /\ k_accepted' = k_accepted \cup {n.key} /\ k_posted' \subseteq k_posted \cup {n}
    BY <1>4, <2>1, <2>2, <2>3
  <2> QED
    BY <1>1, <2>0, <2>1, <2>2, <2>3, <2>4, <2>5, AddOp, Zenon
<1> QED
  BY <1>2, <1>3, <1>4

LEMMA InsertStep == ASSUME CountFacts, ProviderInv, NEW r \in CP!Requests, CP!Insert_Iocp(r) PROVE ProviderInv'
<1> DEFINE n == CP!OpOf(r, k_mNextOpKey)
<1>1. /\ k_kind = "iocp" /\ k_cpc[r] = "lock" /\ k_mNextOpKey <= CompMaxOps
      /\ UNCHANGED <<k_kind, k_mInitialized, k_stage, k_mSocketRecvSlot, k_sq, k_posted, k_cq, k_wpc, k_taken, k_delivered,
                     k_slabFault>>
  BY DEF CP!Insert_Iocp, CP!kernel
<1>3. CASE ~k_mInitialized
  <2>1. CP!Refuse(r) /\ UNCHANGED k_mNextOpKey
    BY <1>3 DEF CP!Insert_Iocp
  <2> QED
    BY <1>1, <2>1, RefusePlain
<1>4. CASE k_mInitialized
  <2>0. k_stage = "up"
    BY <1>4 DEF ProviderInv, StageInv
  <2>1. n \in Ops /\ n.key = k_mNextOpKey /\ n.req = r /\ n.slot = k_held[r]
    BY <1>1, NewOperation, Zenon
  <2>2. /\ k_mPendingOps' = k_mPendingOps \cup {n} /\ k_mPendingRequests' = k_mPendingRequests + 1
        /\ k_held' = k_held /\ k_cpc' = [k_cpc EXCEPT ![r] = "post"] /\ k_mNextOpKey' = k_mNextOpKey + 1
        /\ k_accepted' = k_accepted /\ k_free' = k_free
    BY <1>4 DEF CP!Insert_Iocp, CP!To
  <2> HIDE DEF n
  <2>3. /\ k_sq' \in Seq(Ops) /\ k_posted' \subseteq Ops /\ k_sq' = <<>>
        /\ k_posted' \subseteq k_posted \cup {n}
    BY <1>1 DEF ProviderInv, ProviderTypes, KeysInv
  <2>4. Travelling' = Travelling
    BY <1>1, SameTravel
  <2>5. k_held' = [k_held EXCEPT ![r] = CP!NoSlot]
    <3>1. k_held[r] = CP!NoSlot
      BY <1>1, Zenon DEF ProviderInv, CallerInv, CP!Pooled
    <3> QED
      BY <2>2, <3>1 DEF ProviderInv, ProviderTypes
  <2> QED
    BY <1>1, <2>0, <2>1, <2>2, <2>3, <2>4, <2>5, AddOp, Zenon
<1> QED
  BY <1>3, <1>4

(* An operation leaves the map for good: it is reported, or its call failed. *)
LEMMA RemoveOp ==
  ASSUME CountFacts, ProviderInv, NEW x \in k_mPendingOps, k_mPendingOps' = k_mPendingOps \ {x},
         k_mPendingRequests' = k_mPendingRequests - 1, CP!InHand' = CP!InHand, CP!Give(x.req[2], x.slot),
         UNCHANGED <<k_kind, k_mInitialized, k_stage, k_mNextOpKey, k_mSocketRecvSlot, k_sq, k_posted, k_held,
                     k_accepted, k_slabFault>>,
         k_cq' \in Seq(Answers), k_wpc' \in [CompWorkers -> {"idle", "find", "finish"}],
         k_taken' \in [CompWorkers -> SUBSET Answers], WorkerInv',
         Answered' \cup InWork' \subseteq Answered \cup InWork,
         Answered \cup InWork \subseteq Answered' \cup InWork' \cup {x},
         k_stage = "up" \/ k_kind = "iocp", k_kind # "uring" => x \notin k_posted,
         IF x \in Travelling THEN k_cpc' = k_cpc /\ k_delivered' = [k_delivered EXCEPT ![x.key] = @ + 1]
                             ELSE k_cpc' = [k_cpc EXCEPT ![x.req] = "idle"] /\ k_delivered' = k_delivered
  PROVE  ProviderInv'
<1>0. /\ x \in Ops /\ x.key \in 1 .. CompMaxOps /\ x.req \in CP!Requests /\ x.req[2] \in CP!Types /\ x.slot \in SlotNames
      /\ k_mPendingOps \subseteq Ops /\ x \in Working /\ Working \subseteq Ops
      /\ Working \subseteq k_mPendingOps \cup Travelling
  <2>1. ProviderTypes /\ k_mPendingOps \subseteq Ops
    BY Zenon DEF ProviderInv, ProviderTypes
  <2> QED
    BY <2>1, WorkingTypes DEF Working, Travelling
<1>1. Working' = Working \ {x}
  BY ZenonT(30) DEF ProviderInv, ReportInv, Working
<1>2. Travelling' \subseteq Travelling /\ Travelling \subseteq Travelling' \cup {x}
  BY DEF Travelling
<1>3. Cardinality(Working') = Cardinality(Working) - 1 /\ Cardinality(Working') \in Nat /\ IsFiniteSet(k_mPendingOps')
  <2>1. IsFiniteSet(k_mPendingOps')
    BY Zenon DEF ProviderInv, PendingInv, CountFacts, CountsRemove
  <2>2. IsFiniteSet(Working') /\ Cardinality(Working') = Cardinality(Working) - 1
    BY <1>0, <1>1, HandFinite, Zenon DEF CountFacts, CountsRemove
  <2> QED
    BY <2>1, <2>2, Zenon DEF CountFacts, CountsType
<1>4. k_mPendingRequests = Cardinality(Working) /\ k_mPendingRequests' \in Nat
  <2>1. k_stage \in {"up", "flagged"}
    BY Zenon DEF ProviderInv, StageInv, ProviderTypes, CP!TypeOK
  <2>2. k_mPendingRequests = Cardinality(Working)
    BY <2>1, Zenon DEF ProviderInv, PendingInv
  <2> QED
    BY <1>3, <2>2
<1>5. PendingInv'
  BY <1>3, <1>4, Zenon DEF PendingInv
<1>6. SlotsInv' /\ (k_stage' = "up" => OwnersInv' /\ NoneLost')
  BY <1>0, <1>1, SlotsRelease DEF ProviderInv
<1>7. ProviderTypes'
  <2>1. k_free' \in [CP!Types -> SUBSET (CompSendSlots \cup CompRecvSlots)]
    BY <1>0, Zenon DEF ProviderInv, ProviderTypes, CP!TypeOK, CP!Give, SlotNames
  <2>2. /\ k_cpc' \in [CP!Requests -> {"idle", "lock", "post"}]
        /\ k_delivered' \in [1 .. CompMaxOps -> Nat]
    <3>1. k_cpc \in [CP!Requests -> {"idle", "lock", "post"}] /\ k_delivered \in [1 .. CompMaxOps -> Nat]
      BY Zenon DEF ProviderInv, ProviderTypes, CP!TypeOK
    <3>2. CASE x \in Travelling
      BY <1>0, <3>1, <3>2
    <3>3. CASE x \notin Travelling
      BY <1>0, <3>1, <3>3
    <3> QED
      BY <3>2, <3>3, Zenon
  <2> QED
    BY <1>0, <1>4, <2>1, <2>2, Zenon DEF ProviderInv, ProviderTypes, CP!TypeOK
<1>8. KeysInv'
  <2>1. /\ k_mPendingOps' \cup Travelling' \subseteq k_mPendingOps \cup Travelling
        /\ k_accepted' \subseteq k_accepted \cup {y.key : y \in k_mPendingOps}
    BY <1>2, Zenon
  <2>2. k_kind # "uring" => k_sq' = <<>> /\ k_posted' \cap (Answered' \cup InWork') = {}
    BY Zenon DEF ProviderInv, KeysInv
  <2> QED
    BY <2>1, <2>2, KeysKeep, Zenon DEF ProviderInv
<1>9. StageInv'
  BY DEF ProviderInv, StageInv
<1>10. CallerInv'
  <2>0. k_cpc \in [CP!Requests -> {"idle", "lock", "post"}]
    BY Zenon DEF ProviderInv, ProviderTypes, CP!TypeOK
  <2>1. /\ k_cpc[x.req] # "lock" /\ (k_cpc[x.req] = "post" => x \notin Travelling)
        /\ k_held[x.req] = CP!NoSlot
    BY <1>0, Zenon DEF ProviderInv, CallerInv
  <2>2. k_cpc'[x.req] \in {k_cpc[x.req], "idle"} /\ \A q \in CP!Requests \ {x.req} : k_cpc'[q] = k_cpc[q]
    BY <1>0, <2>0, Zenon
  <2>3. k_cpc'[x.req] # "post"
    BY <1>0, <2>0, <2>1, Zenon
  <2>4. \A y \in k_mPendingOps' : k_cpc'[y.req] # "lock" /\ (k_cpc'[y.req] = "post" => y \notin Travelling')
    <3>1. \A y \in k_mPendingOps' : y \in k_mPendingOps /\ y.req # x.req /\ y.req \in CP!Requests
      BY <1>0, WorkingTypes, Zenon DEF ProviderInv, CallerInv
    <3>2. \A y \in k_mPendingOps : k_cpc[y.req] # "lock" /\ (k_cpc[y.req] = "post" => y \notin Travelling)
      BY DEF ProviderInv, CallerInv
    <3> QED
      BY ONLY <1>2, <2>2, <3>1, <3>2
  <2>5. ASSUME NEW q \in CP!Requests
        PROVE  /\ k_cpc'[q] = "post" => k_kind = "iocp"
               /\ k_cpc'[q] = "post" /\ k_stage \in {"up", "flagged"} => \E y \in k_mPendingOps' : y.req = q
               /\ k_held[q] # CP!NoSlot => k_cpc'[q] = "lock" /\ k_held[q] \in CP!Slots[q[2]] /\ CP!Pooled(q[2])
    <3>1. CASE q = x.req
      BY <2>1, <2>3, <3>1, Zenon
    <3>2. CASE q # x.req
      BY <2>2, <3>2, Zenon DEF ProviderInv, CallerInv
    <3> QED
      BY <3>1, <3>2, Zenon
  <2> QED
    BY <2>4, <2>5, Zenon DEF ProviderInv, CallerInv, CP!Pooled, CP!Slots
<1>11. ReportInv'
  <2>0. k_delivered \in [1 .. CompMaxOps -> Nat] /\ k_accepted \subseteq 1 .. CompMaxOps
    BY Zenon DEF ProviderInv, ProviderTypes
  <2>1. \A y \in Working' : y.key # x.key /\ y.key \in 1 .. CompMaxOps
    BY <1>0, <1>1, WorkingTypes, Zenon DEF ProviderInv, KeysInv
  <2>2. /\ \A k \in (1 .. CompMaxOps) \ {x.key} : k_delivered'[k] = k_delivered[k]
        /\ k_delivered'[x.key] = (IF x \in Travelling THEN 1 ELSE 0) /\ (x \in Travelling => x.key \in k_accepted)
    <3>1. k_delivered[x.key] = 0 /\ (x \in Travelling => x.key \in k_accepted)
      BY <1>0, Zenon DEF ProviderInv, ReportInv
    <3>2. CASE x \in Travelling
      <4>1. k_delivered'[x.key] = k_delivered[x.key] + 1
            /\ \A k \in (1 .. CompMaxOps) \ {x.key} : k_delivered'[k] = k_delivered[k]
        BY <1>0, <2>0, <3>2
      <4> QED
        BY <3>1, <3>2, <4>1
    <3>3. CASE x \notin Travelling
      BY <3>1, <3>3, Zenon
    <3> QED
      BY <3>2, <3>3, Zenon
  <2>3. \A k \in 1 .. CompMaxOps : k_delivered'[k] <= (IF k \in k_accepted' THEN 1 ELSE 0)
    BY <2>0, <2>2 DEF ProviderInv, ReportInv
  <2>4. \A y \in Working' : k_delivered'[y.key] = 0 /\ (y \in Travelling' => y.key \in k_accepted')
    BY <1>1, <1>2, <2>1, <2>2, Zenon DEF ProviderInv, ReportInv
  <2>5. k_mPendingOps' \cap CP!InHand' = {}
    BY DEF ProviderInv, ReportInv
  <2>6. ASSUME k_stage' = "up", NEW k \in k_accepted', k_delivered'[k] = 0
        PROVE  \E y \in Working' \cap Travelling' : y.key = k
    <3>1. k_delivered[k] = 0 /\ k \in k_accepted /\ k_stage = "up"
      <4>1. k \in 1 .. CompMaxOps /\ k \in k_accepted /\ k_stage = "up"
        BY <2>0, <2>6, Zenon
      <4>2. k_delivered'[k] = 0
        BY <2>6
      <4>3. CASE k = x.key
        BY <2>2, <4>1, <4>2, <4>3
      <4>4. CASE k # x.key
        BY <2>2, <4>1, <4>2, <4>4
      <4> QED
        BY <4>1, <4>3, <4>4
    <3>2. PICK y \in Working \cap Travelling : y.key = k
      BY <3>1 DEF ProviderInv, ReportInv
    <3>3. y # x
      <4>1. x \in Travelling => k_delivered'[x.key] = 1
        BY <2>2
      <4> QED
        BY ONLY <2>6, <3>2, <4>1
    <3> QED
      BY <1>1, <1>2, <3>2, <3>3
  <2>7. k_stage' = "up" /\ k_kind' # "uring" => k_posted' \subseteq k_mPendingOps'
    BY DEF ProviderInv, ReportInv
  <2> QED
    BY <2>3, <2>4, <2>5, <2>6, <2>7, Zenon DEF ReportInv
<1> QED
  BY <1>5, <1>6, <1>7, <1>8, <1>9, <1>10, <1>11, Zenon DEF ProviderInv

(* The map entry of a key. *)
LEMMA FindOne ==
  ASSUME ProviderInv, NEW x \in Travelling
  PROVE  CP!Find(x.key) = (IF x \in k_mPendingOps THEN {x} ELSE {})
BY DEF ProviderInv, KeysInv, CP!Find

(* No slot to give back. *)
LEMMA GiveNothing ==
  ASSUME ProviderTypes, NEW t, k_free' = k_free
  PROVE  CP!Give(t, CP!NoSlot)
<1>1. k_free \in [CP!Types -> SUBSET (CompSendSlots \cup CompRecvSlots)]
  BY DEF ProviderTypes, CP!TypeOK
<1> QED
  BY <1>1 DEF CP!Give

LEMMA PostStep == ASSUME CountFacts, ProviderInv, NEW r \in CP!Requests, CP!Post_Iocp(r) PROVE ProviderInv'
<1>1. /\ k_cpc[r] = "post" /\ k_cpc' = [k_cpc EXCEPT ![r] = "idle"]
      /\ UNCHANGED <<k_kind, k_mInitialized, k_stage, k_mNextOpKey, k_free, k_mSocketRecvSlot, k_sq, k_cq, k_held,
                     k_wpc, k_taken, k_delivered, k_slabFault>>
  BY DEF CP!Post_Iocp, CP!To, CP!pool
<1>2. PICK x \in k_mPendingOps :
        /\ x.req = r
        /\ \/ /\ k_posted' = k_posted \cup {x} /\ k_accepted' = k_accepted \cup {x.key}
              /\ UNCHANGED <<k_mPendingOps, k_mPendingRequests>>
           \/ /\ k_mPendingOps' = k_mPendingOps \ {x} /\ k_mPendingRequests' = k_mPendingRequests - 1
              /\ UNCHANGED <<k_posted, k_accepted>>
  BY DEF CP!Post_Iocp
<1>3. k_kind = "iocp" /\ x \notin Travelling
  BY <1>1, <1>2, Zenon DEF ProviderInv, CallerInv
<1>4. /\ CP!InHand' = CP!InHand /\ Answered' = Answered /\ InWork' = InWork
  BY <1>1, SameHand DEF Answered, InWork, With
<1>5. x \in Ops /\ x.key \in 1 .. CompMaxOps /\ x.slot = CP!NoSlot /\ x \in Working /\ k_mPendingOps \subseteq Ops
  <2>1. k_mPendingOps \subseteq Ops /\ x \in Working
    BY DEF ProviderInv, ProviderTypes, Working
  <2>2. x.slot = CP!NoSlot
    BY <1>3, <2>1, Zenon DEF ProviderInv, SlotsInv, CP!Pooled
  <2> QED
    BY <2>1, <2>2 DEF Ops
<1>6. k_cq' \in Seq(Answers) /\ k_wpc' \in [CompWorkers -> {"idle", "find", "finish"}]
      /\ k_taken' \in [CompWorkers -> SUBSET Answers] /\ WorkerInv'
  BY <1>1 DEF ProviderInv, ProviderTypes, CP!TypeOK, WorkerInv
<1>7. CASE k_mPendingOps' = k_mPendingOps \ {x} /\ k_mPendingRequests' = k_mPendingRequests - 1
           /\ UNCHANGED <<k_posted, k_accepted>>
  <2>1. CP!Give(x.req[2], x.slot)
    BY <1>1, <1>5, GiveNothing, Zenon DEF ProviderInv
  <2>2. x \notin k_posted
    BY <1>3 DEF Travelling
  <2>3. k_cpc' = [k_cpc EXCEPT ![x.req] = "idle"] /\ k_delivered' = k_delivered
    BY <1>1, <1>2
  <2> QED
    BY <1>1, <1>3, <1>4, <1>6, <1>7, <2>1, <2>2, <2>3, RemoveOp, ZenonT(30)
<1>8. CASE k_posted' = k_posted \cup {x} /\ k_accepted' = k_accepted \cup {x.key}
           /\ UNCHANGED <<k_mPendingOps, k_mPendingRequests>>
  <2>1. Travelling' = Travelling \cup {x} /\ Working' = Working
    BY <1>1, <1>4, <1>8 DEF Travelling, Working
  <2>2. ProviderTypes'
    <3>1. k_cpc' \in [CP!Requests -> {"idle", "lock", "post"}]
      BY <1>1 DEF ProviderInv, ProviderTypes, CP!TypeOK
    <3> QED
      BY <1>1, <1>5, <1>8, <3>1, Zenon DEF ProviderInv, ProviderTypes, CP!TypeOK
  <2>3. KeysInv'
    <3>1. /\ k_mPendingOps' \cup Travelling' \subseteq k_mPendingOps \cup Travelling
          /\ k_accepted' \subseteq k_accepted \cup {y.key : y \in k_mPendingOps}
      BY <1>8, <2>1
    <3>2. k_sq' = <<>> /\ k_posted' \cap (Answered' \cup InWork') = {}
      BY <1>1, <1>3, <1>4, <1>8 DEF ProviderInv, KeysInv, Travelling
    <3> QED
      BY <1>1, <3>1, <3>2, KeysKeep, Zenon DEF ProviderInv
  <2>4. StageInv'
    BY <1>1, <1>8 DEF ProviderInv, StageInv
  <2>5. CallerInv'
    <3>0. k_cpc \in [CP!Requests -> {"idle", "lock", "post"}]
      BY DEF ProviderInv, ProviderTypes, CP!TypeOK
    <3>1. k_cpc'[r] = "idle" /\ k_held[r] = CP!NoSlot /\ \A q \in CP!Requests \ {r} : k_cpc'[q] = k_cpc[q]
      BY <1>1, <3>0, Zenon DEF ProviderInv, CallerInv
    <3>2. \A y \in k_mPendingOps : y.req \in CP!Requests /\ (y # x => y.req # r)
      BY <1>2, <1>5, WorkingTypes DEF ProviderInv, CallerInv
    <3>3. \A y \in k_mPendingOps : k_cpc'[y.req] # "lock" /\ (k_cpc'[y.req] = "post" => y \notin Travelling')
      BY <1>2, <2>1, <3>1, <3>2, Zenon DEF ProviderInv, CallerInv
    <3>4. ASSUME NEW q \in CP!Requests
          PROVE  /\ k_cpc'[q] = "post" => k_kind = "iocp"
                 /\ k_cpc'[q] = "post" /\ k_stage \in {"up", "flagged"} => \E y \in k_mPendingOps : y.req = q
                 /\ k_held[q] # CP!NoSlot => k_cpc'[q] = "lock" /\ k_held[q] \in CP!Slots[q[2]] /\ CP!Pooled(q[2])
      BY <3>1, Zenon DEF ProviderInv, CallerInv
    <3> QED
      BY <1>1, <1>8, <3>3, <3>4, Zenon DEF ProviderInv, CallerInv, CP!Pooled, CP!Slots
  <2>6. ReportInv'
    <3>1. \A k \in 1 .. CompMaxOps : k_delivered[k] <= (IF k \in k_accepted' THEN 1 ELSE 0)
      BY <1>8 DEF ProviderInv, ReportInv, ProviderTypes
    <3>2. \A y \in Working : k_delivered[y.key] = 0 /\ (y \in Travelling' => y.key \in k_accepted')
      BY <1>8, <2>1 DEF ProviderInv, ReportInv
    <3>3. k_stage = "up" => \A k \in k_accepted' : k_delivered[k] = 0 =>
                              \E y \in Working \cap Travelling' : y.key = k
      BY <1>5, <1>8, <2>1 DEF ProviderInv, ReportInv
    <3>4. k_stage = "up" => k_posted' \subseteq k_mPendingOps
      BY <1>3, <1>8 DEF ProviderInv, ReportInv
    <3> QED
      BY <1>1, <1>4, <1>8, <2>1, <3>1, <3>2, <3>3, <3>4, SMTT(20) DEF ProviderInv, ReportInv
  <2>7. PendingInv'
    BY <1>1, <1>8, <2>1 DEF ProviderInv, PendingInv
  <2>8. SlotsInv' /\ (k_stage' = "up" => OwnersInv' /\ NoneLost')
    BY <1>1, <2>1, SlotsKeep DEF ProviderInv
  <2> QED
    BY <1>1, <1>6, <2>2, <2>3, <2>4, <2>5, <2>6, <2>7, <2>8 DEF ProviderInv
<1> QED
  BY <1>2, <1>7, <1>8

LEMMA ProcessStep == ASSUME CountFacts, ProviderInv, CP!Process_Uring PROVE ProviderInv'
<1> DEFINE x == Head(k_cq).op
<1>1. /\ k_kind = "uring" /\ k_mInitialized /\ k_cq # <<>> /\ k_cq' = Tail(k_cq)
      /\ UNCHANGED <<k_kind, k_mInitialized, k_stage, k_mNextOpKey, k_mSocketRecvSlot, k_sq, k_posted, k_cpc, k_held,
                     k_wpc, k_taken, k_accepted, k_slabFault>>
  BY Zenon DEF CP!Process_Uring
<1>2. IF CP!Find(x.key) = {}
      THEN UNCHANGED <<k_mPendingOps, k_mPendingRequests, k_free, k_delivered>>
      ELSE /\ k_mPendingOps' = k_mPendingOps \ CP!Find(x.key) /\ CP!Deliver(x.key)
           /\ k_mPendingRequests' = k_mPendingRequests - 1 /\ CP!Give(x.req[2], x.slot)
  BY DEF CP!Process_Uring
<1>3. k_cq' \in Seq(Answers) /\ x \in Ops /\ Answered = Answered' \cup {x}
  BY <1>1, AnswerNext DEF ProviderInv
<1> HIDE DEF x
<1>4. CP!InHand' = CP!InHand /\ InWork' = InWork /\ k_stage = "up"
  BY <1>1, SameHand DEF InWork, With, ProviderInv, StageInv
<1>5. x \in Travelling /\ CP!Find(x.key) = (IF x \in k_mPendingOps THEN {x} ELSE {})
  BY <1>3, FindOne DEF Travelling
<1>6. k_wpc' \in [CompWorkers -> {"idle", "find", "finish"}] /\ k_taken' \in [CompWorkers -> SUBSET Answers] /\ WorkerInv'
  BY <1>1 DEF ProviderInv, ProviderTypes, CP!TypeOK, WorkerInv
<1>7. CASE x \in k_mPendingOps
  <2>1. /\ k_mPendingOps' = k_mPendingOps \ {x} /\ k_mPendingRequests' = k_mPendingRequests - 1
        /\ CP!Give(x.req[2], x.slot) /\ k_delivered' = [k_delivered EXCEPT ![x.key] = @ + 1]
    BY <1>2, <1>5, <1>7, Zenon DEF CP!Deliver
  <2>2. /\ Answered' \cup InWork' \subseteq Answered \cup InWork
        /\ Answered \cup InWork \subseteq Answered' \cup InWork' \cup {x}
    BY <1>3, <1>4
  <2> QED
    BY <1>1, <1>3, <1>4, <1>5, <1>6, <1>7, <2>1, <2>2, RemoveOp, ZenonT(30)
<1>8. CASE x \notin k_mPendingOps
  <2>1. UNCHANGED <<k_mPendingOps, k_mPendingRequests, k_free, k_delivered>>
    BY <1>2, <1>5, <1>8
  <2>2. CP!InHand = {}
    BY <1>1, InHandIs, Zenon DEF ProviderInv, WorkerInv
  <2>3. Travelling' \subseteq Travelling /\ Working \cap Travelling \subseteq Travelling'
    BY <1>1, <1>3, <1>4, <1>8, <2>2 DEF Travelling, Working
  <2>4. k_posted' \subseteq Ops /\ k_sq' \in Seq(Ops)
    BY <1>1 DEF ProviderInv, ProviderTypes
  <2> QED
    BY <1>1, <1>3, <1>4, <1>6, <2>1, <2>3, <2>4, MoveOn
<1> QED
  BY <1>7, <1>8, SMTT(20)

(* A worker has handled its answer. *)
LEMMA LetGo ==
  ASSUME ProviderInv, NEW w \in CompWorkers, NEW c \in k_taken[w], UNCHANGED k_kind,
         k_wpc' = [k_wpc EXCEPT ![w] = "idle"], k_taken' = [k_taken EXCEPT ![w] = {}]
  PROVE  /\ k_wpc' \in [CompWorkers -> {"idle", "find", "finish"}] /\ k_taken' \in [CompWorkers -> SUBSET Answers]
         /\ WorkerInv' /\ InWork' \subseteq InWork /\ InWork \subseteq InWork' \cup {c.op}
         /\ k_wpc[w] = "find" => CP!InHand' = CP!InHand
         /\ k_kind = "rio" => CP!InHand' = {} /\ InWork' = {}
<1>0. k_taken[w] = {c} /\ k_wpc[w] # "idle" /\ With(w) = {c.op}
  <2>1. k_taken[w] = {c} /\ k_wpc[w] # "idle"
    BY DEF ProviderInv, WorkerInv
  <2> QED
    BY <2>1 DEF With
<1>1. /\ k_wpc' \in [CompWorkers -> {"idle", "find", "finish"}] /\ k_taken' \in [CompWorkers -> SUBSET Answers]
      /\ k_wpc'[w] = "idle" /\ k_taken'[w] = {} /\ With(w)' = {d.op : d \in {}}
      /\ \A v \in CompWorkers \ {w} : k_wpc'[v] = k_wpc[v] /\ k_taken'[v] = k_taken[v] /\ With(v)' = With(v)
      /\ InWork \subseteq InWork' \cup With(w) /\ InWork' \subseteq InWork \cup With(w)'
  BY TakenNext, Zenon DEF ProviderInv
<1>2. With(w)' = {}
  BY <1>1, Zenon
<1>3. InWork' \subseteq InWork /\ InWork \subseteq InWork' \cup {c.op}
  BY <1>0, <1>1, <1>2
<1>4. WorkerInv'
  BY <1>1, Zenon DEF ProviderInv, WorkerInv
<1>5. \A x : x \in CP!InHand' <=> \E v \in CompWorkers : k_wpc'[v] = "finish" /\ x \in With(v)'
  BY DEF CP!InHand, With
<1>6. k_wpc[w] = "find" => CP!InHand' = CP!InHand
  <2>1. ASSUME k_wpc[w] = "find", NEW x
        PROVE  (\E v \in CompWorkers : k_wpc'[v] = "finish" /\ x \in With(v)')
               <=> (\E v \in CompWorkers : k_wpc[v] = "finish" /\ x \in With(v))
    BY <1>1, <2>1
  <2> QED
    BY <1>5, <2>1, InHandIs, Zenon
<1>7. k_kind = "rio" => CP!InHand' = {} /\ InWork' = {}
  <2>1. ASSUME k_kind = "rio", NEW v \in CompWorkers PROVE With(v)' = {}
    <3>1. CASE v = w
      BY <1>2, <3>1
    <3>2. CASE v # w
      <4>1. k_wpc[v] = "idle" /\ k_taken[v] = {}
        BY <1>0, <2>1, <3>2 DEF ProviderInv, WorkerInv
      <4>2. With(v) = {}
        BY <4>1 DEF With
      <4> QED
        BY <1>1, <3>2, <4>2
    <3> QED
      BY <3>1, <3>2
  <2> QED
    BY <1>5, <2>1 DEF InWork
<1> QED
  BY <1>1, <1>3, <1>4, <1>6, <1>7, Zenon

LEMMA TakenOp ==
  ASSUME ProviderInv, NEW w \in CompWorkers, NEW c \in k_taken[w]
  PROVE  c.op \in Ops /\ c.op \in InWork /\ c.op \in Travelling /\ c \in Answers
<1>1. c \in Answers /\ c.op \in With(w)
  BY DEF ProviderInv, ProviderTypes, With
<1> QED
  BY <1>1 DEF InWork, Travelling, Answers

(* A completion whose entry is no longer in the map. *)
LEMMA IgnoreStep ==
  ASSUME ProviderInv, NEW w \in CompWorkers, NEW c \in k_taken[w], c.op \notin Working, k_wpc[w] = "find",
         k_wpc' = [k_wpc EXCEPT ![w] = "idle"], k_taken' = [k_taken EXCEPT ![w] = {}],
         UNCHANGED <<k_kind, k_mInitialized, k_stage, k_mPendingOps, k_mNextOpKey, k_mPendingRequests, k_free,
                     k_mSocketRecvSlot, k_sq, k_posted, k_cq, k_cpc, k_held, k_accepted, k_delivered, k_slabFault>>
  PROVE  ProviderInv'
<1>1. /\ k_wpc' \in [CompWorkers -> {"idle", "find", "finish"}] /\ k_taken' \in [CompWorkers -> SUBSET Answers]
      /\ WorkerInv' /\ InWork' \subseteq InWork /\ InWork \subseteq InWork' \cup {c.op} /\ CP!InHand' = CP!InHand
  BY LetGo, Zenon
<1>2. Answered' = Answered
  BY Zenon DEF Answered
<1>3. Travelling' \subseteq Travelling /\ Working \cap Travelling \subseteq Travelling'
  BY <1>1, <1>2 DEF Travelling
<1>4. k_posted' \subseteq Ops /\ k_sq' \in Seq(Ops) /\ k_cq' \in Seq(Answers)
  BY DEF ProviderInv, ProviderTypes
<1>5. k_kind # "uring" => k_sq' = <<>> /\ k_posted' \subseteq k_posted /\ k_posted' \cap (Answered' \cup InWork') = {}
  BY <1>1, <1>2 DEF ProviderInv, KeysInv
<1> QED
  BY <1>1, <1>3, <1>4, <1>5, MoveOn

LEMMA FindIocpStep == ASSUME CountFacts, ProviderInv, NEW w \in CompWorkers, CP!Find_Iocp(w) PROVE ProviderInv'
<1>1. /\ k_kind = "iocp" /\ k_wpc[w] = "find" /\ k_wpc' = [k_wpc EXCEPT ![w] = "idle"]
      /\ k_taken' = [k_taken EXCEPT ![w] = {}]
      /\ UNCHANGED <<k_kind, k_mInitialized, k_stage, k_mNextOpKey, k_free, k_mSocketRecvSlot, k_sq, k_posted, k_cq,
                     k_cpc, k_held, k_accepted, k_slabFault>>
  BY DEF CP!Find_Iocp, CP!pool, CP!kernel
<1>2. PICK c \in k_taken[w] :
        IF CP!Find(c.op.key) = {} THEN UNCHANGED <<k_mPendingOps, k_mPendingRequests, k_delivered>>
        ELSE /\ k_mPendingOps' = k_mPendingOps \ CP!Find(c.op.key) /\ CP!Deliver(c.op.key)
             /\ k_mPendingRequests' = k_mPendingRequests - 1
  BY DEF CP!Find_Iocp
<1> DEFINE x == c.op
<1>3. x \in Ops /\ x \in InWork /\ x \in Travelling
  BY TakenOp
<1>4. CP!Find(x.key) = (IF x \in k_mPendingOps THEN {x} ELSE {})
  BY <1>3, FindOne
<1>5. CASE x \notin k_mPendingOps
  <2>1. CP!InHand = {}
    BY <1>1, InHandIs DEF ProviderInv, WorkerInv
  <2>2. c.op \notin Working /\ UNCHANGED <<k_mPendingOps, k_mPendingRequests, k_delivered>>
    BY <1>2, <1>4, <1>5, <2>1 DEF Working
  <2> QED
    BY <1>1, <2>2, IgnoreStep, Zenon
<1>6. CASE x \in k_mPendingOps
  <2>1. /\ k_mPendingOps' = k_mPendingOps \ {x} /\ k_mPendingRequests' = k_mPendingRequests - 1
        /\ k_delivered' = [k_delivered EXCEPT ![x.key] = @ + 1]
    BY <1>2, <1>4, <1>6 DEF CP!Deliver
  <2>2. /\ k_wpc' \in [CompWorkers -> {"idle", "find", "finish"}] /\ k_taken' \in [CompWorkers -> SUBSET Answers]
        /\ WorkerInv' /\ InWork' \subseteq InWork /\ InWork \subseteq InWork' \cup {x} /\ CP!InHand' = CP!InHand
    BY <1>1, LetGo, Zenon
  <2> HIDE DEF x
  <2>3. CP!Give(x.req[2], x.slot)
    <3>1. x.slot = CP!NoSlot
      BY <1>1, <1>6 DEF ProviderInv, SlotsInv, Working, CP!Pooled
    <3> QED
      BY <1>1, <3>1, GiveNothing, Zenon DEF ProviderInv
  <2>4. x \notin k_posted
    BY <1>1, <1>3 DEF ProviderInv, KeysInv
  <2>5. Answered' = Answered /\ k_cq' \in Seq(Answers)
    BY <1>1 DEF Answered, ProviderInv, ProviderTypes
  <2>6. /\ Answered' \cup InWork' \subseteq Answered \cup InWork
        /\ Answered \cup InWork \subseteq Answered' \cup InWork' \cup {x}
    BY <2>2, <2>5
  <2> QED
    BY <1>1, <1>3, <1>6, <2>1, <2>2, <2>3, <2>4, <2>5, <2>6, RemoveOp, Zenon
<1> QED
  BY <1>5, <1>6

LEMMA CallerLess ==
  ASSUME ProviderTypes, CallerInv, k_kind # "iocp", UNCHANGED <<k_kind, k_cpc, k_held>>,
         k_mPendingOps' \subseteq k_mPendingOps
  PROVE  CallerInv'
<1>1. \A x \in k_mPendingOps : x.req \in CP!Requests
  BY WorkingTypes DEF ProviderTypes
<1> QED
  BY <1>1 DEF CallerInv, CP!Pooled, CP!Slots

(* RIO lets one worker at a time handle an answer. *)
LEMMA RioHand ==
  ASSUME ProviderInv, k_kind = "rio", NEW w \in CompWorkers, NEW c \in k_taken[w]
  PROVE  /\ InWork = {c.op} /\ CP!InHand = (IF k_wpc[w] = "finish" THEN {c.op} ELSE {})
         /\ k_taken[w] = {c} /\ k_wpc[w] # "idle"
<1>1. k_taken[w] = {c} /\ k_wpc[w] # "idle"
  BY DEF ProviderInv, WorkerInv
<1>2. With(w) = {c.op}
  BY <1>1 DEF With
<1>3. ASSUME NEW v \in CompWorkers \ {w} PROVE k_wpc[v] = "idle" /\ With(v) = {}
  <2>1. k_wpc[v] = "idle" /\ k_taken[v] = {}
    BY <1>1, <1>3, Zenon DEF ProviderInv, WorkerInv
  <2> QED
    BY <2>1 DEF With
<1>4. InWork = {c.op}
  BY <1>2, <1>3 DEF InWork
<1>5. CP!InHand = (IF k_wpc[w] = "finish" THEN {c.op} ELSE {})
  <2>1. \A x : x \in CP!InHand <=> k_wpc[w] = "finish" /\ x = c.op
    BY <1>2, <1>3, InHandIs, SMTT(20)
  <2> QED
    BY <2>1
<1> QED
  BY <1>1, <1>4, <1>5

(* The worker takes the operation out of the map. *)
LEMMA TakeOutStep ==
  ASSUME CountFacts, ProviderInv, k_kind = "rio", k_stage = "up", NEW w \in CompWorkers, NEW c \in k_taken[w], k_wpc[w] = "find",
         c.op \in k_mPendingOps, k_mPendingOps' = k_mPendingOps \ {c.op}, k_wpc' = [k_wpc EXCEPT ![w] = "finish"],
         UNCHANGED <<k_kind, k_mInitialized, k_stage, k_mNextOpKey, k_mPendingRequests, k_free,
                     k_mSocketRecvSlot, k_sq, k_posted, k_cq, k_taken, k_cpc, k_held, k_accepted, k_delivered, k_slabFault>>
  PROVE  ProviderInv'
<1> DEFINE x == c.op
<1>1. InWork = {x} /\ CP!InHand = {} /\ k_taken[w] = {c}
  BY RioHand, Zenon
<1>2. Travelling' = Travelling /\ Answered' = Answered /\ InWork' = InWork
  BY SameTravel, Zenon
<1>3. k_wpc' \in [CompWorkers -> {"idle", "find", "finish"}] /\ k_wpc'[w] = "finish"
      /\ \A v \in CompWorkers \ {w} : k_wpc'[v] = k_wpc[v]
  BY SMTT(20) DEF ProviderInv, ProviderTypes, CP!TypeOK
<1>4. WorkerInv'
  BY <1>3, Zenon DEF ProviderInv, WorkerInv
<1>5. CP!InHand' = {x}
  <2>1. \A y : y \in CP!InHand' <=> \E v \in CompWorkers : k_wpc'[v] = "finish" /\ y \in With(v)
    BY Zenon DEF CP!InHand, With
  <2>2. With(w) = {x}
    BY <1>1 DEF With
  <2>3. \A v \in CompWorkers \ {w} : k_wpc'[v] # "finish"
    BY <1>3 DEF ProviderInv, WorkerInv
  <2>4. \A y : y \in CP!InHand' <=> y = x
    BY <1>3, <2>1, <2>2, <2>3, Zenon
  <2> QED
    BY <2>4, Zenon
<1> HIDE DEF x
<1>6. Working' = Working /\ k_mPendingOps' \cap CP!InHand' = {} /\ k_mPendingOps' \subseteq k_mPendingOps
  BY <1>1, <1>5 DEF Working, x
<1>7. ProviderTypes'
  BY <1>3, <1>6 DEF ProviderInv, ProviderTypes, CP!TypeOK
<1>8. KeysInv'
  <2>1. /\ k_mPendingOps' \cup Travelling' \subseteq k_mPendingOps \cup Travelling
        /\ k_accepted' \subseteq k_accepted \cup {y.key : y \in k_mPendingOps}
    BY <1>2, <1>6, Zenon
  <2>2. k_kind # "uring" => k_sq' = <<>> /\ k_posted' \cap (Answered' \cup InWork') = {}
    BY <1>2, Zenon DEF ProviderInv, KeysInv
  <2> QED
    BY <2>1, <2>2, KeysKeep, Zenon DEF ProviderInv
<1>9. StageInv' /\ CallerInv'
  BY <1>6, CallerLess, Zenon DEF ProviderInv, StageInv
<1>10. ReportInv'
  <2>1. x \notin k_posted
    BY <1>1, Zenon DEF ProviderInv, KeysInv
  <2>2. k_posted' \subseteq k_mPendingOps'
    BY <2>1 DEF ProviderInv, ReportInv, x
  <2> QED
    BY <1>2, <1>6, <2>2, Zenon DEF ProviderInv, ReportInv
<1>11. PendingInv'
  <2>1. IsFiniteSet(k_mPendingOps')
    BY <1>6 DEF ProviderInv, PendingInv, CountFacts, CountsPart
  <2> QED
    BY <1>6, <2>1, Zenon DEF ProviderInv, PendingInv
<1>12. SlotsInv' /\ OwnersInv' /\ NoneLost'
  BY <1>6, SlotsKeep, Zenon DEF ProviderInv
<1> QED
  BY <1>4, <1>7, <1>8, <1>9, <1>10, <1>11, <1>12, Zenon DEF ProviderInv

(* Shutdown has set its flag: the operation is dropped. *)
LEMMA DropStep ==
  ASSUME CountFacts, ProviderInv, k_kind = "rio", k_stage # "up", NEW w \in CompWorkers, NEW c \in k_taken[w], k_wpc[w] = "find",
         c.op \in k_mPendingOps, k_mPendingOps' = k_mPendingOps \ {c.op}, k_wpc' = [k_wpc EXCEPT ![w] = "idle"],
         k_taken' = [k_taken EXCEPT ![w] = {}], CP!Give("Send", c.op.slot),
         UNCHANGED <<k_kind, k_mInitialized, k_stage, k_mNextOpKey, k_mPendingRequests, k_mSocketRecvSlot, k_sq,
                     k_posted, k_cq, k_cpc, k_held, k_accepted, k_delivered, k_slabFault>>
  PROVE  ProviderInv'
<1> DEFINE x == c.op
<1>1. InWork = {x} /\ CP!InHand = {}
  BY RioHand
<1>2. /\ k_wpc' \in [CompWorkers -> {"idle", "find", "finish"}] /\ k_taken' \in [CompWorkers -> SUBSET Answers]
      /\ WorkerInv' /\ CP!InHand' = {} /\ InWork' = {}
  BY LetGo, Zenon
<1>3. Answered' = Answered
  BY DEF Answered
<1>4. Travelling' \subseteq Travelling
  BY <1>2, <1>3 DEF Travelling
<1> HIDE DEF x
<1>5. /\ Working' = Working \ {x} /\ k_mPendingOps' \subseteq k_mPendingOps /\ x \in Working /\ x \in Ops
      /\ x.req[2] \in {"Send", "Recv"} /\ x.slot \in SlotNames
  <2>1. Working' = Working \ {x} /\ k_mPendingOps' \subseteq k_mPendingOps /\ x \in Working
    BY <1>1, <1>2 DEF Working, x
  <2>2. x \in Ops
    BY SMTT(20) DEF ProviderInv, ProviderTypes, x
  <2> QED
    BY <2>1, <2>2, WorkingTypes, SlotNamesApart, Zenon DEF ProviderInv
<1>6. CP!Give(x.req[2], x.slot)
  <2>1. CASE x.req[2] = "Send"
    BY <2>1, Zenon DEF x
  <2>2. CASE x.req[2] = "Recv"
    <3>1. x.slot = CP!NoSlot
      BY <1>5, <2>2, Zenon DEF ProviderInv, SlotsInv, CP!Pooled
    <3>2. k_free' = k_free
      <4>1. CP!Give("Send", CP!NoSlot) /\ k_free \in [CP!Types -> SUBSET (CompSendSlots \cup CompRecvSlots)]
        BY <3>1, Zenon DEF x, ProviderInv, ProviderTypes, CP!TypeOK
      <4> QED
        BY <4>1 DEF CP!Give
    <3> QED
      BY <3>1, <3>2, GiveNothing DEF ProviderInv
  <2> QED
    BY <1>5, <2>1, <2>2, Zenon
<1>7. ProviderTypes'
  <2>1. k_free' \in [CP!Types -> SUBSET (CompSendSlots \cup CompRecvSlots)]
    <3>1. k_free \in [CP!Types -> SUBSET (CompSendSlots \cup CompRecvSlots)]
      BY DEF ProviderInv, ProviderTypes, CP!TypeOK
    <3>2. {x.slot} \ {CP!NoSlot} \subseteq CompSendSlots \cup CompRecvSlots
      BY <1>5, Zenon DEF SlotNames
    <3> QED
      BY <1>6, <3>1, <3>2, ZenonT(30) DEF CP!Give
  <2> QED
    BY <1>2, <1>5, <2>1, Zenon DEF ProviderInv, ProviderTypes, CP!TypeOK
<1>8. KeysInv'
  <2>1. /\ k_mPendingOps' \cup Travelling' \subseteq k_mPendingOps \cup Travelling
        /\ k_accepted' \subseteq k_accepted \cup {y.key : y \in k_mPendingOps}
    BY <1>4, <1>5, Zenon
  <2>2. k_kind # "uring" => k_sq' = <<>> /\ k_posted' \cap (Answered' \cup InWork') = {}
    BY <1>2, <1>3, Zenon DEF ProviderInv, KeysInv
  <2> QED
    BY <2>1, <2>2, KeysKeep, Zenon DEF ProviderInv
<1>9. StageInv' /\ CallerInv'
  BY <1>5, CallerLess, Zenon DEF ProviderInv, StageInv
<1>10. ReportInv'
  BY <1>2, <1>4, <1>5, Zenon DEF ProviderInv, ReportInv
<1>11. PendingInv'
  BY <1>5, Zenon DEF ProviderInv, PendingInv, CountFacts, CountsPart
<1>12. SlotsInv'
  BY <1>5, <1>6, SlotsRelease, Zenon DEF ProviderInv
<1> QED
  BY <1>2, <1>7, <1>8, <1>9, <1>10, <1>11, <1>12 DEF ProviderInv

LEMMA FindRioStep == ASSUME CountFacts, ProviderInv, NEW w \in CompWorkers, CP!Find_Rio(w) PROVE ProviderInv'
<1>1. /\ k_kind = "rio" /\ k_wpc[w] = "find"
      /\ UNCHANGED <<k_kind, k_mInitialized, k_stage, k_mNextOpKey, k_mPendingRequests, k_mSocketRecvSlot, k_sq, k_posted,
                     k_cq, k_cpc, k_held, k_accepted, k_delivered, k_slabFault>>
  BY DEF CP!Find_Rio, CP!kernel, CP!log
<1>2. PICK c \in k_taken[w] :
       /\ k_mPendingOps' = k_mPendingOps \ CP!Find(c.op.key)
       /\ IF CP!Find(c.op.key) # {} /\ k_stage = "up"
          THEN k_wpc' = [k_wpc EXCEPT ![w] = "finish"] /\ UNCHANGED <<k_free, k_taken>>
          ELSE /\ k_wpc' = [k_wpc EXCEPT ![w] = "idle"] /\ k_taken' = [k_taken EXCEPT ![w] = {}]
               /\ IF CP!Find(c.op.key) # {} THEN CP!Give("Send", c.op.slot) ELSE UNCHANGED k_free
  BY Zenon DEF CP!Find_Rio
<1>3. CP!Find(c.op.key) = (IF c.op \in k_mPendingOps THEN {c.op} ELSE {})
  BY TakenOp, FindOne
<1>4. CASE c.op \notin k_mPendingOps
  <2>1. c.op \notin Working
    BY <1>1, <1>4, RioHand DEF Working
  <2>2. /\ k_wpc' = [k_wpc EXCEPT ![w] = "idle"] /\ k_taken' = [k_taken EXCEPT ![w] = {}]
        /\ UNCHANGED <<k_free, k_mPendingOps>>
    BY <1>2, <1>3, <1>4
  <2> QED
    BY <1>1, <2>1, <2>2, IgnoreStep, Zenon
<1>5. CASE c.op \in k_mPendingOps /\ k_stage = "up"
  <2>1. /\ k_mPendingOps' = k_mPendingOps \ {c.op} /\ k_wpc' = [k_wpc EXCEPT ![w] = "finish"]
        /\ UNCHANGED <<k_free, k_taken>>
    BY <1>2, <1>3, <1>5
  <2> QED
    BY <1>1, <1>5, <2>1, TakeOutStep, Zenon
<1>6. CASE c.op \in k_mPendingOps /\ k_stage # "up"
  <2>1. /\ k_mPendingOps' = k_mPendingOps \ {c.op} /\ k_wpc' = [k_wpc EXCEPT ![w] = "idle"]
        /\ k_taken' = [k_taken EXCEPT ![w] = {}] /\ CP!Give("Send", c.op.slot)
    BY <1>2, <1>3, <1>6
  <2> QED
    BY <1>1, <1>6, <2>1, DropStep, ZenonT(30)
<1> QED
  BY <1>4, <1>5, <1>6

LEMMA FinishStep == ASSUME CountFacts, ProviderInv, NEW w \in CompWorkers, CP!Finish_Rio(w) PROVE ProviderInv'
<1>1. /\ k_wpc[w] = "finish" /\ k_wpc' = [k_wpc EXCEPT ![w] = "idle"] /\ k_taken' = [k_taken EXCEPT ![w] = {}]
      /\ k_mPendingRequests' = (IF k_mPendingRequests > 0 THEN k_mPendingRequests - 1 ELSE 0)
      /\ UNCHANGED <<k_kind, k_mInitialized, k_stage, k_mPendingOps, k_mNextOpKey, k_sq, k_posted, k_cq, k_cpc, k_held,
                     k_accepted>>
  BY Zenon DEF CP!Finish_Rio, CP!kernel
<1>2. PICK c \in k_taken[w] :
        /\ k_slabFault' = (k_slabFault \/ /\ c.op.req[2] = "Recv" /\ c.outcome = "data"
                                          /\ k_mSocketRecvSlot[c.op.req[1]] # CP!NoSlot /\ k_stage = "freed")
        /\ IF ~(c.op.req[2] = "Recv") THEN CP!Give("Send", c.op.slot) /\ UNCHANGED k_mSocketRecvSlot
           ELSE IF c.outcome = "data" THEN UNCHANGED <<k_free, k_mSocketRecvSlot>>
           ELSE /\ CP!Give("Recv", k_mSocketRecvSlot[c.op.req[1]])
                /\ k_mSocketRecvSlot' = [k_mSocketRecvSlot EXCEPT ![c.op.req[1]] = CP!NoSlot]
        /\ CP!Deliver(c.op.key)
  BY Zenon DEF CP!Finish_Rio
<1> DEFINE x == c.op
           s == x.req[1]
<1>3. k_kind = "rio"
  BY <1>1 DEF ProviderInv, WorkerInv
<1>4. InWork = {x} /\ CP!InHand = {x}
  BY <1>1, <1>3, RioHand
<1>5. /\ k_wpc' \in [CompWorkers -> {"idle", "find", "finish"}] /\ k_taken' \in [CompWorkers -> SUBSET Answers]
      /\ WorkerInv' /\ CP!InHand' = {} /\ InWork' = {}
  BY <1>1, <1>3, LetGo, Zenon
<1>6. /\ x \in Ops /\ x.key \in 1 .. CompMaxOps /\ s \in CompSockets /\ x.slot \in SlotNames
      /\ x.req[2] \in {"Send", "Recv"} /\ x \in Travelling
  BY TakenOp, WorkingTypes, SlotNamesApart DEF ProviderInv
<1>7. IF ~(x.req[2] = "Recv") THEN CP!Give("Send", x.slot) /\ UNCHANGED k_mSocketRecvSlot
      ELSE IF c.outcome = "data" THEN UNCHANGED <<k_free, k_mSocketRecvSlot>>
      ELSE CP!Give("Recv", k_mSocketRecvSlot[s]) /\ k_mSocketRecvSlot' = [k_mSocketRecvSlot EXCEPT ![s] = CP!NoSlot]
  BY <1>2, Zenon
<1>8. k_delivered' = [k_delivered EXCEPT ![x.key] = @ + 1]
  BY <1>2 DEF CP!Deliver
<1>9. ~k_slabFault'
  <2>1. k_stage = "freed" => k_mSocketRecvSlot[s] = CP!NoSlot
    BY <1>6 DEF ProviderInv, StageInv
  <2> QED
    BY <1>2, <2>1, Zenon DEF ProviderInv
<1> HIDE DEF x, s
<1>10. /\ Working' = Working \ {x} /\ x \in Working /\ Working \subseteq k_mPendingOps \cup Travelling
       /\ x \notin k_mPendingOps
  BY <1>1, <1>4, <1>5, <1>6, Zenon DEF ProviderInv, ReportInv, Working
<1>11. Answered' = Answered
  BY <1>1, Zenon DEF Answered
<1>12. Travelling' \subseteq Travelling /\ Travelling \subseteq Travelling' \cup {x}
  BY <1>1, <1>4, <1>5, <1>11 DEF Travelling
<1>13. SlotsInv' /\ (k_stage' = "up" => OwnersInv' /\ NoneLost')
  <2>1. CASE x.req[2] = "Send"
    <3>1. CP!Give(x.req[2], x.slot) /\ UNCHANGED k_mSocketRecvSlot
      BY <1>7, <2>1
    <3> QED
      BY <1>1, <1>10, <3>1, SlotsRelease, Zenon DEF ProviderInv
  <2>2. CASE x.req[2] = "Recv"
    <3>1. x.slot = CP!NoSlot
      BY <1>3, <1>10, <2>2 DEF ProviderInv, SlotsInv, CP!Pooled
    <3>2. CASE c.outcome = "data"
      <4>1. UNCHANGED <<k_free, k_mSocketRecvSlot>>
        BY <1>7, <2>2, <3>2
      <4>2. CP!Give(x.req[2], x.slot)
        BY <3>1, <4>1, GiveNothing DEF ProviderInv
      <4> QED
        BY <1>1, <1>10, <4>1, <4>2, SlotsRelease, Zenon DEF ProviderInv
    <3>3. CASE c.outcome # "data"
      <4>1. CP!Give("Recv", k_mSocketRecvSlot[s]) /\ k_mSocketRecvSlot' = [k_mSocketRecvSlot EXCEPT ![s] = CP!NoSlot]
        BY <1>7, <2>2, <3>3
      <4> QED
        BY <1>1, <1>3, <1>6, <1>10, <3>1, <4>1, SlotsReturn, Zenon DEF ProviderInv
    <3> QED
      BY <3>2, <3>3
  <2> QED
    BY <1>6, <2>1, <2>2
<1>14. /\ k_mSocketRecvSlot' \in [CompSockets -> CompRecvSlots \cup {CP!NoSlot}]
       /\ \A u \in CompSockets : k_mSocketRecvSlot'[u] \in {k_mSocketRecvSlot[u], CP!NoSlot}
       /\ k_free' \in [CP!Types -> SUBSET (CompSendSlots \cup CompRecvSlots)]
  <2>1. /\ k_mSocketRecvSlot \in [CompSockets -> CompRecvSlots \cup {CP!NoSlot}]
        /\ k_free \in [CP!Types -> SUBSET (CompSendSlots \cup CompRecvSlots)]
    BY DEF ProviderInv, ProviderTypes, CP!TypeOK
  <2>2. \/ k_mSocketRecvSlot' = k_mSocketRecvSlot
        \/ k_mSocketRecvSlot' = [k_mSocketRecvSlot EXCEPT ![s] = CP!NoSlot]
    BY <1>7
  <2>3. k_free' = k_free \/ \E t, b : CP!Give(t, b) /\ b \in SlotNames
    <3>1. k_mSocketRecvSlot[s] \in SlotNames
      BY <1>6, <2>1, Zenon DEF SlotNames
    <3> QED
      BY <1>6, <1>7, <3>1
  <2>4. k_free' \in [CP!Types -> SUBSET (CompSendSlots \cup CompRecvSlots)]
    <3>1. ASSUME NEW t, NEW b \in SlotNames, CP!Give(t, b)
          PROVE  k_free' \in [CP!Types -> SUBSET (CompSendSlots \cup CompRecvSlots)]
      <4>1. {b} \ {CP!NoSlot} \subseteq CompSendSlots \cup CompRecvSlots
        BY DEF SlotNames
      <4> QED
        BY <2>1, <3>1, <4>1, ZenonT(30) DEF CP!Give
    <3> QED
      BY <2>1, <2>3, <3>1
  <2> QED
    BY <1>6, <2>1, <2>2, <2>4
<1>15. ProviderTypes'
  <2>1. k_delivered' \in [1 .. CompMaxOps -> Nat]
    <3>1. k_delivered \in [1 .. CompMaxOps -> Nat]
      BY DEF ProviderInv, ProviderTypes
    <3> QED
      BY ONLY <1>6, <1>8, <3>1
  <2>2. k_mPendingRequests' \in Nat
    BY <1>1 DEF ProviderInv, ProviderTypes, CP!TypeOK
  <2> QED
    BY <1>1, <1>5, <1>14, <2>1, <2>2, Zenon DEF ProviderInv, ProviderTypes, CP!TypeOK
<1>16. KeysInv'
  <2>1. /\ k_mPendingOps' \cup Travelling' \subseteq k_mPendingOps \cup Travelling
        /\ k_accepted' \subseteq k_accepted \cup {y.key : y \in k_mPendingOps}
    BY <1>1, <1>12, Zenon
  <2>2. k_kind # "uring" => k_sq' = <<>> /\ k_posted' \cap (Answered' \cup InWork') = {}
    BY <1>1, <1>5, <1>11 DEF ProviderInv, KeysInv
  <2> QED
    BY <1>1, <2>1, <2>2, KeysKeep, Zenon DEF ProviderInv
<1>17. StageInv'
  BY <1>1, <1>14 DEF ProviderInv, StageInv
<1>18. CallerInv'
  BY <1>1, <1>3, CallerLess DEF ProviderInv
<1>19. PendingInv'
  <2>1. Cardinality(Working') = Cardinality(Working) - 1 /\ Cardinality(Working') \in Nat /\ Cardinality(Working) \in Nat
    <3>1. IsFiniteSet(Working') /\ Cardinality(Working') = Cardinality(Working) - 1
      BY <1>10, HandFinite DEF CountFacts, CountsRemove
    <3> QED
      BY <3>1, HandFinite, Zenon DEF CountFacts, CountsType
  <2> QED
    BY <1>1, <1>3, <2>1 DEF ProviderInv, PendingInv
<1>20. ReportInv'
  <2>0. k_delivered \in [1 .. CompMaxOps -> Nat] /\ k_accepted \subseteq 1 .. CompMaxOps
    BY DEF ProviderInv, ProviderTypes
  <2>1. \A y \in Working' : y.key # x.key /\ y.key \in 1 .. CompMaxOps
    BY <1>6, <1>10, WorkingTypes DEF ProviderInv, KeysInv
  <2>2. /\ k_delivered[x.key] = 0 /\ x.key \in k_accepted
    BY <1>6, <1>10, Zenon DEF ProviderInv, ReportInv
  <2>3. /\ \A k \in (1 .. CompMaxOps) \ {x.key} : k_delivered'[k] = k_delivered[k]
        /\ k_delivered'[x.key] = 1
    BY <1>6, <1>8, <2>0, <2>2
  <2>4. \A k \in 1 .. CompMaxOps : k_delivered'[k] <= (IF k \in k_accepted' THEN 1 ELSE 0)
    BY <1>1, <2>0, <2>2, <2>3 DEF ProviderInv, ReportInv
  <2>5. \A y \in Working' : k_delivered'[y.key] = 0 /\ (y \in Travelling' => y.key \in k_accepted')
    BY <1>1, <1>10, <1>12, <2>1, <2>3 DEF ProviderInv, ReportInv
  <2>6. ASSUME k_stage' = "up", NEW k \in k_accepted', k_delivered'[k] = 0
        PROVE  \E y \in Working' \cap Travelling' : y.key = k
    <3>1. k # x.key /\ k \in k_accepted /\ k_stage = "up"
      BY <1>1, <2>3, <2>6
    <3>2. k_delivered[k] = 0
      BY <2>0, <2>3, <2>6, <3>1
    <3>3. PICK y \in Working \cap Travelling : y.key = k
      BY <3>1, <3>2, Zenon DEF ProviderInv, ReportInv
    <3> QED
      BY <1>10, <1>12, <3>1, <3>3
  <2>7. /\ k_stage' = "up" /\ k_kind' # "uring" => k_posted' \subseteq k_mPendingOps'
    BY <1>1 DEF ProviderInv, ReportInv
  <2> QED
    BY <1>5, <2>4, <2>5, <2>6, <2>7, Zenon DEF ReportInv
<1> QED
  BY <1>5, <1>9, <1>13, <1>15, <1>16, <1>17, <1>18, <1>19, <1>20 DEF ProviderInv

LEMMA ClearStep == ASSUME CountFacts, ProviderInv, CP!Shutdown_Clear PROVE ProviderInv'
<1> USE DEF CP!Shutdown_Clear, CP!kernel, CP!log
<1>1. Travelling' = Travelling /\ Answered' = Answered /\ InWork' = InWork /\ CP!InHand' = CP!InHand
  BY SameTravel, SameHand
<1>2. Working' \subseteq Working /\ Working' = CP!InHand /\ k_mPendingOps' = {} /\ k_stage' = "cleared"
  BY <1>1 DEF Working
<1>3. \A s \in CompSockets : k_mSocketRecvSlot'[s] = CP!NoSlot
  OBVIOUS
<1>4. ProviderTypes'
  BY DEF ProviderInv, ProviderTypes, CP!TypeOK
<1>5. KeysInv'
  <2>1. /\ k_mPendingOps' \cup Travelling' \subseteq k_mPendingOps \cup Travelling
        /\ k_accepted' \subseteq k_accepted \cup {y.key : y \in k_mPendingOps}
    BY <1>1, <1>2, Zenon
  <2>2. k_kind # "uring" => k_sq' = <<>> /\ k_posted' \cap (Answered' \cup InWork') = {}
    BY <1>1 DEF ProviderInv, KeysInv
  <2> QED
    BY <2>1, <2>2, KeysKeep, Zenon DEF ProviderInv
<1>6. StageInv' /\ WorkerInv'
  BY <1>2, <1>3, Zenon DEF ProviderInv, StageInv, WorkerInv
<1>7. CallerInv'
  BY <1>2, Zenon DEF ProviderInv, CallerInv, CP!Pooled, CP!Slots
<1>8. ReportInv'
  BY <1>1, <1>2 DEF ProviderInv, ReportInv
<1>9. PendingInv'
  BY <1>2 DEF PendingInv, CountFacts, CountsFew
<1>10. SlotsInv'
  BY <1>2, <1>3, Zenon DEF ProviderInv, SlotsInv, CP!Pooled, CP!Slots
<1> QED
  BY <1>2, <1>4, <1>5, <1>6, <1>7, <1>8, <1>9, <1>10, SMTT(20) DEF ProviderInv

LEMMA PoolsStep == ASSUME ProviderInv, CP!Shutdown_Pools PROVE ProviderInv'
<1> USE DEF CP!Shutdown_Pools, CP!log
<1>1. CP!InHand' = CP!InHand /\ InWork' = InWork /\ Answered' = {} /\ Travelling' = InWork
  <2>1. CP!InHand' = CP!InHand /\ InWork' = InWork
    BY SameHand, Zenon DEF InWork, With
  <2>2. Holds(k_sq') = {} /\ Holds(k_cq') = {}
    BY DEF Holds
  <2> QED
    BY <2>1, <2>2, Zenon DEF Answered, Travelling
<1>2. Travelling' \subseteq Travelling
  BY <1>1 DEF Travelling
<1>3. Working = CP!InHand /\ CP!InHand \subseteq InWork
  <2>1. k_mPendingOps = {}
    BY DEF ProviderInv, StageInv
  <2>2. CP!InHand \subseteq InWork
    BY WorkingTypes DEF ProviderInv
  <2> QED
    BY <2>1, <2>2 DEF Working
<1>4. ProviderTypes'
  BY DEF ProviderInv, ProviderTypes, CP!TypeOK
<1>5. KeysInv'
  <2>1. /\ k_mPendingOps' \cup Travelling' \subseteq k_mPendingOps \cup Travelling
        /\ k_accepted' \subseteq k_accepted \cup {y.key : y \in k_mPendingOps}
    BY <1>2, Zenon
  <2> QED
    BY <2>1, KeysKeep, Zenon DEF ProviderInv
<1>6. StageInv' /\ WorkerInv'
  BY Zenon DEF ProviderInv, StageInv, WorkerInv
<1>7. CallerInv'
  <2>1. k_mPendingOps \cap Travelling' \subseteq Travelling
    BY <1>2
  <2> QED
    BY <2>1, CallerKeep DEF ProviderInv
<1>8. SlotsInv'
  <2>1. Working' = Working
    BY <1>1 DEF Working
  <2>2. \A t \in CP!Types : k_free'[t] = {}
    OBVIOUS
  <2> QED
    BY <2>1, <2>2, Zenon DEF ProviderInv, SlotsInv, CP!Pooled, CP!Slots, CP!Types
<1>9. Working \cap Travelling' = Working \cap Travelling
  BY <1>1, <1>2, <1>3
<1> QED
  BY <1>1, <1>4, <1>5, <1>6, <1>7, <1>8, <1>9, Quiet

LEMMA ProviderStep == ASSUME CountFacts, ProviderInv, [CP!Next]_(CP!vars) PROVE ProviderInv'
<1>1. CASE UNCHANGED (CP!vars)
  <2>1. UNCHANGED <<k_kind, k_mInitialized, k_stage, k_mPendingOps, k_mNextOpKey, k_mPendingRequests, k_free,
                    k_mSocketRecvSlot, k_sq, k_posted, k_cq, k_cpc, k_held, k_wpc, k_taken, k_accepted,
                    k_delivered, k_slabFault>>
    BY <1>1 DEF CP!vars
  <2>2. Working' = Working /\ Travelling' = Travelling
    BY <2>1, SameWorking, SameTravel
  <2>3. ProviderTypes'
    BY <2>1 DEF ProviderInv, ProviderTypes, CP!TypeOK
  <2>4. StageInv'
    BY <2>1 DEF ProviderInv, StageInv
  <2>5. CallerInv'
    BY <2>1, <2>2, CallerKeep DEF ProviderInv
  <2>6. SlotsInv' /\ (k_stage' = "up" => OwnersInv' /\ NoneLost')
    BY <2>1, <2>2, SlotsKeep DEF ProviderInv
  <2> QED
    BY <2>1, <2>3, <2>4, <2>5, <2>6, Aside
<1>2. ASSUME NEW s \in CompSockets, CP!AssociateSocket(s) PROVE ProviderInv'
  BY <1>2, AssociateStep
<1>3. ASSUME NEW r \in CP!Requests, CP!Request(r) PROVE ProviderInv'
  BY <1>3, AcquireStep, UringStep, RioStep, InsertStep, PostStep, LateStep DEF CP!Request
<1>4. ASSUME NEW w \in CompWorkers, CP!Worker(w) PROVE ProviderInv'
  BY <1>4, DequeueStep, FindIocpStep, FindRioStep, FinishStep DEF CP!Worker
<1> QED
  BY <1>1, <1>2, <1>3, <1>4, FlushStep, CompleteStep, ProcessStep, FlagStep, ClearStep, PoolsStep DEF CP!Next

LEMMA ProviderInit == ASSUME CountFacts, CP!Init PROVE ProviderInv
<1> USE DEF CP!Init
<1>1. Answered = {} /\ InWork = {} /\ Travelling = {} /\ CP!InHand = {} /\ Working = {}
  <2>1. Holds(k_sq) = {} /\ Holds(k_cq) = {} /\ k_posted = {} /\ k_mPendingOps = {}
    BY DEF Holds
  <2>2. InWork = {}
    BY DEF InWork, With
  <2>3. CP!InHand = {}
    BY DEF CP!InHand
  <2> QED
    BY <2>1, <2>2, <2>3, Zenon DEF Answered, Travelling, Working
<1>2. ProviderTypes
  <2>1. k_free \in [CP!Types -> SUBSET (CompSendSlots \cup CompRecvSlots)]
    BY DEF CP!Slots, CP!Types
  <2>2. /\ k_mPendingOps \subseteq Ops /\ k_posted \subseteq Ops /\ k_sq \in Seq(Ops) /\ k_cq \in Seq(Answers)
        /\ k_taken \in [CompWorkers -> SUBSET Answers] /\ k_held \in [CP!Requests -> SlotNames]
        /\ k_accepted \subseteq 1 .. CompMaxOps /\ k_delivered \in [1 .. CompMaxOps -> Nat]
    BY DEF SlotNames
  <2>3. CP!TypeOK
    BY <2>1, CompAssumption DEF CP!TypeOK
  <2> QED
    BY <2>2, <2>3 DEF ProviderTypes
<1>3. KeysInv
  BY <1>1 DEF KeysInv
<1>4. StageInv /\ WorkerInv
  BY DEF StageInv, WorkerInv
<1>5. CallerInv
  BY Zenon DEF CallerInv
<1>6. ReportInv
  BY <1>1 DEF ReportInv
<1>7. PendingInv
  BY <1>1 DEF PendingInv, CountFacts, CountsFew
<1>8. SlotsInv /\ OwnersInv /\ NoneLost
  <2>1. k_free = CP!Slots
    OBVIOUS
  <2>2. \A r \in CP!Requests : k_held[r] = CP!NoSlot /\ r[2] \in CP!Types /\ CP!NoSlot \notin CP!Slots[r[2]]
    BY SlotNamesApart, Zenon
  <2>3. /\ \A s \in CompSockets : k_mSocketRecvSlot[s] = CP!NoSlot
        /\ CP!NoSlot \notin CP!Slots["Recv"]
    BY SlotNamesApart
  <2>4. SlotsInv
    BY <1>1, <2>1, <2>3, Zenon DEF SlotsInv
  <2>5. OwnersInv
    BY <1>1, <2>1, <2>2, <2>3, Zenon DEF OwnersInv
  <2>6. NoneLost
    BY <2>1, Zenon DEF NoneLost, Owned
  <2> QED
    BY <2>4, <2>5, <2>6
<1> QED
  BY <1>2, <1>3, <1>4, <1>5, <1>6, <1>7, <1>8 DEF ProviderInv

(* Every slot of a pool is free or has one owner. *)
LEMMA OneOwner ==
  ASSUME CountFacts, ProviderInv, k_stage = "up", k_kind # "iocp", NEW t \in CP!Types, NEW b \in CP!Slots[t]
  PROVE  CP!Cardinality(CP!SlotOwners(t, b)) = (IF b \in k_free[t] THEN 0 ELSE 1)
<1> DEFINE O == CP!SlotOwners(t, b)
<1>0. /\ OwnersInv /\ NoneLost /\ SlotsInv /\ CallerInv /\ b # CP!NoSlot
      /\ t = "Recv" => ~CP!Pooled(t) \/ k_kind # "rio"
  BY SlotNamesApart DEF ProviderInv, CP!Pooled
<1>1. \A o : o \in O <=> \/ \E x \in Working : o = <<"op", x>> /\ x.req[2] = t /\ x.slot = b
                         \/ \E r \in CP!Requests : o = <<"caller", r>> /\ r[2] = t /\ k_held[r] = b
                         \/ \E s \in CompSockets : o = <<"socket", s>> /\ t = "Recv" /\ k_mSocketRecvSlot[s] = b
  BY DEF CP!SlotOwners, Working
<1>2. \A s \in CompSockets : k_mSocketRecvSlot[s] = b => k_kind = "rio"
  BY <1>0 DEF SlotsInv
<1> HIDE DEF O
<1>3. \A o, p \in O : o = p
  <2>1. ASSUME NEW s \in CompSockets, t = "Recv", k_mSocketRecvSlot[s] = b
        PROVE  /\ ~ \E x \in Working : x.req[2] = t /\ x.slot = b
               /\ ~ \E r \in CP!Requests : r[2] = t /\ k_held[r] = b
    <3>1. ~CP!Pooled(t)
      BY <1>2, <2>1 DEF CP!Pooled
    <3>2. \A x \in Working : x.req[2] = t /\ x.slot = b => CP!Pooled(t)
      BY <1>0 DEF SlotsInv
    <3>3. \A r \in CP!Requests : r[2] = t /\ k_held[r] = b => CP!Pooled(t)
      BY <1>0 DEF CallerInv
    <3> QED
      BY ONLY <3>1, <3>2, <3>3
  <2>2. ~ \E x \in Working, r \in CP!Requests : x.req[2] = t /\ x.slot = b /\ r[2] = t /\ k_held[r] = b
    BY <1>0 DEF OwnersInv
  <2>3. \A x, y \in Working : x.req[2] = t /\ x.slot = b /\ y.req[2] = t /\ y.slot = b => x = y
    BY <1>0, Zenon DEF OwnersInv
  <2>4. \A r, q \in CP!Requests : r[2] = t /\ k_held[r] = b /\ q[2] = t /\ k_held[q] = b => r = q
    BY <1>0, Zenon DEF OwnersInv
  <2>5. \A s, u \in CompSockets : k_mSocketRecvSlot[s] = b /\ k_mSocketRecvSlot[u] = b => s = u
    BY <1>0 DEF OwnersInv
  <2>6. ASSUME NEW s \in CompSockets, t = "Recv", k_mSocketRecvSlot[s] = b
        PROVE  \A o \in O : o = <<"socket", s>>
    BY ONLY <1>1, <2>1, <2>5, <2>6
  <2>7. ASSUME NEW r \in CP!Requests, r[2] = t, k_held[r] = b PROVE \A o \in O : o = <<"caller", r>>
    BY ONLY <1>1, <2>1, <2>2, <2>4, <2>7
  <2>8. ASSUME NEW x \in Working, x.req[2] = t, x.slot = b PROVE \A o \in O : o = <<"op", x>>
    BY ONLY <1>1, <2>1, <2>2, <2>3, <2>8, SMTT(20)
  <2> QED
    BY ONLY <1>1, <2>6, <2>7, <2>8
<1>4. CASE b \in k_free[t]
  <2>1. O = {}
    BY <1>0, <1>1, <1>4, Zenon DEF OwnersInv
  <2>2. Cardinality({}) = 0
    BY Zenon DEF CountFacts, CountsFew
  <2> QED
    BY <1>4, <2>1, <2>2, CompCount DEF O
<1>5. CASE b \notin k_free[t]
  <2>1. Owned(t, b)
    BY <1>0 DEF NoneLost
  <2>2. \E o : o \in O
    BY <1>1, <1>5, <2>1, Zenon DEF Owned
  <2>3. \E o : O = {o}
    <3>1. PICK o : o \in O
      BY <2>2
    <3>2. O = {o}
      BY ONLY <1>3, <3>1
    <3> QED
      BY ONLY <3>2
  <2>4. \A o : Cardinality({o}) = 1
    BY Zenon DEF CountFacts, CountsFew
  <2> QED
    BY <1>5, <2>3, <2>4, CompCount, Zenon DEF O
<1> QED
  BY <1>4, <1>5, Zenon

LEMMA ProviderEnds == ASSUME CountFacts, ProviderInv PROVE SlotsOwned /\ CompletesOnce
<1>1. SlotsOwned
  <2>1. CP!TypeOK /\ ~k_slabFault
    BY DEF ProviderInv, ProviderTypes
  <2>2. ASSUME k_stage = "up", k_kind # "uring" PROVE CP!InUse \subseteq k_mPendingOps
    <3>1. k_sq = <<>> /\ k_posted \subseteq k_mPendingOps
      BY <2>2 DEF ProviderInv, KeysInv, ReportInv
    <3> QED
      BY <3>1 DEF CP!InUse
  <2> QED
    BY <2>1, <2>2, OneOwner DEF SlotsOwned, CP!SlotsOwned
<1>2. CompletesOnce
  <2>1. \A k \in 1 .. CompMaxOps : k_delivered[k] <= (IF k \in k_accepted THEN 1 ELSE 0)
    BY DEF ProviderInv, ReportInv
  <2>2. ASSUME k_stage = "up", NEW k \in k_accepted, k_delivered[k] = 0
        PROVE  k \in {op.key : op \in CP!InUse} \cup {k_cq[i].op.key : i \in 1 .. Len(k_cq)}
                       \cup UNION {{c.op.key : c \in k_taken[w]} : w \in CompWorkers}
    <3>1. PICK x \in Travelling : x.key = k
      BY <2>2 DEF ProviderInv, ReportInv
    <3>2. CASE x \in k_posted \cup Holds(k_sq)
      BY <3>1, <3>2 DEF CP!InUse, Holds
    <3>3. CASE x \in Answered
      BY <3>1, <3>3 DEF Answered, Holds
    <3>4. CASE x \in InWork
      BY <3>1, <3>4 DEF InWork, With
    <3> QED
      BY <3>1, <3>2, <3>3, <3>4, Zenon DEF Travelling
  <2>3. \A x \in k_mPendingOps : k_delivered[x.key] = 0
    BY DEF ProviderInv, ReportInv, Working
  <2>4. k_stage = "up" => k_mPendingRequests = CP!Cardinality(k_mPendingOps \cup CP!InHand)
    BY CompCount DEF ProviderInv, PendingInv, Working
  <2> QED
    BY <2>1, <2>2, <2>3, <2>4, Zenon DEF CompletesOnce, CP!CompletesOnce
<1> QED
  BY <1>1, <1>2

INSTANCE FiniteSetTheorems

(* What the lemmas above take of the library's facts on finite sets. *)
LEMMA Counting == CountFacts
BY FS_CardinalityType, FS_EmptySet, FS_Singleton, FS_AddElement, FS_RemoveElement, FS_Subset, Zenon
   DEF CountFacts, CountsFew, CountsType, CountsAdd, CountsRemove, CountsPart

(* IOCP, RIO and io_uring give back every buffer slot on every failure path:  *)
(* until Shutdown a slot of a pool is free or has exactly one owner, what the *)
(* kernel works on is in the map (but for io_uring's prepared entries), and   *)
(* the slab is never read after it is freed.                                  *)
THEOREM SlotsAreOwned == CP!Spec => []SlotsOwned
<1>1. CP!Init => ProviderInv
  BY Counting, ProviderInit
<1>2. ProviderInv /\ [CP!Next]_(CP!vars) => ProviderInv'
  BY Counting, ProviderStep
<1>3. ProviderInv => SlotsOwned
  BY Counting, ProviderEnds, SMTT(20)
<1> QED
  BY <1>1, <1>2, <1>3, PTL DEF CP!Spec

(* A request that returned Success is reported at most once, and until        *)
(* Shutdown one not reported is on its way; the counter of pending requests   *)
(* is exact.                                                                  *)
THEOREM RequestsCompleteOnce == CP!Spec => []CompletesOnce
<1>1. CP!Init => ProviderInv
  BY Counting, ProviderInit
<1>2. ProviderInv /\ [CP!Next]_(CP!vars) => ProviderInv'
  BY Counting, ProviderStep
<1>3. ProviderInv => CompletesOnce
  BY Counting, ProviderEnds
<1> QED
  BY <1>1, <1>2, <1>3, PTL DEF CP!Spec
=============================================================================
