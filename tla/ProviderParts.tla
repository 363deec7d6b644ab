---------------------------- MODULE ProviderParts ----------------------------
(***************************************************************************)
(* The completion providers as a part of the network side, their names     *)
(* kept apart by the prefix k_.                                            *)
(***************************************************************************)
EXTENDS Naturals

CONSTANTS CompSockets, CompWorkers, CompKinds, CompSendSlots, CompRecvSlots, CompSqEntries, CompMaxOps

(* The three providers there are; a socket without a receive slot has the    *)
(* value "none" in mSocketRecvSlot, which is no slot.                        *)
ASSUME CompAssumption ==
  /\ CompKinds \subseteq {"iocp", "rio", "uring"} /\ CompMaxOps \in Nat
  /\ "none" \notin CompSendSlots \cup CompRecvSlots

VARIABLES
  k_kind, k_mInitialized, k_stage, k_mPendingOps, k_mNextOpKey, k_mPendingRequests, k_free,
  k_mSocketRecvSlot, k_sq, k_posted, k_cq, k_cpc, k_held, k_wpc, k_taken, k_accepted,
  k_delivered, k_slabFault

CP == INSTANCE CompletionProvider WITH
  Sockets <- CompSockets, Workers <- CompWorkers, Kinds <- CompKinds, SendSlots <- CompSendSlots,
  RecvSlots <- CompRecvSlots, SqEntries <- CompSqEntries, MaxOps <- CompMaxOps, kind <- k_kind,
  mInitialized <- k_mInitialized, stage <- k_stage, mPendingOps <- k_mPendingOps,
  mNextOpKey <- k_mNextOpKey, mPendingRequests <- k_mPendingRequests, free <- k_free,
  mSocketRecvSlot <- k_mSocketRecvSlot, sq <- k_sq, posted <- k_posted, cq <- k_cq,
  cpc <- k_cpc, held <- k_held, wpc <- k_wpc, taken <- k_taken, accepted <- k_accepted,
  delivered <- k_delivered, slabFault <- k_slabFault

kVars == <<k_kind, k_mInitialized, k_stage, k_mPendingOps, k_mNextOpKey, k_mPendingRequests,
           k_free, k_mSocketRecvSlot, k_sq, k_posted, k_cq, k_cpc, k_held, k_wpc, k_taken,
           k_accepted, k_delivered, k_slabFault>>

(***************************************************************************)
(* Properties                                                              *)
(***************************************************************************)
(* Every buffer slot is free or has exactly one owner on every failure path, *)
(* and a received message is copied out of RIO's slab only while the slab is *)
(* allocated, although a worker may have checked the flag before Shutdown.   *)
SlotsOwned == CP!TypeOK /\ CP!SlotsOwned

(* A request that returned Success is reported at most once, and until then  *)
(* it is with the kernel, in the completion queue or in a worker's hands.    *)
CompletesOnce == CP!CompletesOnce
===============================================================================
