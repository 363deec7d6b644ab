--------------------------- MODULE ExecutionQueue ---------------------------
(***************************************************************************)
(* The bounded queue under every dispatcher and channel                    *)
(* (Concurrency/ExecutionQueue.h; Channel.h only renames its operations).  *)
(*                                                                         *)
(* A producer makes one call of Push, for the item that names it; a        *)
(* consumer calls Pop again after a timeout and stops when Pop finds the   *)
(* queue shut down and empty (the dispatcher's own rule for stopping is in *)
(* KeyedDispatcher).  mMutex is held by a producer in "push" or "park" and *)
(* by a consumer in "park"; every other critical section is one step.  A   *)
(* wait with a predicate is "lock" (take the mutex, evaluate), "park"      *)
(* (evaluated to false, mutex still held), "waiting" (blocked, released).  *)
(***************************************************************************)
EXTENDS Naturals, Sequences, FiniteSets

CONSTANTS Producers, Consumers,
          OptionChoices,   \* the options a queue may be created with
          TimeoutChoices   \* the sets of threads that may give a timeout

Policies == {"RejectNewest", "Block"}

ASSUME OptionsAssumption ==
  OptionChoices \subseteq [mBackpressure : Policies, mCapacity : Nat]
ASSUME ConsumersAssumption == Consumers # {}
ASSUME TimeoutsAssumption == TimeoutChoices \subseteq SUBSET (Producers \cup Consumers)

VARIABLES mQueue, mSize, mShutdown,
          mOptions,     \* policy and capacity (0 for unlimited), fixed
          timeouts,     \* the threads whose calls give a timeout, fixed
          ppc, cpc,     \* producers, consumers
          spc,          \* the caller of Shutdown
          put, taken    \* history: items in the order of push, of pop

config == <<mOptions, timeouts>>
vars == <<mQueue, mSize, mShutdown, mOptions, timeouts, ppc, cpc, spc, put, taken>>
items == <<mQueue, mSize, put, taken>>

ProducerPoints == {"idle", "try", "lock", "last", "park", "waiting", "push", "notify",
                   "accepted", "refused"}
ConsumerPoints == {"pop", "check", "lock", "last", "park", "waiting", "notify", "drain", "done"}

TypeOK ==
  /\ mQueue \in Seq(Producers) /\ mSize \in Nat /\ mShutdown \in BOOLEAN
  /\ mOptions \in [mBackpressure : Policies, mCapacity : Nat]
  /\ timeouts \subseteq Producers \cup Consumers
  /\ ppc \in [Producers -> ProducerPoints] /\ cpc \in [Consumers -> ConsumerPoints]
  /\ spc \in {"up", "notEmpty", "notFull", "down"}
  /\ put \in Seq(Producers) /\ taken \in Seq(Producers)

Init ==
  /\ mQueue = <<>> /\ mSize = 0 /\ mShutdown = FALSE
  /\ mOptions \in OptionChoices /\ timeouts \in TimeoutChoices
  /\ ppc = [p \in Producers |-> "idle"] /\ cpc = [c \in Consumers |-> "pop"]
  /\ spc = "up" /\ put = <<>> /\ taken = <<>>

LockFree ==
  /\ \A p \in Producers : ppc[p] \notin {"push", "park"}
  /\ \A c \in Consumers : cpc[c] # "park"

Full == mOptions.mCapacity > 0 /\ Len(mQueue) >= mOptions.mCapacity

(* notify_one and notify_all on a set of threads: pc is their counter. *)
NotifyOne(pc) ==
  {[pc EXCEPT ![x] = "lock"] : x \in {y \in DOMAIN pc : pc[y] = "waiting"}}
    \cup {p \in {pc} : \A x \in DOMAIN pc : pc[x] # "waiting"}
NotifyAll(pc) == [x \in DOMAIN pc |-> IF pc[x] = "waiting" THEN "lock" ELSE pc[x]]

(***************************************************************************)
(* Push                                                                    *)
(***************************************************************************)
(* RejectNewest goes through TryPush and its unlocked look at the flag. *)
Push(p) ==
  /\ ppc[p] = "idle"
  /\ ppc' = [ppc EXCEPT ![p] = IF mOptions.mBackpressure = "Block" THEN "lock"
                               ELSE IF mShutdown THEN "refused" ELSE "try"]
  /\ UNCHANGED <<config, items, mShutdown, cpc, spc>>

TryPushImpl(p) ==
  /\ ppc[p] = "try" /\ LockFree
  /\ ppc' = [ppc EXCEPT ![p] = IF mShutdown \/ Full THEN "refused" ELSE "push"]
  /\ UNCHANGED <<config, items, mShutdown, cpc, spc>>

(* wait(lock, canPush); "last" is the evaluation after the deadline. *)
PushBlocking(p) ==
  /\ ppc[p] \in {"lock", "last"} /\ LockFree
  /\ ppc' = [ppc EXCEPT ![p] = IF mShutdown THEN "refused"
                               ELSE IF ~Full THEN "push"
                               ELSE IF @ = "last" THEN "refused" ELSE "park"]
  /\ UNCHANGED <<config, items, mShutdown, cpc, spc>>

PushBlocking_Wait(p) ==
  /\ \/ ppc[p] = "park" /\ ppc' = [ppc EXCEPT ![p] = "waiting"]
     \/ ppc[p] = "waiting" /\ p \in timeouts /\ ppc' = [ppc EXCEPT ![p] = "last"]
  /\ UNCHANGED <<config, items, mShutdown, cpc, spc>>

(* push, mSize, unlock *)
Push_Store(p) ==
  /\ ppc[p] = "push"
  /\ mQueue' = Append(mQueue, p) /\ put' = Append(put, p) /\ mSize' = mSize + 1
  /\ ppc' = [ppc EXCEPT ![p] = "notify"]
  /\ UNCHANGED <<config, mShutdown, cpc, spc, taken>>

(* Faulty variant: no notify for the new item. *)
Push_NoNotify(p) ==
  /\ ppc[p] = "notify"
  /\ ppc' = [ppc EXCEPT ![p] = "accepted"]
  /\ UNCHANGED <<config, items, mShutdown, cpc, spc>>

Push_Notify(p) ==
  /\ ppc[p] = "notify"
  /\ ppc' = [ppc EXCEPT ![p] = "accepted"]
  /\ cpc' \in NotifyOne(cpc)
  /\ UNCHANGED <<config, items, mShutdown, spc>>

(***************************************************************************)
(* Pop                                                                     *)
(***************************************************************************)
Take ==
  /\ mQueue' = Tail(mQueue) /\ taken' = Append(taken, Head(mQueue)) /\ mSize' = mSize - 1
  /\ put' = put

(* TryPop notifies while it still holds the mutex. *)
TryPop(c) ==
  /\ cpc[c] = "pop" /\ LockFree
  /\ \/ mQueue # <<>> /\ Take /\ cpc' = cpc /\ ppc' \in NotifyOne(ppc)
     \/ mQueue = <<>> /\ cpc' = [cpc EXCEPT ![c] = "check"] /\ UNCHANGED <<items, ppc>>
  /\ UNCHANGED <<config, mShutdown, spc>>

(* Faulty variant: a Pop on a shut-down queue gives up and is tried again. *)
PopWait_Retry(c) ==
  /\ cpc[c] = "check"
  /\ cpc' = [cpc EXCEPT ![c] = IF mShutdown THEN "pop" ELSE "lock"]
  /\ UNCHANGED <<config, items, mShutdown, ppc, spc>>

PopWait_Check(c) ==
  /\ cpc[c] = "check"
  /\ cpc' = [cpc EXCEPT ![c] = IF mShutdown THEN "drain" ELSE "lock"]
  /\ UNCHANGED <<config, items, mShutdown, ppc, spc>>

(* wait(lock, hasItem); "last" is the evaluation after the deadline. *)
PopWait(c) ==
  /\ cpc[c] \in {"lock", "last"} /\ LockFree
  /\ \/ mShutdown /\ cpc' = [cpc EXCEPT ![c] = "drain"] /\ UNCHANGED items
     \/ ~mShutdown /\ mQueue # <<>> /\ Take /\ cpc' = [cpc EXCEPT ![c] = "notify"]
     \/ /\ ~mShutdown /\ mQueue = <<>> /\ UNCHANGED items
        /\ cpc' = [cpc EXCEPT ![c] = IF @ = "last" THEN "pop" ELSE "park"]
  /\ UNCHANGED <<config, mShutdown, ppc, spc>>

PopWait_Wait(c) ==
  /\ \/ cpc[c] = "park" /\ cpc' = [cpc EXCEPT ![c] = "waiting"]
     \/ cpc[c] = "waiting" /\ c \in timeouts /\ cpc' = [cpc EXCEPT ![c] = "last"]
  /\ UNCHANGED <<config, items, mShutdown, ppc, spc>>

PopWait_Notify(c) ==
  /\ cpc[c] = "notify"
  /\ cpc' = [cpc EXCEPT ![c] = "pop"]
  /\ ppc' \in NotifyOne(ppc)
  /\ UNCHANGED <<config, items, mShutdown, spc>>

(* Faulty variant: after Shutdown nothing is popped any more. *)
PopWait_NoDrain(c) ==
  /\ cpc[c] = "drain" /\ LockFree
  /\ cpc' = [cpc EXCEPT ![c] = "done"]
  /\ UNCHANGED <<config, items, mShutdown, ppc, spc>>

(* After Shutdown: one leftover item if there is one, without a notify. *)
PopWait_Drain(c) ==
  /\ cpc[c] = "drain" /\ LockFree
  /\ \/ mQueue # <<>> /\ Take /\ cpc' = [cpc EXCEPT ![c] = "pop"]
     \/ mQueue = <<>> /\ cpc' = [cpc EXCEPT ![c] = "done"] /\ UNCHANGED items
  /\ UNCHANGED <<config, mShutdown, ppc, spc>>

(* Either condition variable may wake a waiter for no reason. *)
Spurious ==
  /\ \/ ppc' \in NotifyOne(ppc) \ {ppc} /\ cpc' = cpc
     \/ cpc' \in NotifyOne(cpc) \ {cpc} /\ ppc' = ppc
  /\ UNCHANGED <<config, items, mShutdown, spc>>

(***************************************************************************)
(* Shutdown: the flag and the two notifications, all without mMutex.       *)
(***************************************************************************)
Shutdown ==
  /\ spc = "up"
  /\ mShutdown' = TRUE /\ spc' = "notEmpty"
  /\ UNCHANGED <<config, items, ppc, cpc>>

Shutdown_Notify ==
  /\ \/ spc = "notEmpty" /\ cpc' = NotifyAll(cpc) /\ spc' = "notFull" /\ ppc' = ppc
     \/ spc = "notFull" /\ ppc' = NotifyAll(ppc) /\ spc' = "down" /\ cpc' = cpc
  /\ UNCHANGED <<config, items, mShutdown>>

ProducerStep(p) ==
  \/ Push(p) \/ TryPushImpl(p) \/ PushBlocking(p) \/ PushBlocking_Wait(p)
  \/ Push_Store(p) \/ Push_Notify(p)

ConsumerStep(c) ==
  \/ TryPop(c) \/ PopWait_Check(c) \/ PopWait(c) \/ PopWait_Wait(c)
  \/ PopWait_Notify(c) \/ PopWait_Drain(c)

Next ==
  \/ \E p \in Producers : ProducerStep(p)
  \/ \E c \in Consumers : ConsumerStep(c)
  \/ Spurious \/ Shutdown \/ Shutdown_Notify

Spec == Init /\ [][Next]_vars

(* Threads keep running once they have started, timed waits end, and a       *)
(* mutex that is free again and again is granted.  Nothing is assumed of     *)
(* spurious wake-ups, nor that Shutdown is called.                           *)
Fairness ==
  /\ \A p \in Producers : WF_vars(ProducerStep(p) /\ ppc[p] # "idle")
  /\ \A c \in Consumers : SF_vars(ConsumerStep(c))
  /\ WF_vars(Shutdown_Notify)

FairSpec == Spec /\ Fairness

(***************************************************************************)
(* Properties                                                              *)
(***************************************************************************)
(* Items leave in the order they came, none is lost and none is delivered   *)
(* twice, through all three places that pop.                                *)
FifoExactlyOnce == taken \o mQueue = put

(* Backpressure: no interleaving of waiting and rejected pushes takes the   *)
(* queue past its capacity, and Size() is exact.                            *)
WithinCapacity ==
  mSize = Len(mQueue) /\ (mOptions.mCapacity > 0 => mSize <= mOptions.mCapacity)

(* "Work that was already in the queue before Shutdown() is not thrown      *)
(* away": when every consumer has given up, no accepted item is left, even  *)
(* by a push that had checked the flag just before it was set.              *)
NothingLeftBehind == (\A c \in Consumers : cpc[c] = "done") => mQueue = <<>>

(* Every accepted item is delivered: no notify for it is lost.  A producer   *)
(* has one item, so the queue empties when all of them are.                  *)
AcceptedIsDelivered == mQueue # <<>> ~> mQueue = <<>>

(* A consumer that pops with a timeout, as the dispatcher's workers do, does *)
(* not outlive Shutdown, although Shutdown notifies without the mutex.       *)
TimedConsumersStop ==
  mShutdown ~> \A c \in Consumers \cap timeouts : cpc[c] = "done"
=============================================================================
