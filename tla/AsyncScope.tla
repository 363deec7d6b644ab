----------------------------- MODULE AsyncScope -----------------------------
(***************************************************************************)
(* The task scope of a session (Concurrency/AsyncScope.h): submissions are *)
(* counted in mInFlight from BeginTask to EndTask, Cancel makes later and  *)
(* queued tasks no-ops, WaitForDrain waits for the count to reach zero,    *)
(* Reset makes the scope usable again.                                     *)
(*                                                                         *)
(* A task is one call of Submit; the dispatcher runs what it accepts at    *)
(* some later time.  The owner is the thread that closes the scope; it is  *)
(* the only one to wait, so mDrainMutex is not contended.                  *)
(***************************************************************************)
EXTENDS Naturals, FiniteSets

CONSTANTS Tasks,
          MayThrow   \* TRUE when a submitted function may throw

VARIABLES mCancelled, mInFlight,
          tpc,       \* task -> where it is between Submit and EndTask
          opc,       \* the owner: Cancel, WaitForDrain, Reset
          resets,    \* number of calls of Reset, at most one
          lateRun    \* history: a function ran while the scope was drained

vars == <<mCancelled, mInFlight, tpc, opc, resets, lateRun>>

TypeOK ==
  /\ mCancelled \in BOOLEAN /\ mInFlight \in Nat
  /\ tpc \in [Tasks -> {"idle", "begun", "dispatch", "queued", "running", "end",
                        "notify", "leaked", "done"}]
  /\ opc \in {"open", "cancelled", "lock", "park", "waiting", "drained", "aborted"}
  /\ resets \in 0 .. 1 /\ lateRun \in BOOLEAN

Init ==
  /\ mCancelled = FALSE /\ mInFlight = 0
  /\ tpc = [t \in Tasks |-> "idle"] /\ opc = "open" /\ resets = 0 /\ lateRun = FALSE

Goto(t, pc) == tpc' = [tpc EXCEPT ![t] = pc]

(***************************************************************************)
(* Submit                                                                  *)
(***************************************************************************)
BeginTask(t) ==
  /\ tpc[t] = "idle"
  /\ mInFlight' = mInFlight + 1
  /\ Goto(t, "begun")
  /\ UNCHANGED <<mCancelled, opc, resets, lateRun>>

(* The fast path: a cancelled scope dispatches nothing. *)
Submit_Check(t) ==
  /\ tpc[t] = "begun"
  /\ Goto(t, IF mCancelled THEN "end" ELSE "dispatch")
  /\ UNCHANGED <<mCancelled, mInFlight, opc, resets, lateRun>>

(* Dispatch accepts the wrapper or refuses it. *)
Submit_Dispatch(t) ==
  /\ tpc[t] = "dispatch"
  /\ \/ Goto(t, "queued") \/ Goto(t, "end")
  /\ UNCHANGED <<mCancelled, mInFlight, opc, resets, lateRun>>

(***************************************************************************)
(* The wrapper on a worker thread                                          *)
(***************************************************************************)
Wrapper_Check(t) ==
  /\ tpc[t] = "queued"
  /\ Goto(t, IF mCancelled THEN "end" ELSE "running")
  /\ lateRun' = (lateRun \/ (~mCancelled /\ opc = "drained"))
  /\ UNCHANGED <<mCancelled, mInFlight, opc, resets>>

(* A function that throws leaves the wrapper before its EndTask. *)
Wrapper_Run(t) ==
  /\ tpc[t] = "running"
  /\ Goto(t, "end") \/ (MayThrow /\ Goto(t, "leaked"))
  /\ lateRun' = (lateRun \/ opc = "drained")
  /\ UNCHANGED <<mCancelled, mInFlight, opc, resets>>

(* fetch_sub, then notify_all when the count was one; no mutex is held. *)
EndTask(t) ==
  /\ tpc[t] = "end"
  /\ mInFlight' = mInFlight - 1
  /\ Goto(t, IF mInFlight = 1 THEN "notify" ELSE "done")
  /\ UNCHANGED <<mCancelled, opc, resets, lateRun>>

EndTask_Notify(t) ==
  /\ tpc[t] = "notify"
  /\ Goto(t, "done")
  /\ opc' = IF opc = "waiting" THEN "lock" ELSE opc
  /\ UNCHANGED <<mCancelled, mInFlight, resets, lateRun>>

TaskStep(t) ==
  \/ Submit_Check(t) \/ Submit_Dispatch(t) \/ Wrapper_Check(t)
  \/ Wrapper_Run(t) \/ EndTask(t) \/ EndTask_Notify(t)

(***************************************************************************)
(* The owner                                                               *)
(***************************************************************************)
(* Faulty variant: the flag is not set. *)
Cancel_NoFlag ==
  /\ opc = "open"
  /\ opc' = "cancelled"
  /\ UNCHANGED <<mCancelled, mInFlight, tpc, resets, lateRun>>

Cancel ==
  /\ opc = "open"
  /\ mCancelled' = TRUE /\ opc' = "cancelled"
  /\ UNCHANGED <<mInFlight, tpc, resets, lateRun>>

(* WaitForDrain(-1): a wait for mInFlight = 0 on mDrainCv. *)
WaitForDrain ==
  /\ \/ opc = "cancelled" /\ opc' = "lock"
     \/ opc = "lock" /\ opc' = IF mInFlight = 0 THEN "drained" ELSE "park"
     \/ opc = "park" /\ opc' = "waiting"
  /\ UNCHANGED <<mCancelled, mInFlight, tpc, resets, lateRun>>

(* The condition variable may wake the owner for no reason. *)
Spurious ==
  /\ opc = "waiting" /\ opc' = "lock"
  /\ UNCHANGED <<mCancelled, mInFlight, tpc, resets, lateRun>>

Reset ==
  /\ opc = "drained" /\ resets = 0
  /\ resets' = 1
  /\ \/ /\ mInFlight = 0
        /\ mCancelled' = FALSE /\ opc' = "open"
     \/ /\ mInFlight # 0
        /\ opc' = "aborted" /\ UNCHANGED mCancelled
  /\ UNCHANGED <<mInFlight, tpc, lateRun>>

Next ==
  \/ \E t \in Tasks : BeginTask(t) \/ TaskStep(t)
  \/ Cancel \/ WaitForDrain \/ Spurious \/ Reset

Spec == Init /\ [][Next]_vars

(***************************************************************************)
(* Properties                                                              *)
(***************************************************************************)
InFlight == {t \in Tasks : tpc[t] \in {"begun", "dispatch", "queued", "running", "end", "leaked"}}

(* The count is exactly the tasks between BeginTask and EndTask, through     *)
(* cancelled, refused and skipped submissions.                               *)
CountExact == mInFlight = Cardinality(InFlight)

(* Once WaitForDrain has returned on a cancelled scope, no submitted         *)
(* function runs until Reset, also for submissions that raced with Cancel.   *)
NothingRunsAfterDrain ==
  ~lateRun /\ (opc = "drained" => \A t \in Tasks : tpc[t] # "running")
=============================================================================
