----------------------------- MODULE TimerQueue -----------------------------
(***************************************************************************)
(* The single-threaded timer queue (Concurrency/TimerQueue.h/.cpp).        *)
(*                                                                         *)
(* A handle names one call of ScheduleOnce or ScheduleRepeat; the thread   *)
(* that made it may later call Cancel.  The heap is the set of its         *)
(* entries: only which entry is earliest matters.  mMutex is held by the   *)
(* worker in "arm1" and "arm2" (the wait's condition was false, the thread *)
(* is not blocked yet); every other critical section is one step.  A       *)
(* notify is a step of its own wherever the code makes it without mMutex.  *)
(***************************************************************************)
EXTENDS Naturals, FiniteSets

CONSTANTS Handles,     \* calls of Schedule
          Delays,      \* delays and intervals, in ticks of steady_clock
          MaxTime      \* the clock stops here, and no timer is set past it

VARIABLES now,                 \* steady_clock
          mRunning, mHeap, mCancelledHandles,
          wpc,                 \* WorkerLoop
          entry,               \* the entry whose callback runs, or none
          fireTime,            \* the deadline wait_until was called with
          cpc,                 \* handle -> where its caller is
          stamped,             \* handle -> the entry built by Schedule
          spc,                 \* the caller of Shutdown
          fired, firedLate     \* history: handles fired; fired after Cancel

vars == <<now, mRunning, mHeap, mCancelledHandles, wpc, entry, fireTime, cpc, stamped,
          spc, fired, firedLate>>

Entry == [handle : Handles, nextFire : 0 .. MaxTime, intervalMs : {0} \cup Delays]
NoEntry == [handle |-> 0]

TypeOK ==
  /\ now \in 0 .. MaxTime /\ mRunning \in BOOLEAN
  /\ mHeap \subseteq Entry /\ mCancelledHandles \subseteq Handles
  /\ wpc \in {"top", "arm1", "wait1", "arm2", "wait2", "check2", "run", "push", "exit"}
  /\ entry \in Entry \cup {NoEntry} /\ fireTime \in 0 .. MaxTime
  /\ cpc \in [Handles -> {"idle", "push", "notify", "live", "cnotify", "cancelled"}]
  /\ stamped \in [Handles -> Entry \cup {NoEntry}]
  /\ spc \in {"up", "notify", "join", "down"}
  /\ fired \subseteq Handles /\ firedLate \subseteq Handles

(* After Initialize has started the worker. *)
Init ==
  /\ now = 0 /\ mRunning = TRUE /\ mHeap = {} /\ mCancelledHandles = {}
  /\ wpc = "top" /\ entry = NoEntry /\ fireTime = 0
  /\ cpc = [h \in Handles |-> "idle"] /\ stamped = [h \in Handles |-> NoEntry]
  /\ spc = "up" /\ fired = {} /\ firedLate = {}

LockFree == wpc \notin {"arm1", "arm2"}
Due(e) == e.nextFire <= now
Front == {e \in mHeap : \A f \in mHeap : e.nextFire <= f.nextFire}

Woken(pc) == CASE pc = "wait1" -> "top" [] pc = "wait2" -> "check2" [] OTHER -> pc

Tick ==
  /\ now < MaxTime /\ now' = now + 1
  /\ UNCHANGED <<mRunning, mHeap, mCancelledHandles, wpc, entry, fireTime, cpc, stamped,
                 spc, fired, firedLate>>

(***************************************************************************)
(* Callers                                                                 *)
(***************************************************************************)
(* A one-shot entry has interval 0, a repeating one its delay. *)
Schedule(h) ==
  /\ cpc[h] = "idle"
  /\ cpc' = [cpc EXCEPT ![h] = "push"]
  /\ \E d \in {x \in Delays : now + x <= MaxTime} : \E i \in {0, d} :
       stamped' = [stamped EXCEPT ![h] = [handle |-> h, nextFire |-> now + d, intervalMs |-> i]]
  /\ UNCHANGED <<now, mRunning, mHeap, mCancelledHandles, wpc, entry, fireTime, spc,
                 fired, firedLate>>

PushEntry(h) ==
  /\ cpc[h] = "push" /\ LockFree
  /\ cpc' = [cpc EXCEPT ![h] = "notify"]
  /\ mHeap' = mHeap \cup {stamped[h]}
  /\ stamped' = [stamped EXCEPT ![h] = NoEntry]
  /\ UNCHANGED <<now, mRunning, mCancelledHandles, wpc, entry, fireTime, spc, fired, firedLate>>

Cancel(h) ==
  /\ cpc[h] = "live" /\ LockFree
  /\ cpc' = [cpc EXCEPT ![h] = "cnotify"]
  /\ mCancelledHandles' = mCancelledHandles \cup {h}
  /\ UNCHANGED <<now, mRunning, mHeap, wpc, entry, fireTime, stamped, spc, fired, firedLate>>

(* Faulty variant: a new entry does not wake the worker. *)
NotifyOne_OnCancelOnly(h) ==
  /\ \/ cpc[h] = "notify" /\ cpc' = [cpc EXCEPT ![h] = "live"] /\ wpc' = wpc
     \/ cpc[h] = "cnotify" /\ cpc' = [cpc EXCEPT ![h] = "cancelled"] /\ wpc' = Woken(wpc)
  /\ UNCHANGED <<now, mRunning, mHeap, mCancelledHandles, entry, fireTime, stamped, spc,
                 fired, firedLate>>

(* mCV.notify_one of PushEntry and of Cancel, after the unlock. *)
NotifyOne(h) ==
  /\ \/ cpc[h] = "notify" /\ cpc' = [cpc EXCEPT ![h] = "live"]
     \/ cpc[h] = "cnotify" /\ cpc' = [cpc EXCEPT ![h] = "cancelled"]
  /\ wpc' = Woken(wpc)
  /\ UNCHANGED <<now, mRunning, mHeap, mCancelledHandles, entry, fireTime, stamped, spc,
                 fired, firedLate>>

(* The flag, the notify, the join and the clearing of the heap. *)
Shutdown ==
  /\ \/ /\ spc = "up" /\ spc' = "notify" /\ mRunning' = FALSE
        /\ UNCHANGED <<wpc, mHeap, mCancelledHandles>>
     \/ /\ spc = "notify" /\ spc' = "join" /\ wpc' = Woken(wpc)
        /\ UNCHANGED <<mRunning, mHeap, mCancelledHandles>>
     \/ /\ spc = "join" /\ wpc = "exit" /\ spc' = "down"
        /\ mHeap' = {} /\ mCancelledHandles' = {} /\ UNCHANGED <<mRunning, wpc>>
  /\ UNCHANGED <<now, entry, fireTime, cpc, stamped, fired, firedLate>>

(***************************************************************************)
(* WorkerLoop                                                              *)
(***************************************************************************)
(* The first wait: for an entry or the end. *)
AwaitEntry ==
  /\ wpc = "top"
  /\ \/ ~mRunning /\ wpc' = "exit"
     \/ mRunning /\ mHeap = {} /\ wpc' = "arm1"
  /\ UNCHANGED <<now, mRunning, mHeap, mCancelledHandles, entry, fireTime, cpc, stamped,
                 spc, fired, firedLate>>

(* The earliest entry lies ahead: wait_until its time. *)
AwaitFireTime ==
  /\ wpc = "top" /\ mRunning
  /\ \E e \in Front : ~Due(e) /\ fireTime' = e.nextFire
  /\ wpc' = "arm2"
  /\ UNCHANGED <<now, mRunning, mHeap, mCancelledHandles, entry, cpc, stamped, spc,
                 fired, firedLate>>

Park ==
  /\ \/ wpc = "arm1" /\ wpc' = "wait1"
     \/ wpc = "arm2" /\ wpc' = "wait2"
  /\ UNCHANGED <<now, mRunning, mHeap, mCancelledHandles, entry, fireTime, cpc, stamped,
                 spc, fired, firedLate>>

(* wait_until: a wake-up evaluates the condition and may sleep again, until  *)
(* the deadline the wait was called with.                                    *)
WaitUntil ==
  /\ \/ /\ wpc = "wait2" /\ now >= fireTime
        /\ wpc' = "top" /\ fireTime' = 0
     \/ /\ wpc = "check2"
        /\ \/ /\ ~mRunning \/ mHeap = {} \/ \E e \in Front : Due(e)
              /\ wpc' = "top" /\ fireTime' = 0
           \/ /\ mRunning /\ mHeap # {} /\ \A e \in Front : ~Due(e)
              /\ wpc' = "arm2" /\ UNCHANGED fireTime
  /\ UNCHANGED <<now, mRunning, mHeap, mCancelledHandles, entry, cpc, stamped, spc,
                 fired, firedLate>>

Spurious ==
  /\ wpc \in {"wait1", "wait2"} /\ wpc' = Woken(wpc)
  /\ UNCHANGED <<now, mRunning, mHeap, mCancelledHandles, entry, fireTime, cpc, stamped,
                 spc, fired, firedLate>>

(* Faulty variant: the mark of a cancelled repeating timer is erased, but    *)
(* only a one-shot timer is discarded for it.                                *)
PopTop_OneShotOnly ==
  /\ wpc = "top" /\ mRunning
  /\ \E e \in Front :
       /\ Due(e)
       /\ mHeap' = mHeap \ {e}
       /\ mCancelledHandles' = mCancelledHandles \ {e.handle}
       /\ \/ /\ e.handle \in mCancelledHandles /\ e.intervalMs = 0
             /\ UNCHANGED <<wpc, entry, fired, firedLate>>
          \/ /\ e.handle \notin mCancelledHandles \/ e.intervalMs > 0
             /\ wpc' = "run" /\ entry' = e /\ fired' = fired \cup {e.handle}
             /\ firedLate' = firedLate \cup ({e.handle} \cap {h \in Handles : cpc[h] \in {"cnotify", "cancelled"}})
  /\ UNCHANGED <<now, mRunning, fireTime, cpc, stamped, spc>>

(* A due entry is taken off the heap and its mark erased; a marked one is    *)
(* dropped, another is run outside the lock.                                 *)
PopTop ==
  /\ wpc = "top" /\ mRunning
  /\ \E e \in Front :
       /\ Due(e)
       /\ mHeap' = mHeap \ {e}
       /\ mCancelledHandles' = mCancelledHandles \ {e.handle}
       /\ \/ e.handle \in mCancelledHandles /\ UNCHANGED <<wpc, entry, fired, firedLate>>
          \/ /\ e.handle \notin mCancelledHandles
             /\ wpc' = "run" /\ entry' = e /\ fired' = fired \cup {e.handle}
             /\ firedLate' = firedLate \cup ({e.handle} \cap {h \in Handles : cpc[h] \in {"cnotify", "cancelled"}})
  /\ UNCHANGED <<now, mRunning, fireTime, cpc, stamped, spc>>

(* The callback; when it asks for it, a repeating entry gets its next time.  *)
(* Past MaxTime it no longer asks.                                           *)
RunCallback ==
  /\ wpc = "run"
  /\ \/ wpc' = "top" /\ entry' = NoEntry
     \/ /\ entry.intervalMs > 0 /\ now + entry.intervalMs <= MaxTime
        /\ wpc' = "push" /\ entry' = [entry EXCEPT !.nextFire = now + entry.intervalMs]
  /\ UNCHANGED <<now, mRunning, mHeap, mCancelledHandles, fireTime, cpc, stamped, spc,
                 fired, firedLate>>

(* PushEntry on the worker itself; its notify finds nobody waiting. *)
Reschedule ==
  /\ wpc = "push"
  /\ mHeap' = mHeap \cup {entry} /\ entry' = NoEntry /\ wpc' = "top"
  /\ UNCHANGED <<now, mRunning, mCancelledHandles, fireTime, cpc, stamped, spc, fired, firedLate>>

WorkerStep ==
  \/ AwaitEntry \/ AwaitFireTime \/ Park \/ WaitUntil \/ PopTop \/ RunCallback \/ Reschedule

CallerStep(h) == PushEntry(h) \/ NotifyOne(h)

Next ==
  \/ Tick \/ WorkerStep \/ Spurious \/ Shutdown
  \/ \E h \in Handles : Schedule(h) \/ CallerStep(h) \/ Cancel(h)

Spec == Init /\ [][Next]_vars

(* Time passes, the worker runs, and a call once begun goes on. *)
Fairness ==
  /\ WF_vars(Tick) /\ WF_vars(WorkerStep)
  /\ \A h \in Handles : WF_vars(CallerStep(h))

FairSpec == Spec /\ Fairness

(***************************************************************************)
(* Properties                                                              *)
(***************************************************************************)
(* A timer cancelled before its entry was taken is never fired again, one    *)
(* that is rescheduled while it is being cancelled included: the mark stays  *)
(* until exactly the entry it is for comes up.                               *)
CancelStops == firedLate = {}

(* Every scheduled timer fires unless it is cancelled or the queue is shut   *)
(* down: no order of insertions, notifies and waits leaves it in the heap.   *)
TimerFires ==
  LET waiting == {h \in Handles : cpc[h] = "live"} \ fired
  IN  waiting # {} ~> (waiting = {} \/ ~mRunning)

(* What the comment in WorkerLoop says of a sleeping worker: an insertion    *)
(* wakes it up and makes it look again, so that with no notify outstanding   *)
(* it never sleeps past the earliest entry.                                  *)
NeverOversleeps ==
  (wpc = "wait2" /\ \A h \in Handles : cpc[h] # "notify")
    => \A e \in mHeap : e.nextFire >= fireTime
=============================================================================
