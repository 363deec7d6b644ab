----------------------------- MODULE TimerParts -----------------------------
(***************************************************************************)
(* The timer queue as one of the services of the server, its names kept    *)
(* apart by the prefix m_.                                                 *)
(***************************************************************************)
EXTENDS Naturals

CONSTANTS TimerHandles, TimerDelays, TimerMaxTime

(* steady_clock counts ticks, and a delay is a number of them. *)
ASSUME TimerAssumption == TimerMaxTime \in Nat /\ TimerDelays \subseteq Nat

VARIABLES
  m_now, m_mRunning, m_mHeap, m_mCancelledHandles, m_wpc, m_entry, m_fireTime, m_cpc, m_stamped,
  m_spc, m_fired, m_firedLate

TQ == INSTANCE TimerQueue WITH
  Handles <- TimerHandles, Delays <- TimerDelays, MaxTime <- TimerMaxTime, now <- m_now,
  mRunning <- m_mRunning, mHeap <- m_mHeap, mCancelledHandles <- m_mCancelledHandles,
  wpc <- m_wpc, entry <- m_entry, fireTime <- m_fireTime, cpc <- m_cpc, stamped <- m_stamped,
  spc <- m_spc, fired <- m_fired, firedLate <- m_firedLate

mVars == <<m_now, m_mRunning, m_mHeap, m_mCancelledHandles, m_wpc, m_entry, m_fireTime, m_cpc,
           m_stamped, m_spc, m_fired, m_firedLate>>

(* A timer cancelled before its entry was taken is never fired again, one    *)
(* that is being rescheduled while it is cancelled included.                 *)
CancelStops == TQ!TypeOK /\ TQ!CancelStops
=============================================================================
