--------------------------- MODULE MCDBTaskQueue ---------------------------
(***************************************************************************)
(* DBTaskQueue on small instances.  Two tasks share session 0, so order    *)
(* within a session and the sharing of a worker's mutex both happen; the   *)
(* third belongs to another worker.                                        *)
(***************************************************************************)
EXTENDS DBTaskQueue

CONSTANTS t1, t2, t3

MCSessionOf == [t \in Tasks |-> IF t = t3 THEN 1 ELSE 0]

Sessions == {SessionOf[t] : t \in Tasks}
OfSession(s, seq) == SelectSeq(seq, LAMBDA t : SessionOf[t] = s)

(* What all workers (one or two here) together have of a session, so that a  *)
(* task on a wrong worker does not go unnoticed.                             *)
PerSession(f) ==
  LET all == IF NumWorkers = 1 THEN f[0] ELSE f[0] \o f[1]
  IN  [s \in Sessions |-> OfSession(s, all)]

Fifo == INSTANCE PerKeyFifo WITH
  Items <- Tasks, Keys <- Sessions, KeyOf <- SessionOf,
  submitted <- PerSession(pushed), running <- PerSession(current),
  completed <- PerSession(finished)
=============================================================================
