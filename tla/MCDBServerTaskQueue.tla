------------------------ MODULE MCDBServerTaskQueue ------------------------
(***************************************************************************)
(* DBServerTaskQueue on small instances: up to four tasks of one session   *)
(* (one in flight, others behind it), or of two sessions.                  *)
(***************************************************************************)
EXTENDS DBServerTaskQueue, TLC

CONSTANTS t1, t2, t3, t4

OneSession == {[t \in Tasks |-> 0]}
OneOrTwoSessions == OneSession \cup {[t \in Tasks |-> IF t = t3 THEN 1 ELSE 0]}

AnyResult == {"sent", "invalid", "unsent"}
=============================================================================
