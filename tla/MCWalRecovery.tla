--------------------------- MODULE MCWalRecovery ---------------------------
(***************************************************************************)
(* WalRecovery on small instances.                                         *)
(***************************************************************************)
EXTENDS WalRecovery, TLC

(* A crash may come at any point. *)
Anywhere == Phases

TaskSymmetry == Permutations(Tasks)
=============================================================================
