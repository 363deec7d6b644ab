----------------------------- MODULE MCSession -----------------------------
(***************************************************************************)
(* A slot that serves two connections one after the other, with three      *)
(* messages and room for two: enough for one message to be in flight, one  *)
(* to be late for Close and one to be sent on the next connection.         *)
(***************************************************************************)
EXTENDS Session

CONSTANTS s1, s2, s3, w1, w2
=============================================================================
