-------------------------- MODULE MCHttpExecution --------------------------
(* Instances of HttpExecution for TLC: one exchange. *)
EXTENDS HttpExecution

CONSTANT e1

OneExecution == {e1}
=============================================================================
