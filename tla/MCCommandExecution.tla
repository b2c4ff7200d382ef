------------------------- MODULE MCCommandExecution -------------------------
(* Instances of CommandExecution for TLC: two executions that share a      *)
(* token, one of them with a timeout.                                      *)
EXTENDS CommandExecution

CONSTANTS e1, e2

TwoExecutions == {e1, e2}
FirstOnly == {e1}
=============================================================================
