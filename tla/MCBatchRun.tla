----------------------------- MODULE MCBatchRun -----------------------------
(* Instances of BatchRun for TLC. *)
EXTENDS BatchRun, TLC

CONSTANTS b1, b2

TwoCalls == {b1, b2}
OneLongOneShort == (b1 :> {3}) @@ (b2 :> {0, 1})
TheSecond == {1}
OkOrLimit == {"Completed", "MemoryLimitExceeded"}
=============================================================================
