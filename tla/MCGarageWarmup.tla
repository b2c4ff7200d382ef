--------------------------- MODULE MCGarageWarmup ---------------------------
(* Instances of GarageWarmup for TLC. *)
EXTENDS GarageWarmup

CONSTANTS q1, q2, q3, q4, d1, d2

ThreeRequests == {q1, q2, q3}
FourRequests == {q1, q2, q3, q4}
OneDigest == {d1}
TwoDigests == {d1, d2}
OneDefect == {"InvocationCycle"}
=============================================================================
