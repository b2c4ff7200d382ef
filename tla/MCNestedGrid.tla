---------------------------- MODULE MCNestedGrid ----------------------------
(* Instances of NestedGrid for TLC. *)
EXTENDS NestedGrid

CONSTANTS r1, r2, r3, r4, ga, gb, gc

FourRequests == {r1, r2, r3, r4}
ThreeGarages == {ga, gb, gc}
=============================================================================
