-------------------------- MODULE MCGarageSession --------------------------
(* Instances of GarageSession for TLC: a few artifacts. *)
EXTENDS GarageSession

CONSTANTS d1, d2

TwoDigests == {d1, d2}
OneDigest == {d1}
=============================================================================
