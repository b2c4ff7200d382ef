--------------------------- MODULE MCSharedLanes ---------------------------
(* Instances of SharedLanes for TLC. *)
EXTENDS SharedLanes, TLC

CONSTANTS c1, c2, c3, r1

ThreeCallers == {c1, c2, c3}
OneReader == {r1}
NoReader == {}

TaskOnly == {"task"}
BothPanic == {"observer", "task"}

\* callers are interchangeable; used by runs without temporal properties only
CallerSymmetry == Permutations(Callers)
=============================================================================
