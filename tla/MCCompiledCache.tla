-------------------------- MODULE MCCompiledCache --------------------------
(* Instances of CompiledCache for TLC. *)
EXTENDS CompiledCache, TLC

CONSTANTS p1, p2, d1, d2

TwoPreparers == {p1, p2}
OneDigest == {d1}
TwoDigests == {d1, d2}
CacheSymmetry == Permutations(Preparers) \cup Permutations(Digests)
=============================================================================
