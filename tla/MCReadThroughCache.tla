------------------------- MODULE MCReadThroughCache -------------------------
(* Instances of ReadThroughCache for TLC. *)
EXTENDS ReadThroughCache, TLC

CONSTANTS cases, r1, r2, w1, w2

Symmetry == Permutations(Requests) \cup Permutations(Writers)
=============================================================================
