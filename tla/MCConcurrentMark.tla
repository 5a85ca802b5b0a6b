--------------------------- MODULE MCConcurrentMark ---------------------------
(* Instances of ConcurrentMark for TLC. *)
EXTENDS ConcurrentMark, TLC

CONSTANTS a, b, s

Symmetry == Permutations({a, b})
=============================================================================
