------------------------- MODULE MCConcurrentSweep -------------------------
(* One old region, or two old regions and a non-movable one, swept by pool *)
(* workers and the JS thread.                                              *)
EXTENDS ConcurrentSweep, TLC

CONSTANTS r1, r2, r3

MCRegions == {r1, r2, r3}
MCSpaceOf == (r1 :> 0) @@ (r2 :> 0) @@ (r3 :> 1)
MCOneRegion == {r1}
MCSpaceOfOne == (r1 :> 0)

\* The two regions of the old space can be exchanged (for runs without liveness).
MCSymmetry == Permutations({r1, r2})
=============================================================================
