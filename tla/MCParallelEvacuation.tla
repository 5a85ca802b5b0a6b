------------------------- MODULE MCParallelEvacuation -------------------------
(* Two objects and one pool worker beside the JS thread.                   *)
EXTENDS ParallelEvacuation

CONSTANTS a, b
=============================================================================
