------------------------- MODULE MCLinkedHashTable -------------------------
(***************************************************************************)
(* Instances of LinkedHashTable for TLC.  The smallest capacities are      *)
(* scaled down from 4 and 16 to 2 and 2, so that three keys make a table   *)
(* grow, shrink and be rehashed at its own size.  The keys k1 and k1b are  *)
(* equal and hashed alike, as 0.0 and -0.0 are (EqualKeysHashAlike); k2 is *)
(* another key and in their bucket at every capacity that occurs.          *)
(***************************************************************************)
EXTENDS LinkedHashTable

CONSTANTS k1, k1b, k2, k3

MCKeys == {k1, k1b, k2, k3}
MCClass == (k1 :> 1) @@ (k1b :> 1) @@ (k2 :> 2) @@ (k3 :> 3)
MCHash == (k1 :> 0) @@ (k1b :> 0) @@ (k2 :> 4) @@ (k3 :> 1)
=============================================================================
