--------------------------- MODULE MCModuleGraph ---------------------------
(***************************************************************************)
(* An instance of ModuleGraph for TLC.                                     *)
(***************************************************************************)
EXTENDS ModuleGraph
=============================================================================
