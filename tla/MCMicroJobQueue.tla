-------------------------- MODULE MCMicroJobQueue --------------------------
(***************************************************************************)
(* An instance of MicroJobQueue for TLC.                                   *)
(***************************************************************************)
EXTENDS MicroJobQueue
=============================================================================
