---------------------------- MODULE MCWaiterList ----------------------------
(***************************************************************************)
(* An instance of WaiterList for TLC.                                      *)
(***************************************************************************)
EXTENDS WaiterList
=============================================================================
