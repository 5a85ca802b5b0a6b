----------------------------- MODULE MCPromise -----------------------------
(***************************************************************************)
(* An instance of Promise for TLC.                                         *)
(***************************************************************************)
EXTENDS Promise
=============================================================================
