--------------------------- MODULE MCMarkSchedule ---------------------------
(* Instances of MarkSchedule for model checking. *)
EXTENDS MarkSchedule
=============================================================================
