------------------------------ MODULE MCSchedule ------------------------------
(* Instance of Schedule for TLC. *)
EXTENDS Schedule
=============================================================================
