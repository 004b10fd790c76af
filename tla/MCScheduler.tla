---------------------------- MODULE MCScheduler ----------------------------
(* Instances of Scheduler are given by their constants alone. *)
EXTENDS Scheduler
=============================================================================
