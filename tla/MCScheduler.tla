----------------------------- MODULE MCScheduler -----------------------------
(* Scheduler with a few workers and tasks; see MCScheduler.cfg for the bounds. *)
EXTENDS Scheduler
=============================================================================
