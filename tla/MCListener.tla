----------------------------- MODULE MCListener -----------------------------
(* Listener with a few threads and sessions; see the cfgs for the bounds. *)
EXTENDS Listener
=============================================================================
