------------------------------ MODULE MCSession ------------------------------
(* Session with a few workers; see the cfgs for the bounds. *)
EXTENDS Session
=============================================================================
