--------------------------- MODULE MCWorkStealing ---------------------------
(* WorkStealing with a few threads and tasks; see MCWorkStealing.cfg for the bounds. *)
EXTENDS WorkStealing
=============================================================================
