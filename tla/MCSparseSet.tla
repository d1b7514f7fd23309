----------------------------- MODULE MCSparseSet -----------------------------
(* SparseSet and a concurrent scan on a small table; see MCSparseSet.cfg. *)
EXTENDS SparseScan
=============================================================================
