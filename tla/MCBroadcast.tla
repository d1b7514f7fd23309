----------------------------- MODULE MCBroadcast -----------------------------
(* Broadcast with a few workers and senders; the workers are interchangeable. *)
EXTENDS Broadcast, TLC

Symmetry == Permutations(Workers)

(* The invariants speak of behaviours up to the moment a sender outlives the session;
   what follows is explored only until the slot it freed is pushed. *)
UntilOutlived == outlived => \E b \in Senders : at[b] = "push"
=============================================================================
