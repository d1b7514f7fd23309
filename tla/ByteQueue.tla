----------------------------- MODULE ByteQueue -----------------------------
(***************************************************************************)
(* What a ring of Session's OverlappedEx promises: a bounded first-in      *)
(* first-out queue of bytes.  Bytes are numbered as they are put in, and   *)
(* leave in batches, complete and in order.                                *)
(***************************************************************************)
EXTENDS Integers

CONSTANT Capacity

VARIABLES
  put,    \* how many bytes were put in
  got,    \* how many were taken out
  batch   \* the bytes that were taken out last

vars == <<put, got, batch>>

Init == put = 0 /\ got = 0 /\ batch = << >>

Put ==
  /\ put' \in put + 1 .. got + Capacity
  /\ UNCHANGED <<got, batch>>

Get ==
  /\ got' \in got + 1 .. put
  /\ batch' = [i \in 1 .. got' - got |-> got + i - 1]
  /\ UNCHANGED put

Next == Put \/ Get

Spec == Init /\ [][Next]_vars
=============================================================================
