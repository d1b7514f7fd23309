------------------------------ MODULE MCRelay ------------------------------
(* Relay with a ring of a few bytes.  Sizes, like the size field's range, keep the code's
   relation to the ring: 2^16 values of the field, 2^16 bytes of ring. *)
EXTENDS Relay

Chat(n) == [size |-> n, id |-> "kChat"]
Move(n) == [size |-> n, id |-> "kMove"]

(* A chat packet with a bad size, an empty one and the longest the size field can take when
   the handle is added; a move padded to the longest packet there is. *)
Some == {Chat(1), Chat(HeaderSize), Chat(SizeMod - 1 - HandleSize), Move(SizeMod - 1)}

All == {Chat(n) : n \in HeaderSize .. SizeMod - 1}
=============================================================================
