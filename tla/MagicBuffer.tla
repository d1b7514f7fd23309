---------------------------- MODULE MagicBuffer ----------------------------
(***************************************************************************)
(* Network/Common/MagicBuffer.cpp: memory of size_ bytes that is mapped    *)
(* twice in a row, so that a range that starts in the first half and ends  *)
(* in the second is contiguous.                                            *)
(*                                                                         *)
(* What is in a byte does not matter to whoever moves it: a byte is its    *)
(* offset in the stream it belongs to, and a cell holds such an offset.    *)
(***************************************************************************)
EXTENDS Integers

CONSTANT size_

ASSUME MagicBufferAssumption == size_ \in Nat \ {0}

Cells == 0 .. size_ - 1

\* The cell an address in either half refers to.
Cell(pos) == pos % size_

\* Clear: no byte of the stream is in the buffer.
Cleared == [c \in Cells |-> -1]

\* The n bytes at address pos.
Load(cells, pos, n) == [i \in 1 .. n |-> cells[Cell(pos + i - 1)]]

\* mutant: the second half is not the same memory
Store_NoMirror(cells, pos, n, first) ==
  [c \in Cells |-> IF c >= pos /\ c < pos + n THEN first + (c - pos) ELSE cells[c]]

\* n bytes of the stream, from first on, are copied to address pos.
Store(cells, pos, n, first) ==
  [c \in Cells |-> LET i == (c - pos) % size_ IN IF i < n THEN first + i ELSE cells[c]]

\* The addresses pos .. pos + n - 1 are mapped.
Mapped(pos, n) == pos + n <= 2 * size_

\* The n bytes of a stream from first on.
Bytes(first, n) == [i \in 1 .. n |-> first + i - 1]
=============================================================================
