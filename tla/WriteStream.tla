---------------------------- MODULE WriteStream ----------------------------
(***************************************************************************)
(* The write side of a session, Session.cpp:105-182: packets are copied    *)
(* into the ring of writeOv_, one WSASend at a time carries what is there, *)
(* and its completion posts what came in meanwhile or was left over.       *)
(*                                                                         *)
(* SendPacket and OnWrite hold writeMtx_; each is one step.  The kernel    *)
(* reads the ring between them, as long as a WSASend is outstanding.  A    *)
(* WSASend may fail at once: the bytes stay in the ring and isSending_     *)
(* stays set; what the caller makes of it is up to him.                    *)
(***************************************************************************)
EXTENDS MagicBuffer

VARIABLES
  writeOv_,     \* readPos_, writePos_ and the ring's cells
  isSending_,
  wsaBuf_,      \* buf and len of the last WSASend
  post,         \* what became of it: none (completed), posted (outstanding), refused
  queued,       \* how many bytes were put in the ring
  transmitted,  \* how many the client has received
  chunk,        \* the bytes it received last
  connected     \* has the session not been told to disconnect?

wvars == <<writeOv_, isSending_, wsaBuf_, post, queued, transmitted, chunk, connected>>

WInit ==
  /\ writeOv_ = [readPos_ |-> 0, writePos_ |-> 0, cells |-> Cleared]
  /\ isSending_ = FALSE /\ wsaBuf_ = [buf |-> 0, len |-> 0] /\ post = "none"
  /\ queued = 0 /\ transmitted = 0 /\ chunk = << >>
  /\ connected = TRUE

\* mutant: room is left for the packet beyond the end of the ring
Room_Twice(size) == writeOv_.writePos_ + size <= 2 * size_

Room(size) == writeOv_.writePos_ - writeOv_.readPos_ + size <= size_

\* WSASend is given everything between the positions, and takes it or fails at once.
RegisterWriteInternal(ov) ==
  /\ wsaBuf_' = [buf |-> ov.readPos_, len |-> ov.writePos_ - ov.readPos_]
  /\ post' \in {"posted", "refused"}

\* A packet of this size is copied; it is posted unless a write is under way.
SendPacket(size) ==
  /\ Room(size)
  /\ writeOv_' = [writeOv_ EXCEPT !.writePos_ = @ + size,
                                  !.cells = Store(@, writeOv_.writePos_, size, queued)]
  /\ queued' = queued + size
  /\ isSending_' = TRUE
  /\ IF isSending_ THEN UNCHANGED <<wsaBuf_, post>> ELSE RegisterWriteInternal(writeOv_')
  /\ UNCHANGED <<transmitted, chunk>>

\* The write buffer has no room for the packet.
SendFails(size) ==
  ~Room(size) /\ UNCHANGED <<writeOv_, isSending_, wsaBuf_, post, queued, transmitted, chunk>>

\* What SendPacket returns if there was room: false if its own WSASend failed.
SendResult == isSending_ \/ post' = "posted"

\* The positions after n bytes were sent.
Advance(n) ==
  LET ov == [writeOv_ EXCEPT !.readPos_ = @ + n]
  IN IF ov.readPos_ >= size_
     THEN [ov EXCEPT !.readPos_ = @ - size_, !.writePos_ = @ - size_]
     ELSE ov

\* mutant: isSending_ is cleared although something is left
Sent_Always(ov) == TRUE

Sent(ov) == ov.readPos_ = ov.writePos_

\* External: WSASend completes with n of its bytes.  Then OnWrite: a post that fails is
\* followed by Disconnect (IocpCore.cpp:121-125).
OnWrite(n) ==
  /\ post = "posted" /\ n <= wsaBuf_.len
  /\ chunk' = Load(writeOv_.cells, wsaBuf_.buf, n)
  /\ transmitted' = transmitted + n
  /\ writeOv_' = Advance(n)
  /\ isSending_' = ~Sent(writeOv_')
  /\ IF isSending_' THEN RegisterWriteInternal(writeOv_') ELSE post' = "none" /\ UNCHANGED wsaBuf_
  /\ connected' = (connected /\ post' # "refused")
  /\ UNCHANGED queued

\* External: WSASend fails or completes without a byte, because the client is gone or
\* because there was nothing to send (IocpCore.cpp:71, 114-119).
Disconnect ==
  /\ post = "posted"
  /\ post' = "none" /\ connected' = FALSE
  /\ UNCHANGED <<writeOv_, isSending_, wsaBuf_, queued, transmitted, chunk>>
-----------------------------------------------------------------------------
WriteTypeOK ==
  /\ writeOv_ \in [readPos_ : Nat, writePos_ : Nat, cells : [Cells -> Int]]
  /\ isSending_ \in BOOLEAN /\ connected \in BOOLEAN
  /\ wsaBuf_ \in [buf : Nat, len : Nat] /\ post \in {"none", "posted", "refused"}
  /\ queued \in Nat /\ transmitted \in Nat

waiting == writeOv_.writePos_ - writeOv_.readPos_

\* Session.cpp:109-110, 142-145, 162-170: the ring lies inside the two mappings, the
\* kernel is given exactly the oldest bytes that were not sent, and none of the bytes
\* waiting, in its hands or not, is overwritten by a later packet.
WriteInside ==
  /\ Mapped(writeOv_.readPos_, size_)
  /\ writeOv_.readPos_ <= writeOv_.writePos_
  /\ isSending_ => wsaBuf_.buf = writeOv_.readPos_ /\ wsaBuf_.len <= waiting
  /\ Load(writeOv_.cells, writeOv_.readPos_, waiting) = Bytes(transmitted, waiting)

WriteQueue == INSTANCE ByteQueue WITH
  Capacity <- size_, put <- queued, got <- transmitted, batch <- chunk

\* The write ring implements a queue of bytes: the client receives all bytes of the
\* packets that were accepted, in order, in whatever pieces the kernel sends them.
WriteIsQueue == WriteQueue!Spec

\* Session.cpp:147-150, 172-178: no byte is forgotten in the ring.  As long as the session
\* is not told to disconnect and no WSASend was refused, bytes that wait there, those of a
\* packet that came while a write was completing too, have a write outstanding that carries
\* at least one of them, and the flag that makes its completion post the rest.  (After a
\* refused WSASend of a broadcast they stay for ever: nobody posts again.)
NothingStranded ==
  connected /\ post # "refused" /\ waiting > 0
    => isSending_ /\ post = "posted" /\ wsaBuf_.len > 0
=============================================================================
