---------------------------- MODULE ReadStream ----------------------------
(***************************************************************************)
(* The read side of a session, Session.cpp:25-103: bytes arrive from the   *)
(* client in pieces of any size, are kept in the ring of readOv_ and cut   *)
(* into packets by the size field of their headers.                        *)
(*                                                                         *)
(* The client's stream is a sequence of packets; a byte is its offset in   *)
(* that stream.  A header is recognised by the bytes that are in the ring  *)
(* at the read position, and carries the size of the packet it starts.     *)
(* One WSARecv is outstanding or one worker parses, never both (OneOwner   *)
(* of module Session).                                                     *)
(***************************************************************************)
EXTENDS MagicBuffer, SequencesExt

CONSTANTS
  HeaderSize,  \* sizeof(PACKET_HEADER)
  Packets,     \* the [size, id] a client may send; size < SizeMod
  SizeMod,     \* the size field is uint16_t
  MaxPackets   \* bound: how many packets the client sends

ASSUME ReadStreamAssumption ==
  /\ HeaderSize \in Nat \ {0} /\ SizeMod \in Nat \ {0} /\ MaxPackets \in Nat
  /\ HeaderSize < size_ /\ SizeMod <= size_   \* kMagicBufferSize is 2^16
  /\ \A p \in Packets : p.size \in 0 .. SizeMod - 1

VARIABLES
  packets,   \* what the client has sent: [start, size, id] of each packet
  sent,      \* ... in bytes
  readOv_,   \* readPos_, writePos_ and the ring's cells
  received,  \* how many bytes were put in the ring
  parsed,    \* how many were handled
  packet,    \* the bytes of the packet that was handled last
  phase      \* recv: WSARecv is outstanding.  parse: in OnRead.  closed, overflow.

rvars == <<packets, sent, readOv_, received, parsed, packet, phase>>

RInit ==
  /\ packets = << >> /\ sent = 0
  /\ readOv_ = [readPos_ |-> 0, writePos_ |-> 0, cells |-> Cleared]
  /\ received = 0 /\ parsed = 0 /\ packet = << >>
  /\ phase = "recv"

\* External: the client sends a packet.  One with a bad size is at least a header.
ClientSend(p) ==
  /\ Len(packets) < MaxPackets
  /\ packets' = Append(packets, [start |-> sent, size |-> p.size, id |-> p.id])
  /\ sent' = sent + (IF p.size < HeaderSize THEN HeaderSize ELSE p.size)
  /\ UNCHANGED <<readOv_, received, parsed, packet, phase>>
-----------------------------------------------------------------------------
\* wsaBuf_.len of RegisterRead
RecvLen == size_ - readOv_.writePos_ + readOv_.readPos_

\* External: WSARecv completes with n bytes; OnRead begins.
OnRead(n) ==
  /\ phase = "recv" /\ n <= RecvLen /\ n <= sent - received
  /\ readOv_' = [readOv_ EXCEPT !.writePos_ = @ + n,
                                !.cells = Store(@, readOv_.writePos_, n, received)]
  /\ received' = received + n
  /\ phase' = "parse"
  /\ UNCHANGED <<packets, sent, parsed, packet>>

availableData == readOv_.writePos_ - readOv_.readPos_

\* The packet whose header is at the read position (none if the bytes are no header).
header ==
  {p \in ToSet(packets) :
     Load(readOv_.cells, readOv_.readPos_, HeaderSize) = Bytes(p.start, HeaderSize)}

ValidSize(p) == p.size >= HeaderSize /\ p.size < size_

Complete(p) ==
  availableData >= HeaderSize /\ p \in header /\ ValidSize(p) /\ availableData >= p.size

\* The packet at the read position is handled and skipped.
Consume(p) ==
  /\ readOv_' = [readOv_ EXCEPT !.readPos_ = @ + p.size]
  /\ packet' = Load(readOv_.cells, readOv_.readPos_, p.size)
  /\ parsed' = parsed + p.size
  /\ UNCHANGED <<packets, sent, received, phase>>

Execute(p) == phase = "parse" /\ Complete(p) /\ Consume(p)

InvalidSize ==
  /\ phase = "parse" /\ availableData >= HeaderSize
  /\ \A p \in header : ~ValidSize(p)
  /\ phase' = "closed"
  /\ UNCHANGED <<packets, sent, readOv_, received, parsed, packet>>

\* mutant: the positions are pulled back as soon as the write position passes the end
PullBack_WritePos ==
  IF readOv_.writePos_ >= size_
  THEN [readOv_ EXCEPT !.readPos_ = @ - size_, !.writePos_ = @ - size_]
  ELSE readOv_

\* mutant: the write position is not pulled back
PullBack_ReadOnly ==
  IF readOv_.readPos_ >= size_ THEN [readOv_ EXCEPT !.readPos_ = @ - size_] ELSE readOv_

PullBack ==
  IF readOv_.readPos_ >= size_
  THEN [readOv_ EXCEPT !.readPos_ = @ - size_, !.writePos_ = @ - size_]
  ELSE readOv_

\* mutant: one packet is handled for each completion
Incomplete_OneEach == availableData < HeaderSize \/ packet # << >>

\* The loop ends: the header or the packet at the read position is not complete.
Incomplete ==
  \/ availableData < HeaderSize
  \/ \E p \in header : ValidSize(p) /\ availableData < p.size

\* The end of OnRead, with RegisterRead.
RegisterRead ==
  /\ phase = "parse" /\ Incomplete
  /\ readOv_' = PullBack
  /\ phase' = IF RecvLen' = 0 THEN "overflow" ELSE "recv"
  /\ UNCHANGED <<packets, sent, received, parsed, packet>>
-----------------------------------------------------------------------------
ReadTypeOK ==
  /\ packets \in Seq([start : Nat, size : 0 .. SizeMod - 1, id : {p.id : p \in Packets}])
  /\ sent \in Nat /\ received \in Nat /\ parsed \in Nat
  /\ readOv_ \in [readPos_ : Nat, writePos_ : Nat, cells : [Cells -> Int]]
  /\ packet \in Seq(Int)
  /\ phase \in {"recv", "parse", "closed", "overflow"}

Well(p) == p.size >= HeaderSize

\* Session.cpp:64-90, README.md:99-100 (fragmented and sticky packets): however the
\* stream is cut into completions, the read position is always at the start of a packet
\* of the client; when the loop ends no complete packet is left behind; and the connection
\* is closed only for a packet with a bad size, when all before it were handled.
Framing ==
  /\ \A p \in ToSet(packets) : ~(p.start < parsed /\ parsed < p.start + p.size)
  /\ phase = "recv" => \A p \in ToSet(packets) :
                         Well(p) /\ p.start + p.size <= received => p.start + p.size <= parsed
  /\ phase = "closed" => \E p \in ToSet(packets) : p.start = parsed /\ ~Well(p)

\* MagicBuffer.cpp:35-47, Session.cpp:27-35, 92-95: what is given to WSARecv and what is
\* parsed lies inside the two mappings, the unread bytes are never overwritten, and there is
\* always room for another read, so RegisterRead's overflow does not happen.
ReadInside ==
  /\ phase # "overflow"
  /\ phase = "recv" => Mapped(readOv_.writePos_, RecvLen)
  /\ Mapped(readOv_.readPos_, availableData)
  /\ Load(readOv_.cells, readOv_.readPos_, availableData) = Bytes(parsed, availableData)

ReadQueue == INSTANCE ByteQueue WITH
  Capacity <- size_, put <- received, got <- parsed, batch <- packet

\* The read ring implements a queue of bytes from which whole packets are taken.
ReadIsQueue == ReadQueue!Spec
=============================================================================
