---------------------------- MODULE RelayProofs ----------------------------
(***************************************************************************)
(* Proofs about the two rings of a session and what is relayed through     *)
(* them, for rings, packets and pieces of any size: nothing leaves the     *)
(* mappings, no byte is overwritten before it is used, the stream is cut   *)
(* where the client's packets begin, and what another client is sent is    *)
(* one packet after the other, none of which is forgotten in the ring.     *)
(***************************************************************************)
EXTENDS Relay, SequenceTheorems, TLAPS

-----------------------------------------------------------------------------
(* Addresses in the two mappings. *)

\* The remainder of what is at most two rings away.
LEMMA Remainder ==
  /\ size_ \in Nat /\ size_ > 0
  /\ \A x \in Int : x % size_ \in 0 .. size_ - 1
  /\ \A x \in 0 .. size_ - 1 : x % size_ = x
  /\ \A x \in size_ .. 2 * size_ - 1 : x % size_ = x - size_
  /\ \A x \in -size_ .. -1 : x % size_ = x + size_
  /\ \A x \in -(2 * size_) .. -size_ - 1 : x % size_ = x + 2 * size_
<1>1. size_ \in Nat /\ size_ > 0
  BY MagicBufferAssumption
<1>2. ASSUME NEW s \in Nat, s > 0, NEW x \in Int
      PROVE  /\ x % s \in 0 .. s - 1
             /\ x \in 0 .. s - 1 => x % s = x
             /\ x \in s .. 2 * s - 1 => x % s = x - s
             /\ x \in -s .. -1 => x % s = x + s
             /\ x \in -(2 * s) .. -s - 1 => x % s = x + 2 * s
  <2>1. x % s \in 0 .. s - 1
    BY <1>2
  <2>2. x \in 0 .. s - 1 => x % s = x
    BY <1>2
  <2>3. x \in s .. 2 * s - 1 => x % s = x - s
    BY <1>2
  <2>4. x \in -s .. -1 => x % s = x + s
    BY <1>2
  <2>5. x \in -(2 * s) .. -s - 1 => x % s = x + 2 * s
    BY <1>2
  <2>6. QED
    BY <2>1, <2>2, <2>3, <2>4, <2>5
<1>3. QED
  BY <1>1, <1>2

\* Every address is that of a cell.
LEMMA CellType == \A x \in Int : Cell(x) \in Cells
BY Remainder DEF Cell, Cells

\* Where an address of either mapping leads, and how far a cell is behind it.
LEMMA Address ==
  ASSUME NEW pos \in 0 .. 2 * size_ - 1
  PROVE  /\ Cell(pos) = IF pos < size_ THEN pos ELSE pos - size_
         /\ \A c \in Cells : (c - pos) % size_ = IF c >= pos THEN c - pos
                                               ELSE IF c >= pos - size_ THEN c - pos + size_
                                               ELSE c - pos + 2 * size_
<1>1. Cell(pos) = IF pos < size_ THEN pos ELSE pos - size_
  BY Remainder DEF Cell
<1>2. ASSUME NEW c \in Cells
      PROVE  (c - pos) % size_ = IF c >= pos THEN c - pos
                                 ELSE IF c >= pos - size_ THEN c - pos + size_
                                 ELSE c - pos + 2 * size_
  <2>1. c - pos \in Int /\ c \in 0 .. size_ - 1
    BY Remainder DEF Cells
  <2>2. CASE c >= pos
    <3>1. c - pos \in 0 .. size_ - 1
      BY <2>1, <2>2, Remainder
    <3>2. QED
      BY <2>2, <3>1, Remainder
  <2>3. CASE c < pos /\ c >= pos - size_
    <3>1. c - pos \in -size_ .. -1
      BY <2>1, <2>3, Remainder
    <3>2. QED
      BY <2>1, <2>3, <3>1, Remainder
  <2>4. CASE c < pos - size_
    <3>1. c - pos \in -(2 * size_) .. -size_ - 1
      BY <2>1, <2>4, Remainder
    <3>2. QED
      BY <2>1, <2>4, <3>1, Remainder
  <2>5. QED
    BY <2>1, <2>2, <2>3, <2>4, Remainder
<1>3. QED
  BY <1>1, <1>2

\* What Load and Store do to the type of a ring.
LEMMA RingType ==
  ASSUME NEW cells \in [Cells -> Int], NEW pos \in Int, NEW n \in Nat, NEW first \in Nat
  PROVE  /\ Load(cells, pos, n) \in Seq(Int) /\ Len(Load(cells, pos, n)) = n
         /\ Store(cells, pos, n, first) \in [Cells -> Int]
<1>1. \A i \in 1 .. n : cells[Cell(pos + i - 1)] \in Int
  BY CellType
<1>2. Load(cells, pos, n) \in Seq(Int) /\ Len(Load(cells, pos, n)) = n
  BY <1>1, IsASeq DEF Load
<1>3. \A c \in Cells : (c - pos) % size_ \in Int
  BY Remainder DEF Cells
<1>4. QED
  BY <1>2, <1>3 DEF Store

\* The ring holds the n bytes of the stream from first on, at address pos.
Holds(cells, pos, n, first) == Load(cells, pos, n) = Bytes(first, n)

\* The same, byte by byte.
LEMMA HoldsEach ==
  ASSUME NEW cells, NEW pos \in Nat, NEW n \in Nat, NEW first \in Nat
  PROVE  Holds(cells, pos, n, first) <=> \A i \in 0 .. n - 1 : cells[Cell(pos + i)] = first + i
<1>1. ASSUME Holds(cells, pos, n, first), NEW i \in 0 .. n - 1 PROVE cells[Cell(pos + i)] = first + i
  <2>1. i + 1 \in 1 .. n /\ pos + (i + 1) - 1 = pos + i /\ first + (i + 1) - 1 = first + i
    OBVIOUS
  <2>2. Load(cells, pos, n)[i + 1] = Bytes(first, n)[i + 1]
    BY <1>1 DEF Holds
  <2>3. Load(cells, pos, n)[i + 1] = cells[Cell(pos + (i + 1) - 1)]
    BY <2>1 DEF Load
  <2>4. Bytes(first, n)[i + 1] = first + (i + 1) - 1
    BY <2>1 DEF Bytes
  <2>5. QED
    BY <2>1, <2>2, <2>3, <2>4
<1>2. ASSUME \A i \in 0 .. n - 1 : cells[Cell(pos + i)] = first + i PROVE Holds(cells, pos, n, first)
  <2>1. ASSUME NEW j \in 1 .. n PROVE cells[Cell(pos + j - 1)] = first + j - 1
    <3>1. j - 1 \in 0 .. n - 1 /\ pos + (j - 1) = pos + j - 1 /\ first + (j - 1) = first + j - 1
      OBVIOUS
    <3>2. QED
      BY <1>2, <3>1
  <2>2. QED
    BY <2>1 DEF Holds, Load, Bytes
<1>3. QED
  BY <1>1, <1>2

\* A part of what the ring holds.
LEMMA HoldsPart ==
  ASSUME NEW cells, NEW pos \in Nat, NEW n \in Nat, NEW first \in Nat, Holds(cells, pos, n, first),
         NEW k \in Nat, NEW m \in Nat, k + m <= n
  PROVE  Holds(cells, pos + k, m, first + k)
<1>a. \A j \in 0 .. n - 1 : cells[Cell(pos + j)] = first + j
  BY HoldsEach
<1>1. pos + k \in Nat /\ first + k \in Nat
  OBVIOUS
<1>2. ASSUME NEW i \in 0 .. m - 1 PROVE cells[Cell((pos + k) + i)] = (first + k) + i
  <2>1. k + i \in 0 .. n - 1 /\ pos + (k + i) = (pos + k) + i /\ first + (k + i) = (first + k) + i
    OBVIOUS
  <2>2. cells[Cell(pos + (k + i))] = first + (k + i)
    BY <1>a, <2>1, Zenon
  <2>3. QED
    BY <2>1, <2>2
<1>3. QED
  BY <1>1, <1>2, HoldsEach

\* The second mapping is the same memory as the first.
LEMMA HoldsPulledBack ==
  ASSUME NEW cells, NEW pos \in size_ .. 2 * size_ - 1, NEW n \in Nat, NEW first \in Nat,
         pos + n <= 2 * size_, Holds(cells, pos, n, first)
  PROVE  Holds(cells, pos - size_, n, first)
<1>1. pos - size_ \in Nat /\ pos \in Nat
  BY Remainder
<1>2. ASSUME NEW i \in 0 .. n - 1 PROVE cells[Cell((pos - size_) + i)] = first + i
  <2>1. (pos - size_) + i \in 0 .. 2 * size_ - 1 /\ pos + i \in 0 .. 2 * size_ - 1 /\ pos + i >= size_
        /\ (pos - size_) + i < size_ /\ (pos + i) - size_ = (pos - size_) + i
    BY Remainder
  <2>2. PICK a \in 0 .. 2 * size_ - 1 : a = (pos - size_) + i
    BY <2>1
  <2>3. PICK b \in 0 .. 2 * size_ - 1 : b = pos + i
    BY <2>1
  <2>4. Cell(a) = Cell(b)
    <3>1. Cell(a) = IF a < size_ THEN a ELSE a - size_
      BY Address
    <3>2. Cell(b) = IF b < size_ THEN b ELSE b - size_
      BY Address
    <3>3. a < size_ /\ ~(b < size_) /\ b - size_ = a
      BY <2>1, <2>2, <2>3, Remainder
    <3>4. QED
      BY <3>1, <3>2, <3>3
  <2>5. cells[Cell(pos + i)] = first + i
    BY <1>1, HoldsEach
  <2>6. QED
    BY <2>2, <2>3, <2>4, <2>5
<1>3. QED
  BY <1>1, <1>2, HoldsEach

\* Bytes that are stored behind those the ring holds, as far as there is room, join them:
\* none that is still needed is overwritten.
LEMMA HoldsMore ==
  ASSUME NEW cells \in [Cells -> Int], NEW pos \in 0 .. size_ - 1, NEW n \in Nat, NEW first \in Nat,
         Holds(cells, pos, n, first), NEW m \in Nat, n + m <= size_
  PROVE  Holds(Store(cells, pos + n, m, first + n), pos, n + m, first)
<1> DEFINE new == Store(cells, pos + n, m, first + n)
<1>1. pos \in Nat /\ n + m \in Nat /\ size_ \in Nat /\ size_ > 0
  BY Remainder
<1>2. ASSUME NEW i \in 0 .. (n + m) - 1 PROVE new[Cell(pos + i)] = first + i
  <2>1. PICK a \in 0 .. 2 * size_ - 1 : a = pos + i
    BY <1>1
  <2>2. PICK b \in 0 .. 2 * size_ - 1 : b = pos + n
    BY <1>1
  <2>3. PICK f \in Nat : f = first + n
    OBVIOUS
  <2>4. PICK c \in Cells : c = Cell(a)
    BY CellType, <1>1
  <2>5. c = (IF a < size_ THEN a ELSE a - size_) /\ c \in 0 .. size_ - 1
    BY <2>4, Address DEF Cells
  <2>6. PICK d : d = (c - b) % size_
    OBVIOUS
  <2>7. new[c] = IF d < m THEN f + d ELSE cells[c]
    BY <2>2, <2>3, <2>6 DEF Store
  <2>8. d = IF c >= b THEN c - b ELSE IF c >= b - size_ THEN c - b + size_ ELSE c - b + 2 * size_
    BY <2>6, Address
  <2> HIDE DEF new
  <2>9. CASE i < n
    <3>1. d = i - n + size_ /\ ~(d < m)
      BY <1>1, <2>1, <2>2, <2>5, <2>8, <2>9
    <3>2. cells[Cell(pos + i)] = first + i
      BY <1>1, <2>9, HoldsEach
    <3>3. QED
      BY <2>1, <2>4, <2>7, <3>1, <3>2
  <2>10. CASE i >= n
    <3>1. d = i - n
      BY <1>1, <2>1, <2>2, <2>5, <2>8, <2>10
    <3>2. d < m /\ f + d = first + i
      BY <1>1, <2>3, <2>10, <3>1
    <3>3. new[c] = first + i
      BY <2>7, <3>2
    <3>4. QED
      BY <2>1, <2>4, <3>3
  <2>11. QED
    BY <1>1, <2>9, <2>10
<1> HIDE DEF new
<1>3. Holds(new, pos, n + m, first)
  BY <1>1, <1>2, HoldsEach
<1>4. QED
  BY <1>3 DEF new
-----------------------------------------------------------------------------
(* The inductive invariant. *)

EndOf(p) == p.start + (IF p.size < HeaderSize THEN HeaderSize ELSE p.size)

P == ToSet(packets)

\* The client's packets follow one another in its stream.
Laid ==
  /\ \A p \in P : \E q \in Packets : q.size = p.size /\ q.id = p.id
  /\ \A p, q \in P : p = q \/ EndOf(p) <= q.start \/ EndOf(q) <= p.start
  /\ \A p \in P : EndOf(p) <= sent /\ (EndOf(p) = sent \/ \E q \in P : q.start = EndOf(p))

\* The positions of the read ring agree with what was received and parsed.  They are pulled
\* back only before the next WSARecv.
ReadPositions ==
  /\ parsed <= received /\ received <= sent /\ received - parsed <= size_
  /\ readOv_.writePos_ = readOv_.readPos_ + (received - parsed)
  /\ readOv_.writePos_ < 2 * size_
  /\ phase = "recv" => readOv_.readPos_ < size_ /\ received - parsed < size_
  /\ phase # "overflow"

ReadHolds == Holds(readOv_.cells, readOv_.readPos_, received - parsed, parsed)

\* Parsing stands between two packets, and there is one where it goes on.
Between ==
  /\ \A p \in P : EndOf(p) <= parsed \/ parsed <= p.start
  /\ parsed = sent \/ \E p \in P : p.start = parsed

\* The other two parts of Framing.
LeftBehind ==
  /\ phase = "recv" => \A p \in P : Well(p) /\ p.start + p.size <= received
                                    => p.start + p.size <= parsed
  /\ phase = "closed" => \E p \in P : p.start = parsed /\ ~Well(p)

ReadInv == ReadTypeOK /\ Laid /\ ReadPositions /\ ReadHolds /\ Between /\ LeftBehind

\* The positions of the write ring agree with what was queued and transmitted.
WritePositions ==
  /\ transmitted <= queued /\ queued - transmitted <= size_
  /\ writeOv_.readPos_ < size_
  /\ writeOv_.writePos_ = writeOv_.readPos_ + (queued - transmitted)
  /\ isSending_ => wsaBuf_.buf = writeOv_.readPos_ /\ wsaBuf_.len <= queued - transmitted
  /\ post = "posted" => isSending_

WriteHolds == Holds(writeOv_.cells, writeOv_.readPos_, queued - transmitted, transmitted)

WriteInv == WriteTypeOK /\ WritePositions /\ WriteHolds

\* What the packets of the outbox are made from, and where they end.
Message ==
  [from : [start : Nat, size : 0 .. SizeMod - 1, id : {p.id : p \in Packets}] \cup {[id |-> "welcome"]},
   start : Nat, size : 0 .. SizeMod - 1, length : Nat, message : Seq(Int)]

End(m) == m.start + m.size

Relayed(m) == m.from.id # "welcome"

Chained ==
  \A k \in 1 .. Len(outbox) : End(outbox[k]) = IF k = Len(outbox) THEN queued ELSE outbox[k + 1].start

\* Every relayed packet is made from one that was parsed, in the order they were parsed in.
InOrder ==
  /\ \A k \in 1 .. Len(outbox) : Relayed(outbox[k]) => outbox[k].from.start < parsed
  /\ \A j, k \in 1 .. Len(outbox) :
       j < k /\ Relayed(outbox[j]) /\ Relayed(outbox[k]) => outbox[j].from.start < outbox[k].from.start

\* The clients send packets the handlers are made for: a C2S_MOVE has its two coordinates,
\* and a message leaves room for the handle in 16 bits.
Honest ==
  \A p \in Packets :
    ValidSize(p) => /\ p.id = "kMove" => p.size >= HeaderSize + MoveSize
                    /\ p.id = "kChat" => p.size + HandleSize < SizeMod

\* A relayed packet says how long it is, and carries the message it was made from.
Faithful(m) ==
  Relayed(m) => /\ m.size = m.length
                /\ m.message = Bytes(m.from.start + HeaderSize,
                                     IF m.from.id = "kMove" THEN MoveSize
                                     ELSE m.from.size - HeaderSize)

Outbox ==
  /\ outbox \in Seq(Message) /\ Chained /\ InOrder
  /\ Honest => \A k \in 1 .. Len(outbox) : Faithful(outbox[k])

Inv == ReadInv /\ WriteInv /\ Outbox
-----------------------------------------------------------------------------
(* The read ring. *)

\* The facts about the constants that the proofs use.
LEMMA Constants ==
  /\ size_ \in Nat /\ size_ > 0 /\ HeaderSize \in Nat /\ HeaderSize > 0 /\ HeaderSize < size_
  /\ SizeMod \in Nat /\ SizeMod > 0 /\ SizeMod <= size_
  /\ HandleSize \in Nat /\ MoveSize \in Nat /\ HeaderSize + HandleSize + MoveSize < SizeMod
  /\ WelcomeSize \in Nat /\ HeaderSize + WelcomeSize < SizeMod
  /\ \A p \in Packets : p.size \in 0 .. SizeMod - 1
BY MagicBufferAssumption, ReadStreamAssumption, RelayAssumption

Packet == [start : Nat, size : 0 .. SizeMod - 1, id : {p.id : p \in Packets}]

\* The packets the client has sent are packets.
LEMMA PacketType ==
  ASSUME ReadTypeOK
  PROVE  P \subseteq Packet /\ \A p \in P : /\ p.start \in Nat /\ p.size \in Nat /\ p.size < SizeMod
                                            /\ EndOf(p) \in Nat /\ EndOf(p) > p.start
                                            /\ EndOf(p) >= p.start + p.size
                                            /\ (Well(p) => EndOf(p) = p.start + p.size)
<1>1. packets \in Seq(Packet)
  BY DEF ReadTypeOK, Packet
<1>2. P \subseteq Packet
  BY <1>1 DEF P, ToSet
<1>3. ASSUME NEW p \in Packet PROVE p.start \in Nat /\ p.size \in Nat /\ p.size < SizeMod
  BY Constants DEF Packet
<1>4. ASSUME NEW p \in Packet
      PROVE  /\ EndOf(p) \in Nat /\ EndOf(p) > p.start /\ EndOf(p) >= p.start + p.size
             /\ (Well(p) => EndOf(p) = p.start + p.size)
  BY <1>3, Constants DEF EndOf, Well
<1>5. QED
  BY <1>2, <1>3, <1>4

Ring == [readPos_ : Nat, writePos_ : Nat, cells : [Cells -> Int]]

\* The changes that are made to a ring.
LEMMA RingChange ==
  ASSUME NEW ov \in Ring, NEW r, NEW w, NEW c
  PROVE  /\ [ov EXCEPT !.readPos_ = r] = [readPos_ |-> r, writePos_ |-> ov.writePos_, cells |-> ov.cells]
         /\ [ov EXCEPT !.readPos_ = r, !.writePos_ = w] = [readPos_ |-> r, writePos_ |-> w, cells |-> ov.cells]
         /\ [ov EXCEPT !.writePos_ = w, !.cells = c] = [readPos_ |-> ov.readPos_, writePos_ |-> w, cells |-> c]
<1>1. ov = [readPos_ |-> ov.readPos_, writePos_ |-> ov.writePos_, cells |-> ov.cells]
  BY DEF Ring
<1>2. PICK a, b, d : ov = [readPos_ |-> a, writePos_ |-> b, cells |-> d]
  BY <1>1
<1>3. [ov EXCEPT !.readPos_ = r] = [readPos_ |-> r, writePos_ |-> ov.writePos_, cells |-> ov.cells]
  BY <1>2
<1>4. [ov EXCEPT !.readPos_ = r, !.writePos_ = w] = [readPos_ |-> r, writePos_ |-> w, cells |-> ov.cells]
  <2>1. PICK x : x = [ov EXCEPT !.readPos_ = r]
    OBVIOUS
  <2>2. [ov EXCEPT !.readPos_ = r, !.writePos_ = w] = [x EXCEPT !.writePos_ = w]
    BY <2>1
  <2>3. x = [readPos_ |-> r, writePos_ |-> b, cells |-> d] /\ ov.cells = d
    BY <1>2, <1>3, <2>1
  <2>4. [x EXCEPT !.writePos_ = w] = [readPos_ |-> r, writePos_ |-> w, cells |-> d]
    BY <2>3
  <2>5. QED
    BY <2>2, <2>3, <2>4
<1>5. [ov EXCEPT !.writePos_ = w, !.cells = c] = [readPos_ |-> ov.readPos_, writePos_ |-> w, cells |-> c]
  <2>1. PICK x : x = [ov EXCEPT !.writePos_ = w]
    OBVIOUS
  <2>2. [ov EXCEPT !.writePos_ = w, !.cells = c] = [x EXCEPT !.cells = c]
    BY <2>1
  <2>3. x = [readPos_ |-> a, writePos_ |-> w, cells |-> d] /\ ov.readPos_ = a
    BY <1>2, <2>1
  <2>4. [x EXCEPT !.cells = c] = [readPos_ |-> a, writePos_ |-> w, cells |-> c]
    BY <2>3
  <2>5. QED
    BY <2>2, <2>3, <2>4
<1>6. QED
  BY <1>3, <1>4, <1>5

\* The fields of the read side have their types.
LEMMA ReadTypes ==
  ASSUME ReadInv
  PROVE  /\ readOv_.readPos_ \in Nat /\ readOv_.writePos_ \in Nat /\ readOv_.cells \in [Cells -> Int]
         /\ received \in Nat /\ parsed \in Nat /\ sent \in Nat /\ received - parsed \in Nat
         /\ availableData = received - parsed /\ readOv_ \in Ring
<1>1. /\ readOv_.readPos_ \in Nat /\ readOv_.writePos_ \in Nat /\ readOv_.cells \in [Cells -> Int]
      /\ received \in Nat /\ parsed \in Nat /\ sent \in Nat
  BY DEF ReadInv, ReadTypeOK
<1>2. QED
  BY <1>1 DEF ReadInv, ReadTypeOK, ReadPositions, availableData, Ring

\* ClientSend keeps the invariant.
LEMMA ClientSendInv ==
  ASSUME ReadInv, NEW p \in Packets, ClientSend(p)
  PROVE  ReadInv'
<1>1. PICK new : new = [start |-> sent, size |-> p.size, id |-> p.id]
  OBVIOUS
<1>2. /\ packets' = Append(packets, new) /\ sent' = sent + (IF p.size < HeaderSize THEN HeaderSize ELSE p.size)
      /\ UNCHANGED <<readOv_, received, parsed, packet, phase>>
  BY <1>1 DEF ClientSend
<1>3. new \in Packet /\ new.start = sent /\ new.size = p.size /\ new.id = p.id /\ sent \in Nat
  BY <1>1, Constants, ReadTypes DEF Packet
<1>4. packets \in Seq(Packet)
  BY DEF ReadInv, ReadTypeOK, Packet
<1>5. P' = P \cup {new} /\ packets' \in Seq(Packet)
  <2>1. packets' \in Seq(Packet) /\ Len(packets') = Len(packets) + 1 /\ Len(packets) \in Nat
        /\ \A i \in 1 .. Len(packets) + 1 : packets'[i] = IF i <= Len(packets) THEN packets[i] ELSE new
    BY <1>2, <1>3, <1>4, AppendProperties
  <2>2. DOMAIN packets = 1 .. Len(packets) /\ DOMAIN packets' = 1 .. Len(packets) + 1
    BY <1>4, <2>1
  <2>3. QED
    BY <2>1, <2>2 DEF P, ToSet
<1>6. sent' = EndOf(new) /\ sent' \in Nat /\ sent' > sent
  <2>1. p.size \in Nat
    BY Constants
  <2>2. QED
    BY <1>2, <1>3, <2>1, Constants DEF EndOf
<1>7. ReadTypeOK'
  BY <1>2, <1>5, <1>6 DEF ReadInv, ReadTypeOK, Packet
<1>8. \A q \in P : /\ q.start \in Nat /\ EndOf(q) \in Nat /\ EndOf(q) > q.start /\ EndOf(q) <= sent
  BY PacketType DEF ReadInv, Laid
<1>9. Laid'
  <2>1. \A q \in P' : \E r \in Packets : r.size = q.size /\ r.id = q.id
    BY <1>3, <1>5 DEF ReadInv, Laid
  <2>2. \A q, r \in P' : q = r \/ EndOf(q) <= r.start \/ EndOf(r) <= q.start
    BY <1>3, <1>5, <1>8 DEF ReadInv, Laid
  <2>3. \A q \in P' : EndOf(q) <= sent' /\ (EndOf(q) = sent' \/ \E r \in P' : r.start = EndOf(q))
    BY <1>3, <1>5, <1>6, <1>8 DEF ReadInv, Laid
  <2>4. QED
    BY <2>1, <2>2, <2>3 DEF Laid
<1>10. ReadPositions' /\ ReadHolds'
  BY <1>2, <1>3, <1>6, ReadTypes DEF ReadInv, ReadPositions, ReadHolds
<1>11. Between'
  BY <1>2, <1>3, <1>5, ReadTypes DEF ReadInv, ReadPositions, Between
<1>12. LeftBehind'
  <2>1. Well(new) => new.start + new.size > received
    BY <1>3, ReadTypes, Constants DEF Packet, Well, ReadInv, ReadPositions
  <2>2. Well(new) => ~(new.start + new.size <= received)
    BY <2>1, <1>3, ReadTypes, Constants DEF Packet
  <2>3. QED
    BY <1>2, <1>5, <2>2 DEF ReadInv, LeftBehind
<1>13. QED
  BY <1>7, <1>9, <1>10, <1>11, <1>12 DEF ReadInv

\* OnRead (Session.cpp:61-62) keeps the invariant.
LEMMA OnReadInv ==
  ASSUME ReadInv, NEW n \in 1 .. size_, OnRead(n)
  PROVE  ReadInv'
<1>1. /\ phase = "recv" /\ phase' = "parse" /\ received' = received + n /\ n <= sent - received
      /\ n <= size_ - readOv_.writePos_ + readOv_.readPos_
      /\ UNCHANGED <<packets, sent, parsed, packet>>
  BY DEF OnRead, RecvLen
<1>2. PICK pos \in Nat : pos = readOv_.readPos_
  BY ReadTypes
<1>3. PICK cells \in [Cells -> Int] : cells = readOv_.cells
  BY ReadTypes
<1>4. PICK k \in Nat : k = received - parsed
  BY ReadTypes
<1>5. /\ readOv_.writePos_ = pos + k /\ pos < size_ /\ k + n <= size_ /\ n \in Nat
      /\ received \in Nat /\ parsed \in Nat /\ sent \in Nat /\ size_ \in Nat
      /\ received = parsed + k
  BY <1>1, <1>2, <1>4, ReadTypes, Constants DEF ReadInv, ReadPositions
<1>6. readOv_' = [readOv_ EXCEPT !.writePos_ = readOv_.writePos_ + n,
                                 !.cells = Store(cells, pos + k, n, parsed + k)]
  BY <1>3, <1>5 DEF OnRead
<1>7. /\ readOv_'.readPos_ = pos /\ readOv_'.writePos_ = pos + k + n
      /\ readOv_'.cells = Store(cells, pos + k, n, parsed + k)
      /\ readOv_' \in Ring
  <2>1. pos + k \in Int /\ parsed + k \in Nat
    BY <1>5
  <2>2. Store(cells, pos + k, n, parsed + k) \in [Cells -> Int]
    BY <1>5, <2>1, RingType
  <2>3. PICK c \in [Cells -> Int] : c = Store(cells, pos + k, n, parsed + k)
    BY <2>2
  <2>4. PICK w \in Nat : w = pos + k + n
    BY <1>5
  <2>5. readOv_' = [readPos_ |-> pos, writePos_ |-> w, cells |-> c]
    <3>1. readOv_.writePos_ + n = w
      BY <1>5, <2>4
    <3>2. QED
      BY <1>2, <1>6, <2>3, <3>1, RingChange, ReadTypes
  <2>6. QED
    BY <2>3, <2>4, <2>5 DEF Ring
<1>8. ReadTypeOK'
  BY <1>1, <1>5, <1>7 DEF ReadInv, ReadTypeOK, Ring
<1>9. Laid' /\ Between' /\ LeftBehind'
  BY <1>1 DEF ReadInv, Laid, Between, LeftBehind, P
<1>10. ReadPositions'
  BY <1>1, <1>5, <1>7 DEF ReadInv, ReadPositions
<1>11. ReadHolds'
  <2>1. Holds(cells, pos, k, parsed)
    BY <1>2, <1>3, <1>4 DEF ReadInv, ReadHolds
  <2>2. pos \in 0 .. size_ - 1
    BY <1>5
  <2>3. Holds(Store(cells, pos + k, n, parsed + k), pos, k + n, parsed)
    BY <1>5, <2>1, <2>2, HoldsMore
  <2>4. received' - parsed' = k + n /\ parsed' = parsed
    BY <1>1, <1>5
  <2>5. QED
    BY <1>7, <2>3, <2>4 DEF ReadHolds
<1>12. QED
  BY <1>8, <1>9, <1>10, <1>11 DEF ReadInv

\* The header that is found at the read position is that of the packet that begins there.
LEMMA HeaderHere ==
  ASSUME ReadInv, availableData >= HeaderSize
  PROVE  header = {p \in P : p.start = parsed}
<1>1. /\ readOv_.readPos_ \in Nat /\ parsed \in Nat /\ received - parsed \in Nat
      /\ HeaderSize <= received - parsed /\ HeaderSize \in Nat /\ HeaderSize > 0
  BY ReadTypes, Constants
<1>2. Holds(readOv_.cells, readOv_.readPos_, received - parsed, parsed)
  BY DEF ReadInv, ReadHolds
<1>3. Load(readOv_.cells, readOv_.readPos_, HeaderSize) = Bytes(parsed, HeaderSize)
  <2>1. Holds(readOv_.cells, readOv_.readPos_ + 0, HeaderSize, parsed + 0)
    BY <1>1, <1>2, HoldsPart
  <2>2. readOv_.readPos_ + 0 = readOv_.readPos_ /\ parsed + 0 = parsed
    BY <1>1
  <2>3. QED
    BY <2>1, <2>2 DEF Holds
<1>4. ASSUME NEW p \in P PROVE Bytes(parsed, HeaderSize) = Bytes(p.start, HeaderSize) <=> p.start = parsed
  <2>1. ASSUME Bytes(parsed, HeaderSize) = Bytes(p.start, HeaderSize) PROVE p.start = parsed
    <3>1. Bytes(parsed, HeaderSize)[1] = parsed + 1 - 1 /\ Bytes(p.start, HeaderSize)[1] = p.start + 1 - 1
      BY <1>1 DEF Bytes
    <3>2. p.start \in Nat
      BY PacketType DEF ReadInv
    <3>3. QED
      BY <1>1, <2>1, <3>1, <3>2
  <2>2. QED
    BY <2>1
<1>5. QED
  BY <1>3, <1>4 DEF header, P

\* There is such a packet.
LEMMA HeaderThere ==
  ASSUME ReadInv, availableData >= HeaderSize
  PROVE  \E p \in header : p.start = parsed
<1>1. parsed # sent
  BY ReadTypes, Constants DEF ReadInv, ReadPositions
<1>2. QED
  BY <1>1, HeaderHere DEF ReadInv, Between

\* Consume (Session.cpp:80-89) keeps the invariant.
LEMMA ConsumeInv ==
  ASSUME ReadInv, NEW p \in header, Execute(p)
  PROVE  ReadInv'
<1>1. /\ phase = "parse" /\ readOv_' = [readOv_ EXCEPT !.readPos_ = readOv_.readPos_ + p.size]
      /\ packet' = Load(readOv_.cells, readOv_.readPos_, p.size) /\ parsed' = parsed + p.size
      /\ UNCHANGED <<packets, sent, received, phase>>
      /\ availableData >= HeaderSize /\ availableData >= p.size /\ p.size >= HeaderSize
  BY DEF Execute, Complete, Consume, ValidSize
<1>2. p \in P /\ p.start = parsed
  BY <1>1, HeaderHere
<1>3. PICK n \in Nat : n = p.size
  BY <1>2, PacketType DEF ReadInv
<1>4. /\ readOv_.readPos_ \in Nat /\ received \in Nat /\ parsed \in Nat /\ readOv_.cells \in [Cells -> Int]
      /\ received - parsed \in Nat /\ n <= received - parsed /\ n > 0 /\ HeaderSize \in Nat
  BY <1>1, <1>3, ReadTypes, Constants
<1>5. /\ readOv_'.readPos_ = readOv_.readPos_ + n /\ readOv_'.writePos_ = readOv_.writePos_
      /\ readOv_'.cells = readOv_.cells /\ readOv_' \in Ring
  <2>1. PICK r \in Nat : r = readOv_.readPos_ + n
    BY <1>4
  <2>2. readOv_' = [readPos_ |-> r, writePos_ |-> readOv_.writePos_, cells |-> readOv_.cells]
    BY <1>1, <1>3, <2>1, RingChange, ReadTypes
  <2>3. QED
    BY <2>1, <2>2, ReadTypes DEF Ring
<1>6. packet' \in Seq(Int)
  <2>1. readOv_.readPos_ \in Int
    BY <1>4
  <2>2. Load(readOv_.cells, readOv_.readPos_, n) \in Seq(Int)
    BY <1>4, <2>1, RingType
  <2>3. QED
    BY <1>1, <1>3, <2>2
<1>7. ReadTypeOK'
  <2>1. parsed' \in Nat
    BY <1>1, <1>3, <1>4
  <2>2. QED
    BY <1>1, <1>5, <1>6, <2>1 DEF ReadInv, ReadTypeOK, Ring
<1>8. Laid' /\ LeftBehind'
  BY <1>1 DEF ReadInv, Laid, LeftBehind, P
<1>9. parsed' = parsed + n /\ received' = received /\ sent' = sent
  BY <1>1, <1>3
<1>10. ReadPositions'
  BY <1>1, <1>4, <1>5, <1>9, Constants, ReadTypes DEF ReadInv, ReadPositions
<1>11. ReadHolds'
  <2>1. PICK k \in Nat : k = received - parsed - n
    BY <1>4
  <2>2. n + k <= received - parsed /\ received' - parsed' = k
    BY <1>4, <1>9, <2>1
  <2>3. Holds(readOv_.cells, readOv_.readPos_ + n, k, parsed + n)
    BY <1>4, <2>2, HoldsPart DEF ReadInv, ReadHolds
  <2>4. QED
    BY <1>5, <1>9, <2>2, <2>3 DEF ReadHolds
<1>12. EndOf(p) = parsed'
  BY <1>1, <1>2, <1>3, <1>9, PacketType DEF ReadInv, Well
<1>13. Between'
  <2>1. P' = P
    BY <1>1 DEF P
  <2>2. ASSUME NEW q \in P PROVE EndOf(q) <= parsed' \/ parsed' <= q.start
    <3>1. EndOf(q) \in Nat /\ q.start \in Nat /\ EndOf(q) > q.start
      BY PacketType DEF ReadInv
    <3>2. p = q \/ EndOf(p) <= q.start \/ EndOf(q) <= p.start
      BY <1>2 DEF ReadInv, Laid
    <3>3. QED
      BY <1>2, <1>4, <1>9, <1>12, <3>1, <3>2
  <2>3. parsed' = sent \/ \E q \in P : q.start = parsed'
    BY <1>2, <1>12 DEF ReadInv, Laid
  <2>4. QED
    BY <1>9, <2>1, <2>2, <2>3 DEF Between
<1>14. QED
  BY <1>7, <1>8, <1>10, <1>11, <1>13 DEF ReadInv

\* InvalidSize (Session.cpp:71-76) keeps the invariant.
LEMMA InvalidSizeInv ==
  ASSUME ReadInv, InvalidSize
  PROVE  ReadInv'
<1>1. /\ phase' = "closed" /\ availableData >= HeaderSize /\ \A p \in header : ~ValidSize(p)
      /\ UNCHANGED <<packets, sent, readOv_, received, parsed, packet>>
  BY DEF InvalidSize
<1>2. PICK p \in P : p.start = parsed /\ ~ValidSize(p)
  BY <1>1, HeaderHere, HeaderThere
<1>3. ~Well(p)
  BY <1>2, PacketType, Constants DEF ReadInv, ValidSize, Well
<1>4. ReadTypeOK' /\ Laid' /\ ReadPositions' /\ ReadHolds' /\ Between'
  BY <1>1 DEF ReadInv, ReadTypeOK, Laid, ReadPositions, ReadHolds, Between, P
<1>5. LeftBehind'
  BY <1>1, <1>2, <1>3 DEF LeftBehind, P
<1>6. QED
  BY <1>4, <1>5 DEF ReadInv

\* When the loop ends, every complete packet was handled.
LEMMA NoneComplete ==
  ASSUME ReadInv, Incomplete
  PROVE  /\ \A p \in P : Well(p) /\ p.start + p.size <= received => p.start + p.size <= parsed
         /\ received - parsed < size_
<1>1. /\ received \in Nat /\ parsed \in Nat /\ HeaderSize \in Nat /\ availableData = received - parsed
      /\ \A p \in P : /\ p.start \in Nat /\ p.size \in Nat /\ EndOf(p) \in Nat /\ EndOf(p) > p.start
                      /\ (Well(p) => EndOf(p) = p.start + p.size)
                      /\ (EndOf(p) <= parsed \/ parsed <= p.start)
  BY ReadTypes, Constants, PacketType DEF ReadInv, Between
<1>2. CASE availableData < HeaderSize
  <2>1. \A p \in P : Well(p) => p.size >= HeaderSize
    BY DEF Well
  <2>2. QED
    BY <1>1, <1>2, <2>1, Constants
<1>3. CASE availableData >= HeaderSize
  <2>1. PICK h \in P : h.start = parsed /\ ValidSize(h) /\ availableData < h.size
    BY <1>1, <1>3, HeaderHere DEF Incomplete
  <2>2. Well(h) /\ EndOf(h) > received /\ h.size < size_
    BY <1>1, <2>1 DEF ValidSize, Well
  <2>3. ASSUME NEW p \in P, Well(p), p.start + p.size <= received PROVE p.start + p.size <= parsed
    <3>1. p = h \/ EndOf(p) <= h.start \/ EndOf(h) <= p.start
      BY DEF ReadInv, Laid
    <3>2. QED
      BY <1>1, <2>1, <2>2, <2>3, <3>1
  <2>4. QED
    BY <1>1, <2>1, <2>2, <2>3, Constants
<1>4. QED
  BY <1>1, <1>2, <1>3

\* RegisterRead (Session.cpp:25-59) keeps the invariant.
LEMMA RegisterReadInv ==
  ASSUME ReadInv, RegisterRead
  PROVE  ReadInv'
<1>1. /\ phase = "parse" /\ readOv_' = PullBack
      /\ UNCHANGED <<packets, sent, received, parsed, packet>>
  BY DEF RegisterRead
<1>2. /\ \A p \in P : Well(p) /\ p.start + p.size <= received => p.start + p.size <= parsed
      /\ received - parsed < size_
  BY NoneComplete DEF RegisterRead
<1>3. PICK r \in Nat : r = readOv_.readPos_
  BY ReadTypes
<1>4. PICK k \in Nat : k = received - parsed
  BY ReadTypes
<1>5. /\ readOv_.writePos_ = r + k /\ r + k < 2 * size_ /\ k < size_ /\ size_ \in Nat
      /\ received \in Nat /\ parsed \in Nat /\ sent \in Nat
  BY <1>2, <1>3, <1>4, ReadTypes, Constants DEF ReadInv, ReadPositions
<1>6. PICK s : s = IF r >= size_ THEN r - size_ ELSE r
  OBVIOUS
<1>a. s \in 0 .. size_ - 1 /\ s \in Nat /\ s + k \in Nat
  BY <1>5, <1>6
<1>7. /\ readOv_'.readPos_ = s /\ readOv_'.writePos_ = s + k /\ readOv_'.cells = readOv_.cells
      /\ readOv_' \in Ring
  <2>1. readOv_' = [readPos_ |-> s, writePos_ |-> s + k, cells |-> readOv_.cells]
    <3>1. CASE r >= size_
      <4>1. readOv_' = [readOv_ EXCEPT !.readPos_ = readOv_.readPos_ - size_,
                                       !.writePos_ = readOv_.writePos_ - size_]
        BY <1>1, <1>3, <3>1 DEF PullBack
      <4>2. readOv_.readPos_ - size_ = s /\ readOv_.writePos_ - size_ = s + k
        BY <1>3, <1>5, <1>6, <3>1
      <4>3. PICK w : w = s + k
        OBVIOUS
      <4>4. readOv_' = [readOv_ EXCEPT !.readPos_ = s, !.writePos_ = w]
        BY <4>1, <4>2, <4>3
      <4>5. readOv_' = [readPos_ |-> s, writePos_ |-> w, cells |-> readOv_.cells]
        BY <4>4, RingChange, ReadTypes
      <4>6. QED
        BY <4>3, <4>5
    <3>2. CASE r < size_
      <4>1. readOv_' = readOv_ /\ s = r
        BY <1>1, <1>3, <1>5, <1>6, <3>2 DEF PullBack
      <4>2. readOv_ = [readPos_ |-> readOv_.readPos_, writePos_ |-> readOv_.writePos_,
                       cells |-> readOv_.cells]
        BY ReadTypes DEF Ring
      <4>3. QED
        BY <1>3, <1>5, <4>1, <4>2
    <3>3. QED
      BY <1>5, <3>1, <3>2
  <2>2. QED
    BY <1>a, <2>1, ReadTypes DEF Ring
<1>8. phase' = "recv"
  <2>1. RecvLen' # 0
    BY <1>5, <1>a, <1>7 DEF RecvLen
  <2>2. QED
    BY <2>1 DEF RegisterRead
<1>9. ReadTypeOK'
  BY <1>1, <1>7, <1>8 DEF ReadInv, ReadTypeOK, Ring
<1>10. Laid' /\ Between'
  BY <1>1 DEF ReadInv, Laid, Between, P
<1>11. ReadPositions'
  BY <1>1, <1>4, <1>5, <1>a, <1>7, <1>8 DEF ReadInv, ReadPositions
<1>12. ReadHolds'
  <2>1. Holds(readOv_.cells, r, k, parsed)
    BY <1>3, <1>4 DEF ReadInv, ReadHolds
  <2>2. Holds(readOv_.cells, s, k, parsed)
    <3>1. CASE r >= size_
      <4>1. r \in size_ .. 2 * size_ - 1 /\ r + k <= 2 * size_ /\ s = r - size_
        BY <1>5, <1>6, <3>1
      <4>2. QED
        BY <1>5, <2>1, <4>1, HoldsPulledBack
    <3>2. CASE r < size_
      BY <1>5, <1>6, <2>1, <3>2
    <3>3. QED
      BY <1>5, <3>1, <3>2
  <2>3. received' - parsed' = k /\ parsed' = parsed
    BY <1>1, <1>4
  <2>4. QED
    BY <1>7, <2>2, <2>3 DEF ReadHolds
<1>13. LeftBehind'
  BY <1>1, <1>2, <1>8 DEF LeftBehind, P
<1>14. QED
  BY <1>9, <1>10, <1>11, <1>12, <1>13 DEF ReadInv
-----------------------------------------------------------------------------
(* The write ring. *)

\* The fields of the write side have their types.
LEMMA WriteTypes ==
  ASSUME WriteInv
  PROVE  /\ writeOv_ \in Ring /\ writeOv_.readPos_ \in Nat /\ writeOv_.writePos_ \in Nat
         /\ writeOv_.cells \in [Cells -> Int] /\ queued \in Nat /\ transmitted \in Nat
         /\ queued - transmitted \in Nat /\ waiting = queued - transmitted
<1>1. /\ writeOv_ \in Ring /\ writeOv_.readPos_ \in Nat /\ writeOv_.writePos_ \in Nat
      /\ writeOv_.cells \in [Cells -> Int] /\ queued \in Nat /\ transmitted \in Nat
  BY DEF WriteInv, WriteTypeOK, Ring
<1>2. QED
  BY <1>1 DEF WriteInv, WritePositions, waiting

\* SendPacket (Session.cpp:160-182) keeps the invariant.
LEMMA SendPacketInv ==
  ASSUME WriteInv, NEW size \in Nat, SendPacket(size), connected' \in BOOLEAN
  PROVE  WriteInv'
<1>1. PICK pos \in Nat : pos = writeOv_.readPos_
  BY WriteTypes
<1>2. PICK k \in Nat : k = queued - transmitted
  BY WriteTypes
<1>3. PICK cells \in [Cells -> Int] : cells = writeOv_.cells
  BY WriteTypes
<1>4. /\ writeOv_.writePos_ = pos + k /\ pos < size_ /\ k + size <= size_ /\ size_ \in Nat
      /\ queued \in Nat /\ transmitted \in Nat /\ queued = transmitted + k
      /\ pos + k \in Nat /\ pos + k + size \in Nat
  BY <1>1, <1>2, WriteTypes, Constants DEF WriteInv, WritePositions, SendPacket, Room
<1>5. PICK new \in [Cells -> Int] : new = Store(cells, pos + k, size, transmitted + k)
  <2>1. pos + k \in Int /\ transmitted + k \in Nat
    BY <1>4
  <2>2. QED
    BY <2>1, RingType
<1>6. PICK w \in Nat : w = pos + k + size
  BY <1>4
<1>7. writeOv_' = [readPos_ |-> pos, writePos_ |-> w, cells |-> new]
  <2>1. writeOv_' = [writeOv_ EXCEPT !.writePos_ = w, !.cells = new]
    BY <1>3, <1>4, <1>5, <1>6 DEF SendPacket
  <2>2. QED
    BY <1>1, <2>1, RingChange, WriteTypes
<1>8. /\ writeOv_'.readPos_ = pos /\ writeOv_'.writePos_ = w /\ writeOv_'.cells = new
      /\ writeOv_' \in Ring
  BY <1>7 DEF Ring
<1>9. /\ queued' = queued + size /\ isSending_' = TRUE
      /\ UNCHANGED <<transmitted, chunk>>
  BY DEF SendPacket
<1>10. \/ wsaBuf_' = wsaBuf_ /\ post' = post /\ isSending_
       \/ wsaBuf_' = [buf |-> pos, len |-> w - pos] /\ post' \in {"posted", "refused"}
  BY <1>8 DEF SendPacket, RegisterWriteInternal
<1>11. w - pos \in Nat /\ w - pos = k + size /\ queued' - transmitted' = k + size /\ queued' \in Nat
  BY <1>4, <1>6, <1>9
<1>12. WriteTypeOK'
  <2>1. wsaBuf_' \in [buf : Nat, len : Nat] /\ post' \in {"none", "posted", "refused"}
    BY <1>10, <1>11 DEF WriteInv, WriteTypeOK
  <2>2. isSending_' \in BOOLEAN /\ connected' \in BOOLEAN
    BY <1>9
  <2>3. QED
    BY <1>8, <1>9, <1>11, <2>1, <2>2 DEF WriteInv, WriteTypeOK, Ring
<1>13. WritePositions'
  <2>1. wsaBuf_'.buf = pos /\ wsaBuf_'.len <= k + size
    <3>1. CASE wsaBuf_' = wsaBuf_ /\ isSending_
      BY <1>1, <1>2, <3>1 DEF WriteInv, WriteTypeOK, WritePositions
    <3>2. CASE wsaBuf_' = [buf |-> pos, len |-> w - pos]
      BY <1>11, <3>2
    <3>3. QED
      BY <1>10, <3>1, <3>2
  <2>2. QED
    BY <1>4, <1>6, <1>8, <1>9, <1>11, <2>1 DEF WritePositions
<1>14. WriteHolds'
  <2>1. Holds(cells, pos, k, transmitted)
    BY <1>1, <1>2, <1>3 DEF WriteInv, WriteHolds
  <2>2. pos \in 0 .. size_ - 1
    BY <1>4
  <2>3. Holds(Store(cells, pos + k, size, transmitted + k), pos, k + size, transmitted)
    BY <1>4, <2>1, <2>2, HoldsMore
  <2>4. QED
    BY <1>5, <1>8, <1>9, <1>11, <2>3 DEF WriteHolds
<1>15. QED
  BY <1>12, <1>13, <1>14 DEF WriteInv

\* OnWrite (Session.cpp:136-158) keeps the invariant.
LEMMA OnWriteInv ==
  ASSUME WriteInv, NEW n \in 1 .. size_, OnWrite(n)
  PROVE  WriteInv'
<1>1. /\ isSending_ /\ n <= wsaBuf_.len /\ transmitted' = transmitted + n
      /\ writeOv_' = Advance(n) /\ isSending_' = ~Sent(writeOv_')
      /\ IF isSending_' THEN RegisterWriteInternal(writeOv_') ELSE post' = "none" /\ UNCHANGED wsaBuf_
      /\ connected' = (connected /\ post' # "refused") /\ queued' = queued
  BY DEF OnWrite, WriteInv, WritePositions
<1>2. PICK r \in Nat : r = writeOv_.readPos_
  BY WriteTypes
<1>3. n \in Nat /\ n <= queued - transmitted /\ queued \in Nat /\ transmitted \in Nat
  BY <1>1, WriteTypes, Constants DEF WriteInv, WriteTypeOK, WritePositions
<1>4. PICK k \in Nat : k = queued - transmitted - n
  BY <1>3
<1>5. /\ writeOv_.writePos_ = r + n + k /\ r < size_ /\ n + k <= size_ /\ size_ \in Nat
      /\ queued - transmitted = n + k
  BY <1>2, <1>3, <1>4, WriteTypes, Constants DEF WriteInv, WritePositions
<1>6. PICK s : s = IF r + n >= size_ THEN r + n - size_ ELSE r + n
  OBVIOUS
<1>7. s \in Nat /\ s < size_ /\ s + k \in Nat
  BY <1>3, <1>5, <1>6
<1>8. PICK w \in Nat : w = s + k
  BY <1>7
<1>9. writeOv_' = [readPos_ |-> s, writePos_ |-> w, cells |-> writeOv_.cells]
  <2>1. PICK ov : ov = [writeOv_ EXCEPT !.readPos_ = writeOv_.readPos_ + n]
    OBVIOUS
  <2>2. ov = [readPos_ |-> r + n, writePos_ |-> writeOv_.writePos_, cells |-> writeOv_.cells]
    BY <1>2, <2>1, RingChange, WriteTypes
  <2>3. ov \in Ring /\ ov.readPos_ = r + n /\ ov.writePos_ = r + n + k /\ ov.cells = writeOv_.cells
    <3>1. r + n \in Nat
      BY <1>3
    <3>2. QED
      BY <1>5, <2>2, <3>1, WriteTypes DEF Ring
  <2>4. writeOv_' = IF ov.readPos_ >= size_
                    THEN [ov EXCEPT !.readPos_ = ov.readPos_ - size_, !.writePos_ = ov.writePos_ - size_]
                    ELSE ov
    BY <1>1, <2>1 DEF Advance
  <2>5. CASE r + n >= size_
    <3>1. ov.readPos_ - size_ = s /\ ov.writePos_ - size_ = w
      BY <1>3, <1>5, <1>6, <1>8, <2>3, <2>5
    <3>2. writeOv_' = [ov EXCEPT !.readPos_ = s, !.writePos_ = w]
      BY <2>3, <2>4, <2>5, <3>1
    <3>3. writeOv_' = [readPos_ |-> s, writePos_ |-> w, cells |-> ov.cells]
      BY <2>3, <3>2, RingChange
    <3>4. QED
      BY <2>3, <3>3
  <2>6. CASE ~(r + n >= size_)
    <3>1. writeOv_' = ov /\ s = r + n /\ writeOv_.writePos_ = w
      BY <1>5, <1>6, <1>8, <2>3, <2>4, <2>6
    <3>2. QED
      BY <2>2, <3>1
  <2>7. QED
    BY <2>5, <2>6
<1>10. /\ writeOv_'.readPos_ = s /\ writeOv_'.writePos_ = w /\ writeOv_'.cells = writeOv_.cells
       /\ writeOv_' \in Ring
  BY <1>7, <1>8, <1>9, WriteTypes DEF Ring
<1>11. queued' - transmitted' = k /\ transmitted' \in Nat /\ w - s = k /\ transmitted' <= queued'
  BY <1>1, <1>3, <1>4, <1>7, <1>8
<1>12. WriteTypeOK'
  <2>1. wsaBuf_' \in [buf : Nat, len : Nat]
    <3>1. wsaBuf_' = wsaBuf_ \/ wsaBuf_' = [buf |-> s, len |-> w - s]
      BY <1>1, <1>10 DEF RegisterWriteInternal
    <3>2. QED
      BY <1>7, <1>11, <3>1 DEF WriteInv, WriteTypeOK
  <2>2. isSending_' \in BOOLEAN /\ connected' \in BOOLEAN
    BY <1>1 DEF WriteInv, WriteTypeOK, Sent
  <2>3. post' \in {"none", "posted", "refused"}
    BY <1>1 DEF RegisterWriteInternal
  <2>4. QED
    BY <1>1, <1>10, <1>11, <2>1, <2>2, <2>3 DEF WriteInv, WriteTypeOK, Ring
<1>13. WritePositions'
  <2>1. /\ isSending_' => wsaBuf_' = [buf |-> s, len |-> w - s]
        /\ post' = "posted" => isSending_'
    BY <1>1, <1>10 DEF RegisterWriteInternal
  <2>2. isSending_' => wsaBuf_'.buf = s /\ wsaBuf_'.len <= k
    BY <1>11, <2>1
  <2>3. QED
    BY <1>5, <1>7, <1>8, <1>10, <1>11, <2>1, <2>2, <1>3 DEF WritePositions
<1>14. WriteHolds'
  <2>1. Holds(writeOv_.cells, r, n + k, transmitted)
    BY <1>2, <1>5 DEF WriteInv, WriteHolds
  <2>2. n + k \in Nat /\ n + k <= n + k
    BY <1>3
  <2>3. Holds(writeOv_.cells, r + n, k, transmitted + n)
    BY <1>3, <2>1, <2>2, HoldsPart
  <2>4. PICK a \in Nat : a = r + n
    BY <1>3
  <2>5. PICK f \in Nat : f = transmitted + n
    BY <1>3
  <2>6. Holds(writeOv_.cells, s, k, f)
    <3>1. CASE a >= size_
      <4>1. a \in size_ .. 2 * size_ - 1 /\ a + k <= 2 * size_ /\ s = a - size_
        BY <1>3, <1>5, <1>6, <2>4, <3>1
      <4>2. QED
        BY <2>3, <2>4, <2>5, <4>1, HoldsPulledBack
    <3>2. CASE ~(a >= size_)
      BY <1>6, <2>3, <2>4, <2>5, <3>2
    <3>3. QED
      BY <3>1, <3>2
  <2>7. QED
    BY <1>1, <1>10, <1>11, <2>5, <2>6 DEF WriteHolds
<1>15. QED
  BY <1>12, <1>13, <1>14 DEF WriteInv

\* Disconnect (IocpCore.cpp:108-119) keeps the invariant.
LEMMA DisconnectInv ==
  ASSUME WriteInv, Disconnect
  PROVE  WriteInv'
<1>1. /\ connected' \in BOOLEAN /\ post' = "none"
      /\ UNCHANGED <<writeOv_, isSending_, wsaBuf_, queued, transmitted>>
  BY DEF Disconnect
<1>2. QED
  BY <1>1 DEF WriteInv, WriteTypeOK, WritePositions, WriteHolds
-----------------------------------------------------------------------------
(* What is relayed. *)

\* A packet is accepted for the client.
LEMMA AcceptedInv ==
  ASSUME Outbox, NEW m \in Message, m.start = queued, queued' = queued + m.size,
         outbox' = Append(outbox, m), parsed \in Nat, parsed' \in Nat, parsed <= parsed',
         Relayed(m) => parsed <= m.from.start /\ m.from.start < parsed' /\ m.from.start \in Nat,
         Honest => Faithful(m)
  PROVE  Outbox'
<1>1. outbox \in Seq(Message) /\ Len(outbox) \in Nat
  BY DEF Outbox
<1>2. /\ outbox' \in Seq(Message) /\ Len(outbox') = Len(outbox) + 1
      /\ \A i \in 1 .. Len(outbox) + 1 : outbox'[i] = IF i <= Len(outbox) THEN outbox[i] ELSE m
  BY <1>1, AppendProperties
<1>3. PICK N \in Nat : N = Len(outbox)
  BY <1>1
<1>4. /\ Len(outbox') = N + 1 /\ outbox'[N + 1] = m
      /\ \A i \in 1 .. N : outbox'[i] = outbox[i] /\ i \in 1 .. N + 1
      /\ \A i \in 1 .. N + 1 : i \in 1 .. N \/ i = N + 1
  BY <1>2, <1>3
<1>5. Chained'
  <2> SUFFICES ASSUME NEW k \in 1 .. N + 1
               PROVE  End(outbox'[k]) = IF k = N + 1 THEN queued' ELSE outbox'[k + 1].start
    BY <1>4 DEF Chained
  <2>1. CASE k = N + 1
    BY <1>4, <2>1 DEF End
  <2>2. CASE k = N
    <3>1. k \in 1 .. N /\ k + 1 = N + 1 /\ k # N + 1
      BY <2>2
    <3>2. End(outbox[k]) = queued
      BY <1>3, <2>2, <3>1 DEF Outbox, Chained
    <3>3. QED
      BY <1>4, <3>1, <3>2
  <2>3. CASE k < N
    <3>1. k \in 1 .. N /\ k + 1 \in 1 .. N /\ k # N /\ k # N + 1
      BY <2>3
    <3>2. End(outbox[k]) = outbox[k + 1].start
      BY <1>3, <3>1 DEF Outbox, Chained
    <3>3. QED
      BY <1>4, <3>1, <3>2
  <2>4. k = N + 1 \/ k = N \/ k < N
    OBVIOUS
  <2>5. QED
    BY <2>1, <2>2, <2>3, <2>4, Zenon
<1>6. \A k \in 1 .. N : Relayed(outbox[k]) => outbox[k].from.start < parsed /\ outbox[k].from.start \in Int
  <2> TAKE k \in 1 .. N
  <2>1. outbox[k] \in Message
    BY <1>1, <1>3
  <2>2. Relayed(outbox[k]) => outbox[k].from.start \in Int
    BY <2>1 DEF Message, Relayed
  <2>3. QED
    BY <1>3, <2>2 DEF Outbox, InOrder
<1>7. InOrder'
  <2>1. \A k \in 1 .. N + 1 : Relayed(outbox'[k]) => outbox'[k].from.start < parsed'
    BY <1>4, <1>6
  <2>2. ASSUME NEW j \in 1 .. N + 1, NEW k \in 1 .. N + 1, j < k, Relayed(outbox'[j]), Relayed(outbox'[k])
        PROVE  outbox'[j].from.start < outbox'[k].from.start
    <3>1. j \in 1 .. N
      BY <2>2
    <3>2. CASE k \in 1 .. N
      BY <1>3, <1>4, <2>2, <3>1, <3>2 DEF Outbox, InOrder
    <3>3. CASE k = N + 1
      BY <1>4, <1>6, <2>2, <3>1, <3>3
    <3>4. QED
      BY <1>4, <3>2, <3>3
  <2>3. QED
    BY <1>4, <2>1, <2>2 DEF InOrder
<1>8. Honest => \A k \in 1 .. N + 1 : Faithful(outbox'[k])
  BY <1>3, <1>4 DEF Outbox
<1>9. QED
  BY <1>2, <1>4, <1>5, <1>7, <1>8 DEF Outbox

\* Nothing is accepted.
LEMMA OutboxKept ==
  ASSUME Outbox, UNCHANGED <<outbox, queued>>, parsed \in Nat, parsed' \in Nat, parsed <= parsed'
  PROVE  Outbox'
<1>1. \A k \in 1 .. Len(outbox) : Relayed(outbox[k]) => outbox[k].from.start \in Int
  <2> TAKE k \in 1 .. Len(outbox)
  <2>1. outbox[k] \in Message
    BY DEF Outbox
  <2>2. QED
    BY <2>1 DEF Message, Relayed
<1>2. InOrder'
  BY <1>1 DEF Outbox, InOrder
<1>3. QED
  BY <1>2 DEF Outbox, Chained

\* The packet that a handler makes of the one at the read position.
LEMMA Handled ==
  ASSUME Inv, NEW p \in header, Execute(p)
  PROVE  LET m == handlers(p)
         IN /\ m \in Message /\ m.start = queued /\ Relayed(m) /\ m.from.start = parsed /\ m.from = p
            /\ Honest => Faithful(m) /\ m.size > 0
<1>1. /\ availableData >= HeaderSize /\ availableData >= p.size /\ ValidSize(p)
      /\ p.size >= HeaderSize
  BY DEF Execute, Complete, ValidSize
<1>2. p \in P /\ p.start = parsed
  BY <1>1, HeaderHere DEF Inv
<1>3. p \in Packet /\ p.size \in Nat /\ p.size < SizeMod
  BY <1>2, PacketType DEF Inv, ReadInv
<1>4. p.id \in {"kMove", "kChat"} /\ p.id \in {q.id : q \in Packets}
  BY <1>3, RelayAssumption DEF Packet
<1>5. /\ readOv_.readPos_ \in Nat /\ parsed \in Nat /\ received - parsed \in Nat
      /\ readOv_.cells \in [Cells -> Int] /\ availableData = received - parsed
      /\ Holds(readOv_.cells, readOv_.readPos_, received - parsed, parsed)
      /\ queued \in Nat
  BY ReadTypes, WriteTypes DEF Inv, ReadInv, ReadHolds
<1>6. readOv_.readPos_ + HeaderSize \in Int /\ p.size - HeaderSize \in Nat
  BY <1>1, <1>3, <1>5, Constants
<1>7. PICK M : M = Load(readOv_.cells, readOv_.readPos_ + HeaderSize, MoveSize)
  OBVIOUS
<1>8. PICK C : C = Load(readOv_.cells, readOv_.readPos_ + HeaderSize, p.size - HeaderSize)
  OBVIOUS
<1>9. M \in Seq(Int) /\ C \in Seq(Int)
  <2>1. M \in Seq(Int)
    BY <1>5, <1>6, <1>7, RingType, Constants
  <2>2. C \in Seq(Int)
    BY <1>5, <1>6, <1>8, RingType, Constants
  <2>3. QED
    BY <2>1, <2>2
<1>10. C = Bytes(p.start + HeaderSize, p.size - HeaderSize)
  <2>1. HeaderSize + (p.size - HeaderSize) <= received - parsed
    BY <1>1, <1>3, <1>5, Constants
  <2>2. Holds(readOv_.cells, readOv_.readPos_ + HeaderSize, p.size - HeaderSize, parsed + HeaderSize)
    BY <1>5, <1>6, <2>1, HoldsPart, Constants
  <2>3. QED
    BY <1>2, <1>8, <2>2 DEF Holds
<1>11. CASE p.id = "kMove"
  <2>1. PICK z \in 0 .. SizeMod - 1 : z = S2C_MOVE
    BY Constants DEF S2C_MOVE
  <2>a. z > 0
    BY <2>1, Constants DEF S2C_MOVE
  <2>2. handlers(p) = [from |-> p, start |-> queued, size |-> z, length |-> z, message |-> M]
    BY <1>7, <1>11, <2>1 DEF handlers, HandleC2S_MOVE
  <2>3. handlers(p) \in Message
    BY <1>3, <1>5, <1>9, <2>2, Constants DEF Message, Packet
  <2>4. Honest => M = Bytes(p.start + HeaderSize, MoveSize)
    <3> SUFFICES ASSUME Honest PROVE M = Bytes(p.start + HeaderSize, MoveSize)
      OBVIOUS
    <3>1. p.size >= HeaderSize + MoveSize
      <4>1. PICK q \in Packets : q.size = p.size /\ q.id = p.id
        BY <1>2 DEF Inv, ReadInv, Laid
      <4>2. QED
        BY <1>1, <1>11, <4>1 DEF Honest, ValidSize
    <3>2. HeaderSize + MoveSize <= received - parsed
      BY <1>1, <1>3, <1>5, <3>1, Constants
    <3>3. Holds(readOv_.cells, readOv_.readPos_ + HeaderSize, MoveSize, parsed + HeaderSize)
      BY <1>5, <3>2, HoldsPart, Constants
    <3>4. QED
      BY <1>2, <1>7, <3>3 DEF Holds
  <2>5. QED
    BY <1>2, <1>11, <2>a, <2>2, <2>3, <2>4 DEF Relayed, Faithful
<1>12. CASE p.id = "kChat"
  <2>1. PICK z \in 0 .. SizeMod - 1 : z = (p.size + HandleSize) % SizeMod
    BY <1>3, Constants
  <2>2. PICK l \in Nat : l = p.size + HandleSize
    BY <1>3, Constants
  <2>a. l > 0
    BY <1>1, <1>3, <2>2, Constants
  <2>3. handlers(p) = [from |-> p, start |-> queued, size |-> z, length |-> l, message |-> C]
    BY <1>8, <1>12, <2>1, <2>2 DEF handlers, HandleC2S_CHAT
  <2>4. handlers(p) \in Message
    BY <1>3, <1>5, <1>9, <2>3, Constants DEF Message, Packet
  <2>5. Honest => z = l
    <3> SUFFICES ASSUME Honest PROVE z = l
      OBVIOUS
    <3>1. p.size + HandleSize < SizeMod
      <4>1. PICK q \in Packets : q.size = p.size /\ q.id = p.id
        BY <1>2 DEF Inv, ReadInv, Laid
      <4>2. QED
        BY <1>1, <1>12, <4>1 DEF Honest, ValidSize
    <3>2. QED
      BY <1>3, <2>1, <2>2, <3>1, Constants
  <2>6. QED
    BY <1>2, <1>10, <1>12, <2>a, <2>3, <2>4, <2>5 DEF Relayed, Faithful
<1>13. QED
  BY <1>4, <1>11, <1>12

\* A packet is sent, or there is no room for it.
Sends(m) ==
  \/ SendPacket(m.size) /\ outbox' = Append(outbox, m)
  \/ SendFails(m.size) /\ UNCHANGED outbox

\* Both keep the invariant, whatever the caller makes of the result.
LEMMA SendsInv ==
  ASSUME WriteInv, Outbox, NEW m \in Message, m.start = queued, Sends(m), connected' \in BOOLEAN,
         parsed \in Nat, parsed' \in Nat, parsed <= parsed',
         Relayed(m) => parsed <= m.from.start /\ m.from.start < parsed' /\ m.from.start \in Nat,
         Honest => Faithful(m)
  PROVE  WriteInv' /\ Outbox'
<1>1. m.size \in Nat
  BY Constants DEF Message
<1>2. CASE SendPacket(m.size) /\ outbox' = Append(outbox, m)
  <2>1. queued' = queued + m.size
    BY <1>2 DEF SendPacket
  <2>2. WriteInv'
    BY <1>1, <1>2, SendPacketInv
  <2>3. Outbox'
    BY <1>2, <2>1, AcceptedInv
  <2>4. QED
    BY <2>2, <2>3
<1>3. CASE SendFails(m.size) /\ UNCHANGED outbox
  <2>1. UNCHANGED <<writeOv_, isSending_, wsaBuf_, post, queued, transmitted, chunk>>
    BY <1>3 DEF SendFails
  <2>2. WriteInv'
    BY <2>1 DEF WriteInv, WriteTypeOK, WritePositions, WriteHolds
  <2>3. Outbox'
    BY <1>3, <2>1, OutboxKept
  <2>4. QED
    BY <2>2, <2>3
<1>4. QED
  BY <1>2, <1>3 DEF Sends

\* ExecutePacket (PacketHandler.cpp:61-63) keeps the invariant.
LEMMA ExecutePacketInv ==
  ASSUME Inv, NEW p \in header, ExecutePacket(p)
  PROVE  Inv'
<1>1. Execute(p) /\ Broadcast(handlers(p))
  BY DEF ExecutePacket
<1>2. ReadInv'
  BY <1>1, ConsumeInv DEF Inv
<1>3. PICK m \in Message : m = handlers(p)
  BY <1>1, Handled
<1>4. m.start = queued /\ Relayed(m) /\ m.from.start = parsed /\ (Honest => Faithful(m))
  BY <1>1, <1>3, Handled
<1>5. parsed \in Nat /\ parsed' \in Nat /\ parsed < parsed'
  <2>1. p.size \in Nat /\ p.size >= HeaderSize /\ parsed' = parsed + p.size
    <3>1. p \in P
      BY DEF header, P
    <3>2. QED
      BY <1>1, <3>1, PacketType DEF Execute, Complete, Consume, ValidSize, Inv, ReadInv
  <2>2. QED
    BY <2>1, ReadTypes, Constants DEF Inv
<1>6. Sends(m) /\ connected' \in BOOLEAN
  BY <1>1, <1>3 DEF Broadcast, Sends, Inv, WriteInv, WriteTypeOK
<1>7. WriteInv' /\ Outbox'
  BY <1>4, <1>5, <1>6, SendsInv DEF Inv
<1>8. QED
  BY <1>2, <1>7 DEF Inv

\* A step that leaves the read side alone.
LEMMA ReadKept ==
  ASSUME Inv, UNCHANGED rvars
  PROVE  ReadInv' /\ parsed \in Nat /\ parsed' = parsed
<1>1. UNCHANGED <<packets, sent, readOv_, received, parsed, packet, phase>>
  BY DEF rvars
<1>2. ReadInv'
  BY <1>1 DEF Inv, ReadInv, ReadTypeOK, Laid, ReadPositions, ReadHolds, Between, LeftBehind, P
<1>3. QED
  BY <1>1, <1>2, ReadTypes DEF Inv

\* The welcome packet is a packet, though a short one.
LEMMA Welcomed ==
  ASSUME Inv
  PROVE  LET m == welcomePacket
         IN m \in Message /\ m.start = queued /\ ~Relayed(m) /\ Faithful(m) /\ m.size > 0
<1>1. PICK z \in 0 .. SizeMod - 1 : z = HeaderSize + WelcomeSize /\ z > 0
  BY Constants
<1>2. PICK l \in Nat : l = HeaderSize + HandleSize + WelcomeSize
  BY Constants
<1>3. welcomePacket = [from |-> [id |-> "welcome"], start |-> queued, size |-> z, length |-> l,
                       message |-> << >>]
  BY <1>1, <1>2 DEF welcomePacket
<1>4. queued \in Nat /\ << >> \in Seq(Int)
  BY WriteTypes DEF Inv
<1>5. welcomePacket \in Message
  BY <1>3, <1>4 DEF Message
<1>6. QED
  BY <1>1, <1>3, <1>5 DEF Relayed, Faithful

\* SendWelcome (Session.cpp:212-221) keeps the invariant.
LEMMA SendWelcomeInv ==
  ASSUME Inv, SendWelcome
  PROVE  Inv'
<1>1. PICK m \in Message : m = welcomePacket
  BY Welcomed
<1>2. m.start = queued /\ ~Relayed(m) /\ Faithful(m)
  BY <1>1, Welcomed
<1>3. UNCHANGED rvars /\ Sends(m)
  BY <1>1 DEF SendWelcome, Sends
<1>4. connected' \in BOOLEAN
  BY DEF SendWelcome, SendResult, Inv, WriteInv, WriteTypeOK
<1>5. ReadInv' /\ parsed \in Nat /\ parsed' = parsed
  BY <1>3, ReadKept
<1>6. parsed' \in Nat /\ parsed <= parsed'
  BY <1>5
<1>7. WriteInv' /\ Outbox'
  BY <1>2, <1>3, <1>4, <1>5, <1>6, SendsInv DEF Inv
<1>8. QED
  BY <1>5, <1>7 DEF Inv

\* A step of the reader that handles no packet.
LEMMA ReaderInv ==
  ASSUME Inv, Reader
  PROVE  Inv'
<1>1. UNCHANGED <<wvars, outbox>>
  BY DEF Reader
<1>2. ReadInv'
  BY ClientSendInv, OnReadInv, InvalidSizeInv, RegisterReadInv DEF Reader, Inv
<1>3. parsed' = parsed
  BY DEF Reader, ClientSend, OnRead, InvalidSize, RegisterRead
<1>4. WriteInv'
  BY <1>1 DEF wvars, Inv, WriteInv, WriteTypeOK, WritePositions, WriteHolds
<1>5. parsed \in Nat /\ parsed <= parsed' /\ parsed' \in Nat
  BY <1>3, ReadTypes DEF Inv
<1>6. Outbox'
  BY <1>1, <1>5, OutboxKept DEF Inv, wvars
<1>7. QED
  BY <1>2, <1>4, <1>6 DEF Inv

\* A completion of a write.
LEMMA WriterInv ==
  ASSUME Inv, Writer
  PROVE  Inv'
<1>1. UNCHANGED <<rvars, outbox>> /\ queued' = queued
  BY DEF Writer, Disconnect, OnWrite
<1>2. ReadInv' /\ parsed \in Nat /\ parsed' = parsed
  BY <1>1, ReadKept
<1>3. WriteInv'
  BY DisconnectInv, OnWriteInv DEF Writer, Inv
<1>4. parsed <= parsed' /\ parsed' \in Nat
  BY <1>2
<1>5. Outbox'
  BY <1>1, <1>2, <1>4, OutboxKept DEF Inv
<1>6. QED
  BY <1>2, <1>3, <1>5 DEF Inv

\* The initial state satisfies the invariant.
LEMMA InitInv == Init => Inv
<1> SUFFICES ASSUME Init PROVE Inv
  OBVIOUS
<1>1. Cleared \in [Cells -> Int] /\ size_ \in Nat /\ size_ > 0
  BY Constants DEF Cleared
<1>2. P = {} /\ packets \in Seq(Packet) /\ packet \in Seq(Int)
  BY DEF Init, RInit, P, ToSet
<1>3. \A f : Holds(Cleared, 0, 0, f)
  BY DEF Holds, Load, Bytes
<1>4. readOv_ \in Ring /\ readOv_.readPos_ = 0 /\ readOv_.writePos_ = 0 /\ readOv_.cells = Cleared
  BY <1>1 DEF Init, RInit, Ring
<1>5. ReadTypeOK
  BY <1>2, <1>4 DEF Init, RInit, ReadTypeOK, Packet, Ring
<1>6. Laid /\ Between /\ LeftBehind
  BY <1>2 DEF Init, RInit, Laid, Between, LeftBehind
<1>7. ReadPositions
  BY <1>1, <1>4 DEF Init, RInit, ReadPositions
<1>8. ReadHolds
  <2>1. received - parsed = 0
    BY DEF Init, RInit
  <2>2. QED
    BY <1>3, <1>4, <2>1 DEF ReadHolds
<1>9. writeOv_ \in Ring /\ writeOv_.readPos_ = 0 /\ writeOv_.writePos_ = 0 /\ writeOv_.cells = Cleared
  BY <1>1 DEF Init, WInit, Ring
<1>10. WriteTypeOK
  <2>1. isSending_ \in BOOLEAN /\ connected \in BOOLEAN
    BY DEF Init, WInit
  <2>2. QED
    BY <1>9, <2>1 DEF Init, WInit, WriteTypeOK, Ring
<1>11. WritePositions
  <2>1. ~isSending_ /\ post = "none" /\ queued = 0 /\ transmitted = 0
    BY DEF Init, WInit
  <2>2. QED
    BY <1>1, <1>9, <2>1 DEF WritePositions
<1>12. WriteHolds
  <2>1. queued - transmitted = 0
    BY DEF Init, WInit
  <2>2. QED
    BY <1>3, <1>9, <2>1 DEF WriteHolds
<1>13. Outbox
  BY DEF Init, Outbox, Chained, InOrder
<1>14. QED
  BY <1>5, <1>6, <1>7, <1>8, <1>10, <1>11, <1>12, <1>13 DEF Inv, ReadInv, WriteInv

\* The invariant is inductive.
LEMMA NextInv ==
  ASSUME Inv, [Next]_vars PROVE Inv'
<1>1. CASE UNCHANGED vars
  <2>1. UNCHANGED <<rvars, wvars, outbox>>
    BY <1>1 DEF vars
  <2>2. ReadInv' /\ parsed \in Nat /\ parsed' = parsed
    BY <2>1, ReadKept
  <2>3. WriteInv'
    BY <2>1 DEF wvars, Inv, WriteInv, WriteTypeOK, WritePositions, WriteHolds
  <2>4. Outbox'
    BY <2>1, <2>2, OutboxKept DEF Inv, wvars
  <2>5. QED
    BY <2>2, <2>3, <2>4 DEF Inv
<1>2. QED
  BY <1>1, ReaderInv, ExecutePacketInv, SendWelcomeInv, WriterInv DEF Next

\* It holds of every behaviour.
LEMMA InvHolds == Spec => []Inv
<1>1. Inv /\ [Next]_vars => Inv'
  BY NextInv
<1>2. QED
  BY <1>1, InitInv, PTL DEF Spec
-----------------------------------------------------------------------------
(* The properties. *)

\* Session.cpp:25-182: positions, counts and packets keep their types, however the bytes
\* arrive and leave; in particular no position becomes negative when it is pulled back.
THEOREM RelayTyped == Spec => []TypeOK
<1>1. ASSUME Inv PROVE TypeOK
  <2>1. ASSUME NEW k \in DOMAIN outbox PROVE outbox[k].start \in Nat /\ outbox[k].size \in 0 .. SizeMod - 1
    <3>1. outbox[k] \in Message
      BY <1>1 DEF Inv, Outbox
    <3>2. QED
      BY <3>1 DEF Message
  <2>2. QED
    BY <1>1, <2>1 DEF Inv, ReadInv, WriteInv, TypeOK
<1>2. QED
  BY <1>1, InvHolds, PTL

\* Session.cpp:64-90: fragmented or glued together, the client's stream is cut into its own
\* packets; none that is complete is left behind, and the session is closed only for a bad
\* size.
THEOREM Framed == Spec => []Framing
<1>1. ASSUME Inv PROVE Framing
  <2>1. ASSUME NEW p \in P PROVE ~(p.start < parsed /\ parsed < p.start + p.size)
    BY <1>1, PacketType, ReadTypes DEF Inv, ReadInv, Between
  <2>2. QED
    BY <1>1, <2>1 DEF Inv, ReadInv, LeftBehind, Framing, P
<1>2. QED
  BY <1>1, InvHolds, PTL

\* Session.cpp:27-35, 92-95, 109-110, 142-145, MagicBuffer.cpp:35-47: whatever the size of
\* the ring, what the kernel and the parser are given is mapped and has not been overwritten,
\* and the read ring never fills up.
THEOREM StaysInside == Spec => []RingsInside
<1>1. ASSUME Inv PROVE RingsInside
  <2>1. ReadInside
    <3>1. phase # "overflow"
      BY <1>1 DEF Inv, ReadInv, ReadPositions
    <3>2. phase = "recv" => Mapped(readOv_.writePos_, RecvLen)
      BY <1>1, ReadTypes, Constants DEF Inv, ReadInv, ReadPositions, Mapped, RecvLen
    <3>3. Mapped(readOv_.readPos_, availableData)
      BY <1>1, ReadTypes, Constants DEF Inv, ReadInv, ReadPositions, Mapped
    <3>4. Load(readOv_.cells, readOv_.readPos_, availableData) = Bytes(parsed, availableData)
      BY <1>1, ReadTypes DEF Inv, ReadInv, ReadHolds, Holds
    <3>5. QED
      BY <3>1, <3>2, <3>3, <3>4 DEF ReadInside
  <2>2. WriteInside
    <3>1. Mapped(writeOv_.readPos_, size_) /\ writeOv_.readPos_ <= writeOv_.writePos_
      BY <1>1, WriteTypes, Constants DEF Inv, WriteInv, WritePositions, Mapped
    <3>2. isSending_ => wsaBuf_.buf = writeOv_.readPos_ /\ wsaBuf_.len <= waiting
      BY <1>1, WriteTypes DEF Inv, WriteInv, WritePositions
    <3>3. Load(writeOv_.cells, writeOv_.readPos_, waiting) = Bytes(transmitted, waiting)
      BY <1>1, WriteTypes DEF Inv, WriteInv, WriteHolds, Holds
    <3>4. QED
      BY <3>1, <3>2, <3>3 DEF WriteInside
  <2>3. QED
    BY <2>1, <2>2 DEF RingsInside
<1>2. QED
  BY <1>1, InvHolds, PTL

\* PacketHandler.cpp:13-55, Session.cpp:162-170: as long as the clients' packets are the
\* right size for their handlers, what a client is sent is one packet after the other, each
\* starting where the size field of the one before ends; a relayed one is whole, with the
\* message it was made from, in the sender's order.  The welcome packet, whose size field
\* leaves its handle out, breaks nothing but itself.
THEOREM Whole ==
  ASSUME Honest PROVE Spec => []RelayedWhole
<1>1. ASSUME Inv PROVE RelayedWhole
  <2>1. DOMAIN outbox = 1 .. Len(outbox)
    BY <1>1 DEF Inv, Outbox
  <2>2. ASSUME NEW k \in 1 .. Len(outbox)
        PROVE  LET m == outbox[k]
                   next == IF k = Len(outbox) THEN queued ELSE outbox[k + 1].start
               IN /\ next = m.start + m.size
                  /\ m.from.id # "welcome" =>
                       /\ m.size = m.length
                       /\ m.message = Bytes(m.from.start + HeaderSize,
                                            IF m.from.id = "kMove" THEN MoveSize
                                            ELSE m.from.size - HeaderSize)
    BY <1>1 DEF Inv, Outbox, Chained, End, Faithful, Relayed
  <2>3. ASSUME NEW j \in 1 .. Len(outbox), NEW k \in 1 .. Len(outbox), j < k,
               "welcome" \notin {outbox[j].from.id, outbox[k].from.id}
        PROVE  outbox[j].from.start < outbox[k].from.start
    BY <1>1, <2>3 DEF Inv, Outbox, InOrder, Relayed
  <2>4. QED
    BY <2>1, <2>2, <2>3 DEF RelayedWhole
<1>2. QED
  BY <1>1, InvHolds, PTL

\* Session.cpp:25-103: the read ring implements a bounded queue of bytes.
THEOREM ReadRefines == Spec => ReadIsQueue
<1>1. Init => ReadQueue!Init
  BY DEF Init, RInit, ReadQueue!Init
<1>2. ASSUME Inv, [Next]_vars PROVE [ReadQueue!Next]_(ReadQueue!vars)
  <2>1. ASSUME NEW n \in 1 .. size_, OnRead(n) PROVE ReadQueue!Put
    BY <1>2, <2>1, ReadTypes, Constants DEF Inv, ReadInv, ReadPositions, OnRead, RecvLen, ReadQueue!Put
  <2>2. ASSUME NEW p \in header, Execute(p) PROVE ReadQueue!Get
    <3>1. /\ packet' = Load(readOv_.cells, readOv_.readPos_, p.size) /\ parsed' = parsed + p.size
          /\ received' = received /\ availableData >= p.size /\ p.size >= HeaderSize
      BY <2>2 DEF Execute, Complete, Consume, ValidSize
    <3>2. p \in P
      BY DEF header, P
    <3>3. PICK n \in Nat : n = p.size
      BY <1>2, <3>2, PacketType DEF Inv, ReadInv
    <3>4. /\ readOv_.readPos_ \in Nat /\ parsed \in Nat /\ received \in Nat /\ received - parsed \in Nat
          /\ n <= received - parsed /\ n > 0
      BY <1>2, <3>1, <3>3, ReadTypes, Constants DEF Inv
    <3>5. Load(readOv_.cells, readOv_.readPos_, n) = Bytes(parsed, n)
      <4>1. Holds(readOv_.cells, readOv_.readPos_ + 0, n, parsed + 0)
        BY <1>2, <3>4, HoldsPart DEF Inv, ReadInv, ReadHolds
      <4>2. readOv_.readPos_ + 0 = readOv_.readPos_ /\ parsed + 0 = parsed
        BY <3>4
      <4>3. QED
        BY <4>1, <4>2 DEF Holds
    <3>6. parsed' - parsed = n /\ parsed' \in parsed + 1 .. received
      BY <3>1, <3>3, <3>4
    <3>7. packet' = [i \in 1 .. parsed' - parsed |-> parsed + i - 1]
      BY <3>1, <3>3, <3>5, <3>6 DEF Bytes
    <3>8. QED
      BY <3>1, <3>6, <3>7 DEF ReadQueue!Get
  <2>3. CASE UNCHANGED <<received, parsed, packet>>
    BY <2>3 DEF ReadQueue!vars
  <2>4. \/ \E n \in 1 .. size_ : OnRead(n)
        \/ \E p \in header : Execute(p)
        \/ UNCHANGED <<received, parsed, packet>>
    BY <1>2 DEF Next, Reader, Writer, SendWelcome, ExecutePacket, ClientSend, InvalidSize, RegisterRead,
                vars, rvars
  <2>5. QED
    BY <2>1, <2>2, <2>3, <2>4 DEF ReadQueue!Next
<1>3. QED
  BY <1>1, <1>2, InvHolds, PTL DEF Spec, ReadIsQueue, ReadQueue!Spec

\* Session.cpp:105-182: the write ring implements a bounded queue of bytes.
THEOREM WriteRefines == Spec => WriteIsQueue
<1>1. Init => WriteQueue!Init
  BY DEF Init, WInit, WriteQueue!Init
<1>2. ASSUME Inv, [Next]_vars PROVE [WriteQueue!Next]_(WriteQueue!vars)
  <2>1. ASSUME NEW size \in Nat, SendPacket(size) PROVE [WriteQueue!Next]_(WriteQueue!vars)
    <3>1. /\ queued' = queued + size /\ UNCHANGED <<transmitted, chunk>>
          /\ queued - transmitted + size <= size_
      BY <1>2, <2>1, WriteTypes DEF SendPacket, Room, waiting, Inv
    <3>2. CASE size = 0
      BY <1>2, <3>1, <3>2, WriteTypes DEF Inv, WriteQueue!vars
    <3>3. CASE size > 0
      <4>1. queued' \in queued + 1 .. transmitted + size_
        BY <1>2, <3>1, <3>3, WriteTypes, Constants DEF Inv
      <4>2. QED
        BY <3>1, <4>1 DEF WriteQueue!Next, WriteQueue!Put
    <3>4. QED
      BY <3>2, <3>3
  <2>2. ASSUME NEW n \in 1 .. size_, OnWrite(n) PROVE WriteQueue!Get
    <3>1. /\ chunk' = Load(writeOv_.cells, writeOv_.readPos_, n) /\ transmitted' = transmitted + n
          /\ queued' = queued /\ n <= queued - transmitted
      BY <1>2, <2>2, WriteTypes, Constants DEF OnWrite, Inv, WriteInv, WriteTypeOK, WritePositions
    <3>2. /\ writeOv_.readPos_ \in Nat /\ transmitted \in Nat /\ queued \in Nat /\ n \in Nat
          /\ queued - transmitted \in Nat
      BY <1>2, WriteTypes DEF Inv
    <3>3. Load(writeOv_.cells, writeOv_.readPos_, n) = Bytes(transmitted, n)
      <4>1. Holds(writeOv_.cells, writeOv_.readPos_ + 0, n, transmitted + 0)
        BY <1>2, <3>1, <3>2, HoldsPart DEF Inv, WriteInv, WriteHolds
      <4>2. writeOv_.readPos_ + 0 = writeOv_.readPos_ /\ transmitted + 0 = transmitted
        BY <3>2
      <4>3. QED
        BY <4>1, <4>2 DEF Holds
    <3>4. transmitted' - transmitted = n /\ transmitted' \in transmitted + 1 .. queued
      BY <3>1, <3>2
    <3>5. chunk' = [i \in 1 .. transmitted' - transmitted |-> transmitted + i - 1]
      BY <3>1, <3>3, <3>4 DEF Bytes
    <3>6. QED
      BY <3>1, <3>4, <3>5 DEF WriteQueue!Get
  <2>3. CASE UNCHANGED <<queued, transmitted, chunk>>
    BY <2>3 DEF WriteQueue!vars
  <2>4. \/ \E size \in Nat : SendPacket(size)
        \/ \E n \in 1 .. size_ : OnWrite(n)
        \/ UNCHANGED <<queued, transmitted, chunk>>
    <3>1. ASSUME NEW p \in header, ExecutePacket(p)
          PROVE  (\E size \in Nat : SendPacket(size)) \/ UNCHANGED <<queued, transmitted, chunk>>
      <4>1. PICK m \in Message : m = handlers(p)
        BY <1>2, <3>1, Handled DEF ExecutePacket
      <4>2. m.size \in Nat
        BY Constants DEF Message
      <4>3. SendPacket(m.size) \/ UNCHANGED <<queued, transmitted, chunk>>
        BY <3>1, <4>1 DEF ExecutePacket, Broadcast, SendFails
      <4>4. QED
        BY <4>2, <4>3
    <3>2. ASSUME SendWelcome
          PROVE  (\E size \in Nat : SendPacket(size)) \/ UNCHANGED <<queued, transmitted, chunk>>
      <4>1. PICK m \in Message : m = welcomePacket
        BY <1>2, Welcomed
      <4>2. m.size \in Nat
        BY Constants DEF Message
      <4>3. SendPacket(m.size) \/ UNCHANGED <<queued, transmitted, chunk>>
        BY <3>2, <4>1 DEF SendWelcome, SendFails
      <4>4. QED
        BY <4>2, <4>3
    <3>3. QED
      BY <1>2, <3>1, <3>2 DEF Next, Reader, Writer, Disconnect, vars, wvars
  <2>5. QED
    BY <2>1, <2>2, <2>3, <2>4 DEF WriteQueue!Next
<1>3. QED
  BY <1>1, <1>2, InvHolds, PTL DEF Spec, WriteIsQueue, WriteQueue!Spec
-----------------------------------------------------------------------------
(* Nothing is forgotten in the write ring. *)

\* Without isSending_ the ring is empty; a session that is not told to disconnect has not
\* lost its write; and what was posted is not empty.
Carried ==
  /\ ~isSending_ => queued = transmitted
  /\ connected /\ isSending_ => post # "none"
  /\ post = "posted" => wsaBuf_.len > 0

\* A packet is sent, or there is no room for it.
LEMMA CarriedSends ==
  ASSUME WriteInv, Carried, NEW m, m.size \in Nat, m.size > 0, Sends(m), connected' => connected
  PROVE  Carried'
<1>1. CASE SendPacket(m.size)
  <2>1. CASE isSending_
    BY <1>1, <2>1 DEF SendPacket, Carried
  <2>2. CASE ~isSending_
    <3>1. isSending_' /\ RegisterWriteInternal(writeOv_')
      BY <1>1, <2>2 DEF SendPacket
    <3>2. /\ writeOv_'.readPos_ = writeOv_.readPos_
          /\ writeOv_'.writePos_ = writeOv_.writePos_ + m.size
      BY <1>1, WriteTypes DEF SendPacket, Ring
    <3>3. writeOv_.readPos_ \in Nat /\ writeOv_.writePos_ \in Nat
          /\ writeOv_.writePos_ >= writeOv_.readPos_
      BY WriteTypes DEF WriteInv, WritePositions
    <3>4. wsaBuf_'.len > 0 /\ post' # "none"
      BY <3>1, <3>2, <3>3 DEF RegisterWriteInternal
    <3>5. QED
      BY <3>1, <3>4 DEF Carried
  <2>3. QED
    BY <2>1, <2>2
<1>2. CASE SendFails(m.size)
  BY <1>2 DEF SendFails, Carried
<1>3. QED
  BY <1>1, <1>2 DEF Sends

\* OnWrite posts what is left, or the ring is empty.
LEMMA CarriedOnWrite ==
  ASSUME WriteInv, WriteInv', NEW n \in 1 .. size_, OnWrite(n)
  PROVE  Carried'
<1>1. /\ isSending_' => writeOv_'.readPos_ # writeOv_'.writePos_
      /\ ~isSending_' => writeOv_'.readPos_ = writeOv_'.writePos_
      /\ IF isSending_' THEN RegisterWriteInternal(writeOv_') ELSE post' = "none" /\ UNCHANGED wsaBuf_
  BY DEF OnWrite, Sent
<1>2. /\ writeOv_'.readPos_ \in Nat /\ queued' \in Nat /\ transmitted' \in Nat
      /\ writeOv_'.writePos_ = writeOv_'.readPos_ + (queued' - transmitted')
      /\ transmitted' <= queued'
  BY DEF WriteInv, WriteTypeOK, WritePositions
<1>3. CASE isSending_'
  <2>1. writeOv_'.writePos_ - writeOv_'.readPos_ > 0
    BY <1>1, <1>2, <1>3
  <2>2. wsaBuf_'.len > 0 /\ post' # "none"
    BY <1>1, <1>3, <2>1 DEF RegisterWriteInternal
  <2>3. QED
    BY <1>3, <2>2 DEF Carried
<1>4. CASE ~isSending_'
  <2>1. queued' = transmitted'
    BY <1>1, <1>2, <1>4
  <2>2. QED
    BY <1>1, <1>4, <2>1 DEF Carried
<1>5. QED
  BY <1>3, <1>4

\* Carried is inductive relative to the invariant.
LEMMA CarriedNext ==
  ASSUME Honest, Inv, Inv', Carried, [Next]_vars PROVE Carried'
<1>1. ASSUME NEW p \in header, ExecutePacket(p) PROVE Carried'
  <2>1. PICK m \in Message : m = handlers(p)
    BY <1>1, Handled DEF ExecutePacket
  <2>2. m.size \in Nat /\ m.size > 0
    BY <1>1, <2>1, Handled, Constants DEF ExecutePacket, Message
  <2>3. Sends(m) /\ connected' = connected
    BY <1>1, <2>1 DEF ExecutePacket, Broadcast, Sends
  <2>4. QED
    BY <2>2, <2>3, CarriedSends DEF Inv
<1>2. ASSUME SendWelcome PROVE Carried'
  <2>1. PICK m \in Message : m = welcomePacket
    BY Welcomed
  <2>2. m.size \in Nat /\ m.size > 0
    BY <2>1, Welcomed, Constants DEF Message
  <2>3. Sends(m) /\ connected
    BY <1>2, <2>1 DEF SendWelcome, Sends
  <2>4. QED
    BY <2>2, <2>3, CarriedSends DEF Inv
<1>3. ASSUME NEW n \in 1 .. size_, OnWrite(n) PROVE Carried'
  BY <1>3, CarriedOnWrite DEF Inv
<1>4. CASE Disconnect
  BY <1>4 DEF Disconnect, Carried
<1>5. CASE UNCHANGED wvars
  BY <1>5 DEF wvars, Carried
<1>6. QED
  BY <1>1, <1>2, <1>3, <1>4, <1>5 DEF Next, Reader, Writer, vars

\* Session.cpp:147-150, 172-178: as long as the clients' packets are the right size for their
\* handlers, no byte is forgotten in the write ring of a session that is not told to
\* disconnect and whose WSASend was not refused: one is outstanding and carries some of them.
THEOREM Unstranded ==
  ASSUME Honest PROVE Spec => []NothingStranded
<1>1. Init => Carried
  BY DEF Init, WInit, Carried
<1>2. Inv /\ Inv' /\ Carried /\ [Next]_vars => Carried'
  BY CarriedNext
<1>3. Inv /\ Carried => NothingStranded
  BY WriteTypes DEF Inv, WriteInv, WriteTypeOK, Carried, NothingStranded
<1>4. QED
  BY <1>1, <1>2, <1>3, InvHolds, PTL DEF Spec
=============================================================================
