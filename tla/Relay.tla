------------------------------- MODULE Relay -------------------------------
(***************************************************************************)
(* Network/Server/PacketHandler.cpp between two sessions: what one client  *)
(* sends is cut into packets (ReadStream), each packet is turned into one  *)
(* that names its sender, and is broadcast into the write ring of another  *)
(* client's session (WriteStream), into which the worker that accepted     *)
(* that client puts its welcome.                                           *)
(***************************************************************************)
EXTENDS ReadStream, WriteStream

CONSTANTS
  HandleSize,  \* sizeof(sessionHandle)
  MoveSize,    \* x and y of C2S_MOVE and S2C_MOVE
  WelcomeSize  \* the text of the welcome packet with its terminating zero

ASSUME RelayAssumption ==
  /\ HandleSize \in Nat /\ MoveSize \in Nat /\ WelcomeSize \in Nat
  /\ HeaderSize + HandleSize + MoveSize < SizeMod   \* S2C_MOVE has 20 bytes
  /\ HeaderSize + WelcomeSize < SizeMod             \* a 64-bit number in decimal
  /\ {p.id : p \in Packets} \subseteq {"kMove", "kChat"}

VARIABLE outbox   \* what was accepted for the client: a sequence of packets

vars == <<rvars, wvars, outbox>>

Init == RInit /\ WInit /\ outbox = << >>

(* A packet made from packet p: what its size field says, how long it really is, and
   the bytes of the sender's stream it carries. *)

\* sizeof(S2C_MOVE)
S2C_MOVE == HeaderSize + HandleSize + MoveSize

HandleC2S_MOVE(p) ==
  [from |-> p, start |-> queued,
   size |-> S2C_MOVE,
   length |-> S2C_MOVE,
   message |-> Load(readOv_.cells, readOv_.readPos_ + HeaderSize, MoveSize)]

\* mutant: the handle's bytes are not counted
HandleC2S_CHAT_NoHandle(p) ==
  [from |-> p, start |-> queued,
   size |-> p.size,
   length |-> p.size + HandleSize,
   message |-> Load(readOv_.cells, readOv_.readPos_ + HeaderSize, p.size - HeaderSize)]

\* The size is added up in 16 bits.
HandleC2S_CHAT(p) ==
  [from |-> p, start |-> queued,
   size |-> (p.size + HandleSize) % SizeMod,
   length |-> p.size + HandleSize,
   message |-> Load(readOv_.cells, readOv_.readPos_ + HeaderSize, p.size - HeaderSize)]

handlers(p) == IF p.id = "kMove" THEN HandleC2S_MOVE(p) ELSE HandleC2S_CHAT(p)

\* Broadcast sends as many bytes as the size field says, if there is room, and does not
\* look at what SendPacket returns.
Broadcast(m) ==
  \/ SendPacket(m.size) /\ outbox' = Append(outbox, m) /\ UNCHANGED connected
  \/ SendFails(m.size) /\ UNCHANGED <<outbox, connected>>

ExecutePacket(p) == Execute(p) /\ Broadcast(handlers(p))

\* The welcome packet, an S2C_CHAT with an empty handle.  The size field leaves the handle
\* out, so the last bytes of the text are not sent.
welcomePacket ==
  [from |-> [id |-> "welcome"], start |-> queued,
   size |-> HeaderSize + WelcomeSize,
   length |-> HeaderSize + HandleSize + WelcomeSize,
   message |-> << >>]

\* Connect sends it once; if SendPacket returns false the session is disconnected.
SendWelcome ==
  /\ connected /\ \A k \in DOMAIN outbox : outbox[k].from.id # "welcome"
  /\ \/ /\ SendPacket(welcomePacket.size)
        /\ outbox' = Append(outbox, welcomePacket)
        /\ connected' = SendResult
     \/ SendFails(welcomePacket.size) /\ connected' = FALSE /\ UNCHANGED outbox
  /\ UNCHANGED rvars

Reader ==
  /\ \/ \E p \in Packets : ClientSend(p)
     \/ \E n \in 1 .. size_ : OnRead(n)
     \/ InvalidSize
     \/ RegisterRead
  /\ UNCHANGED <<wvars, outbox>>

Writer ==
  /\ Disconnect \/ \E n \in 1 .. size_ : OnWrite(n)
  /\ UNCHANGED <<rvars, outbox>>

Next ==
  \/ Reader
  \/ \E p \in header : ExecutePacket(p)
  \/ SendWelcome
  \/ Writer

Spec == Init /\ [][Next]_vars
-----------------------------------------------------------------------------
TypeOK ==
  /\ ReadTypeOK /\ WriteTypeOK
  /\ \A k \in DOMAIN outbox : outbox[k].start \in Nat /\ outbox[k].size \in 0 .. SizeMod - 1

\* Session.cpp:27-35, 92-95, 109-110, 142-145: what is read, parsed and sent lies inside
\* the mappings of the two rings, and no byte that is still needed is overwritten.
RingsInside == ReadInside /\ WriteInside

\* PacketHandler.cpp:13-55, Session.cpp:162-170: what a client is sent is one packet after
\* the other, each starting where the size field of the one before says it ends, whoever
\* sends and whatever is refused.  A relayed packet is as long as its size field says, carries
\* exactly the message of the packet it was made from, and one sender's packets keep their
\* order.  (The welcome packet is cut short: Session.cpp:215-216.)
RelayedWhole ==
  /\ \A k \in DOMAIN outbox :
       LET m == outbox[k]
           next == IF k = Len(outbox) THEN queued ELSE outbox[k + 1].start
       IN /\ next = m.start + m.size
          /\ m.from.id # "welcome" =>
               /\ m.size = m.length
               /\ m.message = Bytes(m.from.start + HeaderSize,
                                    IF m.from.id = "kMove" THEN MoveSize
                                    ELSE m.from.size - HeaderSize)
  /\ \A j, k \in DOMAIN outbox :
       j < k /\ "welcome" \notin {outbox[j].from.id, outbox[k].from.id}
         => outbox[j].from.start < outbox[k].from.start

\* Tests/Integration/04_Broadcast.cpp:24-31 "size_t expectedSize = sendPacket.header.size +
\* sizeof(uint64_t);  // 세션 ID 추가" (the session id is added): a relayed chat packet says
\* that it is as long as the one it was made from and a handle.
HandleAdded ==
  \A k \in DOMAIN outbox :
    LET m == outbox[k]
    IN m.from.id = "kChat" => m.size = m.from.size + HandleSize
=============================================================================
