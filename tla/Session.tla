------------------------------- MODULE Session -------------------------------
(***************************************************************************)
(* The life of one session: Network/Server/Session.cpp, the worker loop of *)
(* IocpCore.cpp that drives it, the reference counting of SparsePool.hpp   *)
(* and SharedPoolPtr.hpp and the table of SessionManager.cpp.              *)
(*                                                                         *)
(* A session is alive while somebody holds a SharedPoolPtr to it: the      *)
(* table sessionPtrs_, the OverlappedEx of an I/O that was posted, or a    *)
(* local variable of a thread.  Whoever drops the last one runs the        *)
(* deleter and pushes the slot back, whose generation then goes up.        *)
(*                                                                         *)
(* One slot of the pool is modelled; sessions share nothing but the pool   *)
(* and the port.  The thread in PostAccept that takes the slot out of the  *)
(* pool is Poster.  The reads and writes are followed as operations; their *)
(* bytes are in ReadStream and WriteStream.  A packet handler never sends  *)
(* on its own session; what the handlers of other sessions send on this    *)
(* one is in module Broadcast.                                             *)
(***************************************************************************)
EXTENDS Integers, FiniteSets

CONSTANTS
  Workers,   \* the threads of IocpCore
  Poster,    \* the thread that runs PostAccept
  MaxLives,  \* bound: how often the slot is handed out
  Faults     \* which of "accept", "disconnect" may fail (and "send": see Broadcast)

Threads == Workers \cup {Poster}
Op == {"read", "write", "disconnect"}

ASSUME SessionAssumption ==
  /\ IsFiniteSet(Workers) /\ Poster \notin Workers
  /\ MaxLives \in Nat
  /\ Faults \subseteq {"accept", "disconnect", "send"}

VARIABLES
  state,       \* the slot's SessionState in the pool
  generation_, \* the slot's generation: a handle is valid if it carries it
  refCount_,
  table,       \* sessionPtrs_[idx]: Null or the generation of the handle in it
  ovPtr,       \* sessionPtr_ of readOv_, writeOv_ and disconnectOv_
  accepting,   \* readOv_.ioType_ = kAccept (else kRecv)
  isSending_,
  io,          \* what the kernel does with each OVERLAPPED: none, posted, or done
  up,          \* is the socket connected?
  pc, task, result,  \* each thread: where it is, which completion it handles
  locals,      \* how many local SharedPoolPtrs it has
  crashed      \* a null session pointer was dereferenced

pool == <<state, generation_>>
threads == <<pc, task, result>>
vars == <<state, generation_, refCount_, table, ovPtr, accepting, isSending_, io, up,
          threads, locals, crashed>>

Null == -1
Done == {"ok", "zero", "error"}

Valid(g) == g = generation_
Count(g) == IF Valid(g) THEN 1 ELSE 0
Goto(t, label) == pc' = [pc EXCEPT ![t] = label] /\ UNCHANGED <<task, result>>

Init ==
  /\ state = "kIdle" /\ generation_ = 0 /\ refCount_ = 0 /\ table = Null
  /\ ovPtr = [op \in Op |-> Null] /\ accepting = FALSE /\ isSending_ = FALSE
  /\ io = [op \in Op |-> "none"] /\ up = FALSE
  /\ pc = [t \in Threads |-> "idle"]
  /\ task = [t \in Threads |-> "none"] /\ result = [t \in Threads |-> "none"]
  /\ locals = [t \in Threads |-> 0]
  /\ crashed = FALSE
-----------------------------------------------------------------------------
(* Listener::PostAccept with SessionManager::CreateSession and RegisterAccept: the
   slot becomes kPending; the table, readOv_ and PostAccept's local refer to it. *)
PostAccept(t) ==
  /\ pc[t] = "idle" /\ state = "kIdle" /\ generation_ < MaxLives
  /\ state' = "kPending"
  /\ refCount_' = refCount_ + 3
  /\ table' = generation_
  /\ ovPtr' = [ovPtr EXCEPT !["read"] = generation_]
  /\ accepting' = TRUE
  /\ io' = [io EXCEPT !["read"] = "posted"]
  /\ locals' = [locals EXCEPT ![t] = 1]
  /\ Goto(t, "drop")
  /\ UNCHANGED <<generation_, isSending_, up, crashed>>

\* GetQueuedCompletionStatus returns: the worker copies the OverlappedEx's pointer.
\* A null copy is dereferenced at once by HandleError or Dispatch.
Take(t, op) ==
  /\ pc[t] = "idle" /\ io[op] \in Done
  /\ io' = [io EXCEPT ![op] = "none"]
  /\ IF Valid(ovPtr[op])
     THEN /\ refCount_' = refCount_ + 1
          /\ locals' = [locals EXCEPT ![t] = 1]
          /\ pc' = [pc EXCEPT ![t] = IF io[op] = "error" THEN "error" ELSE "dispatch"]
          /\ task' = [task EXCEPT ![t] = op]
          /\ result' = [result EXCEPT ![t] = io[op]]
          /\ UNCHANGED crashed
     ELSE crashed' = TRUE /\ UNCHANGED <<refCount_, locals, threads>>
  /\ UNCHANGED <<pool, table, ovPtr, accepting, isSending_, up>>

\* mutant: the OverlappedEx forgets its pointer without ReleaseRef
TakeOver_NoRelease(t) ==
  /\ locals' = [locals EXCEPT ![t] = 2]
  /\ ovPtr' = [ovPtr EXCEPT ![task[t]] = Null]
  /\ refCount_' = refCount_ + 1

\* The handler copies the pointer once more and resets the OverlappedEx's.
TakeOver(t) ==
  /\ locals' = [locals EXCEPT ![t] = 2]
  /\ ovPtr' = [ovPtr EXCEPT ![task[t]] = Null]
  /\ UNCHANGED refCount_

\* IocpCore::HandleError keeps disconnectOv_'s reference.
HandleError(t) ==
  /\ pc[t] = "error"
  /\ IF task[t] = "disconnect"
     THEN /\ locals' = [locals EXCEPT ![t] = 2]
          /\ refCount_' = refCount_ + 1
          /\ Goto(t, "clear")
          /\ UNCHANGED ovPtr
     ELSE TakeOver(t) /\ Goto(t, "disconnect")
  /\ UNCHANGED <<pool, table, accepting, isSending_, io, up, crashed>>

\* HandleAccept may fail before it calls Connect (setsockopt).
Dispatch(t) ==
  /\ pc[t] = "dispatch"
  /\ TakeOver(t)
  /\ \/ task[t] = "disconnect" /\ Goto(t, "clear")
     \/ task[t] = "write" /\ Goto(t, "onWrite")
     \/ task[t] = "read" /\ accepting /\ (Goto(t, "connect") \/ Goto(t, "disconnect"))
     \/ task[t] = "read" /\ ~accepting
        /\ Goto(t, IF result[t] = "zero" THEN "disconnect" ELSE "onRead")
  /\ UNCHANGED <<pool, table, accepting, isSending_, io, up, crashed>>
-----------------------------------------------------------------------------
(* Session.cpp. *)

\* The locked part of Connect, lines 198-210.
Connect(t) ==
  /\ pc[t] = "connect"
  /\ IF state = "kPending"
     THEN state' = "kConnected" /\ Goto(t, "welcome")
     ELSE Goto(t, "disconnect") /\ UNCHANGED state
  /\ UNCHANGED <<generation_, refCount_, table, ovPtr, accepting, isSending_, io, up,
                 locals, crashed>>

\* ov.sessionPtr_ = p: the temporary that is moved in was counted when it was copied;
\* the move assignment lets go of the old session.
Assign(op, p) ==
  /\ ovPtr' = [ovPtr EXCEPT ![op] = p]
  /\ refCount_' = refCount_ + Count(p) - Count(ovPtr[op])

\* SessionManager::GetSession: a copy of the table's pointer.
GetSession == table

\* ov.sessionPtr_ = GetSession(handle_), then the socket call.  A call that fails at
\* once resets the pointer; on a socket that is not connected it always fails.
Post(t, op, next) ==
  \/ up /\ Assign(op, GetSession) /\ io' = [io EXCEPT ![op] = "posted"] /\ Goto(t, next)
  \/ Assign(op, Null) /\ UNCHANGED io /\ Goto(t, "disconnect")

\* A write under way will send this packet too, if the buffer has room for it.
\* isSending_ stays set if the post fails.
SendPacket(t, next) ==
  IF isSending_
  THEN /\ Goto(t, next) \/ Goto(t, "disconnect")
       /\ UNCHANGED <<refCount_, ovPtr, isSending_, io>>
  ELSE isSending_' = TRUE /\ Post(t, "write", next)

\* The rest of Connect: the welcome packet, then the first read.
SendWelcome(t) ==
  /\ pc[t] = "welcome"
  /\ SendPacket(t, "registerRead")
  /\ UNCHANGED <<pool, table, accepting, up, locals, crashed>>

RegisterRead(t) ==
  /\ pc[t] = "registerRead"
  /\ \/ accepting' = FALSE /\ Post(t, "read", "drop")
     \/ \* the read buffer is full
        Goto(t, "disconnect") /\ UNCHANGED <<refCount_, ovPtr, accepting, io>>
  /\ UNCHANGED <<pool, table, isSending_, up, locals, crashed>>

\* The packets are handled and read again, or one of them is invalid.
OnRead(t) ==
  /\ pc[t] = "onRead"
  /\ Goto(t, "registerRead") \/ Goto(t, "disconnect")
  /\ UNCHANGED <<pool, refCount_, table, ovPtr, accepting, isSending_, io, up, locals,
                 crashed>>

\* mutant: isSending_ is not cleared when everything was sent
OnWrite_KeepSending(t) ==
  /\ pc[t] = "onWrite"
  /\ Goto(t, "drop")
  /\ UNCHANGED <<pool, refCount_, table, ovPtr, accepting, isSending_, io, up, locals, crashed>>

\* Everything was sent, or the rest is posted.
OnWrite(t) ==
  /\ pc[t] = "onWrite"
  /\ \/ /\ isSending_' = FALSE
        /\ Goto(t, "drop")
        /\ UNCHANGED <<refCount_, ovPtr, io>>
     \/ Post(t, "write", "drop") /\ UNCHANGED isSending_
  /\ UNCHANGED <<pool, table, accepting, up, locals, crashed>>

\* The locked part of Disconnect, lines 232-258.
Disconnect(t) ==
  /\ pc[t] = "disconnect"
  /\ IF state \in {"kPending", "kConnected"}
     THEN state' = "kDisconnecting" /\ Goto(t, "disconnectEx")
     ELSE Goto(t, "drop") /\ UNCHANGED state
  /\ UNCHANGED <<generation_, refCount_, table, ovPtr, accepting, isSending_, io, up,
                 locals, crashed>>

\* mutant: the OVERLAPPED is posted without a reference
DisconnectEx_NoRef(t) ==
  /\ pc[t] = "disconnectEx"
  /\ io' = [io EXCEPT !["disconnect"] = "posted"]
  /\ Goto(t, "drop")
  /\ UNCHANGED <<pool, refCount_, table, ovPtr, accepting, isSending_, up, locals, crashed>>

\* The rest of Disconnect.  DisconnectEx fails at once on a socket that is not
\* connected.  It returns a BOOL: line 266 compares it with SOCKET_ERROR (-1), so a
\* call that failed at once counts as posted.
DisconnectEx(t) ==
  /\ pc[t] = "disconnectEx"
  /\ Assign("disconnect", GetSession)
  /\ \/ up /\ io' = [io EXCEPT !["disconnect"] = "posted"]
     \/ (~up \/ "disconnect" \in Faults) /\ UNCHANGED io
  /\ Goto(t, "drop")
  /\ UNCHANGED <<pool, table, accepting, isSending_, up, locals, crashed>>

\* mutant: the table keeps its reference
Clear_KeepTable(t) ==
  /\ pc[t] = "clear"
  /\ Goto(t, "drop")
  /\ UNCHANGED <<pool, refCount_, table, ovPtr, accepting, isSending_, io, up, locals, crashed>>

\* SessionManager::DisconnectSession: the table lets go.
DisconnectSession ==
  /\ table' = Null
  /\ refCount_' = refCount_ - Count(table)

Clear(t) ==
  /\ pc[t] = "clear"
  /\ DisconnectSession
  /\ Goto(t, "drop")
  /\ UNCHANGED <<pool, ovPtr, accepting, isSending_, io, up, locals, crashed>>
-----------------------------------------------------------------------------
(* SparsePool::ReleaseRef on the thread's local pointers. *)

\* The deleter SessionManager gives to the pool; it leaves disconnectOv_ alone.
Deleter ==
  /\ isSending_' = FALSE
  /\ ovPtr' = [ovPtr EXCEPT !["read"] = Null, !["write"] = Null]

\* mutant: a pointer is released twice
ReleaseRef_Twice(t) ==
  /\ pc[t] = "drop" /\ refCount_ > 1
  /\ refCount_' = refCount_ - 1
  /\ locals' = [locals EXCEPT ![t] = @ - 1]
  /\ UNCHANGED <<pool, table, ovPtr, accepting, isSending_, io, up, threads, crashed>>

\* mutant: the slot is freed one reference too early
ReleaseRef_FreeEarly(t) ==
  /\ pc[t] = "drop"
  /\ refCount_' = refCount_ - 1
  /\ locals' = [locals EXCEPT ![t] = @ - 1]
  /\ IF refCount_ <= 2
     THEN Deleter /\ Goto(t, "push")
     ELSE /\ Goto(t, IF locals[t] = 1 THEN "idle" ELSE "drop")
          /\ UNCHANGED <<isSending_, ovPtr>>
  /\ UNCHANGED <<pool, table, accepting, io, up, crashed>>

\* The last one runs the deleter ...
ReleaseRef(t) ==
  /\ pc[t] = "drop"
  /\ refCount_' = refCount_ - 1
  /\ locals' = [locals EXCEPT ![t] = @ - 1]
  /\ IF refCount_ = 1
     THEN Deleter /\ Goto(t, "push")
     ELSE /\ Goto(t, IF locals[t] = 1 THEN "idle" ELSE "drop")
          /\ UNCHANGED <<isSending_, ovPtr>>
  /\ UNCHANGED <<pool, table, accepting, io, up, crashed>>

\* ... and pushes the slot: every handle to this life of the session is now stale.
Push(t) ==
  /\ pc[t] = "push"
  /\ state' = "kIdle" /\ generation_' = generation_ + 1
  /\ Goto(t, "idle")
  /\ UNCHANGED <<refCount_, table, ovPtr, accepting, isSending_, io, up, locals, crashed>>
-----------------------------------------------------------------------------
(* External: the kernel and the peer. *)
Complete(op, r) == io[op] = "posted" /\ io' = [io EXCEPT ![op] = r]

AcceptCompletes ==
  /\ accepting
  /\ \/ Complete("read", "ok") /\ up' = TRUE
     \/ "accept" \in Faults /\ Complete("read", "error") /\ UNCHANGED up

TransferCompletes ==
  /\ up /\ (Complete("write", "ok") \/ (~accepting /\ Complete("read", "ok")))
  /\ UNCHANGED up

\* The peer closes or resets the connection, or it is being torn down.
TransferFails ==
  /\ \/ Complete("write", "error")
     \/ ~accepting /\ (Complete("read", "zero") \/ Complete("read", "error"))
  /\ UNCHANGED up

DisconnectCompletes ==
  \/ Complete("disconnect", "ok") /\ up' = FALSE
  \/ "disconnect" \in Faults /\ Complete("disconnect", "error") /\ UNCHANGED up

Env(A) == A /\ UNCHANGED <<pool, refCount_, table, ovPtr, accepting, isSending_, threads,
                           locals, crashed>>
Kernel ==
  ~crashed /\ Env(AcceptCompletes \/ TransferCompletes \/ TransferFails \/ DisconnectCompletes)

Step(t) ==
  /\ ~crashed
  /\ \/ \E op \in Op : t \in Workers /\ Take(t, op)
     \/ HandleError(t) \/ Dispatch(t)
     \/ Connect(t) \/ SendWelcome(t) \/ RegisterRead(t) \/ OnRead(t) \/ OnWrite(t)
     \/ Disconnect(t) \/ DisconnectEx(t) \/ Clear(t)
     \/ ReleaseRef(t) \/ Push(t)

Next ==
  \/ ~crashed /\ PostAccept(Poster)
  \/ \E t \in Threads : Step(t)
  \/ Kernel

\* Threads run; once a disconnect was asked for, the kernel completes it and what
\* else is outstanding on the socket.
Spec ==
  /\ Init /\ [][Next]_vars
  /\ \A t \in Threads : WF_vars(Step(t))
  /\ WF_vars(~crashed /\ Env(DisconnectCompletes))
  /\ WF_vars(~crashed /\ state = "kDisconnecting" /\ Env(TransferFails))
-----------------------------------------------------------------------------
Label == {"idle", "error", "dispatch", "connect", "welcome", "registerRead", "onRead",
          "onWrite", "disconnect", "disconnectEx", "clear", "drop", "push"}

TypeOK ==
  /\ state \in {"kIdle", "kPending", "kConnected", "kDisconnecting"}
  /\ generation_ \in 0 .. MaxLives
  /\ refCount_ \in Nat
  /\ table \in {Null} \cup 0 .. MaxLives
  /\ ovPtr \in [Op -> {Null} \cup 0 .. MaxLives]
  /\ accepting \in BOOLEAN /\ isSending_ \in BOOLEAN /\ up \in BOOLEAN
  /\ io \in [Op -> {"none", "posted"} \cup Done]
  /\ pc \in [Threads -> Label]
  /\ task \in [Threads -> Op \cup {"none"}]
  /\ result \in [Threads -> Done \cup {"none"}]
  /\ locals \in [Threads -> 0 .. 2]
  /\ crashed \in BOOLEAN

LocalPtrs == {x \in Threads \X {1, 2} : x[2] <= locals[x[1]]}

\* SparsePool.hpp:89-119, SharedPoolPtr.hpp: the counter is exactly the number of
\* pointers to the session that exist, at every step of every thread.
RefExact ==
  refCount_ = Count(table) + Cardinality({op \in Op : Valid(ovPtr[op])}) + Cardinality(LocalPtrs)

\* SparsePool.hpp:106-110: when the slot goes back to the pool no thread works on the
\* session and the kernel owns none of its OVERLAPPEDs and buffers.
FreedIsUnused ==
  (state = "kIdle" \/ \E t \in Threads : pc[t] = "push")
    => /\ LocalPtrs = {}
       /\ \A op \in Op : io[op] = "none"

\* Session.cpp:37, 112, 262: every I/O the kernel has carries a reference.
IoHoldsReference == \A op \in Op : io[op] # "none" => Valid(ovPtr[op])

\* The threads that handle a completion of op, or are about to post op.
Handlers(op) ==
  {t \in Threads :
     \/ task[t] = op /\ pc[t] \in {"error", "dispatch"}
     \/ op = "read" /\ task[t] = op /\ pc[t] \in {"connect", "welcome", "registerRead", "onRead"}
     \/ op = "write" /\ pc[t] = "onWrite"
     \/ op = "disconnect" /\ pc[t] \in {"disconnectEx", "clear"}}

\* Session.cpp:172-179, 233-258: each OverlappedEx, with its buffer and positions, is
\* used by the kernel or by one thread, never by two at a time; in particular
\* DisconnectEx is called once, however many I/Os fail at the same time.
OneOwner ==
  \A op \in Op : Cardinality(Handlers(op)) + (IF io[op] = "none" THEN 0 ELSE 1) <= 1

\* README.md:87 "DisconnectEx: 세션 종료 시 소켓 자원 회수를 비동기화" (the socket's
\* resources are reclaimed asynchronously when a session ends): a session that starts
\* to disconnect is back in the pool some time later.
SessionReturns == (state = "kDisconnecting") ~> (state = "kIdle")
=============================================================================
