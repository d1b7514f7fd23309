------------------------------ MODULE Broadcast ------------------------------
(***************************************************************************)
(* SessionManager::Broadcast against the life of one session.              *)
(*                                                                         *)
(* A worker that handles a packet of some other session sends it to every  *)
(* session it saw kConnected.  It looks at the pool without the mutex,     *)
(* keeps indices, and calls SendPacket through the table's pointer without *)
(* a reference of its own; the session may end, and its slot serve the     *)
(* next client, at any point of this.  Module Session is the target; the   *)
(* senders are threads of IocpCore busy with other sessions.               *)
(***************************************************************************)
EXTENDS Session

CONSTANT Senders   \* the threads that broadcast

ASSUME BroadcastAssumption ==
  IsFiniteSet(Senders) /\ Senders \cap Threads = {}

VARIABLES
  at,        \* where each sender is with respect to this session
  outlived,  \* history: the session was freed while a sender had it in its list
  abandoned  \* history: a sender's WSASend failed and isSending_ was not cleared since

bvars == <<vars, at, outlived, abandoned>>

Outside == "outside"
Locked == {"assign", "wsaSend"}   \* the sender has writeMtx_

BInit ==
  Init /\ at = [b \in Senders |-> Outside] /\ outlived = FALSE /\ abandoned = FALSE

Move(b, label) == at' = [at EXCEPT ![b] = label]
Listed == \E b \in Senders : at[b] # Outside
-----------------------------------------------------------------------------
(* One sender, SessionManager.cpp:78-93 and Session.cpp:160-182, 105-134. *)

\* GetIndicesInState(kConnected), unlocked: while slots are swapped around it the loop may
\* list any slot, whatever its state (module SparseScan).
GetIndices(b) ==
  /\ at[b] = Outside
  /\ Move(b, "check")
  /\ UNCHANGED <<vars, outlived, abandoned>>

\* sessionPtrs_[idx].IsValid(): the index says nothing about which life was listed.
Check(b) ==
  /\ at[b] = "check"
  /\ Move(b, IF Valid(table) THEN "get" ELSE Outside)
  /\ UNCHANGED <<vars, outlived, abandoned>>

\* operator->: Get checks again and returns a null pointer, which is called.
Get(b) ==
  /\ at[b] = "get"
  /\ IF Valid(table)
     THEN Move(b, "send") /\ UNCHANGED crashed
     ELSE crashed' = TRUE /\ UNCHANGED at
  /\ UNCHANGED <<pool, refCount_, table, ovPtr, accepting, isSending_, io, up, threads,
                 locals, outlived, abandoned>>

\* mutant: SendPacket does not look at isSending_
Lock_Ungated(b) ==
  /\ at[b] = "send" /\ \A c \in Senders : at[c] \notin Locked
  /\ isSending_' = TRUE /\ Move(b, "assign")
  /\ UNCHANGED <<pool, refCount_, table, ovPtr, accepting, io, up, threads, locals, crashed,
                 outlived, abandoned>>

\* mutant: isSending_ is not set before the write is posted
Lock_NotSending(b) ==
  /\ at[b] = "send" /\ \A c \in Senders : at[c] \notin Locked
  /\ Move(b, IF isSending_ THEN Outside ELSE "assign")
  /\ UNCHANGED <<vars, outlived, abandoned>>

\* SendPacket gets writeMtx_.  A write under way will take the packet along if there is
\* room (Broadcast does not look at the result); else the buffer is empty and this
\* sender posts.
Lock(b) ==
  /\ at[b] = "send" /\ \A c \in Senders : at[c] \notin Locked
  /\ IF isSending_
     THEN Move(b, Outside) /\ UNCHANGED isSending_
     ELSE isSending_' = TRUE /\ Move(b, "assign")
  /\ UNCHANGED <<pool, refCount_, table, ovPtr, accepting, io, up, threads, locals, crashed,
                 outlived, abandoned>>

\* writeOv_.sessionPtr_ = sessionManager_->GetSession(handle_)
AssignPtr(b) ==
  /\ at[b] = "assign"
  /\ Assign("write", GetSession)
  /\ Move(b, "wsaSend")
  /\ UNCHANGED <<pool, table, accepting, isSending_, io, up, threads, locals, crashed,
                 outlived, abandoned>>

\* WSASend takes the OVERLAPPED ...
WSASend(b) ==
  /\ at[b] = "wsaSend" /\ up
  /\ io' = [io EXCEPT !["write"] = "posted"]
  /\ Move(b, Outside)
  /\ UNCHANGED <<pool, refCount_, table, ovPtr, accepting, isSending_, up, threads, locals,
                 crashed, outlived, abandoned>>

\* ... or fails at once, and the pointer is reset.  isSending_ stays set and nobody
\* disconnects the session.  If the pointer was the last one its Reset runs the
\* deleter, which resets the same pointer once more before the slot is pushed.
WSASendFails(b) ==
  /\ at[b] = "wsaSend" /\ (~up \/ "send" \in Faults)
  /\ IF refCount_ = 1 /\ Valid(ovPtr["write"])
     THEN /\ refCount_' = refCount_ - 2
          /\ Deleter
          /\ Move(b, "push")
          /\ outlived' = TRUE
          /\ UNCHANGED abandoned
     ELSE /\ Assign("write", Null)
          /\ Move(b, Outside)
          /\ abandoned' = TRUE
          /\ UNCHANGED <<isSending_, outlived>>
  /\ UNCHANGED <<pool, table, accepting, io, up, threads, locals, crashed>>

PushSlot(b) ==
  /\ at[b] = "push"
  /\ state' = "kIdle" /\ generation_' = generation_ + 1
  /\ Move(b, Outside)
  /\ UNCHANGED <<refCount_, table, ovPtr, accepting, isSending_, io, up, threads, locals,
                 crashed, outlived, abandoned>>

Broadcast(b) ==
  ~crashed /\ (GetIndices(b) \/ Check(b) \/ Get(b) \/ Lock(b) \/ AssignPtr(b)
               \/ WSASend(b) \/ WSASendFails(b) \/ PushSlot(b))
-----------------------------------------------------------------------------
\* The session's own threads wait for writeMtx_ where they need it; a release that
\* frees the session does not take it.
Unlocked(t) == pc[t] \in {"welcome", "onWrite"} => \A b \in Senders : at[b] \notin Locked

OwnStep ==
  /\ \/ ~crashed /\ PostAccept(Poster)
     \/ \E t \in Threads : Unlocked(t) /\ Step(t)
     \/ Kernel
  /\ outlived' = (outlived \/ (Listed /\ \E t \in Threads : pc[t] # "push" /\ pc'[t] = "push"))
  /\ abandoned' = (abandoned /\ isSending_')
  /\ UNCHANGED at

BNext == OwnStep \/ \E b \in Senders : Broadcast(b)

BSpec == BInit /\ [][BNext]_bvars
-----------------------------------------------------------------------------
\* The senders that have a write of this session in hand.
Posting == {b \in Senders : at[b] \in Locked}

\* SparsePool.hpp:89-119 with Session.cpp:112, 121: the reference count stays exact
\* while other threads send on the session, as long as none outlives it.
BroadcastRefExact == ~outlived => RefExact

\* SparsePool.hpp:106-110: the same of what is given back to the pool.
BroadcastFreedIsUnused == ~outlived => FreedIsUnused

\* Session.cpp:172-179: WSASend is never called on an OVERLAPPED that the kernel or
\* another thread still uses, whoever sends; nor is any other OVERLAPPED used twice.
BroadcastOneOwner ==
  ~outlived => /\ OneOwner
               /\ Posting # {} => /\ Cardinality(Posting) = 1
                                  /\ Handlers("write") = {} /\ io["write"] = "none"

\* Session.cpp:106, 138 "assert(isSending_)": a write that is posted, completed or about
\* to be posted by a sender finds the flag set.
BroadcastAsserts ==
  ~outlived => (io["write"] # "none" \/ Handlers("write") # {} \/ Posting # {} => isSending_)

\* Session.cpp:147-150, 172-178: SendPacket trusts isSending_ and leaves its packet to the
\* write under way, so that write must exist.  Whatever workers and senders do, the flag of
\* a session that is not on its way out stands for a write that is posted, completed or
\* about to be posted; the one exception is a WSASend of a sender that failed, after which
\* nobody clears the flag (WelcomeGoesOut shows what comes of that).
BroadcastGate ==
  ~outlived /\ ~abandoned =>
    (isSending_ => \/ io["write"] # "none" \/ Handlers("write") # {} \/ Posting # {}
                   \/ state = "kDisconnecting"
                   \/ \E t \in Threads : pc[t] \in {"disconnect", "push"})

\* Tests/Base/Client.cpp:63-66 "Failed to receive welcome packet from server.": a client
\* waits for the welcome packet after it connected.  A session that has queued it
\* (Session.cpp:218) and goes on to read has a write under way or has done it; it does not
\* sit with isSending_ set and no write that would clear it.
WelcomeGoesOut ==
  \A t \in Threads :
    pc[t] = "registerRead" /\ accepting /\ isSending_
      => io["write"] # "none" \/ Handlers("write") # {} \/ Posting # {}
=============================================================================
