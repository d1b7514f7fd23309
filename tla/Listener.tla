------------------------------ MODULE Listener ------------------------------
(***************************************************************************)
(* Network/Server/Listener.cpp: the accept pump.                           *)
(*                                                                         *)
(* PostAccept keeps up to kAcceptCount AcceptEx operations outstanding.    *)
(* It is called by main at start-up (ServerService::Start), by the worker  *)
(* that takes an accept completion (DecrementPendingAccepts), and by the   *)
(* worker that drops the last reference to a session (the pool's           *)
(* postReleaseFunc_), all at the same time.  pendingAccepts_ is reserved   *)
(* with a compare-and-swap before a session is taken from the pool, and    *)
(* given back when there is none.                                          *)
(*                                                                         *)
(* A session is followed from the pool through its AcceptEx to the end of  *)
(* its connection; what happens on the connection is module Session.       *)
(***************************************************************************)
EXTENDS Integers, FiniteSets

CONSTANTS
  Workers,          \* the threads of IocpCore
  Main,             \* the thread that runs ServerService::Start
  Slots,            \* the sessions of the pool
  kAcceptCount,
  MaxNest,          \* bound: how deep PostAccept may call itself through a release
  AcceptExMayFail,  \* may AcceptEx fail at once (FALSE, not WSA_IO_PENDING)?
  NoSlot

Threads == Workers \cup {Main}

ASSUME ListenerAssumption ==
  /\ IsFiniteSet(Workers) /\ Main \notin Workers
  /\ IsFiniteSet(Slots) /\ NoSlot \notin Slots
  /\ kAcceptCount \in Nat /\ MaxNest \in Nat
  /\ AcceptExMayFail \in BOOLEAN

VARIABLES
  pendingAccepts_,
  slot,       \* where each session is in its life
  listener_,  \* listener_[s]: has SetListener ever been called on session s?
  pc,         \* where each thread is
  current,    \* the local variable of PostAccept
  sessionPtr, \* the session PostAccept's local pointer refers to
  serving,    \* the session whose completion the worker is handling
  nest,       \* how many PostAccept calls are suspended in a release
  crashed     \* a null listener_ was dereferenced

vars == <<pendingAccepts_, slot, listener_, pc, current, sessionPtr, serving, nest, crashed>>

(* idle: in the pool.  held: taken, AcceptEx not called yet.  posted: AcceptEx
   outstanding.  lost: AcceptEx failed but nobody noticed.  queued: completion in
   the port.  taken: completion handed to a worker.  accepted: no longer pending.
   used: connected.  dropped: the connection and the table let go of it. *)
SlotState == {"idle", "held", "posted", "lost", "queued", "taken", "accepted",
              "used", "dropped"}

Pump == {"load", "cas", "create", "undo", "register", "setListener", "dtor"}
PC == Pump \cup {"idle", "dec", "handle", "drop"}

Init ==
  /\ pendingAccepts_ = 0
  /\ slot = [s \in Slots |-> "idle"]
  /\ listener_ = [s \in Slots |-> FALSE]
  /\ pc = [t \in Threads |-> IF t = Main THEN "load" ELSE "idle"]
  /\ current = [t \in Threads |-> 0]
  /\ sessionPtr = [t \in Threads |-> NoSlot]
  /\ serving = [t \in Threads |-> NoSlot]
  /\ nest = [t \in Threads |-> 0]
  /\ crashed = FALSE

Goto(t, label) == pc' = [pc EXCEPT ![t] = label]

\* Another thread's local pointer keeps session s alive.
HeldByOther(t, s) == \E u \in Threads \ {t} : s \in {sessionPtr[u], serving[u]}
-----------------------------------------------------------------------------
(* PostAccept, Listener.cpp:90-118. *)

\* PostAccept returns: into the release it was called from, or to its first caller.
Exit(t) ==
  IF nest[t] > 0
  THEN nest' = [nest EXCEPT ![t] = @ - 1] /\ Goto(t, "load")
  ELSE /\ Goto(t, IF serving[t] = NoSlot THEN "idle" ELSE "handle")
       /\ UNCHANGED nest

Load(t) ==
  /\ pc[t] = "load"
  /\ IF pendingAccepts_ >= kAcceptCount
     THEN Exit(t) /\ UNCHANGED current
     ELSE /\ current' = [current EXCEPT ![t] = pendingAccepts_]
          /\ Goto(t, "cas")
          /\ UNCHANGED nest
  /\ UNCHANGED <<pendingAccepts_, slot, listener_, sessionPtr, serving, crashed>>

\* mutant: a plain load and increment instead of the compare-and-swap
Cas_Blind(t) ==
  /\ pc[t] = "cas"
  /\ pendingAccepts_' = pendingAccepts_ + 1
  /\ Goto(t, "create")
  /\ UNCHANGED <<slot, listener_, current, sessionPtr, serving, nest, crashed>>

Cas(t) ==
  /\ pc[t] = "cas"
  /\ IF pendingAccepts_ = current[t]
     THEN pendingAccepts_' = current[t] + 1 /\ Goto(t, "create")
     ELSE Goto(t, "load") /\ UNCHANGED pendingAccepts_
  /\ UNCHANGED <<slot, listener_, current, sessionPtr, serving, nest, crashed>>

\* SessionManager::CreateSession: takes some idle session, or fails.
Create(t) ==
  /\ pc[t] = "create"
  /\ \/ \E s \in Slots :
          /\ slot[s] = "idle"
          /\ slot' = [slot EXCEPT ![s] = "held"]
          /\ sessionPtr' = [sessionPtr EXCEPT ![t] = s]
          /\ Goto(t, "register")
     \/ /\ \A s \in Slots : slot[s] # "idle"
        /\ Goto(t, "undo")
        /\ UNCHANGED <<slot, sessionPtr>>
  /\ UNCHANGED <<pendingAccepts_, listener_, current, serving, nest, crashed>>

\* mutant: the reservation is not given back
Undo_Forgotten(t) ==
  /\ pc[t] = "undo"
  /\ Exit(t)
  /\ UNCHANGED <<pendingAccepts_, slot, listener_, current, sessionPtr, serving, crashed>>

Undo(t) ==
  /\ pc[t] = "undo"
  /\ pendingAccepts_' = pendingAccepts_ - 1
  /\ Exit(t)
  /\ UNCHANGED <<slot, listener_, current, sessionPtr, serving, crashed>>

\* AcceptEx returns a BOOL: Listener.cpp:136 compares it with SOCKET_ERROR (-1), so
\* RegisterAccept returns true whatever AcceptEx says.
RegisterAccept(t) ==
  /\ pc[t] = "register"
  /\ \/ slot' = [slot EXCEPT ![sessionPtr[t]] = "posted"]
     \/ AcceptExMayFail /\ slot' = [slot EXCEPT ![sessionPtr[t]] = "lost"]
  /\ Goto(t, "setListener")
  /\ UNCHANGED <<pendingAccepts_, listener_, current, sessionPtr, serving, nest, crashed>>

SetListener(t) ==
  /\ pc[t] = "setListener"
  /\ listener_' = [listener_ EXCEPT ![sessionPtr[t]] = TRUE]
  /\ Goto(t, "dtor")
  /\ UNCHANGED <<pendingAccepts_, slot, current, sessionPtr, serving, nest, crashed>>

\* mutant: the release runs the deleter and Push but not postReleaseFunc_
Release_NoPump(t, s, otherwise) ==
  /\ slot' = IF slot[s] = "dropped" /\ ~HeldByOther(t, s)
             THEN [slot EXCEPT ![s] = "idle"] ELSE slot
  /\ Goto(t, otherwise)
  /\ UNCHANGED nest

\* Thread t lets go of session s: SparsePool::ReleaseRef.  The last reference sends
\* the session back to the pool and calls PostAccept.
Release(t, s, otherwise) ==
  IF slot[s] = "dropped" /\ ~HeldByOther(t, s)
  THEN /\ slot' = [slot EXCEPT ![s] = "idle"]
       /\ nest' = IF otherwise = "load" THEN [nest EXCEPT ![t] = @ + 1] ELSE nest
       /\ Goto(t, "load")
  ELSE Goto(t, otherwise) /\ UNCHANGED <<slot, nest>>

\* PostAccept's pointer goes out of scope and the loop goes round.
Dtor(t) ==
  /\ pc[t] = "dtor"
  /\ sessionPtr' = [sessionPtr EXCEPT ![t] = NoSlot]
  /\ Release(t, sessionPtr[t], "load")
  /\ UNCHANGED <<pendingAccepts_, listener_, current, serving, crashed>>
-----------------------------------------------------------------------------
(* The workers (IocpCore.cpp:137-174) and the kernel. *)

\* External: a client connects to a socket AcceptEx was called with.
Accepted(s) ==
  /\ ~crashed /\ slot[s] = "posted"
  /\ slot' = [slot EXCEPT ![s] = "queued"]
  /\ UNCHANGED <<pendingAccepts_, listener_, pc, current, sessionPtr, serving, nest, crashed>>

TakeAccept(t, s) ==
  /\ pc[t] = "idle" /\ slot[s] = "queued"
  /\ slot' = [slot EXCEPT ![s] = "taken"]
  /\ serving' = [serving EXCEPT ![t] = s]
  /\ Goto(t, "dec")
  /\ UNCHANGED <<pendingAccepts_, listener_, current, sessionPtr, nest, crashed>>

\* sessionPtr->GetListener()->DecrementPendingAccepts()
Dec(t) ==
  /\ pc[t] = "dec"
  /\ IF listener_[serving[t]]
     THEN /\ pendingAccepts_' = pendingAccepts_ - 1
          /\ slot' = [slot EXCEPT ![serving[t]] = "accepted"]
          /\ Goto(t, "load")
          /\ UNCHANGED crashed
     ELSE crashed' = TRUE /\ UNCHANGED <<pendingAccepts_, slot, pc>>
  /\ UNCHANGED <<listener_, current, sessionPtr, serving, nest>>

\* Dispatch: HandleAccept connects the session.
HandleAccept(t) ==
  /\ pc[t] = "handle"
  /\ slot' = [slot EXCEPT ![serving[t]] = "used"]
  /\ Goto(t, "drop")
  /\ UNCHANGED <<pendingAccepts_, listener_, current, sessionPtr, serving, nest, crashed>>

\* The session's disconnect completes: Session::Clear drops the table's reference.
\* Bound: no client leaves so early that PostAccept would nest deeper than MaxNest.
TakeClose(t, s) ==
  /\ pc[t] = "idle" /\ slot[s] = "used"
  /\ \A u \in Threads : sessionPtr[u] = s => nest[u] < MaxNest
  /\ slot' = [slot EXCEPT ![s] = "dropped"]
  /\ serving' = [serving EXCEPT ![t] = s]
  /\ Goto(t, "drop")
  /\ UNCHANGED <<pendingAccepts_, listener_, current, sessionPtr, nest, crashed>>

\* The worker's own pointer goes out of scope at the end of its iteration.
Drop(t) ==
  /\ pc[t] = "drop"
  /\ serving' = [serving EXCEPT ![t] = NoSlot]
  /\ Release(t, serving[t], "idle")
  /\ UNCHANGED <<pendingAccepts_, listener_, current, sessionPtr, crashed>>

PostAccept(t) ==
  \/ Load(t)
  \/ Cas(t)
  \/ Create(t)
  \/ Undo(t)
  \/ RegisterAccept(t)
  \/ SetListener(t)
  \/ Dtor(t)

\* What a thread does without waiting for anyone.
Run(t) == ~crashed /\ (PostAccept(t) \/ Dec(t) \/ HandleAccept(t) \/ Drop(t))

WorkerThread(t) ==
  ~crashed /\ \E s \in Slots : TakeAccept(t, s) \/ TakeClose(t, s)

Next ==
  \/ \E t \in Threads : Run(t)
  \/ \E t \in Workers : WorkerThread(t)
  \/ \E s \in Slots : Accepted(s)

\* The scheduler runs every thread; clients need neither connect nor leave.
Spec == Init /\ [][Next]_vars /\ \A t \in Threads : WF_vars(Run(t))
-----------------------------------------------------------------------------
TypeOK ==
  /\ pendingAccepts_ \in 0 .. kAcceptCount
  /\ slot \in [Slots -> SlotState]
  /\ listener_ \in [Slots -> BOOLEAN]
  /\ pc \in [Threads -> PC]
  /\ current \in [Threads -> 0 .. kAcceptCount]
  /\ sessionPtr \in [Threads -> Slots \cup {NoSlot}]
  /\ serving \in [Threads -> Slots \cup {NoSlot}]
  /\ nest \in [Threads -> 0 .. MaxNest]
  /\ crashed \in BOOLEAN

Pending == {s \in Slots : slot[s] \in {"held", "posted", "lost", "queued", "taken"}}
Reserving == {t \in Threads : pc[t] \in {"create", "undo"}}
Idle == {s \in Slots : slot[s] = "idle"}
Outstanding == {s \in Slots : slot[s] \in {"posted", "queued"}}

\* Listener.cpp:97-105, 151: pendingAccepts_ is exactly the sessions on their way
\* through AcceptEx plus the reservations that have no session yet, whatever the
\* interleaving of the increments and decrements of all threads.
AcceptAccounting == pendingAccepts_ = Cardinality(Pending) + Cardinality(Reserving)

\* Listener.cpp:93: at most kAcceptCount accepts are outstanding.
AcceptBound == Cardinality(Outstanding) <= kAcceptCount

\* Listener.cpp:100-105: reserving before taking a session makes other threads skip
\* their refill, but no more accepts are missing than there are other threads: once
\* all threads wait, an idle session means that pendingAccepts_ is within
\* |Threads| - 1 of kAcceptCount.
RefillBound ==
  (\A t \in Threads : pc[t] = "idle") /\ Idle # {}
    => pendingAccepts_ + Cardinality(Threads) > kAcceptCount

Lost == {s \in Slots : slot[s] = "lost"}

\* Listener.cpp:100-105, SparsePool.hpp:112-114: with kAcceptCount no smaller than the
\* number of threads, an idle session is never left over while nothing is listening (unless
\* an AcceptEx that failed is still counted): a thread that will post is on its way.
NeverDeaf ==
  (Idle # {} /\ Outstanding = {} /\ Lost = {})
    ~> (Idle = {} \/ Outstanding # {} \/ Lost # {} \/ crashed)

\* Tests/Integration/03_ConnectionStress.cpp:61 "테스트 끝날 때까지 서버가 다운되지
\* 않으면 성공" (success if the server does not go down by the end of the test): no
\* worker dereferences a session's listener_ before SetListener has run.
ServerStaysUp == ~crashed
=============================================================================
