-------------------------- MODULE BroadcastProofs --------------------------
(***************************************************************************)
(* Proofs about a session that other threads broadcast on: until a sender  *)
(* outlives the session it has in its list, the session keeps everything   *)
(* that is proved of it alone, for any number of workers, senders and      *)
(* lives and any faults.                                                   *)
(***************************************************************************)
EXTENDS Broadcast, SessionProofs

-----------------------------------------------------------------------------
(* The inductive invariant: Inv of SessionProofs, and where the senders are. *)

\* A sender that goes on to send does so on a session that is in use.
SendersFit ==
  /\ at \in [Senders -> {Outside, "check", "get", "send"} \cup Locked]
  /\ Free => \A b \in Senders : at[b] \in {Outside, "check"}

\* The sender that has writeMtx_ has the write to itself.
PostingAlone ==
  \A b \in Posting : /\ isSending_ /\ io["write"] = "none" /\ Handlers("write") = {}
                     /\ \A c \in Posting : b = c

\* The pointer of a write that is about to be posted; without one the post fails,
\* unless a disconnect has failed before.
WsaSendHeld ==
  (\E b \in Senders : at[b] = "wsaSend")
    => Valid(ovPtr["write"]) \/ (~up /\ state = "kDisconnecting") \/ Leaked

BInv == outlived \/ (Inv /\ SendersFit /\ PostingAlone /\ WsaSendHeld)
-----------------------------------------------------------------------------
(* What the session's own threads leave alone. *)

\* The session's own step does not undo a disconnect, nor a leak.
LEMMA LeavingStays ==
  ASSUME Inv, ~Free, NEW t \in Threads, Step(t)
  PROVE  /\ up' = up
         /\ state' # "kIdle"
         /\ state = "kDisconnecting" => state' = "kDisconnecting"
         /\ Leaked => Leaked'
<1> USE DEF Inv, TypeOK, Goto, Valid, Op, Done, pool, threads
<1>0. state # "kIdle" /\ pc[t] # "push"
  BY DEF Free
<1>1. ASSUME NEW o \in Op, Take(t, o)
      PROVE  /\ up' = up /\ state' = state /\ (Leaked => Leaked')
  BY <1>1 DEF Take, Leaked
<1>2. ASSUME HandleError(t)
      PROVE  /\ up' = up /\ state' = state /\ (Leaked => Leaked')
  BY <1>2 DEF HandleError, TakeOver, Leaked
<1>3. ASSUME Dispatch(t)
      PROVE  /\ up' = up /\ state' = state /\ (Leaked => Leaked')
  BY <1>3 DEF Dispatch, TakeOver, Leaked, TaskFits
<1>4. ASSUME SendWelcome(t)
      PROVE  /\ up' = up /\ state' = state /\ (Leaked => Leaked')
  BY <1>4 DEF SendWelcome, SendPacket, Post, Assign, Leaked
<1>5. ASSUME RegisterRead(t)
      PROVE  /\ up' = up /\ state' = state /\ (Leaked => Leaked')
  BY <1>5 DEF RegisterRead, Post, Assign, Leaked
<1>6. ASSUME OnWrite(t)
      PROVE  /\ up' = up /\ state' = state /\ (Leaked => Leaked')
  BY <1>6 DEF OnWrite, Post, Assign, Leaked
<1>7. ASSUME OnRead(t) \/ Clear(t)
      PROVE  /\ up' = up /\ state' = state /\ (Leaked => Leaked')
  BY <1>7 DEF OnRead, Clear, Leaked
<1>8. ASSUME ReleaseRef(t)
      PROVE  /\ up' = up /\ state' = state /\ (Leaked => Leaked')
  BY <1>8 DEF ReleaseRef, Deleter, Leaked
<1>9. ASSUME Connect(t)
      PROVE  /\ up' = up /\ state' # "kIdle" /\ (Leaked => Leaked')
             /\ state = "kDisconnecting" => state' = "kDisconnecting"
  BY <1>9, <1>0 DEF Connect, Leaked
<1>10. ASSUME Disconnect(t)
      PROVE  /\ up' = up /\ state' # "kIdle" /\ (Leaked => Leaked')
             /\ state = "kDisconnecting" => state' = "kDisconnecting"
  BY <1>10, <1>0 DEF Disconnect, Leaked, LeavingFits
<1>11. ASSUME DisconnectEx(t)
      PROVE  /\ up' = up /\ state' = state /\ (Leaked => Leaked')
  BY <1>11 DEF DisconnectEx, Leaked
<1>12. ~Push(t)
  BY <1>0 DEF Push
<1>13. QED
  BY <1>0, <1>1, <1>2, <1>3, <1>4, <1>5, <1>6, <1>7, <1>8, <1>9, <1>10, <1>11, <1>12 DEF Step

\* While a sender has writeMtx_ the session's own step leaves the write alone, unless it
\* frees the session.
LEMMA WriteStays ==
  ASSUME Inv, ~Free, NEW t \in Threads, Step(t), pc[t] \notin {"welcome", "onWrite"},
         pc'[t] # "push", io["write"] = "none", Handlers("write") = {}
  PROVE  /\ isSending_' = isSending_ /\ io'["write"] = "none" /\ Handlers("write")' = {}
         /\ ovPtr'["write"] = ovPtr["write"] /\ generation_' = generation_
<1> USE DEF Inv, TypeOK, Goto, Valid, Op, Done, pool, threads
<1>0. /\ pc[t] # "push"
      /\ \A u \in Threads : ~(task[u] = "write" /\ pc[u] \in {"error", "dispatch"}) /\ pc[u] # "onWrite"
  BY DEF Free, Handlers
<1>1. SUFFICES /\ isSending_' = isSending_ /\ io'["write"] = "none"
               /\ ovPtr'["write"] = ovPtr["write"] /\ generation_' = generation_
               /\ \A u \in Threads : ~(task'[u] = "write" /\ pc'[u] \in {"error", "dispatch"}) /\ pc'[u] # "onWrite"
  BY DEF Handlers
<1>2. CASE \E o \in Op : Take(t, o)
  BY <1>0, <1>2 DEF Take
<1>3. CASE HandleError(t)
  BY <1>0, <1>3 DEF HandleError, TakeOver, TaskFits
<1>4. CASE Dispatch(t)
  BY <1>0, <1>4 DEF Dispatch, TakeOver, TaskFits
<1>5. CASE RegisterRead(t)
  BY <1>0, <1>5 DEF RegisterRead, Post, Assign
<1>6. CASE OnRead(t) \/ Clear(t)
  BY <1>0, <1>6 DEF OnRead, Clear
<1>7. CASE ReleaseRef(t)
  BY <1>0, <1>7 DEF ReleaseRef
<1>8. CASE Connect(t) \/ Disconnect(t)
  BY <1>0, <1>8 DEF Connect, Disconnect
<1>9. CASE DisconnectEx(t)
  BY <1>0, <1>9 DEF DisconnectEx, Assign
<1>10. ~SendWelcome(t) /\ ~OnWrite(t) /\ ~Push(t)
  BY <1>0 DEF SendWelcome, OnWrite, Push
<1>11. QED
  BY <1>2, <1>3, <1>4, <1>5, <1>6, <1>7, <1>8, <1>9, <1>10 DEF Step

\* The session's own steps keep what is said of the senders.
LEMMA OwnStepBInv ==
  ASSUME Inv, SendersFit, PostingAlone, WsaSendHeld, OwnStep, ~outlived'
  PROVE  Inv' /\ SendersFit' /\ PostingAlone' /\ WsaSendHeld'
<1>1. CASE PostAccept(Poster)
  <2>1. Poster \in Threads /\ Free
    BY <1>1 DEF Threads, PostAccept, Free
  <2>2. Inv'
    BY <1>1, <2>1, PostAcceptInv
  <2>3. at' = at /\ \A b \in Senders : at[b] \in {Outside, "check"}
    BY <2>1 DEF OwnStep, SendersFit
  <2>4. QED
    BY <2>2, <2>3 DEF SendersFit, PostingAlone, WsaSendHeld, Posting, Locked, Outside
<1>2. CASE Kernel
  <2>1. Inv'
    BY <1>2, KernelInv
  <2>2. at' = at /\ UNCHANGED <<pool, ovPtr, isSending_, threads>>
    BY <1>2 DEF OwnStep, Kernel, Env
  <2>3. Free' = Free /\ Posting' = Posting /\ Handlers("write")' = Handlers("write")
    BY <2>2 DEF Free, Posting, Handlers, pool, threads
  <2>4. SendersFit'
    BY <2>2, <2>3 DEF SendersFit
  <2>5. io["write"] = "none" => io'["write"] = "none"
    BY <1>2 DEF Inv, TypeOK, Op, Kernel, Env, AcceptCompletes, TransferCompletes, TransferFails,
                DisconnectCompletes, Complete
  <2>6. PostingAlone'
    BY <2>2, <2>3, <2>5 DEF PostingAlone
  <2>7. ~up /\ state = "kDisconnecting" => ~up'
    BY <1>2 DEF Inv, TypeOK, Kernel, Env, AcceptCompletes, TransferCompletes, TransferFails,
                DisconnectCompletes, Complete, AcceptAlone
  <2>8. Leaked => Leaked'
    BY <1>2, <2>2 DEF Inv, TypeOK, Op, Kernel, Env, AcceptCompletes, TransferCompletes, TransferFails,
                DisconnectCompletes, Complete, Leaked, Valid, pool, threads
  <2>9. WsaSendHeld'
    BY <2>2, <2>7, <2>8 DEF WsaSendHeld, Valid, pool
  <2>10. QED
    BY <2>1, <2>4, <2>6, <2>9
<1>3. ASSUME NEW t \in Threads, Unlocked(t), Step(t)
      PROVE  Inv' /\ SendersFit' /\ PostingAlone' /\ WsaSendHeld'
  <2>1. Inv' /\ at' = at
    BY <1>3, StepInv DEF OwnStep
  <2>2. CASE Free
    <3>1. \A b \in Senders : at[b] \in {Outside, "check"}
      BY <2>2 DEF SendersFit
    <3>2. QED
      BY <2>1, <3>1 DEF SendersFit, PostingAlone, WsaSendHeld, Posting, Locked, Outside
  <2>3. CASE ~Free
    <3>1. /\ up' = up /\ state' # "kIdle"
          /\ state = "kDisconnecting" => state' = "kDisconnecting"
          /\ Leaked => Leaked'
      BY <1>3, <2>3, LeavingStays
    <3>2. \A u \in Threads : pc[u] # "push"
      BY <2>3 DEF Free
    <3>3. SendersFit'
      <4>1. Free' => Outside \in {Outside, "check"} /\ \A b \in Senders : at[b] = Outside
        BY <3>1, <3>2 DEF Free, OwnStep, Listed
      <4>2. QED
        BY <2>1, <4>1 DEF SendersFit
    <3>4. ASSUME Posting # {}
          PROVE  PostingAlone' /\ WsaSendHeld'
      <4>1. PICK b \in Posting : TRUE
        BY <3>4
      <4>2. b \in Senders /\ at[b] \in Locked /\ at[b] # Outside
        BY DEF Posting, Locked, Outside
      <4>3. pc[t] \notin {"welcome", "onWrite"}
        BY <1>3, <4>2 DEF Unlocked
      <4>4. pc'[t] # "push"
        BY <3>2, <4>2 DEF OwnStep, Listed
      <4>5. io["write"] = "none" /\ Handlers("write") = {}
        BY <4>1 DEF PostingAlone
      <4>6. /\ isSending_' = isSending_ /\ io'["write"] = "none" /\ Handlers("write")' = {}
            /\ ovPtr'["write"] = ovPtr["write"] /\ generation_' = generation_
        BY <1>3, <2>3, <4>3, <4>4, <4>5, WriteStays
      <4>7. PostingAlone'
        BY <2>1, <4>6 DEF PostingAlone, Posting
      <4>8. WsaSendHeld'
        BY <2>1, <3>1, <4>6 DEF WsaSendHeld, Valid
      <4>9. QED
        BY <4>7, <4>8
    <3>5. CASE Posting = {}
      <4>1. Posting' = {} /\ \A b \in Senders : at'[b] # "wsaSend"
        BY <2>1, <3>5 DEF Posting, Locked
      <4>2. PostingAlone'
        BY <4>1 DEF PostingAlone
      <4>3. WsaSendHeld'
        BY <4>1 DEF WsaSendHeld
      <4>4. QED
        BY <2>1, <3>3, <4>2, <4>3
    <3>6. QED
      BY <2>1, <3>3, <3>4, <3>5
  <2>4. QED
    BY <2>2, <2>3
<1>4. QED
  BY <1>1, <1>2, <1>3 DEF OwnStep
-----------------------------------------------------------------------------
(* The senders' steps. *)

\* GetIndices (SessionManager.cpp:80-81) keeps the invariant.
LEMMA GetIndicesBInv ==
  ASSUME Inv, SendersFit, PostingAlone, WsaSendHeld, NEW b \in Senders, GetIndices(b) \/ Check(b)
  PROVE  Inv' /\ SendersFit' /\ PostingAlone' /\ WsaSendHeld'
<1>1. UNCHANGED vars
  BY DEF GetIndices, Check
<1>2. Inv'
  BY <1>1, StutterInv
<1>3. Free' = Free /\ Handlers("write")' = Handlers("write") /\ Leaked' = Leaked
  BY <1>1 DEF vars, threads, Free, Handlers, Leaked, Valid
<1>4. SendersFit'
  BY <1>3 DEF SendersFit, GetIndices, Check, Move, Locked, Outside, Inv, TypeOK, Unused, Valid, Null
<1>5. Posting' = Posting /\ \A c \in Senders : at'[c] = "wsaSend" => at[c] = "wsaSend"
  BY DEF GetIndices, Check, Move, Posting, Locked, Outside, SendersFit
<1>6. PostingAlone' /\ WsaSendHeld'
  BY <1>1, <1>3, <1>5 DEF PostingAlone, WsaSendHeld, vars, threads, Valid
<1>7. QED
  BY <1>2, <1>4, <1>6

\* Get (SharedPoolPtr.hpp:103-120) keeps the invariant.
LEMMA GetBInv ==
  ASSUME Inv, SendersFit, PostingAlone, WsaSendHeld, NEW b \in Senders, Get(b)
  PROVE  Inv' /\ SendersFit' /\ PostingAlone' /\ WsaSendHeld'
<1>1. UNCHANGED <<state, generation_, refCount_, table, ovPtr, accepting, isSending_, io, up,
                  pc, task, result, locals>>
  BY DEF Get, pool, threads
<1>2. crashed' \in BOOLEAN
  BY Zenon DEF Get, Inv, TypeOK
<1>3. Inv'
  BY <1>1, <1>2 DEF Inv, TypeOK, LocalsFit, TaskFits, Pointers, Unused, Free, PushOnce, RefSum,
       Counts, Count, Valid, LocalPtrs, Apart, Sending, Handlers, LeavingFits, Leaving,
       AcceptAlone, Down, IoHeld, Leaked
<1>4. Free' = Free /\ Handlers("write")' = Handlers("write") /\ Leaked' = Leaked
  BY <1>1 DEF Free, Handlers, Leaked, Valid
<1>5. SendersFit'
  BY <1>4 DEF SendersFit, Get, Move, Locked, Outside, Inv, TypeOK, Unused, Valid, Null
<1>6. Posting' = Posting /\ \A c \in Senders : at'[c] = "wsaSend" => at[c] = "wsaSend"
  BY DEF Get, Move, Posting, Locked, Outside, SendersFit
<1>7. PostingAlone' /\ WsaSendHeld'
  BY <1>1, <1>4, <1>6 DEF PostingAlone, WsaSendHeld, Valid
<1>8. QED
  BY <1>3, <1>5, <1>7

\* Lock (Session.cpp:160-173) keeps the invariant.
LEMMA LockBInv ==
  ASSUME Inv, SendersFit, PostingAlone, WsaSendHeld, NEW b \in Senders, Lock(b)
  PROVE  Inv' /\ SendersFit' /\ PostingAlone' /\ WsaSendHeld'
<1>1. UNCHANGED <<state, generation_, refCount_, table, ovPtr, accepting, io, up,
                  pc, task, result, locals, crashed>>
  BY DEF Lock, pool, threads
<1>2. ~Free
  BY DEF Lock, SendersFit, Outside
<1>3. isSending_' \in BOOLEAN /\ (isSending_ => isSending_')
  BY Zenon DEF Lock, Inv, TypeOK
<1>4. Inv'
  BY <1>1, <1>2, <1>3 DEF Inv, TypeOK, LocalsFit, TaskFits, Pointers, Unused, Free, PushOnce, RefSum,
       Counts, Count, Valid, LocalPtrs, Apart, Sending, Handlers, LeavingFits, Leaving,
       AcceptAlone, Down, IoHeld, Leaked
<1>5. Free' = Free /\ Handlers("write")' = Handlers("write")
  BY <1>1 DEF Free, Handlers
<1>6. SendersFit'
  BY <1>2, <1>5 DEF SendersFit, Lock, Move, Locked, Outside
<1>7. Posting = {}
  BY DEF Lock, Posting
<1>8. WsaSendHeld'
  BY <1>7 DEF WsaSendHeld, Lock, Move, Posting, Locked, Outside, SendersFit
<1>9. PostingAlone'
  <2>1. CASE isSending_
    BY <1>7, <2>1 DEF PostingAlone, Lock, Move, Posting, Locked, Outside, SendersFit
  <2>2. CASE ~isSending_
    <3>1. io["write"] = "none" /\ Handlers("write") = {}
      BY <2>2 DEF Inv, Sending
    <3>2. isSending_' /\ Posting' \subseteq {b}
      BY <1>7, <2>2 DEF Lock, Move, Posting, SendersFit
    <3>3. QED
      BY <1>1, <1>5, <3>1, <3>2 DEF PostingAlone
  <2>3. QED
    BY <2>1, <2>2
<1>10. QED
  BY <1>4, <1>6, <1>8, <1>9

\* writeOv_'s pointer is assigned by a sender that has the write to itself.
LEMMA SenderAssigns ==
  ASSUME Inv, ~Free, io["write"] = "none", Handlers("write") = {},
         NEW p \in {Null, table}, Assign("write", p),
         UNCHANGED <<pool, table, accepting, isSending_, io, up, threads, locals, crashed>>
  PROVE  Inv'
<1> USE DEF Inv, TypeOK, Valid, Null, Op, Done, pool, threads
<1>1. RefSum'
  BY AssignSum
<1>2. TypeOK'
  <2>1. (refCount_ \in Nat)'
    BY <1>1, RefNat
  <2>2. ovPtr' \in [Op -> {Null} \cup 0 .. MaxLives]
    BY DEF Assign
  <2>3. QED
    BY <2>1, <2>2
<1>3. LocalsFit' /\ TaskFits'
  BY DEF LocalsFit, TaskFits, Handlers, Assign
<1>4. Pointers' /\ Unused' /\ PushOnce'
  BY DEF Pointers, Unused, Free, PushOnce, Assign
<1>5. Apart' /\ Sending' /\ AcceptAlone'
  BY DEF Apart, Sending, AcceptAlone, Handlers
<1>6. ovPtr'["disconnect"] = ovPtr["disconnect"] /\ ovPtr'["read"] = ovPtr["read"]
  BY DEF Assign
<1>7. LeavingFits' /\ Down' /\ IoHeld'
  BY <1>6 DEF LeavingFits, Leaving, Handlers, Down, IoHeld, Leaked
<1>8. QED
  BY <1>1, <1>2, <1>3, <1>4, <1>5, <1>7

\* AssignPtr (Session.cpp:105-112) keeps the invariant.
LEMMA AssignPtrBInv ==
  ASSUME Inv, SendersFit, PostingAlone, WsaSendHeld, NEW b \in Senders, AssignPtr(b)
  PROVE  Inv' /\ SendersFit' /\ PostingAlone' /\ WsaSendHeld'
<1>1. b \in Posting /\ ~Free
  BY DEF AssignPtr, Posting, Locked, SendersFit, Outside
<1>2. UNCHANGED <<state, generation_, table, accepting, isSending_, io, up, pc, task, result,
                  locals, crashed>> /\ Assign("write", table)
  BY DEF AssignPtr, pool, threads, GetSession
<1>3. io["write"] = "none" /\ Handlers("write") = {}
  BY <1>1 DEF PostingAlone
<1>4. Inv'
  BY <1>1, <1>2, <1>3, SenderAssigns DEF pool, threads
<1>5. Free' = Free /\ Handlers("write")' = Handlers("write")
  BY <1>2 DEF Free, Handlers
<1>6. SendersFit'
  BY <1>1, <1>5 DEF SendersFit, AssignPtr, Move, Locked, Outside
<1>7. Posting' = Posting
  BY DEF AssignPtr, Move, Posting, Locked, SendersFit
<1>8. PostingAlone'
  BY <1>2, <1>5, <1>7 DEF PostingAlone
<1>9. ovPtr'["write"] = table /\ ovPtr'["disconnect"] = ovPtr["disconnect"]
  BY <1>2 DEF Assign, Inv, TypeOK, Op
<1>10. Leaked' = Leaked
  BY <1>2, <1>9 DEF Leaked, Valid
<1>11. Valid(table) \/ (~up /\ state = "kDisconnecting") \/ Leaked
  BY <1>1 DEF Inv, TypeOK, Down, LeavingFits, Free
<1>12. WsaSendHeld'
  BY <1>2, <1>9, <1>10, <1>11 DEF WsaSendHeld, Valid
<1>13. QED
  BY <1>4, <1>6, <1>8, <1>12

\* WSASend (Session.cpp:114-120) keeps the invariant.
LEMMA WSASendBInv ==
  ASSUME Inv, SendersFit, PostingAlone, WsaSendHeld, NEW b \in Senders, WSASend(b)
  PROVE  Inv' /\ SendersFit' /\ PostingAlone' /\ WsaSendHeld'
<1>1. b \in Posting /\ ~Free /\ up
  BY DEF WSASend, Posting, Locked, SendersFit, Outside
<1>2. UNCHANGED <<state, generation_, refCount_, table, ovPtr, accepting, isSending_, up,
                  pc, task, result, locals, crashed>>
  BY DEF WSASend, pool, threads
<1>3. io' = [io EXCEPT !["write"] = "posted"]
  BY DEF WSASend
<1>4. Handlers("write") = {} /\ isSending_ /\ Posting = {b}
  BY <1>1 DEF PostingAlone
<1>5. Valid(ovPtr["write"]) \/ Leaked
  BY <1>1 DEF WsaSendHeld, WSASend
<1>6. Inv'
  <2> USE DEF Inv, TypeOK, Valid, Op, Done
  <2>1. TypeOK' /\ RefSum'
    BY <1>2, <1>3 DEF RefSum, Counts, Count, LocalPtrs
  <2>2. LocalsFit' /\ TaskFits' /\ Pointers' /\ Unused' /\ PushOnce'
    BY <1>1, <1>2 DEF LocalsFit, TaskFits, Pointers, Unused, Free, PushOnce
  <2>3. Apart' /\ Sending'
    BY <1>2, <1>3, <1>4 DEF Apart, Sending, Handlers
  <2>4. AcceptAlone' /\ LeavingFits'
    BY <1>1, <1>2, <1>3 DEF AcceptAlone, LeavingFits, Leaving, Handlers
  <2>5. Down' /\ IoHeld'
    BY <1>2, <1>3, <1>5 DEF Down, IoHeld, Leaked
  <2>6. QED
    BY <2>1, <2>2, <2>3, <2>4, <2>5
<1>7. Free' = Free
  BY <1>2 DEF Free
<1>8. SendersFit'
  BY <1>1, <1>7 DEF SendersFit, WSASend, Move, Outside
<1>9. Posting' = {}
  BY <1>4 DEF WSASend, Move, Posting, Locked, Outside, SendersFit
<1>10. PostingAlone' /\ WsaSendHeld'
  BY <1>9 DEF PostingAlone, WsaSendHeld, Posting, Locked
<1>11. QED
  BY <1>6, <1>8, <1>10

\* WSASendFails (Session.cpp:118-134) keeps the invariant.
LEMMA WSASendFailsBInv ==
  ASSUME Inv, SendersFit, PostingAlone, WsaSendHeld, NEW b \in Senders, WSASendFails(b), ~outlived'
  PROVE  Inv' /\ SendersFit' /\ PostingAlone' /\ WsaSendHeld'
<1>1. b \in Posting /\ ~Free
  BY DEF WSASendFails, Posting, Locked, SendersFit, Outside
<1>2. UNCHANGED <<state, generation_, table, accepting, isSending_, io, up, pc, task, result,
                  locals, crashed>> /\ Assign("write", Null) /\ Move(b, Outside)
  BY DEF WSASendFails, pool, threads
<1>3. io["write"] = "none" /\ Handlers("write") = {} /\ Posting = {b}
  BY <1>1 DEF PostingAlone
<1>4. Inv'
  BY <1>1, <1>2, <1>3, SenderAssigns DEF pool, threads
<1>5. Free' = Free
  BY <1>2 DEF Free
<1>6. SendersFit'
  BY <1>1, <1>2, <1>5 DEF SendersFit, Move, Outside
<1>7. Posting' = {}
  BY <1>2, <1>3 DEF Move, Posting, Locked, Outside, SendersFit
<1>8. PostingAlone' /\ WsaSendHeld'
  BY <1>7 DEF PostingAlone, WsaSendHeld, Posting, Locked
<1>9. QED
  BY <1>4, <1>6, <1>8
-----------------------------------------------------------------------------
\* The initial state satisfies the invariant.
LEMMA BInitBInv == BInit => BInv
<1> SUFFICES ASSUME BInit PROVE BInv
  OBVIOUS
<1>1. Inv
  BY InitInv DEF BInit
<1>2. Posting = {} /\ SendersFit
  BY DEF BInit, Posting, Locked, Outside, SendersFit
<1>3. PostingAlone /\ WsaSendHeld
  BY <1>2 DEF PostingAlone, WsaSendHeld, Posting, Locked
<1>4. QED
  BY <1>1, <1>2, <1>3 DEF BInv

\* The invariant is inductive.
LEMMA BNextBInv ==
  ASSUME BInv, [BNext]_bvars PROVE BInv'
<1>1. outlived => outlived'
  BY DEF BNext, OwnStep, Broadcast, GetIndices, Check, Get, Lock, AssignPtr, WSASend, WSASendFails,
         PushSlot, bvars
<1>2. SUFFICES ASSUME ~outlived' PROVE Inv' /\ SendersFit' /\ PostingAlone' /\ WsaSendHeld'
  BY DEF BInv
<1>3. Inv /\ SendersFit /\ PostingAlone /\ WsaSendHeld
  BY <1>1, <1>2 DEF BInv
<1>4. CASE OwnStep
  BY <1>2, <1>3, <1>4, OwnStepBInv
<1>5. ASSUME NEW b \in Senders, Broadcast(b)
      PROVE  Inv' /\ SendersFit' /\ PostingAlone' /\ WsaSendHeld'
  <2>1. ~PushSlot(b)
    BY <1>3 DEF SendersFit, PushSlot, Outside, Locked
  <2>2. QED
    BY <1>2, <1>3, <1>5, <2>1, GetIndicesBInv, GetBInv, LockBInv, AssignPtrBInv, WSASendBInv,
       WSASendFailsBInv DEF Broadcast
<1>6. CASE UNCHANGED bvars
  <2>1. UNCHANGED vars /\ at' = at
    BY <1>6 DEF bvars
  <2>2. Inv'
    BY <1>3, <2>1, StutterInv
  <2>3. QED
    BY <1>3, <2>1, <2>2 DEF SendersFit, PostingAlone, WsaSendHeld, Posting, Free, Handlers, Leaked, Valid,
                            vars, threads
<1>7. QED
  BY <1>4, <1>5, <1>6 DEF BNext

\* It holds of every behaviour.
LEMMA BInvHolds == BSpec => []BInv
<1>1. BInv /\ [BNext]_bvars => BInv'
  BY BNextBInv
<1>2. QED
  BY <1>1, BInitBInv, PTL DEF BSpec

\* SparsePool.hpp:89-119 with Session.cpp:112, 121: the reference count stays exact while
\* any number of other threads send on the session, as long as none outlives it.
THEOREM BroadcastCounted == BSpec => []BroadcastRefExact
<1>1. BInv => BroadcastRefExact
  BY InvRefExact DEF BInv, BroadcastRefExact
<1>2. QED
  BY <1>1, BInvHolds, PTL

\* SparsePool.hpp:106-110: what is given back to the pool is not in use, whoever sends.
THEOREM BroadcastFreed == BSpec => []BroadcastFreedIsUnused
<1>1. BInv => BroadcastFreedIsUnused
  BY InvFreedIsUnused DEF BInv, BroadcastFreedIsUnused
<1>2. QED
  BY <1>1, BInvHolds, PTL

\* Session.cpp:172-179: each OVERLAPPED has one owner, the senders included.
THEOREM BroadcastOwned == BSpec => []BroadcastOneOwner
<1>1. BInv => BroadcastOneOwner
  <2> SUFFICES ASSUME BInv, ~outlived PROVE BroadcastOneOwner
    BY DEF BroadcastOneOwner
  <2>1. Inv /\ PostingAlone
    BY DEF BInv
  <2>2. ASSUME Posting # {}
        PROVE  Cardinality(Posting) = 1 /\ Handlers("write") = {} /\ io["write"] = "none"
    <3>1. PICK b \in Posting : TRUE
      BY <2>2
    <3>2. Posting = {b} /\ Handlers("write") = {} /\ io["write"] = "none"
      BY <2>1, <3>1 DEF PostingAlone
    <3>3. QED
      BY <3>2, FS_Singleton
  <2>3. QED
    BY <2>1, <2>2, InvOneOwner DEF BroadcastOneOwner
<1>2. QED
  BY <1>1, BInvHolds, PTL

\* Session.cpp:106, 138 "assert(isSending_)" holds where it stands, whoever sends.
THEOREM BroadcastAsserted == BSpec => []BroadcastAsserts
<1>1. BInv => BroadcastAsserts
  BY DEF BInv, BroadcastAsserts, Inv, Sending, PostingAlone
<1>2. QED
  BY <1>1, BInvHolds, PTL

\* BroadcastGate is inductive relative to the invariant.
LEMMA BGateNext ==
  ASSUME BInv, BroadcastGate, [BNext]_bvars PROVE BroadcastGate'
<1>1. outlived => outlived'
  BY DEF BNext, OwnStep, Broadcast, GetIndices, Check, Get, Lock, AssignPtr, WSASend, WSASendFails,
         PushSlot, bvars
<1>2. SUFFICES ASSUME ~outlived', ~abandoned', isSending_' PROVE Gated' \/ Posting' # {}
  BY DEF BroadcastGate, Gated
<1>3. ~outlived /\ Inv /\ SendersFit
  BY <1>1, <1>2 DEF BInv
<1>4. ~abandoned => Gated \/ Posting # {}
  BY <1>3 DEF BroadcastGate, Gated
<1>5. CASE OwnStep
  <2>1. ~abandoned /\ Posting' = Posting
    BY <1>2, <1>5 DEF OwnStep, Posting
  <2>2. OwnStep => Next
    BY DEF OwnStep, Next
  <2>3. Gated => Gated'
    BY <1>3, <1>5, <2>2, GatedNext
  <2>4. QED
    BY <1>4, <2>1, <2>3
<1>6. ASSUME NEW b \in Senders, Broadcast(b) PROVE Gated' \/ Posting' # {}
  <2>1. ASSUME UNCHANGED <<state, isSending_, io, pc, task, abandoned>>, Posting' = Posting
        PROVE  Gated' \/ Posting' # {}
    BY <1>2, <1>4, <2>1 DEF Gated, Handlers
  <2>2. CASE GetIndices(b) \/ Check(b) \/ Get(b)
    <3>1. Posting' = Posting
      BY <1>3, <2>2 DEF GetIndices, Check, Get, Move, Posting, Locked, Outside, SendersFit
    <3>2. UNCHANGED <<state, isSending_, io, pc, task, abandoned>>
      BY <2>2 DEF GetIndices, Check, Get, vars, pool, threads
    <3>3. QED
      BY <2>1, <3>1, <3>2
  <2>3. CASE Lock(b)
    <3>1. CASE isSending_
      <4>1. Posting' = Posting
        BY <1>3, <2>3, <3>1 DEF Lock, Move, Posting, Locked, Outside, SendersFit
      <4>2. UNCHANGED <<state, isSending_, io, pc, task, abandoned>>
        BY <2>3, <3>1 DEF Lock, pool, threads
      <4>3. QED
        BY <2>1, <4>1, <4>2
    <3>2. CASE ~isSending_
      BY <1>3, <2>3, <3>2 DEF Lock, Move, Posting, Locked, SendersFit
    <3>3. QED
      BY <3>1, <3>2
  <2>4. CASE AssignPtr(b)
    BY <1>3, <2>4 DEF AssignPtr, Move, Posting, Locked, SendersFit
  <2>5. CASE WSASend(b)
    <3>1. io'["write"] = "posted"
      BY <1>3, <2>5 DEF WSASend, Inv, TypeOK, Op
    <3>2. QED
      BY <3>1 DEF Gated
  <2>6. ~WSASendFails(b) /\ ~PushSlot(b)
    BY <1>2, <1>3 DEF WSASendFails, PushSlot, SendersFit, Outside, Locked
  <2>7. QED
    BY <1>6, <2>2, <2>3, <2>4, <2>5, <2>6 DEF Broadcast
<1>7. CASE UNCHANGED bvars
  <2>1. UNCHANGED <<state, isSending_, io, pc, task, abandoned, at>>
    BY <1>7 DEF bvars, vars, threads
  <2>2. QED
    BY <1>2, <1>4, <2>1 DEF Gated, Handlers, Posting
<1>8. QED
  BY <1>5, <1>6, <1>7 DEF BNext

\* Session.cpp:147-150, 172-178: whoever sends and whatever fails, isSending_ of a session
\* that is not on its way out stands for a write that is posted, completed or about to be
\* posted, unless the WSASend of a sender failed.
THEOREM BroadcastGated == BSpec => []BroadcastGate
<1>1. BInit => BroadcastGate
  BY DEF BInit, Init, BroadcastGate
<1>2. BInv /\ BroadcastGate /\ [BNext]_bvars => BroadcastGate'
  BY BGateNext
<1>3. QED
  BY <1>1, <1>2, BInvHolds, PTL DEF BSpec
=============================================================================
