--------------------------- MODULE ListenerProofs ---------------------------
(***************************************************************************)
(* The accept pump keeps its count exact and refills what it can, for any  *)
(* number of threads and sessions and any kAcceptCount.                    *)
(***************************************************************************)
EXTENDS Listener, FiniteSetTheorems, TLAPS

USE ListenerAssumption

\* What a thread may rely on about the sessions it refers to.
Mine(t) ==
  /\ pc[t] = "cas" => current[t] < kAcceptCount
  /\ pc[t] \in {"register", "setListener", "dtor"} <=> sessionPtr[t] # NoSlot
  /\ pc[t] = "register" => slot[sessionPtr[t]] = "held"
  /\ pc[t] = "idle" => serving[t] = NoSlot
  /\ pc[t] \in {"dec", "handle", "drop"} => serving[t] # NoSlot
  /\ pc[t] = "dec" => slot[serving[t]] = "taken"
  /\ serving[t] # NoSlot /\ pc[t] \in Pump \cup {"handle"} => slot[serving[t]] = "accepted"
  /\ sessionPtr[t] # NoSlot /\ slot[sessionPtr[t]] = "dropped" => nest[t] < MaxNest

\* No two threads prepare the same accept or answer the same completion.
Apart(t, u) ==
  /\ pc[t] = "register" /\ pc[u] = "register" => sessionPtr[t] # sessionPtr[u]
  /\ serving[t] # NoSlot /\ pc[t] # "drop" /\ pc[u] # "drop" => serving[t] # serving[u]

Ownership ==
  /\ \A t \in Threads : Mine(t)
  /\ \A t, u \in Threads : t # u => Apart(t, u)

\* Threads that will look at pendingAccepts_ again, and threads about to return a
\* reservation.
Active == {t \in Threads : pc[t] \in Pump \ {"undo"}}
Undoing == {t \in Threads : pc[t] = "undo"}

\* Whoever gives up on an idle session leaves the pump behind nearly full.
Refilled ==
  Idle # {} /\ Active = {}
    => pendingAccepts_ - Cardinality(Undoing) + Cardinality(Threads) > kAcceptCount

IInv == TypeOK /\ Ownership /\ AcceptAccounting /\ Refilled
-----------------------------------------------------------------------------
\* The sets that are counted are finite.
LEMMA Counted ==
  /\ IsFiniteSet(Threads) /\ IsFiniteSet(Pending) /\ IsFiniteSet(Reserving) /\ IsFiniteSet(Undoing)
  /\ Cardinality(Threads) \in Nat /\ Cardinality(Pending) \in Nat
  /\ Cardinality(Reserving) \in Nat /\ Cardinality(Undoing) \in Nat
<1>1. IsFiniteSet(Threads)
  <2>1. IsFiniteSet(Workers) /\ Threads = Workers \cup {Main}
    BY DEF Threads
  <2>2. QED
    BY <2>1, FS_AddElement
<1>2. IsFiniteSet(Pending)
  <2>1. IsFiniteSet(Slots) /\ Pending \subseteq Slots
    BY DEF Pending
  <2>2. QED
    BY <2>1, FS_Subset
<1>3. IsFiniteSet(Reserving) /\ IsFiniteSet(Undoing)
  <2>1. Reserving \subseteq Threads /\ Undoing \subseteq Threads
    BY DEF Reserving, Undoing
  <2>2. QED
    BY <1>1, <2>1, FS_Subset
<1>4. QED
  BY <1>1, <1>2, <1>3, FS_CardinalityType

\* One more element counts one more.
LEMMA OneMore ==
  ASSUME NEW S, NEW T, NEW x, IsFiniteSet(S), x \notin S, T = S \cup {x}
  PROVE  /\ Cardinality(S) \in Nat
         /\ Cardinality(T) \in Nat
         /\ Cardinality(T) = Cardinality(S) + 1
<1>1. Cardinality(T) = Cardinality(S) + 1
  BY FS_AddElement
<1>2. Cardinality(S) \in Nat
  BY FS_CardinalityType
<1>3. QED
  BY <1>1, <1>2

\* Threads that return a reservation, t not among them, are fewer than all threads.
LEMMA UndoingBound ==
  ASSUME NEW t \in Threads, t \notin Undoing
  PROVE  Cardinality(Undoing) < Cardinality(Threads)
<1>1. IsFiniteSet(Threads) /\ Undoing \subseteq Threads /\ Undoing # Threads
  BY Counted DEF Undoing
<1>2. QED
  BY <1>1, FS_Subset, Counted

\* A thread that stays in the pump, or goes back into it, will refill.
LEMMA ActiveRefills ==
  ASSUME NEW t \in Threads, pc'[t] \in Pump \ {"undo"}
  PROVE  Refilled'
BY DEF Refilled, Active

\* A step that changes neither the count nor who undoes, makes no session idle and
\* sends nobody out of the pump.
LEMMA RefilledStays ==
  ASSUME Refilled, pendingAccepts_' = pendingAccepts_, Idle' \subseteq Idle,
         \A u \in Threads : (pc'[u] = "undo") <=> (pc[u] = "undo"),
         \A u \in Threads : pc[u] \in Pump => pc'[u] \in Pump
  PROVE  Refilled'
<1>1. Undoing' = Undoing
  BY DEF Undoing
<1>2. Active' = {} => Active = {}
  BY DEF Active
<1>3. QED
  BY <1>1, <1>2 DEF Refilled

\* The count stays right when nothing that is counted changes.
LEMMA AccountingStays ==
  ASSUME AcceptAccounting, pendingAccepts_' = pendingAccepts_,
         \A s \in Slots : s \in Pending' <=> s \in Pending,
         \A u \in Threads : u \in Reserving' <=> u \in Reserving
  PROVE  AcceptAccounting'
<1>1. Pending' = Pending
  BY DEF Pending
<1>2. Reserving' = Reserving
  BY DEF Reserving
<1>3. QED
  BY <1>1, <1>2 DEF AcceptAccounting

-----------------------------------------------------------------------------
\* The pump starts with nothing reserved and main about to fill it.
LEMMA InitInv == Init => IInv
<1>1. SUFFICES ASSUME Init PROVE IInv
  OBVIOUS
<1>2. TypeOK
  <2>1. listener_ \in [Slots -> BOOLEAN] /\ crashed \in BOOLEAN
    BY <1>1, Zenon DEF Init
  <2>2. /\ pendingAccepts_ \in 0 .. kAcceptCount
        /\ current \in [Threads -> 0 .. kAcceptCount]
        /\ nest \in [Threads -> 0 .. MaxNest]
    BY <1>1 DEF Init
  <2>3. /\ slot \in [Slots -> SlotState]
        /\ pc \in [Threads -> PC]
        /\ sessionPtr \in [Threads -> Slots \cup {NoSlot}]
        /\ serving \in [Threads -> Slots \cup {NoSlot}]
    BY <1>1 DEF Init, PC, Pump, SlotState
  <2>4. QED
    BY <2>1, <2>2, <2>3 DEF TypeOK
<1>3. Ownership
  BY <1>1 DEF Init, Ownership, Mine, Apart, Pump, Threads
<1>4. AcceptAccounting
  <2>1. Pending = {} /\ Reserving = {}
    BY <1>1 DEF Init, Pending, Reserving
  <2>2. pendingAccepts_ = 0
    BY <1>1 DEF Init
  <2>3. QED
    BY <2>1, <2>2, FS_EmptySet DEF AcceptAccounting
<1>5. Refilled
  <2>1. Main \in Active
    BY <1>1 DEF Init, Active, Pump, Threads
  <2>2. QED
    BY <2>1 DEF Refilled
<1>6. QED
  BY <1>2, <1>3, <1>4, <1>5 DEF IInv

\* Line 92: looking at the count changes nothing; who gives up saw it full.
LEMMA LoadStep ==
  ASSUME IInv, NEW t \in Threads, Load(t)
  PROVE  IInv'
<1>1. TypeOK'
  BY DEF IInv, TypeOK, Ownership, Mine, Load, Exit, Goto, PC, Pump
<1>2. \A u \in Threads : Mine(u)'
  BY DEF IInv, TypeOK, Ownership, Mine, Load, Exit, Goto, PC, Pump
<1>3. \A u, v \in Threads : u # v => Apart(u, v)'
  BY DEF IInv, TypeOK, Ownership, Mine, Apart, Load, Exit, Goto, PC, Pump
<1>4. AcceptAccounting'
  BY AccountingStays DEF IInv, TypeOK, Pending, Reserving, Load, Exit, Goto
<1>5. Refilled'
  <2>1. CASE pc'[t] \in Pump \ {"undo"}
    BY <2>1, ActiveRefills
  <2>2. CASE pc'[t] \notin Pump \ {"undo"}
    <3>1. pendingAccepts_ >= kAcceptCount /\ pendingAccepts_' = pendingAccepts_
      BY <2>2 DEF IInv, TypeOK, Load, Exit, Goto, Pump
    <3>2. Undoing' = Undoing /\ t \notin Undoing
      BY <2>2 DEF IInv, TypeOK, Load, Exit, Goto, Undoing, Pump
    <3>3. Cardinality(Undoing) < Cardinality(Threads)
      BY <3>2, UndoingBound
    <3>4. QED
      BY <3>1, <3>2, <3>3, Counted DEF Refilled, IInv, TypeOK
  <2>3. QED
    BY <2>1, <2>2
<1>6. QED
  BY <1>1, <1>2, <1>3, <1>4, <1>5 DEF IInv, Ownership

\* Line 97: the count goes up with a reservation.
LEMMA CasStep ==
  ASSUME IInv, NEW t \in Threads, Cas(t)
  PROVE  IInv'
<1>1. TypeOK'
  BY DEF IInv, TypeOK, Ownership, Mine, Cas, Goto, PC, Pump
<1>2. \A u \in Threads : Mine(u)'
  BY DEF IInv, TypeOK, Ownership, Mine, Cas, Goto, PC, Pump
<1>3. \A u, v \in Threads : u # v => Apart(u, v)'
  BY DEF IInv, TypeOK, Ownership, Mine, Apart, Cas, Goto, PC, Pump
<1>4. AcceptAccounting'
  <2>1. CASE pendingAccepts_ = current[t]
    <3>1. pendingAccepts_' = pendingAccepts_ + 1 /\ Pending' = Pending
      BY <2>1 DEF Cas, Pending
    <3>2. t \notin Reserving /\ Reserving' = Reserving \cup {t}
      BY <2>1 DEF IInv, TypeOK, Cas, Goto, Reserving
    <3>3. Cardinality(Reserving') = Cardinality(Reserving) + 1
      BY <3>2, Counted, OneMore
    <3>4. QED
      BY <3>1, <3>3, Counted DEF IInv, TypeOK, AcceptAccounting
  <2>2. CASE pendingAccepts_ # current[t]
    BY <2>2, AccountingStays DEF IInv, TypeOK, Pending, Reserving, Cas, Goto
  <2>3. QED
    BY <2>1, <2>2
<1>5. Refilled'
  BY ActiveRefills DEF IInv, TypeOK, Cas, Goto, Pump
<1>6. QED
  BY <1>1, <1>2, <1>3, <1>4, <1>5 DEF IInv, Ownership

\* Lines 100-105: the reservation becomes a session, or there is none to be had.
LEMMA CreateStep ==
  ASSUME IInv, NEW t \in Threads, Create(t)
  PROVE  IInv'
<1>1. TypeOK'
  BY DEF IInv, TypeOK, Ownership, Mine, Create, Goto, PC, Pump, SlotState
<1>2. \A u \in Threads : Mine(u)'
  BY DEF IInv, TypeOK, Ownership, Mine, Apart, Create, Goto, PC, Pump
<1>3. \A u, v \in Threads : u # v => Apart(u, v)'
  BY DEF IInv, TypeOK, Ownership, Mine, Apart, Create, Goto, PC, Pump
<1>4. AcceptAccounting'
  <2>1. CASE \E s \in Slots : slot[s] = "idle" /\ slot' = [slot EXCEPT ![s] = "held"]
    <3>1. PICK s \in Slots : slot[s] = "idle" /\ slot' = [slot EXCEPT ![s] = "held"]
      BY <2>1
    <3>2. pc' = [pc EXCEPT ![t] = "register"] /\ pc[t] = "create"
      BY <3>1 DEF IInv, TypeOK, Create, Goto
    <3>3. s \notin Pending /\ Pending' = Pending \cup {s}
      BY <3>1 DEF IInv, TypeOK, Pending
    <3>4. t \notin Reserving' /\ Reserving = Reserving' \cup {t} /\ Reserving' \subseteq Reserving
      BY <3>2 DEF IInv, TypeOK, Reserving
    <3>5. IsFiniteSet(Reserving')
      BY <3>4, Counted, FS_Subset
    <3>6. Cardinality(Pending') = Cardinality(Pending) + 1
      BY <3>3, Counted, OneMore
    <3>7. Cardinality(Reserving) = Cardinality(Reserving') + 1 /\ Cardinality(Reserving') \in Nat
      BY <3>4, <3>5, OneMore
    <3>8. pendingAccepts_' = pendingAccepts_
      BY DEF Create
    <3>9. QED
      BY <3>6, <3>7, <3>8, Counted DEF IInv, AcceptAccounting
  <2>2. CASE slot' = slot /\ pc' = [pc EXCEPT ![t] = "undo"]
    BY <2>2, AccountingStays DEF IInv, TypeOK, Pending, Reserving, Create
  <2>3. QED
    BY <2>1, <2>2 DEF Create, Goto
<1>5. Refilled'
  <2>1. CASE pc'[t] \in Pump \ {"undo"}
    BY <2>1, ActiveRefills
  <2>2. CASE pc'[t] \notin Pump \ {"undo"}
    <3>1. Idle' = {}
      BY <2>2 DEF IInv, TypeOK, Create, Goto, Idle, Pump
    <3>2. QED
      BY <3>1 DEF Refilled
  <2>3. QED
    BY <2>1, <2>2
<1>6. QED
  BY <1>1, <1>2, <1>3, <1>4, <1>5 DEF IInv, Ownership

\* Line 102: a reservation without a session is returned.
LEMMA UndoStep ==
  ASSUME IInv, NEW t \in Threads, Undo(t)
  PROVE  IInv'
<1>1. TypeOK'
  <2>1. Reserving # {} /\ IsFiniteSet(Reserving)
    BY Counted DEF Undo, Reserving
  <2>2. Cardinality(Reserving) # 0
    BY <2>1, FS_EmptySet
  <2>3. pendingAccepts_ >= 1
    BY <2>2, Counted DEF IInv, TypeOK, AcceptAccounting
  <2>4. QED
    BY <2>3 DEF IInv, TypeOK, Undo, Exit, Goto, PC, Pump
<1>2. \A u \in Threads : Mine(u)'
  BY DEF IInv, TypeOK, Ownership, Mine, Apart, Undo, Exit, Goto, PC, Pump
<1>3. \A u, v \in Threads : u # v => Apart(u, v)'
  BY DEF IInv, TypeOK, Ownership, Mine, Apart, Undo, Exit, Goto, PC, Pump
<1>4. AcceptAccounting'
  <2>1. pc[t] = "undo" /\ pc'[t] # "undo" /\ pc'[t] # "create"
        /\ pc' = [pc EXCEPT ![t] = pc'[t]]
    BY DEF IInv, TypeOK, Undo, Exit, Goto
  <2>2. t \notin Reserving' /\ Reserving = Reserving' \cup {t} /\ Reserving' \subseteq Reserving
    BY <2>1 DEF IInv, TypeOK, Reserving
  <2>3. IsFiniteSet(Reserving')
    BY <2>2, Counted, FS_Subset
  <2>4. Cardinality(Reserving) = Cardinality(Reserving') + 1 /\ Cardinality(Reserving') \in Nat
    BY <2>2, <2>3, OneMore
  <2>5. Pending' = Pending /\ pendingAccepts_' = pendingAccepts_ - 1
    BY DEF Pending, Undo
  <2>6. QED
    BY <2>4, <2>5, Counted DEF IInv, AcceptAccounting
<1>5. Refilled'
  <2>1. CASE pc'[t] \in Pump \ {"undo"}
    BY <2>1, ActiveRefills
  <2>2. CASE pc'[t] \notin Pump \ {"undo"}
    <3>1. pc[t] = "undo" /\ pc'[t] # "undo" /\ pc' = [pc EXCEPT ![t] = pc'[t]]
      BY DEF IInv, TypeOK, Undo, Exit, Goto
    <3>2. t \notin Undoing' /\ Undoing = Undoing' \cup {t} /\ Undoing' \subseteq Undoing
      BY <3>1 DEF IInv, TypeOK, Undoing
    <3>3. IsFiniteSet(Undoing')
      BY <3>2, Counted, FS_Subset
    <3>4. Cardinality(Undoing) = Cardinality(Undoing') + 1 /\ Cardinality(Undoing') \in Nat
      BY <3>2, <3>3, OneMore
    <3>5. Idle' = Idle /\ (Active' = {} => Active = {})
      BY <2>2, <3>1 DEF IInv, TypeOK, Undo, Idle, Active
    <3>6. pendingAccepts_' = pendingAccepts_ - 1
      BY DEF Undo
    <3>7. QED
      BY <3>4, <3>5, <3>6, Counted DEF IInv, TypeOK, Refilled
  <2>3. QED
    BY <2>1, <2>2
<1>6. QED
  BY <1>1, <1>2, <1>3, <1>4, <1>5 DEF IInv, Ownership

\* Lines 121-148: the session stays counted whether or not AcceptEx succeeded.
LEMMA RegisterStep ==
  ASSUME IInv, NEW t \in Threads, RegisterAccept(t)
  PROVE  IInv'
<1>1. TypeOK'
  BY DEF IInv, TypeOK, Ownership, Mine, RegisterAccept, Goto, PC, Pump, SlotState
<1>2. \A u \in Threads : Mine(u)'
  BY DEF IInv, TypeOK, Ownership, Mine, Apart, RegisterAccept, Goto, PC, Pump
<1>3. \A u, v \in Threads : u # v => Apart(u, v)'
  BY DEF IInv, TypeOK, Ownership, Mine, Apart, RegisterAccept, Goto, PC, Pump
<1>4. AcceptAccounting'
  BY AccountingStays DEF IInv, TypeOK, Ownership, Mine, Pending, Reserving, RegisterAccept, Goto, Pump
<1>5. Refilled'
  BY ActiveRefills DEF IInv, TypeOK, RegisterAccept, Goto, Pump
<1>6. QED
  BY <1>1, <1>2, <1>3, <1>4, <1>5 DEF IInv, Ownership

\* Line 115.
LEMMA SetListenerStep ==
  ASSUME IInv, NEW t \in Threads, SetListener(t)
  PROVE  IInv'
<1>1. TypeOK'
  BY DEF IInv, TypeOK, Ownership, Mine, SetListener, Goto, PC, Pump, SlotState
<1>2. \A u \in Threads : Mine(u)'
  BY DEF IInv, TypeOK, Ownership, Mine, Apart, SetListener, Goto, PC, Pump
<1>3. \A u, v \in Threads : u # v => Apart(u, v)'
  BY DEF IInv, TypeOK, Ownership, Mine, Apart, SetListener, Goto, PC, Pump
<1>4. AcceptAccounting'
  BY AccountingStays DEF IInv, TypeOK, Ownership, Mine, Pending, Reserving, SetListener, Goto, Pump
<1>5. Refilled'
  BY ActiveRefills DEF IInv, TypeOK, SetListener, Goto, Pump
<1>6. QED
  BY <1>1, <1>2, <1>3, <1>4, <1>5 DEF IInv, Ownership

\* Line 116: PostAccept's pointer may be the last one; the release then refills.
LEMMA DtorStep ==
  ASSUME IInv, NEW t \in Threads, Dtor(t)
  PROVE  IInv'
<1>1. TypeOK'
  BY DEF IInv, TypeOK, Ownership, Mine, Dtor, Release, HeldByOther, Goto, PC, Pump, SlotState
<1>2. \A u \in Threads : Mine(u)'
  BY DEF IInv, TypeOK, Ownership, Mine, Apart, Dtor, Release, HeldByOther, Goto, PC, Pump
<1>3. \A u, v \in Threads : u # v => Apart(u, v)'
  BY DEF IInv, TypeOK, Ownership, Mine, Apart, Dtor, Release, HeldByOther, Goto, PC, Pump
<1>4. AcceptAccounting'
  BY AccountingStays DEF IInv, TypeOK, Ownership, Mine, Pending, Reserving, Dtor, Release, HeldByOther, Goto, Pump
<1>5. Refilled'
  BY ActiveRefills DEF IInv, TypeOK, Dtor, Release, HeldByOther, Goto, Pump
<1>6. QED
  BY <1>1, <1>2, <1>3, <1>4, <1>5 DEF IInv, Ownership

\* A client connects.
LEMMA AcceptedStep ==
  ASSUME IInv, NEW s \in Slots, Accepted(s)
  PROVE  IInv'
<1>1. TypeOK'
  BY DEF IInv, TypeOK, Ownership, Mine, Accepted, PC, Pump, SlotState
<1>2. \A u \in Threads : Mine(u)'
  BY DEF IInv, TypeOK, Ownership, Mine, Apart, Accepted, PC, Pump
<1>3. \A u, v \in Threads : u # v => Apart(u, v)'
  BY DEF IInv, TypeOK, Ownership, Mine, Apart, Accepted, PC, Pump
<1>4. AcceptAccounting'
  BY AccountingStays DEF IInv, TypeOK, Ownership, Mine, Pending, Reserving, Accepted, Pump
<1>5. Refilled'
  BY RefilledStays DEF IInv, TypeOK, Ownership, Mine, Idle, Accepted, Pump
<1>6. QED
  BY <1>1, <1>2, <1>3, <1>4, <1>5 DEF IInv, Ownership

\* IocpCore.cpp:143-156: one worker gets the completion.
LEMMA TakeAcceptStep ==
  ASSUME IInv, NEW t \in Threads, NEW s \in Slots, TakeAccept(t, s)
  PROVE  IInv'
<1>1. TypeOK'
  BY DEF IInv, TypeOK, Ownership, Mine, TakeAccept, Goto, PC, Pump, SlotState
<1>2. \A u \in Threads : Mine(u)'
  BY DEF IInv, TypeOK, Ownership, Mine, Apart, TakeAccept, Goto, PC, Pump
<1>3. \A u, v \in Threads : u # v => Apart(u, v)'
  BY DEF IInv, TypeOK, Ownership, Mine, Apart, TakeAccept, Goto, PC, Pump
<1>4. AcceptAccounting'
  BY AccountingStays DEF IInv, TypeOK, Ownership, Mine, Pending, Reserving, TakeAccept, Goto, Pump
<1>5. Refilled'
  BY RefilledStays DEF IInv, TypeOK, Ownership, Mine, Idle, TakeAccept, Goto, Pump
<1>6. QED
  BY <1>1, <1>2, <1>3, <1>4, <1>5 DEF IInv, Ownership

\* Lines 61-88.
LEMMA HandleStep ==
  ASSUME IInv, NEW t \in Threads, HandleAccept(t)
  PROVE  IInv'
<1>1. TypeOK'
  BY DEF IInv, TypeOK, Ownership, Mine, HandleAccept, Goto, PC, Pump, SlotState
<1>2. \A u \in Threads : Mine(u)'
  BY DEF IInv, TypeOK, Ownership, Mine, Apart, HandleAccept, Goto, PC, Pump
<1>3. \A u, v \in Threads : u # v => Apart(u, v)'
  BY DEF IInv, TypeOK, Ownership, Mine, Apart, HandleAccept, Goto, PC, Pump
<1>4. AcceptAccounting'
  BY AccountingStays DEF IInv, TypeOK, Ownership, Mine, Pending, Reserving, HandleAccept, Goto, Pump
<1>5. Refilled'
  BY RefilledStays DEF IInv, TypeOK, Ownership, Mine, Idle, HandleAccept, Goto, Pump
<1>6. QED
  BY <1>1, <1>2, <1>3, <1>4, <1>5 DEF IInv, Ownership

\* A session is disconnected; whoever still holds it can afford to refill.
LEMMA TakeCloseStep ==
  ASSUME IInv, NEW t \in Threads, NEW s \in Slots, TakeClose(t, s)
  PROVE  IInv'
<1>1. TypeOK'
  BY DEF IInv, TypeOK, Ownership, Mine, TakeClose, Goto, PC, Pump, SlotState
<1>2. \A u \in Threads : Mine(u)'
  BY DEF IInv, TypeOK, Ownership, Mine, Apart, TakeClose, Goto, PC, Pump
<1>3. \A u, v \in Threads : u # v => Apart(u, v)'
  BY DEF IInv, TypeOK, Ownership, Mine, Apart, TakeClose, Goto, PC, Pump
<1>4. AcceptAccounting'
  BY AccountingStays DEF IInv, TypeOK, Ownership, Mine, Pending, Reserving, TakeClose, Goto, Pump
<1>5. Refilled'
  BY RefilledStays DEF IInv, TypeOK, Ownership, Mine, Idle, TakeClose, Goto, Pump
<1>6. QED
  BY <1>1, <1>2, <1>3, <1>4, <1>5 DEF IInv, Ownership

\* IocpCore.cpp:156-173: the worker lets go, and refills if it was the last.
LEMMA DropStep ==
  ASSUME IInv, NEW t \in Threads, Drop(t)
  PROVE  IInv'
<1>1. TypeOK'
  BY DEF IInv, TypeOK, Ownership, Mine, Drop, Release, HeldByOther, Goto, PC, Pump, SlotState
<1>2. \A u \in Threads : Mine(u)'
  BY DEF IInv, TypeOK, Ownership, Mine, Apart, Drop, Release, HeldByOther, Goto, PC, Pump
<1>3. \A u, v \in Threads : u # v => Apart(u, v)'
  BY DEF IInv, TypeOK, Ownership, Mine, Apart, Drop, Release, HeldByOther, Goto, PC, Pump
<1>4. AcceptAccounting'
  BY AccountingStays DEF IInv, TypeOK, Ownership, Mine, Pending, Reserving, Drop, Release, HeldByOther, Goto, Pump
<1>5. Refilled'
  <2>1. CASE pc'[t] \in Pump \ {"undo"}
    BY <2>1, ActiveRefills
  <2>2. CASE pc'[t] \notin Pump \ {"undo"}
    <3>1. slot' = slot /\ pc' = [pc EXCEPT ![t] = "idle"] /\ pc[t] = "drop"
      BY <2>2 DEF IInv, TypeOK, Drop, Release, HeldByOther, Goto, Pump
    <3>2. Idle' = Idle /\ pendingAccepts_' = pendingAccepts_
      BY <3>1 DEF Idle, Drop
    <3>3. QED
      BY <3>1, <3>2, RefilledStays DEF IInv, TypeOK, Pump
  <2>3. QED
    BY <2>1, <2>2
<1>6. QED
  BY <1>1, <1>2, <1>3, <1>4, <1>5 DEF IInv, Ownership

\* Lines 150-153: a completed accept is no longer counted.
LEMMA DecStep ==
  ASSUME IInv, NEW t \in Threads, Dec(t)
  PROVE  IInv'
<1>1. TypeOK'
  <2>1. serving[t] \in Pending
    BY DEF IInv, TypeOK, Ownership, Mine, Dec, Pending
  <2>2. Cardinality(Pending) # 0
    BY <2>1, Counted, FS_EmptySet
  <2>3. pendingAccepts_ >= 1
    BY <2>2, Counted DEF IInv, TypeOK, AcceptAccounting
  <2>4. crashed' \in BOOLEAN
    BY Zenon DEF IInv, TypeOK, Dec
  <2>5. QED
    BY <2>1, <2>3, <2>4 DEF IInv, TypeOK, Dec, Goto, PC, Pump, SlotState, Pending
<1>2. \A u \in Threads : Mine(u)'
  BY DEF IInv, TypeOK, Ownership, Mine, Apart, Dec, Goto, PC, Pump
<1>3. \A u, v \in Threads : u # v => Apart(u, v)'
  BY DEF IInv, TypeOK, Ownership, Mine, Apart, Dec, Goto, PC, Pump
<1>4. AcceptAccounting'
  <2>1. CASE listener_[serving[t]]
    <3>1. PICK s \in Slots : s = serving[t]
      BY DEF IInv, TypeOK, Ownership, Mine, Dec
    <3>2. slot[s] = "taken" /\ slot' = [slot EXCEPT ![s] = "accepted"]
      BY <2>1, <3>1 DEF IInv, TypeOK, Ownership, Mine, Dec
    <3>3. s \notin Pending' /\ Pending = Pending' \cup {s} /\ Pending' \subseteq Pending
      BY <3>2 DEF IInv, TypeOK, Pending
    <3>4. IsFiniteSet(Pending')
      BY <3>3, Counted, FS_Subset
    <3>5. Cardinality(Pending) = Cardinality(Pending') + 1 /\ Cardinality(Pending') \in Nat
      BY <3>3, <3>4, OneMore
    <3>6. Reserving' = Reserving /\ pendingAccepts_' = pendingAccepts_ - 1
      BY <2>1 DEF IInv, TypeOK, Dec, Goto, Reserving
    <3>7. QED
      BY <3>5, <3>6, Counted DEF IInv, AcceptAccounting
  <2>2. CASE ~listener_[serving[t]]
    BY <2>2, AccountingStays DEF IInv, Pending, Reserving, Dec
  <2>3. QED
    BY <2>1, <2>2
<1>5. Refilled'
  <2>1. CASE listener_[serving[t]]
    BY <2>1, ActiveRefills DEF IInv, TypeOK, Dec, Goto, Pump
  <2>2. CASE ~listener_[serving[t]]
    BY <2>2, RefilledStays DEF IInv, Dec, Idle
  <2>3. QED
    BY <2>1, <2>2
<1>6. QED
  BY <1>1, <1>2, <1>3, <1>4, <1>5 DEF IInv, Ownership
-----------------------------------------------------------------------------
\* Every step of every thread preserves the invariant.
LEMMA NextStep == IInv /\ [Next]_vars => IInv'
<1>1. SUFFICES ASSUME IInv, [Next]_vars PROVE IInv'
  OBVIOUS
<1>2. ASSUME NEW t \in Threads, Run(t) PROVE IInv'
  BY <1>1, <1>2, LoadStep, CasStep, CreateStep, UndoStep, RegisterStep, SetListenerStep,
     DtorStep, DecStep, HandleStep, DropStep DEF Run, PostAccept
<1>3. ASSUME NEW t \in Workers, WorkerThread(t) PROVE IInv'
  <2>1. t \in Threads
    BY DEF Threads
  <2>2. QED
    BY <1>1, <1>3, <2>1, TakeAcceptStep, TakeCloseStep DEF WorkerThread
<1>4. ASSUME NEW s \in Slots, Accepted(s) PROVE IInv'
  BY <1>1, <1>4, AcceptedStep
<1>5. CASE UNCHANGED vars
  <2>1. TypeOK'
    BY <1>1, <1>5 DEF vars, IInv, TypeOK
  <2>2. Ownership'
    BY <1>1, <1>5 DEF vars, IInv, Ownership, Mine, Apart
  <2>3. AcceptAccounting'
    BY <1>1, <1>5 DEF vars, IInv, AcceptAccounting, Pending, Reserving
  <2>4. Refilled'
    BY <1>1, <1>5 DEF vars, IInv, Refilled, Idle, Active, Undoing
  <2>5. QED
    BY <2>1, <2>2, <2>3, <2>4 DEF IInv
<1>6. QED
  BY <1>1, <1>2, <1>3, <1>4, <1>5 DEF Next

\* The inductive invariant holds in every state the pump can reach.
THEOREM Invariance == Spec => []IInv
<1>1. QED
  BY InitInv, NextStep, PTL DEF Spec

\* The pump's state is well typed: in particular pendingAccepts_, a size_t that is
\* decremented without a check (lines 102 and 151), neither drops below zero nor
\* exceeds kAcceptCount.
THEOREM TypeCorrect == Spec => []TypeOK
<1>1. IInv => TypeOK
  BY DEF IInv
<1>2. QED
  BY <1>1, Invariance, PTL

\* pendingAccepts_ counts the sessions in AcceptEx and the reservations exactly, for
\* any number of threads in PostAccept at once.
THEOREM AccountingAlways == Spec => []AcceptAccounting
<1>1. IInv => AcceptAccounting
  BY DEF IInv
<1>2. QED
  BY <1>1, Invariance, PTL

\* Line 93: no more than kAcceptCount accepts are ever outstanding.
THEOREM BoundAlways == Spec => []AcceptBound
<1>1. ASSUME IInv PROVE AcceptBound
  <2>1. Outstanding \subseteq Pending
    BY DEF Outstanding, Pending
  <2>2. Cardinality(Outstanding) <= Cardinality(Pending) /\ Cardinality(Outstanding) \in Nat
    BY <2>1, Counted, FS_Subset, FS_CardinalityType
  <2>3. Cardinality(Pending) <= pendingAccepts_ /\ pendingAccepts_ <= kAcceptCount
    BY <1>1, Counted DEF IInv, TypeOK, AcceptAccounting
  <2>4. QED
    BY <1>1, <2>2, <2>3, Counted DEF AcceptBound, IInv, TypeOK
<1>2. QED
  BY <1>1, Invariance, PTL

\* Lines 93-105: when all threads are back to waiting and a session is idle, the pump
\* is at most |Threads| - 1 accepts short of full.
THEOREM RefillAlways == Spec => []RefillBound
<1>1. ASSUME IInv PROVE RefillBound
  <2>1. SUFFICES ASSUME \A t \in Threads : pc[t] = "idle", Idle # {}
                 PROVE  pendingAccepts_ + Cardinality(Threads) > kAcceptCount
    BY DEF RefillBound
  <2>2. Active = {} /\ Undoing = {}
    BY <2>1 DEF Active, Undoing, Pump
  <2>3. Cardinality(Undoing) = 0
    BY <2>2, FS_EmptySet
  <2>4. QED
    BY <1>1, <2>1, <2>2, <2>3, Counted DEF IInv, TypeOK, Refilled
<1>2. QED
  BY <1>1, Invariance, PTL
=============================================================================
