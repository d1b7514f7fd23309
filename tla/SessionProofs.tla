--------------------------- MODULE SessionProofs ---------------------------
(***************************************************************************)
(* Proofs about the life of one session: the reference count is exact, a   *)
(* session that is given back is not in use, and every OVERLAPPED has one  *)
(* owner, for any number of workers, any number of lives and any faults.   *)
(***************************************************************************)
EXTENDS Session, FiniteSetTheorems, TLAPS

-----------------------------------------------------------------------------
(* The inductive invariant. *)

\* How many local pointers a thread has, by where it is.
LocalsFit ==
  \A t \in Threads :
    /\ pc[t] \in {"idle", "push"} => locals[t] = 0
    /\ pc[t] \in {"error", "dispatch"} => locals[t] = 1
    /\ pc[t] = "drop" => locals[t] \in {1, 2}
    /\ pc[t] \in Label \ {"idle", "push", "error", "dispatch", "drop"} => locals[t] = 2

\* What a thread works on, by where it is.
TaskFits ==
  \A t \in Threads :
    /\ pc[t] \in {"error", "dispatch"} => task[t] \in Op /\ Valid(ovPtr[task[t]])
    /\ pc[t] \in {"connect", "welcome", "registerRead", "onRead"} => task[t] = "read"

\* No pointer refers to an earlier life.
Pointers == table \in {Null, generation_} /\ \A op \in Op : ovPtr[op] \in {Null, generation_}

Free == state = "kIdle" \/ \E t \in Threads : pc[t] = "push"

\* A session that is not in use: nobody refers to it and nothing is left behind in it.
Unused ==
  Free => /\ \A t \in Threads : locals[t] = 0
          /\ \A op \in Op : io[op] = "none" /\ ovPtr[op] = Null
          /\ table = Null /\ ~isSending_ /\ ~up

\* The slot is pushed once in a life.
PushOnce ==
  /\ state # "kIdle" => generation_ < MaxLives
  /\ \A t \in Threads : pc[t] = "push" => state # "kIdle"
  /\ \A t, u \in Threads : pc[t] = "push" /\ pc[u] = "push" => t = u

\* The pointers of the session itself.
Counts == Count(table) + Count(ovPtr["read"]) + Count(ovPtr["write"]) + Count(ovPtr["disconnect"])

RefSum == refCount_ = Counts + Cardinality(LocalPtrs)

\* OneOwner, without cardinalities.
Apart ==
  \A op \in Op : \A t \in Handlers(op) : io[op] = "none" /\ \A u \in Handlers(op) : t = u

Sending == io["write"] # "none" \/ Handlers("write") # {} => isSending_

Leaving == io["disconnect"] # "none" \/ Handlers("disconnect") # {}

\* Disconnecting is what the state says, and the table refers to the session until it is done.
LeavingFits ==
  /\ Leaving \/ Valid(ovPtr["disconnect"]) => state = "kDisconnecting"
  /\ Leaving \/ state \in {"kPending", "kConnected"} => Valid(table)

\* An accept is all there is while it is outstanding.
AcceptAlone ==
  accepting /\ io["read"] = "posted"
    => /\ state = "kPending" /\ ~up
       /\ io["write"] = "none" /\ io["disconnect"] = "none"
       /\ \A t \in Threads : pc[t] \in {"idle", "drop"}

\* A failed disconnect has left its pointer behind: the session never returns.
Leaked ==
  /\ "disconnect" \in Faults
  /\ Valid(ovPtr["disconnect"]) /\ io["disconnect"] = "none"
  /\ \A t \in Threads : pc[t] # "disconnectEx" /\ ~(pc[t] = "dispatch" /\ task[t] = "disconnect")

\* The table lets go only of a socket that is down, or of a session that is leaked.
Down ==
  /\ up => Valid(table) \/ Leaked
  /\ io["disconnect"] \in {"ok", "zero"} => ~up
  /\ io["disconnect"] = "error" => "disconnect" \in Faults
  /\ \A t \in Threads :
       /\ pc[t] = "dispatch" /\ task[t] = "disconnect" => ~up
       /\ pc[t] = "error" /\ task[t] = "disconnect" => "disconnect" \in Faults
       /\ pc[t] = "clear" => ~up \/ Leaked

IoHeld == \A op \in Op : io[op] # "none" => Valid(ovPtr[op]) \/ (op # "disconnect" /\ Leaked)

Inv ==
  /\ TypeOK /\ LocalsFit /\ TaskFits /\ Pointers /\ Unused /\ PushOnce /\ RefSum
  /\ Apart /\ Sending /\ LeavingFits /\ AcceptAlone /\ Down /\ IoHeld
-----------------------------------------------------------------------------
(* Counting pointers. *)

Ptrs(f) == {x \in Threads \X {1, 2} : x[2] <= f[x[1]]}

\* Local pointers are finitely many.
LEMMA PtrsFinite ==
  ASSUME NEW f PROVE IsFiniteSet(Ptrs(f)) /\ Cardinality(Ptrs(f)) \in Nat
<1>1. IsFiniteSet(Threads)
  BY SessionAssumption, FS_AddElement DEF Threads
<1>2. IsFiniteSet({1, 2})
  <2>1. IsFiniteSet({1})
    BY FS_Singleton
  <2>2. {1, 2} = {1} \cup {2}
    OBVIOUS
  <2>3. QED
    BY <2>1, <2>2, FS_AddElement
<1>3. IsFiniteSet(Threads \X {1, 2})
  BY <1>1, <1>2, FS_Product
<1>4. Ptrs(f) \in SUBSET (Threads \X {1, 2})
  BY DEF Ptrs
<1>5. QED
  BY <1>3, <1>4, FS_Subset, FS_CardinalityType

\* One more local pointer of one thread.
LEMMA PtrsStep ==
  ASSUME NEW f \in [Threads -> 0 .. 2], NEW g \in [Threads -> 0 .. 2], NEW t \in Threads,
         NEW n \in {1, 2}, f[t] = n - 1, g[t] = n, \A u \in Threads \ {t} : g[u] = f[u]
  PROVE  Cardinality(Ptrs(g)) = Cardinality(Ptrs(f)) + 1
<1>1. <<t, n>> \notin Ptrs(f)
  BY DEF Ptrs
<1>2. Ptrs(g) = Ptrs(f) \cup {<<t, n>>}
  BY DEF Ptrs
<1>3. IsFiniteSet(Ptrs(f)) /\ Cardinality(Ptrs(f)) \in Nat
  BY PtrsFinite
<1>4. Cardinality(Ptrs(f) \cup {<<t, n>>}) = Cardinality(Ptrs(f)) + 1
  BY <1>1, <1>3, FS_AddElement
<1>5. QED
  BY <1>2, <1>4

\* The local pointers of one thread and those of the others.
LEMMA PtrsSplit ==
  ASSUME NEW f \in [Threads -> 0 .. 2], NEW t \in Threads
  PROVE  Cardinality(Ptrs(f)) = Cardinality(Ptrs([f EXCEPT ![t] = 0])) + f[t]
<1> DEFINE g(n) == [f EXCEPT ![t] = n]
<1>1. \A n \in 0 .. 2 : g(n) \in [Threads -> 0 .. 2] /\ g(n)[t] = n
                      /\ \A u \in Threads \ {t} : g(n)[u] = f[u]
  OBVIOUS
<1>2. f = g(f[t])
  OBVIOUS
<1> HIDE DEF g
<1>3. Cardinality(Ptrs(g(1))) = Cardinality(Ptrs(g(0))) + 1
  BY <1>1, PtrsStep
<1>4. Cardinality(Ptrs(g(2))) = Cardinality(Ptrs(g(1))) + 1
  BY <1>1, PtrsStep
<1>5. f[t] \in {0, 1, 2}
  OBVIOUS
<1>6. Cardinality(Ptrs(g(0))) \in Nat
  BY PtrsFinite
<1>7. Cardinality(Ptrs(f)) = Cardinality(Ptrs(g(0))) + f[t]
  BY <1>2, <1>3, <1>4, <1>5, <1>6
<1>8. QED
  BY <1>7 DEF g

\* One thread gets or drops local pointers.
LEMMA PtrsChange ==
  ASSUME NEW f \in [Threads -> 0 .. 2], NEW t \in Threads, NEW n \in 0 .. 2
  PROVE  Cardinality(Ptrs([f EXCEPT ![t] = n])) = Cardinality(Ptrs(f)) - f[t] + n
<1> DEFINE g == [f EXCEPT ![t] = n]
<1>1. g \in [Threads -> 0 .. 2] /\ g[t] = n /\ [g EXCEPT ![t] = 0] = [f EXCEPT ![t] = 0]
  OBVIOUS
<1> HIDE DEF g
<1>2. Cardinality(Ptrs(g)) = Cardinality(Ptrs([f EXCEPT ![t] = 0])) + n
  BY <1>1, PtrsSplit
<1>3. Cardinality(Ptrs(f)) = Cardinality(Ptrs([f EXCEPT ![t] = 0])) + f[t]
  BY PtrsSplit
<1>4. Cardinality(Ptrs(g)) \in Nat /\ Cardinality(Ptrs(f)) \in Nat
      /\ Cardinality(Ptrs([f EXCEPT ![t] = 0])) \in Nat /\ f[t] \in Nat /\ n \in Nat
  BY PtrsFinite
<1>5. Cardinality(Ptrs(g)) = Cardinality(Ptrs(f)) - f[t] + n
  BY <1>2, <1>3, <1>4
<1>6. QED
  BY <1>5 DEF g

\* Nobody has a local pointer.
LEMMA PtrsNone ==
  ASSUME NEW f \in [Threads -> 0 .. 2]
  PROVE  Cardinality(Ptrs(f)) = 0 <=> \A u \in Threads : f[u] = 0
<1>1. Ptrs(f) = {} <=> \A u \in Threads : f[u] = 0
  <2>1. ASSUME NEW u \in Threads, f[u] # 0 PROVE <<u, 1>> \in Ptrs(f)
    BY <2>1 DEF Ptrs
  <2>2. ASSUME \A u \in Threads : f[u] = 0 PROVE Ptrs(f) = {}
    BY <2>2 DEF Ptrs
  <2>3. QED
    BY <2>1, <2>2
<1>2. QED
  BY <1>1, PtrsFinite, FS_EmptySet

\* Whoever drops the last pointer is the only one who has one.
LEMMA LastPtr ==
  ASSUME NEW f \in [Threads -> 0 .. 2], NEW t \in Threads, f[t] >= 1, Cardinality(Ptrs(f)) <= 1
  PROVE  f[t] = 1 /\ Cardinality(Ptrs(f)) = 1 /\ \A u \in Threads \ {t} : f[u] = 0
<1> DEFINE g == [f EXCEPT ![t] = 0]
<1>1. g \in [Threads -> 0 .. 2] /\ \A u \in Threads \ {t} : g[u] = f[u]
  OBVIOUS
<1>2. Cardinality(Ptrs(f)) = Cardinality(Ptrs(g)) + f[t]
  BY PtrsSplit
<1>3. Cardinality(Ptrs(g)) \in Nat /\ f[t] \in Nat
  BY PtrsFinite
<1> HIDE DEF g
<1>4. Cardinality(Ptrs(g)) = 0 /\ f[t] = 1
  BY <1>2, <1>3
<1>5. QED
  BY <1>1, <1>2, <1>4, PtrsNone

-----------------------------------------------------------------------------
(* Counting the pointers of the session itself. *)

\* Every part of the sum of pointers is a number.
LEMMA CountsType ==
  /\ Counts \in 0 .. 4 /\ Counts' \in 0 .. 4
  /\ Count(table) \in {0, 1} /\ \A op \in Op : Count(ovPtr[op]) \in {0, 1}
  /\ Cardinality(LocalPtrs) \in Nat /\ Cardinality(LocalPtrs)' \in Nat
<1>1. \A g : Count(g) \in {0, 1}
  BY DEF Count
<1>a. /\ Count(table)' \in {0, 1} /\ Count(ovPtr["read"])' \in {0, 1}
      /\ Count(ovPtr["write"])' \in {0, 1} /\ Count(ovPtr["disconnect"])' \in {0, 1}
  BY DEF Count
<1>2. Cardinality(LocalPtrs) \in Nat /\ Cardinality(LocalPtrs)' \in Nat
  BY PtrsFinite DEF LocalPtrs, Ptrs
<1> HIDE DEF Count
<1>3. Counts \in 0 .. 4 /\ Counts' \in 0 .. 4
  BY <1>1, <1>a DEF Counts
<1>4. QED
  BY <1>1, <1>2, <1>3

\* The counter is a number.
LEMMA RefNat == (RefSum => refCount_ \in Nat) /\ (RefSum' => refCount_' \in Nat)
BY CountsType DEF RefSum

\* The local pointers after one thread got or dropped some.
LEMMA LocalsChange ==
  ASSUME locals \in [Threads -> 0 .. 2], NEW t \in Threads, NEW n \in 0 .. 2,
         locals' = [locals EXCEPT ![t] = n]
  PROVE  Cardinality(LocalPtrs)' = Cardinality(LocalPtrs) - locals[t] + n
BY PtrsChange DEF LocalPtrs, Ptrs

\* A thread gains pointers, or loses them.
LEMMA LocalsGain ==
  ASSUME locals \in [Threads -> 0 .. 2], NEW t \in Threads,
         \/ locals[t] = 0 /\ locals' = [locals EXCEPT ![t] = 1]
         \/ locals[t] = 1 /\ locals' = [locals EXCEPT ![t] = 2]
  PROVE  Cardinality(LocalPtrs)' = Cardinality(LocalPtrs) + 1
<1>1. PICK n \in {1, 2} : locals[t] = n - 1 /\ locals' = [locals EXCEPT ![t] = n]
  OBVIOUS
<1>2. n \in 0 .. 2
  OBVIOUS
<1>3. Cardinality(LocalPtrs)' = Cardinality(LocalPtrs) - locals[t] + n
  BY <1>1, <1>2, LocalsChange
<1>4. QED
  BY <1>1, <1>3, CountsType

\* SharedPoolPtr's assignment keeps the sum.
LEMMA AssignSum ==
  ASSUME TypeOK, RefSum, NEW o \in Op, NEW p, Assign(o, p),
         UNCHANGED <<table, generation_, locals>>
  PROVE  RefSum'
<1>1. Cardinality(LocalPtrs)' = Cardinality(LocalPtrs) /\ Cardinality(LocalPtrs) \in Nat
  BY CountsType DEF LocalPtrs
<1>2. /\ \A g : Count(g)' = IF g' = generation_ THEN 1 ELSE 0
      /\ Count(table)' = Count(table) /\ \A op \in Op \ {o} : Count(ovPtr[op])' = Count(ovPtr[op])
      /\ Count(ovPtr[o])' = Count(p)
  BY DEF Count, Valid, Assign, TypeOK
<1>3. Count(p) \in {0, 1}
  BY DEF Count
<1>4. refCount_' = refCount_ + Count(p) - Count(ovPtr[o])
  BY DEF Assign
<1>5. o = "read" \/ o = "write" \/ o = "disconnect"
  BY DEF Op
<1>6. QED
  BY <1>1, <1>2, <1>3, <1>4, <1>5, CountsType DEF RefSum, Counts, Op

-----------------------------------------------------------------------------
\* PostAccept (SessionManager.cpp:48-62) keeps the invariant.
LEMMA PostAcceptInv ==
  ASSUME Inv, NEW t \in Threads, PostAccept(t) PROVE Inv'
<1> USE DEF Inv, TypeOK, PostAccept, Goto, Valid, Null, Op, Done, pool, threads
<1>1. RefSum'
  <2>1. Counts = 0 /\ Counts' = 2
    BY DEF Counts, Count, Unused, Free
  <2>2. Cardinality(LocalPtrs)' = Cardinality(LocalPtrs) + 1
    <3>1. locals[t] = 0 /\ locals' = [locals EXCEPT ![t] = 1]
      BY DEF LocalsFit
    <3>2. QED
      BY <3>1, LocalsGain
  <2>3. QED
    BY <2>1, <2>2, CountsType DEF RefSum
<1>2. TypeOK'
  <2>1. (refCount_ \in Nat)'
    BY <1>1, RefNat
  <2>2. QED
    BY <2>1, SessionAssumption DEF Label
<1>3. LocalsFit' /\ TaskFits'
  BY DEF LocalsFit, TaskFits
<1>4. Pointers' /\ Unused' /\ PushOnce'
  BY DEF Pointers, Unused, PushOnce, Free
<1>5. Apart' /\ Sending'
  BY DEF Apart, Sending, Handlers, Unused, Free, LocalsFit
<1>6. LeavingFits' /\ AcceptAlone'
  <2>1. Free /\ \A u \in Threads : pc[u] \in Label /\ locals[u] = 0
    BY DEF Unused, Free
  <2>2. \A u \in Threads : pc[u] = "idle"
    BY <2>1 DEF LocalsFit, PushOnce
  <2>3. QED
    BY <2>2 DEF LeavingFits, Leaving, Handlers, AcceptAlone, Unused, Free
<1>7. Down' /\ IoHeld'
  BY DEF Down, IoHeld, Unused, Free
<1>8. QED
  BY <1>1, <1>2, <1>3, <1>4, <1>5, <1>6, <1>7

\* Take (IocpCore.cpp:137-174) keeps the invariant.
LEMMA TakeInv ==
  ASSUME Inv, NEW t \in Threads, NEW o \in Op, Take(t, o) PROVE Inv'
<1> USE DEF Inv, TypeOK, Take, Goto, Valid, Null, Op, Done, pool, threads
<1>1. RefSum'
  <2>1. Counts' = Counts
    BY DEF Counts, Count
  <2>2. CASE Valid(ovPtr[o])
    <3>1. Cardinality(LocalPtrs)' = Cardinality(LocalPtrs) + 1
      BY <2>2, LocalsGain DEF LocalsFit
    <3>2. QED
      BY <2>1, <2>2, <3>1, CountsType DEF RefSum
  <2>3. CASE ~Valid(ovPtr[o])
    BY <2>1, <2>3 DEF RefSum, LocalPtrs
  <2>4. QED
    BY <2>2, <2>3
<1>2. TypeOK'
  <2>1. (refCount_ \in Nat)'
    BY <1>1, RefNat
  <2>2. QED
    <3>1. /\ state' \in {"kIdle", "kPending", "kConnected", "kDisconnecting"}
          /\ generation_' \in 0 .. MaxLives /\ table' \in {Null} \cup 0 .. MaxLives
      OBVIOUS
    <3>2. accepting' \in BOOLEAN /\ isSending_' \in BOOLEAN /\ crashed' \in BOOLEAN
      BY Zenon
    <3>a. up' \in BOOLEAN
      BY Zenon
    <3>3. ovPtr' \in [Op -> {Null} \cup 0 .. MaxLives]
      OBVIOUS
    <3>4. io' \in [Op -> {"none", "posted"} \cup Done]
      OBVIOUS
    <3>5. /\ pc' \in [Threads -> Label] /\ task' \in [Threads -> Op \cup {"none"}]
          /\ result' \in [Threads -> Done \cup {"none"}]
      BY DEF Label
    <3>6. locals' \in [Threads -> 0 .. 2]
      BY DEF LocalsFit
    <3>7. QED
      BY <2>1, <3>1, <3>2, <3>a, <3>3, <3>4, <3>5, <3>6
<1>3. LocalsFit' /\ TaskFits'
  BY DEF LocalsFit, TaskFits
<1>4. Pointers' /\ Unused' /\ PushOnce'
  BY DEF Pointers, Unused, PushOnce, Free
<1>5. Apart' /\ Sending'
  BY DEF Apart, Sending, Handlers
<1>6. LeavingFits' /\ AcceptAlone'
  BY DEF LeavingFits, Leaving, Handlers, AcceptAlone
<1>7. Down' /\ IoHeld'
  <2>1. CASE ~Valid(ovPtr[o])
    BY <2>1 DEF Down, IoHeld, Leaked
  <2>2. CASE Valid(ovPtr[o]) /\ o = "disconnect"
    <3>1. ~Leaked
      BY <2>2 DEF Leaked
    <3>2. IoHeld'
      BY <2>2, <3>1 DEF IoHeld
    <3>3. up => Valid(table)
      BY <3>1 DEF Down
    <3>4. \A u \in Threads : u # t => pc'[u] = pc[u] /\ task'[u] = task[u]
      BY <2>2
    <3>5. \A u \in Threads : pc[u] # "clear"
      BY <2>2 DEF Apart, Handlers
    <3>6. /\ pc'[t] \in {"error", "dispatch"} /\ io'["disconnect"] = "none"
          /\ pc'[t] = "error" => io["disconnect"] = "error"
          /\ pc'[t] = "dispatch" => io["disconnect"] # "error"
      BY <2>2
    <3>7. (pc'[t] = "dispatch" => ~up) /\ (pc'[t] = "error" => "disconnect" \in Faults)
      BY <2>2, <3>6 DEF Down
    <3>8. Down'
      BY <3>3, <3>4, <3>5, <3>6, <3>7 DEF Down
    <3>9. QED
      BY <3>2, <3>8
  <2>3. CASE Valid(ovPtr[o]) /\ o # "disconnect"
    <3>1. Leaked => Leaked'
      BY <2>3 DEF Leaked
    <3>2. IoHeld'
      BY <2>3, <3>1 DEF IoHeld
    <3>3. \A u \in Threads : u # t => pc'[u] = pc[u] /\ task'[u] = task[u]
      BY <2>3
    <3>4. task'[t] # "disconnect" /\ pc'[t] # "clear" /\ io'["disconnect"] = io["disconnect"]
      BY <2>3
    <3>5. Down'
      BY <3>1, <3>3, <3>4 DEF Down
    <3>6. QED
      BY <3>2, <3>5
  <2>4. QED
    BY <2>1, <2>2, <2>3
<1>8. QED
  BY <1>1, <1>2, <1>3, <1>4, <1>5, <1>6, <1>7

\* HandleError (IocpCore.cpp:62-84) keeps the invariant.
LEMMA HandleErrorInv ==
  ASSUME Inv, NEW t \in Threads, HandleError(t) PROVE Inv'
<1> USE DEF Inv, TypeOK, HandleError, TakeOver, Goto, Valid, Null, Op, Done, pool, threads
<1>1. RefSum'
  <2>1. Cardinality(LocalPtrs)' = Cardinality(LocalPtrs) + 1
    BY LocalsGain DEF LocalsFit
  <2>2. CASE task[t] = "disconnect"
    <3>1. Counts' = Counts
      BY <2>2 DEF Counts, Count
    <3>2. QED
      BY <2>1, <2>2, <3>1, CountsType DEF RefSum
  <2>3. CASE task[t] # "disconnect"
    <3>1. Counts' = Counts - 1
      BY <2>3 DEF Counts, Count, TaskFits
    <3>2. QED
      BY <2>1, <2>3, <3>1, CountsType DEF RefSum
  <2>4. QED
    BY <2>2, <2>3
<1>2. TypeOK'
  <2>1. (refCount_ \in Nat)'
    BY <1>1, RefNat
  <2>2. QED
    BY <2>1, SessionAssumption DEF Label
<1>3. LocalsFit' /\ TaskFits'
  BY DEF LocalsFit, TaskFits, Apart, Handlers
<1>4. Pointers' /\ Unused' /\ PushOnce'
  BY DEF LocalsFit, Pointers, Unused, PushOnce, Free
<1>5. Apart' /\ Sending'
  BY DEF Apart, Sending, Handlers
<1>6. LeavingFits' /\ AcceptAlone'
  BY DEF LeavingFits, Leaving, Handlers, AcceptAlone
<1>7. Down' /\ IoHeld'
  BY DEF Down, IoHeld, Leaked, Handlers, TaskFits, Apart
<1>8. QED
  BY <1>1, <1>2, <1>3, <1>4, <1>5, <1>6, <1>7

\* Dispatch (IocpCore.cpp:86-135) keeps the invariant.
LEMMA DispatchInv ==
  ASSUME Inv, NEW t \in Threads, Dispatch(t) PROVE Inv'
<1> USE DEF Inv, TypeOK, Dispatch, TakeOver, Goto, Valid, Null, Op, Done, pool, threads
<1>1. RefSum'
  <2>1. Cardinality(LocalPtrs)' = Cardinality(LocalPtrs) + 1
    <3>1. locals[t] = 1 /\ locals' = [locals EXCEPT ![t] = 2]
      BY DEF LocalsFit
    <3>2. QED
      BY <3>1, LocalsGain
  <2>2. Counts' = Counts - 1
    BY DEF Counts, Count, TaskFits
  <2>3. QED
    BY <2>1, <2>2, CountsType DEF RefSum
<1>2. TypeOK'
  <2>1. (refCount_ \in Nat)'
    BY <1>1, RefNat
  <2>2. QED
    BY <2>1, SessionAssumption DEF Label
<1>3. LocalsFit' /\ TaskFits'
  BY DEF LocalsFit, TaskFits, Apart, Handlers
<1>4. Pointers' /\ Unused' /\ PushOnce'
  BY DEF LocalsFit, Pointers, Unused, PushOnce, Free
<1>5. Apart' /\ Sending'
  BY DEF Apart, Sending, Handlers
<1>6. LeavingFits' /\ AcceptAlone'
  BY DEF LeavingFits, Leaving, Handlers, AcceptAlone
<1>7. Down' /\ IoHeld'
  BY DEF Down, IoHeld, Leaked, Handlers, Apart
<1>8. QED
  BY <1>1, <1>2, <1>3, <1>4, <1>5, <1>6, <1>7

\* Connect (Session.cpp:196-210) keeps the invariant.
LEMMA ConnectInv ==
  ASSUME Inv, NEW t \in Threads, Connect(t) PROVE Inv'
<1> USE DEF Inv, TypeOK, Connect, Goto, Valid, Null, Op, Done, pool, threads
<1>1. RefSum'
  BY DEF RefSum, Counts, Count, LocalPtrs
<1>2. TypeOK'
  <2>1. (refCount_ \in Nat)'
    BY <1>1, RefNat
  <2>2. QED
    BY <2>1, SessionAssumption DEF Label
<1>3. LocalsFit' /\ TaskFits'
  BY DEF LocalsFit, TaskFits
<1>4. Pointers' /\ Unused' /\ PushOnce'
  BY DEF Pointers, Unused, PushOnce, Free
<1>5. Apart' /\ Sending'
  BY DEF Apart, Sending, Handlers
<1>6. LeavingFits' /\ AcceptAlone'
  BY DEF LeavingFits, Leaving, Handlers, AcceptAlone
<1>7. Down' /\ IoHeld'
  BY DEF Down, IoHeld, Leaked
<1>8. QED
  BY <1>1, <1>2, <1>3, <1>4, <1>5, <1>6, <1>7

\* SendWelcome (Session.cpp:212-229) keeps the invariant.
LEMMA SendWelcomeInv ==
  ASSUME Inv, NEW t \in Threads, SendWelcome(t) PROVE Inv'
<1> USE DEF Inv, TypeOK, SendWelcome, SendPacket, Post, Assign, GetSession, Goto, Valid, Null,
           Op, Done, pool, threads
<1>1. RefSum'
  <2>1. CASE UNCHANGED <<refCount_, ovPtr>>
    BY <2>1 DEF RefSum, Counts, Count, LocalPtrs
  <2>2. CASE \E p : Assign("write", p)
    BY <2>2, AssignSum
  <2>3. QED
    BY <2>1, <2>2
<1>2. TypeOK'
  <2>1. (refCount_ \in Nat)'
    BY <1>1, RefNat
  <2>2. QED
    <3>1. /\ state' \in {"kIdle", "kPending", "kConnected", "kDisconnecting"}
          /\ generation_' \in 0 .. MaxLives /\ table' \in {Null} \cup 0 .. MaxLives
      OBVIOUS
    <3>2. accepting' \in BOOLEAN /\ isSending_' \in BOOLEAN /\ crashed' \in BOOLEAN
      BY Zenon
    <3>a. up' \in BOOLEAN
      BY Zenon
    <3>3. ovPtr' \in [Op -> {Null} \cup 0 .. MaxLives]
      OBVIOUS
    <3>4. io' \in [Op -> {"none", "posted"} \cup Done]
      OBVIOUS
    <3>5. /\ pc' \in [Threads -> Label] /\ task' \in [Threads -> Op \cup {"none"}]
          /\ result' \in [Threads -> Done \cup {"none"}]
      BY DEF Label
    <3>6. locals' \in [Threads -> 0 .. 2]
      BY DEF LocalsFit
    <3>7. QED
      BY <2>1, <3>1, <3>2, <3>a, <3>3, <3>4, <3>5, <3>6
<1>3. LocalsFit' /\ TaskFits'
  BY DEF Sending, LocalsFit, TaskFits, Handlers
<1>4. Pointers' /\ Unused' /\ PushOnce'
  BY DEF LocalsFit, Pointers, Unused, PushOnce, Free
<1>5. Apart' /\ Sending'
  BY DEF Apart, Sending, Handlers
<1>6. LeavingFits' /\ AcceptAlone'
  BY DEF LeavingFits, Leaving, Handlers, AcceptAlone
<1>7. Down' /\ IoHeld'
  BY DEF Sending, Down, IoHeld, Leaked
<1>8. QED
  BY <1>1, <1>2, <1>3, <1>4, <1>5, <1>6, <1>7

\* RegisterRead (Session.cpp:25-59) keeps the invariant.
LEMMA RegisterReadInv ==
  ASSUME Inv, NEW t \in Threads, RegisterRead(t) PROVE Inv'
<1> USE DEF Inv, TypeOK, RegisterRead, Post, Assign, GetSession, Goto, Valid, Null, Op, Done,
           pool, threads
<1>1. RefSum'
  <2>1. CASE UNCHANGED <<refCount_, ovPtr>>
    BY <2>1 DEF RefSum, Counts, Count, LocalPtrs
  <2>2. CASE \E p : Assign("read", p)
    BY <2>2, AssignSum
  <2>3. QED
    BY <2>1, <2>2
<1>2. TypeOK'
  <2>1. (refCount_ \in Nat)'
    BY <1>1, RefNat
  <2>2. QED
    <3>1. /\ state' \in {"kIdle", "kPending", "kConnected", "kDisconnecting"}
          /\ generation_' \in 0 .. MaxLives /\ table' \in {Null} \cup 0 .. MaxLives
      OBVIOUS
    <3>2. accepting' \in BOOLEAN /\ isSending_' \in BOOLEAN /\ crashed' \in BOOLEAN
      BY Zenon
    <3>a. up' \in BOOLEAN
      BY Zenon
    <3>3. ovPtr' \in [Op -> {Null} \cup 0 .. MaxLives]
      OBVIOUS
    <3>4. io' \in [Op -> {"none", "posted"} \cup Done]
      OBVIOUS
    <3>5. /\ pc' \in [Threads -> Label] /\ task' \in [Threads -> Op \cup {"none"}]
          /\ result' \in [Threads -> Done \cup {"none"}]
      BY DEF Label
    <3>6. locals' \in [Threads -> 0 .. 2]
      BY DEF LocalsFit
    <3>7. QED
      BY <2>1, <3>1, <3>2, <3>a, <3>3, <3>4, <3>5, <3>6
<1>3. LocalsFit' /\ TaskFits'
  BY DEF LocalsFit, TaskFits, Apart, Handlers
<1>4. Pointers' /\ Unused' /\ PushOnce'
  BY DEF Pointers, Unused, PushOnce, Free
<1>5. Apart' /\ Sending'
  BY DEF TaskFits, Apart, Sending, Handlers
<1>6. LeavingFits' /\ AcceptAlone'
  BY DEF LeavingFits, Leaving, Handlers, AcceptAlone
<1>7. Down' /\ IoHeld'
  BY DEF Down, IoHeld, Leaked, Handlers, TaskFits, Apart
<1>8. QED
  BY <1>1, <1>2, <1>3, <1>4, <1>5, <1>6, <1>7

\* OnRead (Session.cpp:61-103) keeps the invariant.
LEMMA OnReadInv ==
  ASSUME Inv, NEW t \in Threads, OnRead(t) PROVE Inv'
<1> USE DEF Inv, TypeOK, OnRead, Goto, Valid, Null, Op, Done, pool, threads
<1>1. RefSum'
  BY DEF RefSum, Counts, Count, LocalPtrs
<1>2. TypeOK'
  <2>1. (refCount_ \in Nat)'
    BY <1>1, RefNat
  <2>2. QED
    BY <2>1, SessionAssumption DEF Label
<1>3. LocalsFit' /\ TaskFits'
  BY DEF LocalsFit, TaskFits
<1>4. Pointers' /\ Unused' /\ PushOnce'
  BY DEF Pointers, Unused, PushOnce, Free
<1>5. Apart' /\ Sending'
  BY DEF Apart, Sending, Handlers
<1>6. LeavingFits' /\ AcceptAlone'
  BY DEF LeavingFits, Leaving, Handlers, AcceptAlone
<1>7. Down' /\ IoHeld'
  BY DEF Down, IoHeld, Leaked
<1>8. QED
  BY <1>1, <1>2, <1>3, <1>4, <1>5, <1>6, <1>7

\* OnWrite (Session.cpp:136-158) keeps the invariant.
LEMMA OnWriteInv ==
  ASSUME Inv, NEW t \in Threads, OnWrite(t) PROVE Inv'
<1> USE DEF Inv, TypeOK, OnWrite, Post, Assign, GetSession, Goto, Valid, Null, Op, Done, pool,
           threads
<1>1. RefSum'
  <2>1. CASE UNCHANGED <<refCount_, ovPtr>>
    BY <2>1 DEF RefSum, Counts, Count, LocalPtrs
  <2>2. CASE \E p : Assign("write", p)
    BY <2>2, AssignSum
  <2>3. QED
    BY <2>1, <2>2
<1>2. TypeOK'
  <2>1. (refCount_ \in Nat)'
    BY <1>1, RefNat
  <2>2. QED
    <3>1. /\ state' \in {"kIdle", "kPending", "kConnected", "kDisconnecting"}
          /\ generation_' \in 0 .. MaxLives /\ table' \in {Null} \cup 0 .. MaxLives
      OBVIOUS
    <3>2. accepting' \in BOOLEAN /\ isSending_' \in BOOLEAN /\ crashed' \in BOOLEAN
      BY Zenon
    <3>a. up' \in BOOLEAN
      BY Zenon
    <3>3. ovPtr' \in [Op -> {Null} \cup 0 .. MaxLives]
      OBVIOUS
    <3>4. io' \in [Op -> {"none", "posted"} \cup Done]
      OBVIOUS
    <3>5. /\ pc' \in [Threads -> Label] /\ task' \in [Threads -> Op \cup {"none"}]
          /\ result' \in [Threads -> Done \cup {"none"}]
      BY DEF Label
    <3>6. locals' \in [Threads -> 0 .. 2]
      BY DEF LocalsFit
    <3>7. QED
      BY <2>1, <3>1, <3>2, <3>a, <3>3, <3>4, <3>5, <3>6
<1>3. LocalsFit' /\ TaskFits'
  BY DEF LocalsFit, TaskFits, Apart, Handlers
<1>4. Pointers' /\ Unused' /\ PushOnce'
  BY DEF Pointers, Unused, PushOnce, Free
<1>5. Apart' /\ Sending'
  BY DEF Apart, Sending, Handlers
<1>6. LeavingFits' /\ AcceptAlone'
  BY DEF LeavingFits, Leaving, Handlers, AcceptAlone
<1>7. Down' /\ IoHeld'
  BY DEF Down, IoHeld, Leaked, Handlers, Apart
<1>8. QED
  BY <1>1, <1>2, <1>3, <1>4, <1>5, <1>6, <1>7

\* Disconnect (Session.cpp:231-258) keeps the invariant.
LEMMA DisconnectInv ==
  ASSUME Inv, NEW t \in Threads, Disconnect(t) PROVE Inv'
<1> USE DEF Inv, TypeOK, Disconnect, Goto, Valid, Null, Op, Done, pool, threads
<1>1. RefSum'
  BY DEF RefSum, Counts, Count, LocalPtrs
<1>2. TypeOK'
  <2>1. (refCount_ \in Nat)'
    BY <1>1, RefNat
  <2>2. QED
    BY <2>1, SessionAssumption DEF Label
<1>3. LocalsFit' /\ TaskFits'
  BY DEF LocalsFit, TaskFits
<1>4. Pointers' /\ Unused' /\ PushOnce'
  BY DEF Pointers, Unused, PushOnce, Free
<1>5. Apart' /\ Sending'
  BY DEF Apart, Sending, Handlers, LeavingFits, Leaving
<1>6. LeavingFits' /\ AcceptAlone'
  BY DEF LeavingFits, Leaving, Handlers, AcceptAlone
<1>7. Down' /\ IoHeld'
  BY DEF Down, IoHeld, Leaked, LeavingFits
<1>8. QED
  BY <1>1, <1>2, <1>3, <1>4, <1>5, <1>6, <1>7

\* DisconnectEx (Session.cpp:260-280) keeps the invariant.
LEMMA DisconnectExInv ==
  ASSUME Inv, NEW t \in Threads, DisconnectEx(t) PROVE Inv'
<1> USE DEF Inv, TypeOK, DisconnectEx, Assign, GetSession, Goto, Valid, Null, Op, Done, pool,
           threads
<1>1. RefSum'
  BY AssignSum
<1>2. TypeOK'
  <2>1. (refCount_ \in Nat)'
    BY <1>1, RefNat
  <2>2. QED
    BY <2>1, SessionAssumption DEF Label
<1>3. LocalsFit' /\ TaskFits'
  BY DEF LocalsFit, TaskFits, Apart, Handlers
<1>4. Pointers' /\ Unused' /\ PushOnce'
  BY DEF Pointers, Unused, PushOnce, Free
<1>5. Apart' /\ Sending'
  BY DEF Apart, Sending, Handlers
<1>6. LeavingFits' /\ AcceptAlone'
  BY DEF LeavingFits, Leaving, Handlers, AcceptAlone
<1>7. Down' /\ IoHeld'
  BY DEF Down, IoHeld, Leaked, Handlers, Apart
<1>8. QED
  BY <1>1, <1>2, <1>3, <1>4, <1>5, <1>6, <1>7

\* Clear (Session.cpp:282-285) keeps the invariant.
LEMMA ClearInv ==
  ASSUME Inv, NEW t \in Threads, Clear(t) PROVE Inv'
<1> USE DEF Inv, TypeOK, Clear, DisconnectSession, Goto, Valid, Null, Op, Done, pool, threads
<1>1. RefSum'
  <2>1. Counts' = Counts - Count(table)
    BY DEF Counts, Count
  <2>2. Cardinality(LocalPtrs)' = Cardinality(LocalPtrs)
    BY DEF LocalPtrs
  <2>3. QED
    BY <2>1, <2>2, CountsType DEF RefSum
<1>2. TypeOK'
  <2>1. (refCount_ \in Nat)'
    BY <1>1, RefNat
  <2>2. QED
    BY <2>1, SessionAssumption DEF Label
<1>3. LocalsFit' /\ TaskFits'
  BY DEF LocalsFit, TaskFits
<1>4. Pointers' /\ Unused' /\ PushOnce'
  BY DEF Pointers, Unused, PushOnce, Free
<1>5. Apart' /\ Sending'
  BY DEF Apart, Sending, Handlers
<1>6. LeavingFits' /\ AcceptAlone'
  BY DEF LeavingFits, Leaving, Handlers, AcceptAlone, Apart
<1>7. Down' /\ IoHeld'
  BY DEF Down, IoHeld, Leaked
<1>8. QED
  BY <1>1, <1>2, <1>3, <1>4, <1>5, <1>6, <1>7

\* ReleaseRef (SparsePool.hpp:100-107) keeps the invariant.
LEMMA ReleaseRefInv ==
  ASSUME Inv, NEW t \in Threads, ReleaseRef(t) PROVE Inv'
<1> USE DEF Inv, TypeOK, ReleaseRef, Deleter, Goto, Valid, Null, Op, Done, pool, threads
<1>0. ASSUME refCount_ = 1
      PROVE  /\ locals[t] = 1 /\ (\A u \in Threads \ {t} : locals[u] = 0)
             /\ table = Null /\ (\A op \in Op : ovPtr[op] = Null /\ io[op] = "none")
             /\ ~up /\ state # "kIdle" /\ (\A u \in Threads : pc[u] # "push")
  <2>1. locals[t] >= 1 /\ locals \in [Threads -> 0 .. 2]
    BY DEF LocalsFit
  <2>2. Cardinality(LocalPtrs) <= 1
    BY <1>0, CountsType DEF RefSum
  <2>3. locals[t] = 1 /\ Cardinality(LocalPtrs) = 1 /\ \A u \in Threads \ {t} : locals[u] = 0
    BY <2>1, <2>2, LastPtr DEF LocalPtrs, Ptrs
  <2>4. Counts = 0
    BY <1>0, <2>3, CountsType DEF RefSum
  <2>5. ~Valid(table) /\ \A op \in Op : ~Valid(ovPtr[op])
    BY <2>4 DEF Counts, Count
  <2>6. table = Null /\ \A op \in Op : ovPtr[op] = Null
    BY <2>5 DEF Pointers
  <2>7. ~Leaked
    BY <2>5 DEF Leaked
  <2>8. ~up /\ \A op \in Op : io[op] = "none"
    BY <2>5, <2>7 DEF Down, IoHeld
  <2>9. state # "kIdle" /\ \A u \in Threads : pc[u] # "push"
    BY <2>1 DEF Unused, Free
  <2>10. QED
    BY <2>3, <2>6, <2>8, <2>9
<1>1. RefSum'
  <2>1. Cardinality(LocalPtrs)' = Cardinality(LocalPtrs) - 1
    <3>1. locals[t] \in {1, 2}
      BY DEF LocalsFit
    <3>2. locals[t] - 1 \in 0 .. 2 /\ locals[t] \in Nat
      BY <3>1
    <3>3. Cardinality(LocalPtrs)' = Cardinality(LocalPtrs) - locals[t] + (locals[t] - 1)
      BY <3>2, LocalsChange
    <3>4. QED
      BY <3>2, <3>3, CountsType
  <2>2. CASE refCount_ = 1
    <3>1. Counts = 0 /\ Counts' = 0
      BY <2>2, <1>0 DEF Counts, Count
    <3>2. QED
      BY <2>1, <3>1, CountsType DEF RefSum
  <2>3. CASE refCount_ # 1
    <3>1. Counts' = Counts
      BY <2>3 DEF Counts, Count
    <3>2. QED
      BY <2>1, <3>1, CountsType DEF RefSum
  <2>4. QED
    BY <2>2, <2>3
<1>2. TypeOK'
  <2>1. (refCount_ \in Nat)'
    BY <1>1, RefNat
  <2>2. QED
    <3>1. /\ state' \in {"kIdle", "kPending", "kConnected", "kDisconnecting"}
          /\ generation_' \in 0 .. MaxLives /\ table' \in {Null} \cup 0 .. MaxLives
      OBVIOUS
    <3>2. accepting' \in BOOLEAN /\ isSending_' \in BOOLEAN /\ crashed' \in BOOLEAN
      BY Zenon
    <3>a. up' \in BOOLEAN
      BY Zenon
    <3>3. ovPtr' \in [Op -> {Null} \cup 0 .. MaxLives]
      OBVIOUS
    <3>4. io' \in [Op -> {"none", "posted"} \cup Done]
      OBVIOUS
    <3>5. /\ pc' \in [Threads -> Label] /\ task' \in [Threads -> Op \cup {"none"}]
          /\ result' \in [Threads -> Done \cup {"none"}]
      BY DEF Label
    <3>6. locals' \in [Threads -> 0 .. 2]
      BY DEF LocalsFit
    <3>7. QED
      BY <2>1, <3>1, <3>2, <3>a, <3>3, <3>4, <3>5, <3>6
<1>3. LocalsFit' /\ TaskFits'
  BY <1>0 DEF LocalsFit, TaskFits
<1>4. Pointers' /\ Unused' /\ PushOnce'
  BY <1>0 DEF LocalsFit, Pointers, Unused, PushOnce, Free
<1>5. Apart' /\ Sending'
  BY <1>0 DEF Apart, Sending, Handlers, LocalsFit
<1>6. LeavingFits' /\ AcceptAlone'
  BY <1>0 DEF LeavingFits, Leaving, Handlers, AcceptAlone
<1>7. Down' /\ IoHeld'
  BY <1>0 DEF Down, IoHeld, Leaked
<1>8. QED
  BY <1>1, <1>2, <1>3, <1>4, <1>5, <1>6, <1>7

\* Push (SparsePool.hpp:108-115) keeps the invariant.
LEMMA PushInv ==
  ASSUME Inv, NEW t \in Threads, Push(t) PROVE Inv'
<1> USE DEF Inv, TypeOK, Push, Goto, Valid, Null, Op, Done, pool, threads
<1>1. RefSum'
  <2>1. Counts = 0 /\ Counts' = 0
    BY DEF Counts, Count, Unused, Free
  <2>2. Cardinality(LocalPtrs)' = Cardinality(LocalPtrs)
    BY DEF LocalPtrs
  <2>3. QED
    BY <2>1, <2>2 DEF RefSum
<1>2. TypeOK'
  <2>1. (refCount_ \in Nat)'
    BY <1>1, RefNat
  <2>2. QED
    BY <2>1, SessionAssumption DEF PushOnce, Label
<1>3. LocalsFit' /\ TaskFits'
  BY DEF LocalsFit, TaskFits, Unused, Free
<1>4. Pointers' /\ Unused' /\ PushOnce'
  BY DEF Pointers, Unused, PushOnce, Free
<1>5. Apart' /\ Sending'
  BY DEF Apart, Sending, Handlers
<1>6. LeavingFits' /\ AcceptAlone'
  BY DEF LeavingFits, Leaving, Handlers, AcceptAlone, Unused, Free
<1>7. Down' /\ IoHeld'
  BY DEF Down, IoHeld, Unused, Free
<1>8. QED
  BY <1>1, <1>2, <1>3, <1>4, <1>5, <1>6, <1>7

\* AcceptCompletes keeps the invariant.
LEMMA AcceptCompletesInv ==
  ASSUME Inv, Env(AcceptCompletes) PROVE Inv'
<1> USE DEF Inv, TypeOK, Env, AcceptCompletes, Complete, Goto, Valid, Null, Op, Done, pool,
           threads
<1>1. RefSum'
  BY DEF RefSum, Counts, Count, LocalPtrs
<1>2. TypeOK'
  <2>1. (refCount_ \in Nat)'
    BY <1>1, RefNat
  <2>2. QED
    <3>1. /\ state' \in {"kIdle", "kPending", "kConnected", "kDisconnecting"}
          /\ generation_' \in 0 .. MaxLives /\ table' \in {Null} \cup 0 .. MaxLives
      OBVIOUS
    <3>2. accepting' \in BOOLEAN /\ isSending_' \in BOOLEAN /\ crashed' \in BOOLEAN
      BY Zenon
    <3>a. up' \in BOOLEAN
      BY Zenon
    <3>3. ovPtr' \in [Op -> {Null} \cup 0 .. MaxLives]
      OBVIOUS
    <3>4. io' \in [Op -> {"none", "posted"} \cup Done]
      OBVIOUS
    <3>5. /\ pc' \in [Threads -> Label] /\ task' \in [Threads -> Op \cup {"none"}]
          /\ result' \in [Threads -> Done \cup {"none"}]
      BY DEF Label
    <3>6. locals' \in [Threads -> 0 .. 2]
      BY DEF LocalsFit
    <3>7. QED
      BY <2>1, <3>1, <3>2, <3>a, <3>3, <3>4, <3>5, <3>6
<1>3. LocalsFit' /\ TaskFits'
  BY DEF LocalsFit, TaskFits
<1>4. Pointers' /\ Unused' /\ PushOnce'
  BY DEF Pointers, Unused, PushOnce, Free
<1>5. Apart' /\ Sending'
  BY DEF Apart, Sending, Handlers
<1>6. LeavingFits' /\ AcceptAlone'
  BY DEF LeavingFits, Leaving, Handlers, AcceptAlone
<1>7. Down' /\ IoHeld'
  BY DEF Down, IoHeld, Leaked, LeavingFits, AcceptAlone
<1>8. QED
  BY <1>1, <1>2, <1>3, <1>4, <1>5, <1>6, <1>7

\* TransferCompletes keeps the invariant.
LEMMA TransferCompletesInv ==
  ASSUME Inv, Env(TransferCompletes) PROVE Inv'
<1> USE DEF Inv, TypeOK, Env, TransferCompletes, Complete, Goto, Valid, Null, Op, Done, pool,
           threads
<1>1. RefSum'
  BY DEF RefSum, Counts, Count, LocalPtrs
<1>2. TypeOK'
  <2>1. (refCount_ \in Nat)'
    BY <1>1, RefNat
  <2>2. QED
    BY <2>1, SessionAssumption
<1>3. LocalsFit' /\ TaskFits'
  BY DEF LocalsFit, TaskFits
<1>4. Pointers' /\ Unused' /\ PushOnce'
  BY DEF Pointers, Unused, PushOnce, Free
<1>5. Apart' /\ Sending'
  BY DEF Apart, Sending, Handlers
<1>6. LeavingFits' /\ AcceptAlone'
  BY DEF LeavingFits, Leaving, Handlers, AcceptAlone
<1>7. Down' /\ IoHeld'
  BY DEF Down, IoHeld, Leaked
<1>8. QED
  BY <1>1, <1>2, <1>3, <1>4, <1>5, <1>6, <1>7

\* TransferFails keeps the invariant.
LEMMA TransferFailsInv ==
  ASSUME Inv, Env(TransferFails) PROVE Inv'
<1> USE DEF Inv, TypeOK, Env, TransferFails, Complete, Goto, Valid, Null, Op, Done, pool, threads
<1>1. RefSum'
  BY DEF RefSum, Counts, Count, LocalPtrs
<1>2. TypeOK'
  <2>1. (refCount_ \in Nat)'
    BY <1>1, RefNat
  <2>2. QED
    BY <2>1, SessionAssumption
<1>3. LocalsFit' /\ TaskFits'
  BY DEF LocalsFit, TaskFits
<1>4. Pointers' /\ Unused' /\ PushOnce'
  BY DEF Pointers, Unused, PushOnce, Free
<1>5. Apart' /\ Sending'
  BY DEF Apart, Sending, Handlers
<1>6. LeavingFits' /\ AcceptAlone'
  BY DEF LeavingFits, Leaving, Handlers, AcceptAlone
<1>7. Down' /\ IoHeld'
  BY DEF Down, IoHeld, Leaked
<1>8. QED
  BY <1>1, <1>2, <1>3, <1>4, <1>5, <1>6, <1>7

\* DisconnectCompletes keeps the invariant.
LEMMA DisconnectCompletesInv ==
  ASSUME Inv, Env(DisconnectCompletes) PROVE Inv'
<1> USE DEF Inv, TypeOK, Env, DisconnectCompletes, Complete, Goto, Valid, Null, Op, Done, pool,
           threads
<1>1. RefSum'
  BY DEF RefSum, Counts, Count, LocalPtrs
<1>2. TypeOK'
  <2>1. (refCount_ \in Nat)'
    BY <1>1, RefNat
  <2>2. QED
    <3>1. /\ state' \in {"kIdle", "kPending", "kConnected", "kDisconnecting"}
          /\ generation_' \in 0 .. MaxLives /\ table' \in {Null} \cup 0 .. MaxLives
      OBVIOUS
    <3>2. accepting' \in BOOLEAN /\ isSending_' \in BOOLEAN /\ crashed' \in BOOLEAN
      BY Zenon
    <3>a. up' \in BOOLEAN
      BY Zenon
    <3>3. ovPtr' \in [Op -> {Null} \cup 0 .. MaxLives]
      OBVIOUS
    <3>4. io' \in [Op -> {"none", "posted"} \cup Done]
      OBVIOUS
    <3>5. /\ pc' \in [Threads -> Label] /\ task' \in [Threads -> Op \cup {"none"}]
          /\ result' \in [Threads -> Done \cup {"none"}]
      BY DEF Label
    <3>6. locals' \in [Threads -> 0 .. 2]
      BY DEF LocalsFit
    <3>7. QED
      BY <2>1, <3>1, <3>2, <3>a, <3>3, <3>4, <3>5, <3>6
<1>3. LocalsFit' /\ TaskFits'
  BY DEF LocalsFit, TaskFits
<1>4. Pointers' /\ Unused' /\ PushOnce'
  BY DEF Pointers, Unused, PushOnce, Free
<1>5. Apart' /\ Sending'
  BY DEF Apart, Sending, Handlers
<1>6. LeavingFits' /\ AcceptAlone'
  BY DEF LeavingFits, Leaving, AcceptAlone
<1>7. Down' /\ IoHeld'
  BY DEF Down, IoHeld, Leaked
<1>8. QED
  BY <1>1, <1>2, <1>3, <1>4, <1>5, <1>6, <1>7

-----------------------------------------------------------------------------
(* The invariant holds, so the properties do. *)

\* The initial state satisfies the invariant.
LEMMA InitInv == Init => Inv
<1> SUFFICES ASSUME Init PROVE Inv
  OBVIOUS
<1> USE DEF Init, Op, Null, Valid
<1>1. TypeOK
  <2>1. /\ state \in {"kIdle", "kPending", "kConnected", "kDisconnecting"}
        /\ generation_ \in 0 .. MaxLives /\ refCount_ \in Nat /\ table \in {Null} \cup 0 .. MaxLives
        /\ ovPtr \in [Op -> {Null} \cup 0 .. MaxLives] /\ io \in [Op -> {"none", "posted"} \cup Done]
    BY SessionAssumption DEF Done
  <2>2. /\ pc \in [Threads -> Label] /\ task \in [Threads -> Op \cup {"none"}]
        /\ result \in [Threads -> Done \cup {"none"}] /\ locals \in [Threads -> 0 .. 2]
    BY DEF Done, Label
  <2>3. accepting \in BOOLEAN /\ isSending_ \in BOOLEAN /\ up \in BOOLEAN /\ crashed \in BOOLEAN
    OBVIOUS
  <2>4. QED
    BY <2>1, <2>2, <2>3 DEF TypeOK
<1>2. LocalPtrs = {} /\ Cardinality(LocalPtrs) = 0
  BY FS_EmptySet DEF LocalPtrs
<1>3. RefSum
  BY <1>2 DEF RefSum, Counts, Count
<1>4. LocalsFit /\ TaskFits /\ Pointers /\ Unused /\ PushOnce
  BY DEF LocalsFit, TaskFits, Pointers, Unused, PushOnce, Label
<1>5. Apart /\ Sending /\ LeavingFits /\ AcceptAlone /\ Down /\ IoHeld
  BY DEF Apart, Sending, LeavingFits, Leaving, AcceptAlone, Down, IoHeld, Handlers
<1>6. QED
  BY <1>1, <1>3, <1>4, <1>5 DEF Inv

\* A step that changes nothing keeps it.
LEMMA StutterInv ==
  ASSUME Inv, UNCHANGED vars PROVE Inv'
BY DEF vars, threads, Inv, TypeOK, LocalsFit, TaskFits, Pointers, Unused, Free, PushOnce, RefSum,
       Counts, Count, Valid, LocalPtrs, Apart, Sending, Handlers, LeavingFits, Leaving,
       AcceptAlone, Down, IoHeld, Leaked

\* Every step of a thread keeps it.
LEMMA StepInv ==
  ASSUME Inv, NEW t \in Threads, Step(t) PROVE Inv'
BY TakeInv, HandleErrorInv, DispatchInv, ConnectInv, SendWelcomeInv, RegisterReadInv, OnReadInv,
   OnWriteInv, DisconnectInv, DisconnectExInv, ClearInv, ReleaseRefInv, PushInv DEF Step

\* So does every completion the kernel delivers.
LEMMA KernelInv ==
  ASSUME Inv, Kernel PROVE Inv'
<1>1. Env(AcceptCompletes) \/ Env(TransferCompletes) \/ Env(TransferFails) \/ Env(DisconnectCompletes)
  BY DEF Kernel, Env
<1>2. QED
  BY <1>1, AcceptCompletesInv, TransferCompletesInv, TransferFailsInv, DisconnectCompletesInv

\* The invariant is inductive.
LEMMA NextInv ==
  ASSUME Inv, [Next]_vars PROVE Inv'
<1>1. Poster \in Threads
  BY DEF Threads
<1>2. QED
  BY <1>1, PostAcceptInv, StepInv, KernelInv, StutterInv DEF Next

\* The inductive invariant holds of every behaviour of the session.
LEMMA InvHolds == Spec => []Inv
<1>1. Inv /\ [Next]_vars => Inv'
  BY NextInv
<1>2. QED
  BY <1>1, InitInv, PTL DEF Spec

\* The pointers of the three OverlappedExs, counted as a set.
LEMMA OpCount ==
  Cardinality({op \in Op : Valid(ovPtr[op])})
    = Count(ovPtr["read"]) + Count(ovPtr["write"]) + Count(ovPtr["disconnect"])
<1> DEFINE S(op) == IF Valid(ovPtr[op]) THEN {op} ELSE {}
<1>1. \A op : IsFiniteSet(S(op)) /\ Cardinality(S(op)) = Count(ovPtr[op])
  BY FS_EmptySet, FS_Singleton DEF Count
<1>2. S("read") \cap S("write") = {} /\ (S("read") \cup S("write")) \cap S("disconnect") = {}
  OBVIOUS
<1>3. {op \in Op : Valid(ovPtr[op])} = (S("read") \cup S("write")) \cup S("disconnect")
  BY DEF Op
<1> HIDE DEF S
<1>4. \A op : Cardinality(S(op)) \in Nat
  BY <1>1, FS_CardinalityType
<1>5. ASSUME NEW A, NEW B, IsFiniteSet(A), IsFiniteSet(B), A \cap B = {}
      PROVE  IsFiniteSet(A \cup B) /\ Cardinality(A \cup B) = Cardinality(A) + Cardinality(B)
  <2>1. /\ IsFiniteSet(A \cup B)
        /\ Cardinality(A \cup B) = Cardinality(A) + Cardinality(B) - Cardinality(A \cap B)
    BY <1>5, FS_Union
  <2>2. Cardinality(A \cap B) = 0 /\ Cardinality(A) \in Nat /\ Cardinality(B) \in Nat
    BY <1>5, FS_EmptySet, FS_CardinalityType
  <2>3. QED
    BY <2>1, <2>2
<1>6. /\ IsFiniteSet(S("read") \cup S("write"))
      /\ Cardinality(S("read") \cup S("write")) = Cardinality(S("read")) + Cardinality(S("write"))
  BY <1>1, <1>2, <1>5
<1>7. Cardinality((S("read") \cup S("write")) \cup S("disconnect"))
        = Cardinality(S("read") \cup S("write")) + Cardinality(S("disconnect"))
  BY <1>1, <1>2, <1>5, <1>6
<1>8. QED
  BY <1>1, <1>3, <1>6, <1>7

\* A set whose elements are all the same has at most one.
LEMMA AtMostOne ==
  ASSUME NEW S, \A x, y \in S : x = y
  PROVE  Cardinality(S) \in {0, 1} /\ (S = {} => Cardinality(S) = 0)
<1>1. CASE S = {}
  BY <1>1, FS_EmptySet
<1>2. CASE S # {}
  <2>1. PICK x \in S : TRUE
    BY <1>2
  <2>2. S = {x}
    BY <2>1
  <2>3. QED
    BY <1>2, <2>2, FS_Singleton
<1>3. QED
  BY <1>1, <1>2

\* RefSum is RefExact, counted by variables instead of by sets.
LEMMA InvRefExact == Inv => RefExact
<1> SUFFICES ASSUME Inv PROVE RefExact
  OBVIOUS
<1>1. \A g : Count(g) \in {0, 1}
  BY DEF Count
<1>2. QED
  BY <1>1, OpCount, CountsType DEF Inv, RefSum, Counts, RefExact

\* A free session is unused.
LEMMA InvFreedIsUnused == Inv => FreedIsUnused
BY DEF Inv, TypeOK, Unused, Free, FreedIsUnused, LocalPtrs

\* Two different handlers, or a handler and the kernel, would break Apart.
LEMMA InvOneOwner == Inv => OneOwner
<1> SUFFICES ASSUME Inv, NEW op \in Op
             PROVE  Cardinality(Handlers(op)) + (IF io[op] = "none" THEN 0 ELSE 1) <= 1
  BY DEF OneOwner
<1>1. \A t, u \in Handlers(op) : t = u
  BY DEF Inv, Apart
<1>2. io[op] # "none" => Handlers(op) = {}
  BY DEF Inv, Apart
<1>3. QED
  BY <1>1, <1>2, AtMostOne

\* SparsePool.hpp:89-119, Session.hpp: for any number of workers and lives and whatever
\* fails, the reference count never goes below zero and every state, pointer and program
\* counter of a session keeps its type.
THEOREM TypeCorrect == Spec => []TypeOK
<1>1. Inv => TypeOK
  BY DEF Inv
<1>2. QED
  BY <1>1, InvHolds, PTL

\* SparsePool.hpp:89-119, SharedPoolPtr.hpp: refCount_ is the number of pointers that
\* exist, whatever the interleaving of AddRef, ReleaseRef and assignments.
THEOREM Counted == Spec => []RefExact
BY InvRefExact, InvHolds, PTL

\* SparsePool.hpp:106-110: Push is reached only when nobody, the kernel included, uses the
\* session.
THEOREM FreedUnused == Spec => []FreedIsUnused
BY InvFreedIsUnused, InvHolds, PTL

\* Session.cpp:172-179, 233-258: no OverlappedEx is used by two threads, or by a thread and
\* the kernel; DisconnectEx is called once however many I/Os fail together.
THEOREM Owned == Spec => []OneOwner
BY InvOneOwner, InvHolds, PTL

\* A flag that stays set has a write, or the session is on its way out: what the session's
\* own threads do for BroadcastGate of module Broadcast.
Gated ==
  isSending_ => \/ io["write"] # "none" \/ Handlers("write") # {}
                \/ state = "kDisconnecting"
                \/ \E t \in Threads : pc[t] \in {"disconnect", "push"}

\* A step of one thread that does not touch the write: only that thread's part of Gated moves.
LEMMA GatedKeep ==
  ASSUME Gated, NEW t \in Threads,
         isSending_' => isSending_,
         io'["write"] = io["write"],
         state = "kDisconnecting" => state' = "kDisconnecting",
         \A u \in Threads \ {t} : pc'[u] = pc[u] /\ task'[u] = task[u],
         t \in Handlers("write") \/ pc[t] \in {"disconnect", "push"}
           => \/ t \in Handlers("write")' \/ pc'[t] \in {"disconnect", "push"}
              \/ state' = "kDisconnecting" \/ ~isSending_'
  PROVE  Gated'
<1> SUFFICES ASSUME isSending_' PROVE Gated'
  BY DEF Gated
<1>1. CASE io["write"] # "none" \/ state = "kDisconnecting"
  BY <1>1 DEF Gated
<1>2. CASE t \in Handlers("write") \/ pc[t] \in {"disconnect", "push"}
  BY <1>2 DEF Gated
<1>3. ASSUME NEW u \in Threads \ {t}, u \in Handlers("write") \/ pc[u] \in {"disconnect", "push"}
      PROVE  Gated'
  <2>1. pc'[u] = pc[u] /\ task'[u] = task[u]
    OBVIOUS
  <2>2. u \in Handlers("write")' \/ pc'[u] \in {"disconnect", "push"}
    BY <1>3, <2>1 DEF Handlers
  <2>3. QED
    BY <2>2 DEF Gated
<1>4. Handlers("write") \subseteq Threads
  BY DEF Handlers
<1>5. QED
  BY <1>1, <1>2, <1>3, <1>4 DEF Gated

\* A step of a thread keeps Gated.
LEMMA GatedStep ==
  ASSUME Inv, Gated, NEW t \in Threads, Step(t) PROVE Gated'
<1> USE DEF Inv, TypeOK, Goto, Valid, Op, Done, pool, threads
<1>1. ASSUME NEW o \in Op, Take(t, o) PROVE Gated'
  <2>1. ~Valid(ovPtr[o]) => state = "kDisconnecting"
    BY <1>1 DEF Take, IoHeld, Leaked, LeavingFits
  <2>2. QED
    BY <1>1, <2>1 DEF Take, Gated, Handlers
<1>2. ASSUME HandleError(t) PROVE Gated'
  BY <1>2, GatedKeep DEF HandleError, TakeOver, Handlers
<1>3. ASSUME Dispatch(t) PROVE Gated'
  BY <1>3, GatedKeep DEF Dispatch, TakeOver, Handlers, TaskFits
<1>4. ASSUME SendWelcome(t) PROVE Gated'
  <2>1. CASE io'["write"] = "posted" \/ pc'[t] = "disconnect"
    BY <2>1 DEF Gated
  <2>2. CASE isSending_ /\ io' = io
    BY <1>4, <2>2, GatedKeep DEF SendWelcome, SendPacket, Handlers
  <2>3. QED
    BY <1>4, <2>1, <2>2 DEF SendWelcome, SendPacket, Post
<1>5. ASSUME OnWrite(t) PROVE Gated'
  <2>1. CASE io'["write"] = "posted" \/ pc'[t] = "disconnect" \/ ~isSending_'
    BY <2>1 DEF Gated
  <2>2. QED
    BY <1>5, <2>1 DEF OnWrite, Post
<1>6. ASSUME Connect(t) \/ OnRead(t) \/ RegisterRead(t) PROVE Gated'
  <2>1. /\ isSending_' = isSending_ /\ io'["write"] = io["write"] /\ task' = task
        /\ state = "kDisconnecting" => state' = "kDisconnecting"
    BY <1>6 DEF Connect, OnRead, RegisterRead, Post
  <2>2. \A u \in Threads \ {t} : pc'[u] = pc[u]
    BY <1>6 DEF Connect, OnRead, RegisterRead, Post
  <2>3. pc[t] \in {"connect", "onRead", "registerRead"}
    BY <1>6 DEF Connect, OnRead, RegisterRead
  <2>4. t \notin Handlers("write") /\ pc[t] \notin {"disconnect", "push"}
    BY <2>3 DEF Handlers
  <2>5. QED
    BY <2>1, <2>2, <2>4, GatedKeep
<1>7. ASSUME Disconnect(t) \/ DisconnectEx(t) \/ Clear(t) PROVE Gated'
  BY <1>7 DEF Disconnect, DisconnectEx, Clear, LocalsFit, Unused, Free, LeavingFits, Leaving,
     Gated, Handlers, Label
<1>8. ASSUME ReleaseRef(t) PROVE Gated'
  BY <1>8, GatedKeep DEF ReleaseRef, Deleter, Handlers
<1>9. ASSUME Push(t) PROVE Gated'
  BY <1>9 DEF Push, Unused, Free, Gated
<1>10. QED
  BY <1>1, <1>2, <1>3, <1>4, <1>5, <1>6, <1>7, <1>8, <1>9 DEF Step

\* Without senders Gated is inductive relative to the invariant.
LEMMA GatedNext ==
  ASSUME Inv, Gated, [Next]_vars PROVE Gated'
<1>1. ASSUME PostAccept(Poster) PROVE Gated'
  BY <1>1 DEF Inv, PostAccept, Unused, Free, Gated
<1>2. ASSUME Kernel PROVE Gated'
  BY <1>2 DEF Inv, TypeOK, Op, Gated, Kernel, Env, AcceptCompletes, TransferCompletes,
              TransferFails, DisconnectCompletes, Complete, Handlers, threads, pool
<1>3. ASSUME UNCHANGED vars PROVE Gated'
  BY <1>3 DEF vars, threads, Gated, Handlers
<1>4. QED
  BY <1>1, <1>2, <1>3, GatedStep DEF Next

\* Session.cpp:37, 112, 262: as long as DisconnectEx does not fail, every I/O the kernel has
\* carries a reference, so none completes on a session that is gone.  (A DisconnectEx that
\* fails clears the table and leaves its own pointer behind: then the session is never
\* reused, and the pointer of an I/O that is still posted may be dropped.)
THEOREM Held ==
  ASSUME "disconnect" \notin Faults PROVE Spec => []IoHoldsReference
<1>1. Inv => IoHoldsReference
  BY DEF Inv, IoHeld, IoHoldsReference, Leaked
<1>2. QED
  BY <1>1, InvHolds, PTL
=============================================================================
