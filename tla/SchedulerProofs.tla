-------------------------- MODULE SchedulerProofs --------------------------
(***************************************************************************)
(* Proofs about the scheduler of Main.cpp and Worker.cpp, for any number   *)
(* of workers, tasks and rounds and any sizes of rings and batches: no     *)
(* task is lost or doubled, no ring overflows, the count of pending tasks  *)
(* is exact and the workers are stopped only when everything has run.      *)
(***************************************************************************)
EXTENDS Scheduler, QueueLemmas

\* Worker.cpp:20 takes size / num_threads_ + 1 tasks, more than there are when there is
\* one thread: pop_front of an empty deque.  The complex variant needs two.
Defined == use_complex_worker => num_threads_ > 1
-----------------------------------------------------------------------------
(* The inductive invariant. *)

\* What a worker has at each place of its loop.
LabelsFit ==
  \A w \in Workers :
    /\ pc[w] = "run" <=> hand[w] # 0
    /\ pc[w] = "fill" => buffer_[w] = << >>
    /\ pc[w] \in {"fill", "fetch", "steal"} => use_complex_worker

InGlobal(k) == k \in Range(global_queue_)
InQueue(k, w) == k \in Range(queue_[w])
InBuffer(k, w) == k \in Range(buffer_[w])

NoDoubles ==
  Distinct(global_queue_) /\ \A w \in Workers : Distinct(queue_[w]) /\ Distinct(buffer_[w])

\* No task is in two places ...
OnePlace ==
  \A k \in Tasks : \A w \in Workers :
    /\ InGlobal(k) => ~InQueue(k, w) /\ ~InBuffer(k, w) /\ hand[w] # k
    /\ \A v \in Workers :
         /\ InQueue(k, w) => ~InBuffer(k, v) /\ hand[v] # k /\ (InQueue(k, v) => v = w)
         /\ InBuffer(k, w) => hand[v] # k /\ (InBuffer(k, v) => v = w)
         /\ hand[w] = k /\ hand[v] = k => v = w

Waits(k) ==
  InGlobal(k) \/ \E w \in Workers : InQueue(k, w) \/ InBuffer(k, w) \/ hand[w] = k

\* ... and it is in one until it has run.
RunOnce == \A k \in Tasks : executed[k] = IF Waits(k) THEN 0 ELSE 1

Ends ==
  /\ main \in {"stop", "join", "done"} => pending_tasks_ = 0
  /\ stop_ => main \in {"join", "done"}

Spread == NoDoubles /\ OnePlace /\ RunOnce

Inv == Defined /\ TypeOK /\ LabelsFit /\ RingsFit /\ Spread /\ PendingExact /\ Ends
-----------------------------------------------------------------------------
(* Counting. *)

Stairs(f) == {x \in Workers \X Tasks : x[2] <= f[x[1]]}
Unrun == {k \in Tasks : executed[k] = 0}

\* There are TaskCount tasks.
LEMMA TasksFinite == IsFiniteSet(Tasks) /\ Cardinality(Tasks) = TaskCount
<1>1. TaskCount \in Nat /\ TaskCount > 0
  BY SchedulerAssumption
<1>2. QED
  BY <1>1, FS_Interval DEF Tasks

\* What the workers hold back is finite.
LEMMA StairsFinite == ASSUME NEW f PROVE IsFiniteSet(Stairs(f)) /\ Cardinality(Stairs(f)) \in Nat
<1>1. IsFiniteSet(Workers \X Tasks)
  BY TasksFinite, SchedulerAssumption, FS_Product
<1>2. Stairs(f) \in SUBSET (Workers \X Tasks)
  BY DEF Stairs
<1>3. QED
  BY <1>1, <1>2, FS_Subset, FS_CardinalityType

\* So are the tasks that have not run.
LEMMA UnrunFinite ==
  /\ IsFiniteSet(Unrun) /\ Cardinality(Unrun) \in Nat
  /\ IsFiniteSet(Unrun') /\ Cardinality(Unrun)' \in Nat
<1>1. Unrun \in SUBSET Tasks /\ Unrun' \in SUBSET Tasks
  BY DEF Unrun
<1>2. QED
  BY <1>1, TasksFinite, FS_Subset, FS_CardinalityType

\* What one worker holds back, and what the others do.
LEMMA StairsSplit ==
  ASSUME NEW f \in [Workers -> 0 .. TaskCount], NEW w \in Workers
  PROVE  Cardinality(Stairs(f)) = Cardinality(Stairs([f EXCEPT ![w] = 0])) + f[w]
<1> DEFINE g == [f EXCEPT ![w] = 0]
           own == {w} \X (1 .. f[w])
<1>0. TaskCount \in Nat /\ f[w] \in Nat /\ f[w] <= TaskCount
  BY SchedulerAssumption
<1>1. Stairs(f) = Stairs(g) \cup own
  BY <1>0 DEF Stairs, Tasks
<1>2. Stairs(g) \cap own = {}
  BY <1>0 DEF Stairs, Tasks
<1>3. IsFiniteSet(own) /\ Cardinality(own) = f[w]
  <2>1. IsFiniteSet({w}) /\ Cardinality({w}) = 1
    BY FS_Singleton
  <2>2. IsFiniteSet(1 .. f[w]) /\ Cardinality(1 .. f[w]) = f[w]
    BY <1>0, FS_Interval
  <2>3. IsFiniteSet(own) /\ Cardinality(own) = Cardinality({w}) * Cardinality(1 .. f[w])
    BY <2>1, <2>2, FS_Product
  <2>4. QED
    BY <1>0, <2>1, <2>2, <2>3
<1>4. IsFiniteSet(Stairs(g)) /\ Cardinality(Stairs(g)) \in Nat
  BY StairsFinite
<1> HIDE DEF g, own
<1>5. Cardinality(Stairs(g) \cup own)
        = Cardinality(Stairs(g)) + Cardinality(own) - Cardinality(Stairs(g) \cap own)
  BY <1>3, <1>4, FS_Union
<1>6. Cardinality(Stairs(g) \cap own) = 0
  BY <1>2, FS_EmptySet
<1>7. Cardinality(Stairs(f)) = Cardinality(Stairs(g)) + f[w]
  BY <1>0, <1>1, <1>3, <1>4, <1>5, <1>6
<1>8. QED
  BY <1>7 DEF g

\* One worker changes what it holds back.
LEMMA StairsChange ==
  ASSUME NEW f \in [Workers -> 0 .. TaskCount], NEW w \in Workers, NEW n \in 0 .. TaskCount
  PROVE  /\ Cardinality(Stairs([f EXCEPT ![w] = n])) = Cardinality(Stairs(f)) - f[w] + n
         /\ f[w] <= Cardinality(Stairs(f))
<1> DEFINE g == [f EXCEPT ![w] = n]
<1>1. g \in [Workers -> 0 .. TaskCount] /\ g[w] = n /\ [g EXCEPT ![w] = 0] = [f EXCEPT ![w] = 0]
  OBVIOUS
<1> HIDE DEF g
<1>2. Cardinality(Stairs(g)) = Cardinality(Stairs([f EXCEPT ![w] = 0])) + n
  BY <1>1, StairsSplit
<1>3. Cardinality(Stairs(f)) = Cardinality(Stairs([f EXCEPT ![w] = 0])) + f[w]
  BY StairsSplit
<1>4. Cardinality(Stairs([f EXCEPT ![w] = 0])) \in Nat /\ f[w] \in Nat /\ n \in Nat
  BY StairsFinite, SchedulerAssumption
<1>5. Cardinality(Stairs(g)) = Cardinality(Stairs(f)) - f[w] + n /\ f[w] <= Cardinality(Stairs(f))
  BY <1>2, <1>3, <1>4
<1>6. QED
  BY <1>5 DEF g

\* The two parts of what is pending.
LEMMA PendingParts ==
  PendingExact <=> pending_tasks_ = Cardinality(Unrun) + Cardinality(Stairs(task_did_))
BY DEF PendingExact, Unrun, Stairs, HeldBack

\* Nothing is pending: everything has run and been counted off.
LEMMA NothingPending ==
  ASSUME Inv, pending_tasks_ = 0
  PROVE  /\ \A k \in Tasks : executed[k] = 1
         /\ \A w \in Workers : task_did_[w] = 0 /\ hand[w] = 0
<1>1. Cardinality(Unrun) = 0 /\ Cardinality(Stairs(task_did_)) = 0
  <2>1. 0 = Cardinality(Unrun) + Cardinality(Stairs(task_did_))
    BY PendingParts DEF Inv
  <2>2. Cardinality(Stairs(task_did_)) \in Nat
    BY StairsFinite
  <2>3. QED
    BY <2>1, <2>2, UnrunFinite
<1>2. \A k \in Tasks : executed[k] = 1
  <2>1. Unrun = {}
    BY <1>1, UnrunFinite, FS_EmptySet
  <2>2. QED
    BY <2>1 DEF Unrun, Inv, Spread, RunOnce
<1>3. ASSUME NEW w \in Workers PROVE task_did_[w] = 0 /\ hand[w] = 0
  <2>1. task_did_ \in [Workers -> 0 .. TaskCount] /\ 0 \in 0 .. TaskCount
    BY SchedulerAssumption DEF Inv, TypeOK
  <2>2. task_did_[w] <= 0 /\ task_did_[w] \in Nat
    BY <1>1, <2>1, StairsChange, SchedulerAssumption
  <2>3. hand[w] \in Tasks => executed[hand[w]] = 0
    BY DEF Inv, Spread, RunOnce, Waits
  <2>4. hand[w] = 0 \/ hand[w] \in Tasks
    BY SchedulerAssumption DEF Inv, TypeOK, Tasks
  <2>5. QED
    BY <1>2, <2>2, <2>3, <2>4
<1>4. QED
  BY <1>2, <1>3
-----------------------------------------------------------------------------
(* Steps that move no task. *)

\* The parts of the invariant that concern tasks only.
LEMMA Kept ==
  ASSUME Inv, UNCHANGED <<use_complex_worker, global_queue_, queue_, buffer_, task_did_, hand,
                          pending_tasks_, executed>>
  PROVE  Defined' /\ RingsFit' /\ Spread' /\ PendingExact'
BY DEF Inv, Defined, RingsFit, Spread, NoDoubles, OnePlace, RunOnce, Waits, InGlobal, InQueue, InBuffer,
       PendingExact, HeldBack

\* CheckStop and Notify move a worker on in its loop.
LEMMA IdleInv ==
  ASSUME Inv, NEW w \in Workers, Built(CheckStop(w)) \/ Built(Notify(w))
  PROVE  Inv'
<1>1. UNCHANGED <<use_complex_worker, global_queue_, queue_, buffer_, task_did_, hand,
                  pending_tasks_, executed, stop_, round>>
  BY DEF Built, CheckStop, Notify, local
<1>2. Defined' /\ RingsFit' /\ Spread' /\ PendingExact'
  BY <1>1, Kept
<1>3. TypeOK'
  BY <1>1 DEF Inv, TypeOK, Built, CheckStop, Notify, Goto
<1>4. LabelsFit'
  BY <1>1 DEF Inv, TypeOK, LabelsFit, Built, CheckStop, Notify, Goto
<1>5. Ends'
  BY <1>1 DEF Inv, Ends, Built, CheckStop, Notify
<1>6. QED
  BY <1>2, <1>3, <1>4, <1>5 DEF Inv

\* Main's steps within a round.
LEMMA MainInv ==
  ASSUME Inv, Built(CheckDone) \/ Built(Sleep) \/ Built(SpuriousWakeup) \/ Built(Stop) \/ Built(Join)
  PROVE  Inv'
<1>1. UNCHANGED <<use_complex_worker, global_queue_, queue_, buffer_, task_did_, hand,
                  pending_tasks_, executed, pc, round>>
  BY DEF Built, CheckDone, Sleep, SpuriousWakeup, Stop, Join, rest, local
<1>2. Defined' /\ RingsFit' /\ Spread' /\ PendingExact'
  BY <1>1, Kept
<1>3. stop_' \in BOOLEAN /\ main' \in {"check", "checked", "asleep", "stop", "join", "done"}
  BY DEF Inv, TypeOK, Built, CheckDone, Sleep, SpuriousWakeup, Stop, Join
<1>4. TypeOK' /\ LabelsFit'
  BY <1>1, <1>3 DEF Inv, TypeOK, LabelsFit
<1>5. Ends'
  BY <1>1 DEF Inv, Ends, Built, CheckDone, Sleep, SpuriousWakeup, Stop, Join
<1>6. QED
  BY <1>2, <1>4, <1>5 DEF Inv
-----------------------------------------------------------------------------
(* Steps that move tasks and count nothing. *)

\* The parts that concern counting only.
LEMMA CountKept ==
  ASSUME Inv, UNCHANGED <<use_complex_worker, task_did_, pending_tasks_, executed, stop_, main>>
  PROVE  Defined' /\ PendingExact' /\ Ends'
BY DEF Inv, Defined, PendingExact, HeldBack, Ends

\* GetNextTask (Worker.hpp:51-58) keeps the invariant.
LEMMA GetNextTaskInv ==
  ASSUME Inv, NEW w \in Workers, Built(GetNextTask(w))
  PROVE  Inv'
<1> USE DEF Inv, TypeOK, Built, GetNextTask, Goto
<1>1. Defined' /\ PendingExact' /\ Ends'
  BY CountKept
<1>2. CASE buffer_[w] = << >>
  <2>1. UNCHANGED <<use_complex_worker, global_queue_, queue_, buffer_, task_did_, hand,
                    pending_tasks_, executed>>
    BY <1>2
  <2>2. RingsFit' /\ Spread'
    BY <2>1, Kept
  <2>3. TypeOK' /\ LabelsFit'
    BY <1>2 DEF LabelsFit
  <2>4. QED
    BY <1>1, <2>2, <2>3
<1>3. CASE buffer_[w] # << >>
  <2>1. buffer_[w] \in Seq(Tasks) /\ Distinct(buffer_[w])
    BY DEF Spread, NoDoubles
  <2>2. /\ Tail(buffer_[w]) \in Seq(Tasks) /\ Len(Tail(buffer_[w])) = Len(buffer_[w]) - 1
        /\ Distinct(Tail(buffer_[w])) /\ Head(buffer_[w]) \in Tasks
        /\ \A k : InBuffer(k, w) <=> k = Head(buffer_[w]) \/ k \in Range(Tail(buffer_[w]))
        /\ Head(buffer_[w]) \notin Range(Tail(buffer_[w]))
    BY <1>3, <2>1, PopHead DEF InBuffer
  <2>3. /\ buffer_' = [buffer_ EXCEPT ![w] = Tail(buffer_[w])]
        /\ hand' = [hand EXCEPT ![w] = Head(buffer_[w])] /\ pc' = [pc EXCEPT ![w] = "run"]
        /\ UNCHANGED <<global_queue_, queue_, executed>>
    BY <1>3
  <2>4. Head(buffer_[w]) \in 1 .. TaskCount /\ hand[w] = 0
    BY <2>2, SchedulerAssumption DEF Tasks, LabelsFit
  <2>5. TypeOK'
    BY <2>2, <2>3, <2>4
  <2>6. LabelsFit'
    BY <2>3, <2>4 DEF LabelsFit
  <2>7. RingsFit'
    <3>1. Len(buffer_[w]) \in Nat /\ Len(Tail(buffer_[w])) <= Len(buffer_[w])
      BY <2>1, <2>2, Entries
    <3>2. Len(Tail(buffer_[w])) <= kMaxBufferSize_
      BY <2>1, <2>2, <3>1, SchedulerAssumption DEF RingsFit
    <3>3. QED
      BY <2>3, <3>2 DEF RingsFit
  <2>8. NoDoubles'
    BY <2>2, <2>3 DEF Spread, NoDoubles
  <2>a. PICK h \in Tasks : h = Head(buffer_[w])
    BY <2>2
  <2>9. /\ \A k : InGlobal(k)' <=> InGlobal(k)
        /\ \A k : \A v \in Workers : InQueue(k, v)' <=> InQueue(k, v)
        /\ \A k : \A v \in Workers \ {w} : (InBuffer(k, v)' <=> InBuffer(k, v)) /\ hand'[v] = hand[v]
        /\ \A k : InBuffer(k, w) <=> k = h \/ InBuffer(k, w)'
        /\ ~InBuffer(h, w)' /\ hand'[w] = h
    BY <2>2, <2>3, <2>a DEF InGlobal, InQueue, InBuffer
  <2>10. OnePlace'
    <3> SUFFICES ASSUME NEW k \in Tasks PROVE OnePlace!(k)'
      BY DEF OnePlace
    <3>1. OnePlace!(k)
      BY DEF Spread, OnePlace
    <3>2. CASE k = h
      BY <2>9, <3>1, <3>2
    <3>3. CASE k # h
      <4>1. /\ InGlobal(k)' <=> InGlobal(k)
            /\ \A v \in Workers : /\ InQueue(k, v)' <=> InQueue(k, v)
                                  /\ InBuffer(k, v)' <=> InBuffer(k, v)
                                  /\ hand'[v] = k => hand[v] = k
        BY <2>9, <3>3
      <4>2. QED
        BY <3>1, <4>1
    <3>4. QED
      BY <3>2, <3>3
  <2>11. RunOnce'
    <3>1. ASSUME NEW k \in Tasks PROVE Waits(k)' <=> Waits(k)
      BY <2>4, <2>9 DEF Waits, Tasks
    <3>2. QED
      BY <2>3, <3>1 DEF Spread, RunOnce
  <2>12. QED
    BY <1>1, <2>5, <2>6, <2>7, <2>8, <2>10, <2>11 DEF Spread
<1>4. QED
  BY <1>2, <1>3

\* TakeGlobal (Worker.cpp:101-110) keeps the invariant.
LEMMA TakeGlobalInv ==
  ASSUME Inv, NEW w \in Workers, Built(TakeGlobal(w))
  PROVE  Inv'
<1> USE DEF Inv, TypeOK, Built, TakeGlobal, Goto
<1>1. Defined' /\ PendingExact' /\ Ends'
  BY CountKept
<1>2. CASE global_queue_ = << >>
  <2>1. UNCHANGED <<use_complex_worker, global_queue_, queue_, buffer_, task_did_, hand,
                    pending_tasks_, executed>>
    BY <1>2
  <2>2. RingsFit' /\ Spread'
    BY <2>1, Kept
  <2>3. TypeOK' /\ LabelsFit'
    BY <1>2 DEF LabelsFit
  <2>4. QED
    BY <1>1, <2>2, <2>3
<1>3. CASE global_queue_ # << >>
  <2>1. global_queue_ \in Seq(Tasks) /\ Distinct(global_queue_)
    BY DEF Spread, NoDoubles
  <2>2. /\ Tail(global_queue_) \in Seq(Tasks) /\ Distinct(Tail(global_queue_))
        /\ Head(global_queue_) \in Tasks
        /\ \A k : InGlobal(k) <=> k = Head(global_queue_) \/ k \in Range(Tail(global_queue_))
        /\ Head(global_queue_) \notin Range(Tail(global_queue_))
    BY <1>3, <2>1, PopHead DEF InGlobal
  <2>3. /\ global_queue_' = Tail(global_queue_)
        /\ hand' = [hand EXCEPT ![w] = Head(global_queue_)] /\ pc' = [pc EXCEPT ![w] = "run"]
        /\ UNCHANGED <<buffer_, queue_, executed>>
    BY <1>3
  <2>4. Head(global_queue_) \in 1 .. TaskCount /\ hand[w] = 0
    BY <2>2, SchedulerAssumption DEF Tasks, LabelsFit
  <2>5. TypeOK'
    BY <2>2, <2>3, <2>4
  <2>6. LabelsFit'
    BY <2>3, <2>4 DEF LabelsFit
  <2>7. RingsFit' /\ NoDoubles'
    BY <2>2, <2>3 DEF RingsFit, Spread, NoDoubles
  <2>a. PICK h \in Tasks : h = Head(global_queue_)
    BY <2>2
  <2>8. /\ \A k : \A v \in Workers : (InQueue(k, v)' <=> InQueue(k, v)) /\ (InBuffer(k, v)' <=> InBuffer(k, v))
        /\ \A v \in Workers \ {w} : hand'[v] = hand[v]
        /\ \A k : InGlobal(k) <=> k = h \/ InGlobal(k)'
        /\ ~InGlobal(h)' /\ hand'[w] = h
    BY <2>2, <2>3, <2>a DEF InGlobal, InQueue, InBuffer
  <2>9. OnePlace'
    <3> SUFFICES ASSUME NEW k \in Tasks PROVE OnePlace!(k)'
      BY DEF OnePlace
    <3>1. OnePlace!(k)
      BY DEF Spread, OnePlace
    <3>2. CASE k = h
      BY <2>8, <3>1, <3>2
    <3>3. CASE k # h
      <4>1. /\ InGlobal(k)' <=> InGlobal(k)
            /\ \A v \in Workers : /\ InQueue(k, v)' <=> InQueue(k, v)
                                  /\ InBuffer(k, v)' <=> InBuffer(k, v)
                                  /\ hand'[v] = k => hand[v] = k
        BY <2>8, <3>3
      <4>2. QED
        BY <3>1, <4>1
    <3>4. QED
      BY <3>2, <3>3
  <2>10. RunOnce'
    <3>1. ASSUME NEW k \in Tasks PROVE Waits(k)' <=> Waits(k)
      BY <2>4, <2>8 DEF Waits, Tasks
    <3>2. QED
      BY <2>3, <3>1 DEF Spread, RunOnce
  <2>11. QED
    BY <1>1, <2>5, <2>6, <2>7, <2>9, <2>10 DEF Spread
<1>4. QED
  BY <1>2, <1>3

\* FillBuffer (Worker.hpp:39-49) keeps the invariant.
LEMMA FillBufferInv ==
  ASSUME Inv, NEW w \in Workers, Built(FillBuffer(w))
  PROVE  Inv'
<1> DEFINE q == queue_[w]
           cnt == Min({Len(q), fillBatch})
           front == SubSeq(q, 1, cnt)
           back == SubSeq(q, cnt + 1, Len(q))
<1>1. Defined' /\ PendingExact' /\ Ends'
  BY CountKept DEF Built, FillBuffer
<1>2. /\ q \in Seq(Tasks) /\ Distinct(q) /\ Len(q) \in Nat /\ fillBatch \in Nat
      /\ buffer_[w] = << >> /\ Len(q) <= kQueueSize_ /\ kQueueSize_ \in Nat
      /\ kMaxBufferSize_ \in Nat /\ fillBatch <= kMaxBufferSize_
  BY SchedulerAssumption, Entries DEF Inv, TypeOK, Spread, NoDoubles, RingsFit, LabelsFit, Built, FillBuffer
<1>3. /\ buffer_' = [buffer_ EXCEPT ![w] = buffer_[w] \o front]
      /\ queue_' = [queue_ EXCEPT ![w] = back]
      /\ pc' = [pc EXCEPT ![w] = IF cnt > 0 THEN "get" ELSE "fetch"]
      /\ pc[w] = "fill"
      /\ UNCHANGED <<use_complex_worker, global_queue_, task_did_, hand, pending_tasks_, stop_, main,
                     executed, round>>
  BY DEF Built, FillBuffer, Goto
<1> HIDE DEF q
<1>4. cnt \in {Len(q), fillBatch} /\ cnt <= Len(q) /\ cnt <= fillBatch
  <2>1. Len(q) \in Int /\ fillBatch \in Int
    BY <1>2
  <2>2. QED
    BY <2>1, MinOfTwo
<1> HIDE DEF cnt
<1>a. cnt \in 0 .. Len(q)
  BY <1>2, <1>4
<1>5. /\ front \in Seq(Tasks) /\ back \in Seq(Tasks) /\ Distinct(front) /\ Distinct(back)
      /\ Len(front) = cnt /\ Len(back) = Len(q) - cnt
      /\ \A x : x \in Range(q) <=> x \in Range(front) \/ x \in Range(back)
      /\ \A x : ~(x \in Range(front) /\ x \in Range(back))
  BY <1>2, <1>a, Cut
<1> HIDE DEF front, back
<1>6. buffer_[w] \o front = front
  BY <1>2, <1>5
<1>7. buffer_' = [buffer_ EXCEPT ![w] = front]
  BY <1>3, <1>6
<1>8. TypeOK' /\ LabelsFit'
  BY <1>3, <1>5, <1>7 DEF Inv, TypeOK, LabelsFit
<1>9. RingsFit' /\ NoDoubles'
  <2>1. Len(front) <= kMaxBufferSize_ /\ Len(back) <= kQueueSize_
    BY <1>2, <1>4, <1>a, <1>5
  <2>2. \A v \in Workers \ {w} : queue_'[v] = queue_[v] /\ buffer_'[v] = buffer_[v]
    BY <1>3, <1>7 DEF Inv, TypeOK
  <2>3. queue_'[w] = back /\ buffer_'[w] = front
    BY <1>3, <1>7 DEF Inv, TypeOK
  <2>4. QED
    BY <1>3, <1>5, <2>1, <2>2, <2>3 DEF Inv, RingsFit, Spread, NoDoubles
<1>10. PICK M : M = Range(front)
  OBVIOUS
<1>11. /\ \A k : InGlobal(k)' <=> InGlobal(k)
       /\ \A k : \A v \in Workers \ {w} : /\ InQueue(k, v)' <=> InQueue(k, v)
                                          /\ InBuffer(k, v)' <=> InBuffer(k, v)
       /\ \A k : InQueue(k, w) <=> k \in M \/ InQueue(k, w)'
       /\ \A k : ~(k \in M /\ InQueue(k, w)')
       /\ \A k : InBuffer(k, w)' <=> k \in M
       /\ \A k : ~InBuffer(k, w)
  <2>1. Range(<< >>) = {}
    BY DEF Range
  <2>2. QED
    BY <1>2, <1>3, <1>5, <1>7, <1>10, <2>1 DEF InGlobal, InQueue, InBuffer, q, Inv, TypeOK
<1>12. OnePlace'
  <2> SUFFICES ASSUME NEW k \in Tasks PROVE OnePlace!(k)'
    BY DEF OnePlace
  <2>1. OnePlace!(k)
    BY DEF Inv, Spread, OnePlace
  <2>2. CASE k \in M
    BY <1>3, <1>11, <2>1, <2>2
  <2>3. CASE k \notin M
    BY <1>3, <1>11, <2>1, <2>3
  <2>4. QED
    BY <2>2, <2>3
<1>13. RunOnce'
  <2>1. ASSUME NEW k \in Tasks PROVE Waits(k)' <=> Waits(k)
    BY <1>3, <1>11 DEF Waits
  <2>2. QED
    BY <1>3, <2>1 DEF Inv, Spread, RunOnce
<1>14. QED
  BY <1>1, <1>8, <1>9, <1>12, <1>13 DEF Inv, Spread

\* The batch that TryFetchGlobal takes is in the global queue, with two workers or more.
LEMMA FetchFits ==
  ASSUME NEW n \in Nat, n > 0, NEW m \in Nat, m > 1
  PROVE  n \div m + 1 \in 1 .. n
<1>1. n \div m \in Nat /\ m * (n \div m) <= n
  OBVIOUS
<1>2. n \div m < n
  BY <1>1
<1>3. QED
  BY <1>1, <1>2

\* TryFetchGlobal (Worker.cpp:12-29) keeps the invariant.
LEMMA TryFetchGlobalInv ==
  ASSUME Inv, NEW w \in Workers, Built(TryFetchGlobal(w))
  PROVE  Inv'
<1> DEFINE g == global_queue_
           q == queue_[w]
           cnt == Min({Len(g) \div num_threads_ + 1, kQueueSize_ - Len(q), batchSize})
           front == SubSeq(g, 1, cnt)
           back == SubSeq(g, cnt + 1, Len(g))
<1>1. Defined' /\ PendingExact' /\ Ends'
  BY CountKept DEF Built, TryFetchGlobal
<1>2. CASE Goto(w, "steal") /\ UNCHANGED <<queue_, global_queue_>>
  <2>1. UNCHANGED <<use_complex_worker, global_queue_, queue_, buffer_, task_did_, hand,
                    pending_tasks_, executed, stop_, main, round>> /\ pc[w] = "fetch"
    BY <1>2 DEF Built, TryFetchGlobal
  <2>2. RingsFit' /\ Spread'
    BY <2>1, Kept
  <2>3. TypeOK' /\ LabelsFit'
    BY <1>2, <2>1 DEF Inv, TypeOK, LabelsFit, Goto
  <2>4. QED
    BY <1>1, <2>2, <2>3 DEF Inv
<1>3. CASE g # << >> /\ cnt > 0 /\ queue_' = [queue_ EXCEPT ![w] = q \o front]
           /\ global_queue_' = back /\ Goto(w, "get")
  <2>1. /\ pc' = [pc EXCEPT ![w] = "get"] /\ pc[w] = "fetch"
        /\ UNCHANGED <<use_complex_worker, buffer_, task_did_, hand, pending_tasks_, stop_, main,
                       executed, round>>
    BY <1>3 DEF Built, TryFetchGlobal, Goto
  <2>2. /\ g \in Seq(Tasks) /\ Distinct(g) /\ Len(g) \in Nat /\ Len(g) > 0
        /\ q \in Seq(Tasks) /\ Distinct(q) /\ Len(q) \in Nat /\ Len(q) <= kQueueSize_
        /\ batchSize \in Nat /\ kQueueSize_ \in Nat
    <3>1. g \in Seq(Tasks) /\ q \in Seq(Tasks)
      BY DEF Inv, TypeOK
    <3>2. Distinct(g) /\ Distinct(q) /\ Len(q) <= kQueueSize_
      BY DEF Inv, Spread, NoDoubles, RingsFit
    <3>3. Len(g) \in Nat /\ Len(g) > 0 /\ Len(q) \in Nat
      BY <1>3, <3>1, Entries
    <3>4. QED
      BY <3>1, <3>2, <3>3, SchedulerAssumption
  <2>3. num_threads_ \in Nat /\ num_threads_ > 1
    BY <2>1, SchedulerAssumption, FS_CardinalityType DEF Inv, Defined, LabelsFit, num_threads_
  <2>4. Len(g) \div num_threads_ + 1 \in 1 .. Len(g)
    BY <2>2, <2>3, FetchFits
  <2>5. cnt <= Len(g) \div num_threads_ + 1 /\ cnt <= kQueueSize_ - Len(q) /\ cnt \in Int
    <3>1. Len(g) \div num_threads_ + 1 \in Int /\ kQueueSize_ - Len(q) \in Int /\ batchSize \in Int
      BY <2>2, <2>4
    <3>2. QED
      BY <3>1, MinOfThree
  <2>6. cnt \in 0 .. Len(g)
    BY <1>3, <2>2, <2>4, <2>5
  <2> HIDE DEF cnt, g
  <2>7. /\ front \in Seq(Tasks) /\ back \in Seq(Tasks) /\ Distinct(front) /\ Distinct(back)
        /\ Len(front) = cnt /\ Len(back) = Len(g) - cnt
        /\ \A x : x \in Range(g) <=> x \in Range(front) \/ x \in Range(back)
        /\ \A x : ~(x \in Range(front) /\ x \in Range(back))
    BY <2>2, <2>6, Cut
  <2> HIDE DEF front, back
  <2>8. \A x : ~(x \in Range(q) /\ x \in Range(front))
    <3>1. Range(front) \subseteq Tasks
      BY <2>7, Entries
    <3>2. QED
      BY <2>7, <3>1 DEF Inv, Spread, OnePlace, InGlobal, InQueue, g
  <2>9. /\ q \o front \in Seq(Tasks) /\ Len(q \o front) = Len(q) + cnt /\ Distinct(q \o front)
        /\ \A x : x \in Range(q \o front) <=> x \in Range(q) \/ x \in Range(front)
    BY <2>2, <2>7, <2>8, Add
  <2>10. TypeOK' /\ LabelsFit'
    BY <1>3, <2>1, <2>7, <2>9 DEF Inv, TypeOK, LabelsFit
  <2>11. PICK s : s = q \o front
    OBVIOUS
  <2>12. queue_'[w] = s /\ \A v \in Workers \ {w} : queue_'[v] = queue_[v]
    BY <1>3, <2>11 DEF Inv, TypeOK
  <2>13. RingsFit' /\ NoDoubles'
    <3>1. Len(s) <= kQueueSize_ /\ Distinct(s)
      BY <2>2, <2>5, <2>9, <2>11
    <3>2. QED
      BY <1>3, <2>1, <2>7, <2>12, <3>1 DEF Inv, RingsFit, Spread, NoDoubles
  <2>14. PICK M : M = Range(front)
    OBVIOUS
  <2>15. /\ \A k : InGlobal(k) <=> k \in M \/ InGlobal(k)'
         /\ \A k : ~(k \in M /\ InGlobal(k)')
         /\ \A k : InQueue(k, w)' <=> InQueue(k, w) \/ k \in M
         /\ \A k : \A v \in Workers \ {w} : InQueue(k, v)' <=> InQueue(k, v)
         /\ \A k : \A v \in Workers : InBuffer(k, v)' <=> InBuffer(k, v)
    BY <1>3, <2>1, <2>7, <2>9, <2>11, <2>12, <2>14 DEF InGlobal, InQueue, InBuffer, g
  <2>16. OnePlace'
    <3> SUFFICES ASSUME NEW k \in Tasks PROVE OnePlace!(k)'
      BY DEF OnePlace
    <3>1. OnePlace!(k)
      BY DEF Inv, Spread, OnePlace
    <3>2. CASE k \in M
      BY <2>1, <2>15, <3>1, <3>2
    <3>3. CASE k \notin M
      BY <2>1, <2>15, <3>1, <3>3
    <3>4. QED
      BY <3>2, <3>3
  <2>17. RunOnce'
    <3>1. ASSUME NEW k \in Tasks PROVE Waits(k)' <=> Waits(k)
      BY <2>1, <2>15 DEF Waits
    <3>2. QED
      BY <2>1, <3>1 DEF Inv, Spread, RunOnce
  <2>18. QED
    BY <1>1, <2>10, <2>13, <2>16, <2>17 DEF Inv, Spread
<1>4. QED
  BY <1>2, <1>3 DEF Built, TryFetchGlobal, Room

\* TryStealAny (Worker.cpp:31-64) keeps the invariant.
LEMMA TryStealAnyInv ==
  ASSUME Inv, NEW w \in Workers, Built(TryStealAny(w))
  PROVE  Inv'
<1>1. Defined' /\ PendingExact' /\ Ends'
  BY CountKept DEF Built, TryStealAny
<1>2. CASE Goto(w, "checkStop") /\ UNCHANGED queue_
  <2>1. UNCHANGED <<use_complex_worker, global_queue_, queue_, buffer_, task_did_, hand,
                    pending_tasks_, executed, stop_, main, round>> /\ pc[w] = "steal"
    BY <1>2 DEF Built, TryStealAny
  <2>2. RingsFit' /\ Spread'
    BY <2>1, Kept
  <2>3. TypeOK' /\ LabelsFit'
    BY <1>2, <2>1 DEF Inv, TypeOK, LabelsFit, Goto
  <2>4. QED
    BY <1>1, <2>2, <2>3 DEF Inv
<1>3. ASSUME NEW v \in Workers \ {w}, NEW cnt,
             cnt = Min({(Len(queue_[v]) + 1) \div 2, kQueueSize_ - Len(queue_[w]), batchSize}), cnt > 0,
             queue_' = [queue_ EXCEPT ![w] = @ \o SubSeq(queue_[v], 1, cnt),
                                      ![v] = SubSeq(@, cnt + 1, Len(@))],
             Goto(w, "get")
      PROVE  Inv'
  <2> DEFINE p == queue_[v]
             q == queue_[w]
             front == SubSeq(p, 1, cnt)
             back == SubSeq(p, cnt + 1, Len(p))
  <2>1. /\ pc' = [pc EXCEPT ![w] = "get"] /\ pc[w] = "steal"
        /\ UNCHANGED <<use_complex_worker, global_queue_, buffer_, task_did_, hand, pending_tasks_, stop_,
                       main, executed, round>>
    BY <1>3 DEF Built, TryStealAny, Goto
  <2>2. /\ p \in Seq(Tasks) /\ Distinct(p) /\ Len(p) \in Nat /\ Len(p) <= kQueueSize_
        /\ q \in Seq(Tasks) /\ Distinct(q) /\ Len(q) \in Nat /\ Len(q) <= kQueueSize_
        /\ batchSize \in Nat /\ kQueueSize_ \in Nat
    BY SchedulerAssumption, Entries DEF Inv, TypeOK, Spread, NoDoubles, RingsFit
  <2>3. /\ queue_'[w] = q \o front /\ queue_'[v] = back
        /\ \A u \in Workers \ {v, w} : queue_'[u] = queue_[u]
        /\ DOMAIN queue_' = Workers
        /\ queue_' = [queue_ EXCEPT ![w] = q \o front, ![v] = back]
    BY <1>3 DEF Inv, TypeOK
  <2>4. cnt <= (Len(p) + 1) \div 2 /\ cnt <= kQueueSize_ - Len(q) /\ cnt \in Int
    <3>1. (Len(p) + 1) \div 2 \in Int /\ kQueueSize_ - Len(q) \in Int /\ batchSize \in Int
      BY <2>2
    <3>2. QED
      BY <1>3, <3>1, MinOfThree
  <2> HIDE DEF p, q
  <2>5. cnt \in 0 .. Len(p)
    BY <1>3, <2>2, <2>4
  <2>6. /\ front \in Seq(Tasks) /\ back \in Seq(Tasks) /\ Distinct(front) /\ Distinct(back)
        /\ Len(front) = cnt /\ Len(back) = Len(p) - cnt
        /\ \A x : x \in Range(p) <=> x \in Range(front) \/ x \in Range(back)
        /\ \A x : ~(x \in Range(front) /\ x \in Range(back))
    BY <2>2, <2>5, Cut
  <2> HIDE DEF front, back
  <2>7. \A x : ~(x \in Range(q) /\ x \in Range(front))
    <3>1. Range(front) \subseteq Tasks
      BY <2>6, Entries
    <3>2. QED
      BY <2>6, <3>1 DEF Inv, Spread, OnePlace, InQueue, p, q
  <2>8. /\ q \o front \in Seq(Tasks) /\ Len(q \o front) = Len(q) + cnt /\ Distinct(q \o front)
        /\ \A x : x \in Range(q \o front) <=> x \in Range(q) \/ x \in Range(front)
    BY <2>2, <2>6, <2>7, Add
  <2>9. queue_' \in [Workers -> Seq(Tasks)]
    <3>1. PICK x : x = [queue_ EXCEPT ![w] = q \o front]
      OBVIOUS
    <3>2. queue_' = [x EXCEPT ![v] = back]
      BY <2>3, <3>1
    <3>3. queue_ \in [Workers -> Seq(Tasks)]
      BY DEF Inv, TypeOK
    <3>4. x \in [Workers -> Seq(Tasks)]
      BY <2>8, <3>1, <3>3
    <3>5. QED
      BY <2>6, <3>2, <3>4
  <2>10. TypeOK' /\ LabelsFit'
    BY <2>1, <2>9 DEF Inv, TypeOK, LabelsFit
  <2>11. RingsFit' /\ NoDoubles'
    <3>1. Len(q \o front) <= kQueueSize_ /\ Len(back) <= kQueueSize_
      BY <2>2, <2>4, <2>5, <2>6, <2>8
    <3>2. \A u \in Workers : Distinct(queue_'[u]) /\ Len(queue_'[u]) <= kQueueSize_
      <4>1. \A u \in Workers : u = v \/ u = w \/ u \in Workers \ {v, w}
        OBVIOUS
      <4>2. \A u \in Workers \ {v, w} : Distinct(queue_'[u]) /\ Len(queue_'[u]) <= kQueueSize_
        BY <2>3 DEF Inv, Spread, NoDoubles, RingsFit
      <4>3. QED
        BY <2>3, <2>6, <2>8, <3>1, <4>1, <4>2
    <3>3. QED
      BY <2>1, <3>2 DEF Inv, RingsFit, Spread, NoDoubles
  <2>12. PICK M : M = Range(front)
    OBVIOUS
  <2>13. /\ \A k : InQueue(k, v) <=> k \in M \/ InQueue(k, v)'
         /\ \A k : ~(k \in M /\ InQueue(k, v)')
         /\ \A k : InQueue(k, w)' <=> InQueue(k, w) \/ k \in M
         /\ \A k : \A u \in Workers \ {v, w} : InQueue(k, u)' <=> InQueue(k, u)
         /\ \A k : InGlobal(k)' <=> InGlobal(k)
         /\ \A k : \A u \in Workers : InBuffer(k, u)' <=> InBuffer(k, u)
    BY <2>1, <2>3, <2>6, <2>8, <2>12 DEF InGlobal, InQueue, InBuffer, p, q
  <2>14. OnePlace'
    <3> SUFFICES ASSUME NEW k \in Tasks PROVE OnePlace!(k)'
      BY DEF OnePlace
    <3>1. OnePlace!(k)
      BY DEF Inv, Spread, OnePlace
    <3>2. CASE k \in M
      BY <2>1, <2>13, <3>1, <3>2
    <3>3. CASE k \notin M
      BY <2>1, <2>13, <3>1, <3>3
    <3>4. QED
      BY <3>2, <3>3
  <2>15. RunOnce'
    <3>1. ASSUME NEW k \in Tasks PROVE Waits(k)' <=> Waits(k)
      BY <2>1, <2>13 DEF Waits
    <3>2. QED
      BY <2>1, <3>1 DEF Inv, Spread, RunOnce
  <2>16. QED
    BY <1>1, <2>10, <2>11, <2>14, <2>15 DEF Inv, Spread
<1>4. QED
  BY <1>2, <1>3 DEF Built, TryStealAny, Room
-----------------------------------------------------------------------------
(* Steps that run tasks and count them. *)

\* Execute (Worker.cpp:76-81) keeps the invariant.
LEMMA ExecuteInv ==
  ASSUME Inv, NEW w \in Workers, Built(Execute(w))
  PROVE  Inv'
<1>1. PICK h : h = hand[w]
  OBVIOUS
<1>2. /\ executed' = [executed EXCEPT ![h] = executed[h] + 1]
      /\ hand' = [hand EXCEPT ![w] = 0] /\ task_did_' = [task_did_ EXCEPT ![w] = task_did_[w] + 1]
      /\ pc' = [pc EXCEPT ![w] = IF use_complex_worker THEN "get" ELSE "count"] /\ pc[w] = "run"
      /\ UNCHANGED <<use_complex_worker, global_queue_, queue_, buffer_, pending_tasks_, stop_, main, round>>
  BY <1>1 DEF Built, Execute, Goto
<1>3. h \in Tasks /\ executed[h] = 0 /\ TaskCount \in Nat
  <2>1. h \in Tasks /\ TaskCount \in Nat
    <3>1. hand \in [Workers -> Tasks \cup {0}] /\ hand[w] # 0
      BY <1>2 DEF Inv, TypeOK, LabelsFit, Tasks
    <3>2. QED
      BY <1>1, <3>1, SchedulerAssumption
  <2>2. Waits(h)
    BY <1>1 DEF Waits
  <2>3. QED
    BY <2>1, <2>2 DEF Inv, Spread, RunOnce
<1>4. Unrun' = Unrun \ {h} /\ h \in Unrun
  BY <1>2, <1>3 DEF Unrun, Inv, TypeOK
<1>5. Cardinality(Unrun)' = Cardinality(Unrun) - 1 /\ Cardinality(Unrun) >= 1
  <2>1. Cardinality(Unrun') = Cardinality(Unrun) - 1
    BY <1>4, UnrunFinite, FS_RemoveElement
  <2>2. QED
    BY <2>1, UnrunFinite
<1>6. /\ task_did_ \in [Workers -> 0 .. TaskCount] /\ pending_tasks_ \in 0 .. TaskCount
      /\ pending_tasks_ = Cardinality(Unrun) + Cardinality(Stairs(task_did_))
      /\ Cardinality(Stairs(task_did_)) \in Nat
  BY PendingParts, StairsFinite DEF Inv, TypeOK
<1>7. task_did_[w] + 1 \in 0 .. TaskCount /\ task_did_[w] \in Nat
  <2>1. task_did_[w] <= Cardinality(Stairs(task_did_)) /\ task_did_[w] \in 0 .. TaskCount
    BY <1>6, <1>3, StairsChange
  <2>2. QED
    BY <1>3, <1>5, <1>6, <2>1, UnrunFinite
<1>8. Cardinality(Stairs(task_did_')) = Cardinality(Stairs(task_did_)) + 1
  <2>1. Cardinality(Stairs(task_did_')) = Cardinality(Stairs(task_did_)) - task_did_[w] + (task_did_[w] + 1)
    BY <1>2, <1>6, <1>7, StairsChange
  <2>2. QED
    BY <1>6, <1>7, <2>1
<1>9. PendingExact'
  <2>1. pending_tasks_' = Cardinality(Unrun)' + Cardinality(Stairs(task_did_'))
    BY <1>2, <1>5, <1>6, <1>8, UnrunFinite
  <2>2. QED
    BY <2>1 DEF PendingExact, Unrun, Stairs, HeldBack
<1>10. TypeOK'
  BY <1>2, <1>3, <1>7 DEF Inv, TypeOK
<1>11. LabelsFit' /\ RingsFit' /\ NoDoubles' /\ Defined' /\ Ends'
  BY <1>2 DEF Inv, TypeOK, LabelsFit, RingsFit, Spread, NoDoubles, Defined, Ends
<1>12. /\ \A k : InGlobal(k)' <=> InGlobal(k)
       /\ \A k : \A v \in Workers : (InQueue(k, v)' <=> InQueue(k, v)) /\ (InBuffer(k, v)' <=> InBuffer(k, v))
       /\ hand'[w] = 0 /\ \A v \in Workers \ {w} : hand'[v] = hand[v]
  BY <1>2 DEF InGlobal, InQueue, InBuffer, Inv, TypeOK
<1>13. 0 \notin Tasks
  BY DEF Tasks
<1>14. OnePlace'
  <2> SUFFICES ASSUME NEW k \in Tasks PROVE OnePlace!(k)'
    BY DEF OnePlace
  <2>1. OnePlace!(k)
    BY DEF Inv, Spread, OnePlace
  <2>2. QED
    BY <1>12, <1>13, <2>1
<1>15. RunOnce'
  <2> SUFFICES ASSUME NEW k \in Tasks PROVE RunOnce!(k)'
    BY DEF RunOnce
  <2>1. OnePlace!(k) /\ RunOnce!(k)
    BY DEF Inv, Spread, OnePlace, RunOnce
  <2>2. CASE k = h
    <3>1. ~Waits(k)'
      BY <1>1, <1>12, <1>13, <2>1, <2>2 DEF Waits
    <3>2. executed'[k] = 1
      BY <1>2, <1>3, <2>2 DEF Inv, TypeOK
    <3>3. QED
      BY <3>1, <3>2
  <2>3. CASE k # h
    <3>1. Waits(k)' <=> Waits(k)
      BY <1>1, <1>12, <1>13, <2>3 DEF Waits
    <3>2. executed'[k] = executed[k]
      BY <1>2, <2>3 DEF Inv, TypeOK
    <3>3. QED
      BY <2>1, <3>1, <3>2
  <2>4. QED
    BY <2>2, <2>3
<1>16. QED
  BY <1>9, <1>10, <1>11, <1>14, <1>15 DEF Inv, Spread

\* CountOff (Worker.cpp:89-95) keeps the invariant.
LEMMA CountOffInv ==
  ASSUME Inv, NEW w \in Workers, Built(CountOff(w))
  PROVE  Inv'
<1>1. /\ pending_tasks_' = pending_tasks_ - task_did_[w] /\ task_did_' = [task_did_ EXCEPT ![w] = 0]
      /\ pc' = [pc EXCEPT ![w] = IF task_did_[w] > 0 /\ pending_tasks_ = task_did_[w] THEN "notify" ELSE "get"]
      /\ pc[w] = "count"
      /\ UNCHANGED <<use_complex_worker, global_queue_, queue_, buffer_, hand, stop_, main, executed, round>>
  BY DEF Built, CountOff, Goto
<1>2. /\ task_did_ \in [Workers -> 0 .. TaskCount] /\ pending_tasks_ \in 0 .. TaskCount
      /\ pending_tasks_ = Cardinality(Unrun) + Cardinality(Stairs(task_did_))
      /\ Cardinality(Stairs(task_did_)) \in Nat /\ TaskCount \in Nat /\ 0 \in 0 .. TaskCount
  BY PendingParts, StairsFinite, SchedulerAssumption DEF Inv, TypeOK
<1>3. /\ task_did_[w] <= Cardinality(Stairs(task_did_)) /\ task_did_[w] \in Nat
      /\ Cardinality(Stairs(task_did_')) = Cardinality(Stairs(task_did_)) - task_did_[w] + 0
  <2>1. /\ Cardinality(Stairs([task_did_ EXCEPT ![w] = 0])) = Cardinality(Stairs(task_did_)) - task_did_[w] + 0
        /\ task_did_[w] <= Cardinality(Stairs(task_did_))
    BY <1>2, StairsChange
  <2>2. task_did_[w] \in Nat
    BY <1>2
  <2>3. QED
    BY <1>1, <2>1, <2>2
<1>4. pending_tasks_' \in 0 .. TaskCount
  BY <1>1, <1>2, <1>3, UnrunFinite
<1>5. PendingExact'
  <2>1. pending_tasks_' = Cardinality(Unrun) + Cardinality(Stairs(task_did_'))
    BY <1>1, <1>2, <1>3, UnrunFinite
  <2>2. Unrun' = Unrun
    BY <1>1 DEF Unrun
  <2>3. QED
    BY <2>1, <2>2 DEF PendingExact, Unrun, Stairs, HeldBack
<1>6. TypeOK'
  BY <1>1, <1>2, <1>4 DEF Inv, TypeOK
<1>7. Ends'
  BY <1>1, <1>2, <1>3, <1>4, NothingPending DEF Inv, Ends
<1>8. LabelsFit' /\ RingsFit' /\ Defined'
  BY <1>1 DEF Inv, TypeOK, LabelsFit, RingsFit, Defined
<1>9. Spread'
  BY <1>1 DEF Inv, Spread, NoDoubles, OnePlace, RunOnce, Waits, InGlobal, InQueue, InBuffer
<1>10. QED
  BY <1>5, <1>6, <1>7, <1>8, <1>9 DEF Inv
-----------------------------------------------------------------------------
(* The start of a round. *)

\* The queue of a new round holds every task once.
LEMMA FreshQueue ==
  LET q == [k \in Tasks |-> k]
  IN q \in Seq(Tasks) /\ Distinct(q) /\ Range(q) = Tasks
<1>1. TaskCount \in Nat
  BY SchedulerAssumption
<1>2. [k \in Tasks |-> k] \in Seq(Tasks) /\ Len([k \in Tasks |-> k]) = TaskCount
  BY <1>1, IsASeq DEF Tasks
<1>3. QED
  BY <1>2 DEF Distinct, Range, Tasks

\* In a new round everything is pending and nothing is held back.
LEMMA FreshCount ==
  /\ Cardinality(Stairs([w \in Workers |-> 0])) = 0
  /\ Cardinality({k \in Tasks : [j \in Tasks |-> 0][k] = 0}) = TaskCount
<1>1. Stairs([w \in Workers |-> 0]) = {}
  BY SchedulerAssumption DEF Stairs, Tasks
<1>2. {k \in Tasks : [j \in Tasks |-> 0][k] = 0} = Tasks
  OBVIOUS
<1>3. QED
  BY <1>1, <1>2, TasksFinite, FS_EmptySet

\* The initial state satisfies the invariant.
LEMMA InitInv == Init /\ Defined => Inv
<1> SUFFICES ASSUME Init, Defined PROVE Inv
  OBVIOUS
<1>1. /\ {TaskCount, kQueueSize_, kMaxBufferSize_, Rounds} \subseteq Nat \ {0}
      /\ Len(<< >>) = 0 /\ Range(<< >>) = {} /\ Distinct(<< >>) /\ << >> \in Seq(Tasks)
  BY SchedulerAssumption, Entries DEF Range, Distinct
<1>2. TypeOK
  <2>1. use_complex_worker \in BOOLEAN /\ stop_ \in BOOLEAN
    BY DEF Init
  <2>2. QED
    BY <1>1, <2>1, FreshQueue DEF Init, TypeOK
<1>3. LabelsFit /\ RingsFit /\ Ends
  BY <1>1 DEF Init, LabelsFit, RingsFit, Ends
<1>4. NoDoubles
  BY <1>1, FreshQueue DEF Init, NoDoubles
<1>5. /\ \A k \in Tasks : InGlobal(k)
      /\ \A k : \A w \in Workers : ~InQueue(k, w) /\ ~InBuffer(k, w) /\ hand[w] = 0
  BY <1>1, FreshQueue DEF Init, InGlobal, InQueue, InBuffer
<1>6. OnePlace /\ RunOnce
  BY <1>5 DEF Init, OnePlace, RunOnce, Waits, Tasks
<1>7. PendingExact
  <2>1. Unrun = {k \in Tasks : [j \in Tasks |-> 0][k] = 0}
    BY DEF Init, Unrun
  <2>2. QED
    BY <1>1, <2>1, FreshCount, PendingParts DEF Init
<1>8. QED
  BY <1>2, <1>3, <1>4, <1>6, <1>7 DEF Inv, Spread

\* NextRound (Main.cpp:54-70) keeps the invariant.
LEMMA NextRoundInv ==
  ASSUME Inv, Built(NextRound)
  PROVE  Inv'
<1> USE DEF Built, NextRound
<1>1. /\ {TaskCount, kQueueSize_, kMaxBufferSize_, Rounds} \subseteq Nat \ {0}
      /\ Len(<< >>) = 0 /\ Range(<< >>) = {} /\ Distinct(<< >>) /\ << >> \in Seq(Tasks)
  BY SchedulerAssumption, Entries DEF Range, Distinct
<1>2. TypeOK' /\ Defined'
  <2>1. use_complex_worker' \in BOOLEAN /\ stop_' \in BOOLEAN
    BY DEF Inv, TypeOK
  <2>2. QED
    BY <1>1, <2>1, FreshQueue DEF Inv, TypeOK, Defined
<1>3. LabelsFit' /\ RingsFit' /\ Ends'
  BY <1>1 DEF LabelsFit, RingsFit, Ends
<1>4. NoDoubles'
  BY <1>1, FreshQueue DEF NoDoubles
<1>5. /\ \A k \in Tasks : InGlobal(k)'
      /\ \A k : \A w \in Workers : ~InQueue(k, w)' /\ ~InBuffer(k, w)' /\ hand'[w] = 0
  BY <1>1, FreshQueue DEF InGlobal, InQueue, InBuffer
<1>6. OnePlace' /\ RunOnce'
  BY <1>5 DEF OnePlace, RunOnce, Waits, Tasks
<1>7. PendingExact'
  <2>1. Unrun' = {k \in Tasks : [j \in Tasks |-> 0][k] = 0}
    BY DEF Unrun
  <2>2. pending_tasks_' = Cardinality(Unrun') + Cardinality(Stairs(task_did_'))
    BY <1>1, <2>1, FreshCount
  <2>3. QED
    BY <2>2 DEF PendingExact, Unrun, Stairs, HeldBack
<1>8. QED
  BY <1>2, <1>3, <1>4, <1>6, <1>7 DEF Inv, Spread
-----------------------------------------------------------------------------
\* The invariant is inductive.
LEMMA NextInv ==
  ASSUME Inv, [Next]_vars PROVE Inv'
<1>1. CASE UNCHANGED vars
  <2>1. Defined' /\ RingsFit' /\ Spread' /\ PendingExact'
    BY <1>1, Kept DEF vars, local
  <2>2. TypeOK' /\ LabelsFit' /\ Ends'
    BY <1>1 DEF vars, local, Inv, TypeOK, LabelsFit, Ends
  <2>3. QED
    BY <2>1, <2>2 DEF Inv
<1>2. ASSUME NEW w \in Workers, Built(Run(w)) PROVE Inv'
  <2>1. \/ Built(GetNextTask(w)) \/ Built(TakeGlobal(w)) \/ Built(Execute(w)) \/ Built(FillBuffer(w))
        \/ Built(TryFetchGlobal(w)) \/ Built(TryStealAny(w)) \/ Built(CheckStop(w))
        \/ Built(CountOff(w)) \/ Built(Notify(w))
    BY <1>2 DEF Built, Run
  <2>2. QED
    BY <2>1, GetNextTaskInv, TakeGlobalInv, ExecuteInv, FillBufferInv, TryFetchGlobalInv, TryStealAnyInv,
       IdleInv, CountOffInv
<1>3. ASSUME Built(RunTasks) \/ Built(SpuriousWakeup) PROVE Inv'
  <2>1. \/ Built(CheckDone) \/ Built(Sleep) \/ Built(Stop) \/ Built(Join) \/ Built(NextRound)
        \/ Built(SpuriousWakeup)
    BY <1>3 DEF Built, RunTasks
  <2>2. QED
    BY <2>1, MainInv, NextRoundInv
<1>4. QED
  BY <1>1, <1>2, <1>3 DEF Next

\* It holds of every behaviour.
LEMMA InvHolds == Spec /\ Defined => []Inv
<1>1. Inv /\ [Next]_vars => Inv'
  BY NextInv
<1>2. QED
  BY <1>1, InitInv, PTL DEF Spec

\* Tasks in one place each, counted.
LEMMA InvEachTaskOnce == Inv => EachTaskOnce
<1> SUFFICES ASSUME Inv, NEW k \in Tasks PROVE Places(k) + executed[k] = 1
  BY DEF EachTaskOnce
<1> DEFINE G == {i \in DOMAIN global_queue_ : global_queue_[i] = k}
           Q == {x \in Workers \X (1 .. TaskCount + kQueueSize_) :
                   x[2] \in DOMAIN queue_[x[1]] /\ queue_[x[1]][x[2]] = k}
           B == {x \in Workers \X (1 .. TaskCount + kMaxBufferSize_) :
                   x[2] \in DOMAIN buffer_[x[1]] /\ buffer_[x[1]][x[2]] = k}
           H == {w \in Workers : hand[w] = k}
<1>1. /\ global_queue_ \in Seq(Tasks) /\ Distinct(global_queue_)
      /\ \A w \in Workers : /\ queue_[w] \in Seq(Tasks) /\ Distinct(queue_[w])
                            /\ buffer_[w] \in Seq(Tasks) /\ Distinct(buffer_[w])
                            /\ Len(queue_[w]) <= kQueueSize_ /\ Len(buffer_[w]) <= kMaxBufferSize_
      /\ TaskCount \in Nat /\ kQueueSize_ \in Nat /\ kMaxBufferSize_ \in Nat
  BY SchedulerAssumption DEF Inv, TypeOK, Spread, NoDoubles, RingsFit
<1>2. OnePlace!(k) /\ RunOnce!(k)
  BY DEF Inv, Spread, OnePlace, RunOnce
<1>3. (G # {} <=> InGlobal(k)) /\ \A i, j \in G : i = j
  BY <1>1 DEF InGlobal, Range, Distinct
<1>4. (Q # {} <=> \E w \in Workers : InQueue(k, w)) /\ \A x, y \in Q : x = y
  <2>1. ASSUME NEW w \in Workers, InQueue(k, w) PROVE Q # {}
    <3>1. PICK i \in 1 .. Len(queue_[w]) : queue_[w][i] = k
      BY <1>1, <2>1, Entries DEF InQueue
    <3>2. i \in 1 .. TaskCount + kQueueSize_ /\ i \in DOMAIN queue_[w]
      BY <1>1
    <3>3. <<w, i>> \in Q
      BY <3>1, <3>2
    <3>4. QED
      BY <3>3
  <2>2. \A x \in Q : x[1] \in Workers /\ InQueue(k, x[1]) /\ x = <<x[1], x[2]>>
    BY <1>1 DEF InQueue, Range
  <2>3. ASSUME NEW x \in Q, NEW y \in Q PROVE x = y
    <3>1. x[1] = y[1]
      BY <1>2, <2>2
    <3>2. x[2] = y[2]
      <4>1. /\ x[2] \in 1 .. Len(queue_[x[1]]) /\ queue_[x[1]][x[2]] = k
            /\ y[2] \in 1 .. Len(queue_[x[1]]) /\ queue_[x[1]][y[2]] = k
        BY <1>1, <2>2, <3>1
      <4>2. Distinct(queue_[x[1]])
        BY <1>1, <2>2
      <4>3. QED
        BY <4>1, <4>2 DEF Distinct
    <3>3. QED
      BY <2>2, <3>1, <3>2
  <2>4. QED
    BY <2>1, <2>2, <2>3
<1>5. (B # {} <=> \E w \in Workers : InBuffer(k, w)) /\ \A x, y \in B : x = y
  <2>1. ASSUME NEW w \in Workers, InBuffer(k, w) PROVE B # {}
    <3>1. PICK i \in 1 .. Len(buffer_[w]) : buffer_[w][i] = k
      BY <1>1, <2>1, Entries DEF InBuffer
    <3>2. i \in 1 .. TaskCount + kMaxBufferSize_ /\ i \in DOMAIN buffer_[w]
      BY <1>1
    <3>3. <<w, i>> \in B
      BY <3>1, <3>2
    <3>4. QED
      BY <3>3
  <2>2. \A x \in B : x[1] \in Workers /\ InBuffer(k, x[1]) /\ x = <<x[1], x[2]>>
    BY <1>1 DEF InBuffer, Range
  <2>3. ASSUME NEW x \in B, NEW y \in B PROVE x = y
    <3>1. x[1] = y[1]
      BY <1>2, <2>2
    <3>2. x[2] = y[2]
      <4>1. /\ x[2] \in 1 .. Len(buffer_[x[1]]) /\ buffer_[x[1]][x[2]] = k
            /\ y[2] \in 1 .. Len(buffer_[x[1]]) /\ buffer_[x[1]][y[2]] = k
        BY <1>1, <2>2, <3>1
      <4>2. Distinct(buffer_[x[1]])
        BY <1>1, <2>2
      <4>3. QED
        BY <4>1, <4>2 DEF Distinct
    <3>3. QED
      BY <2>2, <3>1, <3>2
  <2>4. QED
    BY <2>1, <2>2, <2>3
<1>6. (H # {} <=> \E w \in Workers : hand[w] = k) /\ \A x, y \in H : x = y
  BY <1>2
<1>7. Places(k) = Cardinality(G) + Cardinality(Q) + Cardinality(B) + Cardinality(H)
  BY DEF Places, Copies
<1> HIDE DEF G, Q, B, H
<1>8. /\ Cardinality(G) = IF G = {} THEN 0 ELSE 1
      /\ Cardinality(Q) = IF Q = {} THEN 0 ELSE 1
      /\ Cardinality(B) = IF B = {} THEN 0 ELSE 1
      /\ Cardinality(H) = IF H = {} THEN 0 ELSE 1
  BY <1>3, <1>4, <1>5, <1>6, Single
<1>9. /\ ~(G # {} /\ Q # {}) /\ ~(G # {} /\ B # {}) /\ ~(G # {} /\ H # {})
      /\ ~(Q # {} /\ B # {}) /\ ~(Q # {} /\ H # {}) /\ ~(B # {} /\ H # {})
  BY <1>2, <1>3, <1>4, <1>5, <1>6
<1>10. executed[k] = IF G # {} \/ Q # {} \/ B # {} \/ H # {} THEN 0 ELSE 1
  BY <1>2, <1>3, <1>4, <1>5, <1>6 DEF Waits
<1>11. QED
  BY <1>7, <1>8, <1>9, <1>10

\* The scheduler's state keeps its type: in particular no worker counts off more than is
\* pending (Worker.cpp:90, 113).
THEOREM SchedulerTyped == Spec /\ Defined => []TypeOK
<1>1. Inv => TypeOK
  BY DEF Inv
<1>2. QED
  BY <1>1, InvHolds, PTL

\* Worker.cpp:22-26, 44-49: fetching and stealing lose no task and run none twice.
THEOREM TasksOnce == Spec /\ Defined => []EachTaskOnce
BY InvEachTaskOnce, InvHolds, PTL

\* Worker.cpp:20, 41, Worker.hpp:41: no ring takes more tasks than it has slots.
THEOREM RingsNeverOverflow == Spec /\ Defined => []RingsFit
<1>1. Inv => RingsFit
  BY DEF Inv
<1>2. QED
  BY <1>1, InvHolds, PTL

\* Worker.cpp:89-95, 114: the count of pending tasks is exact.
THEOREM CountExact == Spec /\ Defined => []PendingExact
<1>1. Inv => PendingExact
  BY DEF Inv
<1>2. QED
  BY <1>1, InvHolds, PTL

\* Main.cpp:35-41: the workers are told to stop only when every task of the round has run.
THEOREM NothingAbandoned == Spec /\ Defined => []StopMeansDone
<1>1. Inv => StopMeansDone
  BY NothingPending DEF Inv, Ends, StopMeansDone
<1>2. QED
  BY <1>1, InvHolds, PTL
=============================================================================
