------------------------ MODULE WorkStealingProofs ------------------------
(***************************************************************************)
(* Proofs about the first scheduler, WorkStealing.cpp, for any number of   *)
(* threads, tasks and iterations and any CAPACITY: as long as no worker    *)
(* has read the vector of queues while it was moved, no task is lost or    *)
(* doubled, no ring overflows, the count of pending tasks is exact and the *)
(* workers leave only when nothing is left to do.                          *)
(***************************************************************************)
EXTENDS WorkStealing, QueueLemmas

-----------------------------------------------------------------------------
(* The inductive invariant. *)

\* What a worker has at each place of its loop.  Only its owner adds to a queue, so a
\* worker that looks elsewhere still has none of its own.
LabelsFit ==
  \A i \in Ids :
    /\ pc[i] \in {"run", "keep"} <=> task[i] # 0
    /\ pc[i] \in {"steal", "keep", "global"} => g_local_queues[i] = << >>
    /\ pc[i] = "keep" => 2 <= CAPACITY

InGlobal(k) == k \in Range(g_global_queue)
InQueue(k, i) == k \in Range(g_local_queues[i])

NoDoubles == Distinct(g_global_queue) /\ \A i \in Ids : Distinct(g_local_queues[i])

\* No task is in two places ...
OnePlace ==
  \A k \in Tasks : \A i \in Ids :
    /\ InGlobal(k) => ~InQueue(k, i) /\ task[i] # k
    /\ \A j \in Ids :
         /\ InQueue(k, i) => task[j] # k /\ (InQueue(k, j) => j = i)
         /\ task[i] = k /\ task[j] = k => j = i

Waits(k) == InGlobal(k) \/ \E i \in Ids : InQueue(k, i) \/ task[i] = k

\* ... and it is in one until it has run.
RunOnce == Filled => \A k \in Tasks : executed[k] = IF Waits(k) THEN 0 ELSE 1

\* Before main has filled the global queue there is nothing to do.
Unfilled ==
  ~Filled => /\ \A k \in Tasks : ~Waits(k) /\ executed[k] = 0
             /\ g_pending_tasks = 0 /\ ~g_stop
             /\ \A i \in Ids : pc[i] # "count"

MainFits ==
  /\ main = "growing" => started < num_threads
  /\ main \in {"stop", "join", "done"} => g_pending_tasks = 0
  /\ g_stop => main \in {"join", "done"}

Spread == NoDoubles /\ OnePlace /\ RunOnce /\ Unfilled

Inv == TypeOK /\ LabelsFit /\ RingsFit /\ Spread /\ PendingExact /\ MainFits
-----------------------------------------------------------------------------
(* Counting. *)

Unrun == {k \in Tasks : executed[k] = 0}
Counting == {i \in Ids : pc[i] = "count"}

\* The facts about the constants that the proofs use.
LEMMA Constants ==
  /\ num_threads \in Nat /\ TaskCount \in Nat /\ CAPACITY \in Nat /\ iterations \in Nat
  /\ num_threads > 0 /\ TaskCount > 0 /\ CAPACITY > 0 /\ iterations > 0
  /\ 0 \notin Tasks /\ 0 .. TaskCount = Tasks \cup {0}
BY WorkStealingAssumption DEF Tasks

\* The sets that are counted are finite.
LEMMA Finite ==
  /\ IsFiniteSet(Tasks) /\ Cardinality(Tasks) = TaskCount
  /\ IsFiniteSet(Unrun) /\ Cardinality(Unrun) \in Nat
  /\ IsFiniteSet(Unrun') /\ Cardinality(Unrun)' \in Nat
  /\ IsFiniteSet(Counting) /\ Cardinality(Counting) \in Nat
  /\ IsFiniteSet(Counting') /\ Cardinality(Counting)' \in Nat
<1>1. IsFiniteSet(Tasks) /\ Cardinality(Tasks) = TaskCount
  BY Constants, FS_Interval DEF Tasks
<1>2. IsFiniteSet(Ids)
  BY Constants, FS_Interval DEF Ids
<1>3. Unrun \in SUBSET Tasks /\ Unrun' \in SUBSET Tasks /\ Counting \in SUBSET Ids /\ Counting' \in SUBSET Ids
  BY DEF Unrun, Counting
<1>4. QED
  BY <1>1, <1>2, <1>3, FS_Subset, FS_CardinalityType

\* The two parts of what is pending.
LEMMA PendingParts ==
  PendingExact <=> (Filled => g_pending_tasks = Cardinality(Unrun) + Cardinality(Counting))
BY DEF PendingExact, Unrun, Counting

\* Nothing waits: every queue and every hand is empty.
LEMMA NothingWaits ==
  ASSUME Inv, \A k \in Tasks : ~Waits(k)
  PROVE  g_global_queue = << >> /\ \A i \in Ids : g_local_queues[i] = << >> /\ task[i] = 0
<1>1. ASSUME NEW s \in Seq(Tasks), \A k \in Tasks : k \notin Range(s) PROVE s = << >>
  <2>1. Range(s) = {}
    BY <1>1, Entries
  <2>2. 1 \notin 1 .. Len(s) /\ Len(s) \in Nat
    BY <2>1, Entries
  <2>3. QED
    BY <2>2, Entries
<1>2. g_global_queue = << >>
  BY <1>1 DEF Inv, TypeOK, Waits, InGlobal
<1>3. ASSUME NEW i \in Ids PROVE g_local_queues[i] = << >> /\ task[i] = 0
  <2>1. g_local_queues[i] \in Seq(Tasks) /\ \A k \in Tasks : k \notin Range(g_local_queues[i]) /\ task[i] # k
    BY DEF Inv, TypeOK, Waits, InQueue
  <2>2. task[i] \in Tasks \cup {0}
    BY Constants DEF Inv, TypeOK
  <2>3. QED
    BY <1>1, <2>1, <2>2
<1>4. QED
  BY <1>2, <1>3

\* Nothing is pending after the queue was filled: nothing waits.
LEMMA NothingPending ==
  ASSUME Inv, Filled, g_pending_tasks = 0
  PROVE  \A k \in Tasks : ~Waits(k)
<1>1. Cardinality(Unrun) = 0
  BY PendingParts, Finite DEF Inv
<1>2. Unrun = {}
  BY <1>1, Finite, FS_EmptySet
<1>3. QED
  BY <1>2 DEF Unrun, Inv, Spread, RunOnce
-----------------------------------------------------------------------------
(* Steps that move no task. *)

\* The parts of the invariant that concern tasks only.
LEMMA Kept ==
  ASSUME Inv, UNCHANGED <<g_global_queue, g_local_queues, task>>
  PROVE  /\ RingsFit' /\ NoDoubles' /\ OnePlace'
         /\ \A k \in Tasks : Waits(k)' <=> Waits(k)
BY DEF Inv, RingsFit, Spread, NoDoubles, OnePlace, Waits, InGlobal, InQueue

\* Tasks may have moved, but none was run or counted off.
LEMMA Uncounted ==
  ASSUME Inv, UNCHANGED <<g_pending_tasks, executed>>, Filled' <=> Filled,
         NEW i \in Ids, NEW l, pc' = [pc EXCEPT ![i] = l], l # "count", pc[i] # "count",
         g_stop' = g_stop, \A k \in Tasks : Waits(k)' <=> Waits(k)
  PROVE  RunOnce' /\ Unfilled' /\ PendingExact'
<1>1. \A j \in Ids : pc'[j] = "count" <=> pc[j] = "count"
  BY DEF Inv, TypeOK
<1>2. Counting' = Counting /\ Unrun' = Unrun
  BY <1>1 DEF Counting, Unrun
<1>3. PendingExact'
  BY <1>2 DEF Inv, PendingExact, Counting, Unrun
<1>4. RunOnce'
  BY DEF Inv, Spread, RunOnce
<1>5. Unfilled'
  BY <1>1 DEF Inv, Spread, Unfilled
<1>6. QED
  BY <1>3, <1>4, <1>5

\* Begin, CheckStop and Notify move a worker on in its loop.
LEMMA IdleInv ==
  ASSUME Inv, NEW i \in Ids, undefined' \in BOOLEAN,
         Begin(i) \/ CheckStop(i) \/ Notify(i)
  PROVE  Inv'
<1>1. UNCHANGED <<g_global_queue, g_local_queues, task, started, g_pending_tasks, g_stop, executed,
                  iteration>>
  BY DEF Begin, CheckStop, Notify, shared
<1>2. PICK l \in {"pop", "exit"} : pc' = [pc EXCEPT ![i] = l]
  BY DEF Begin, CheckStop, Notify, Goto
<1>3. pc[i] \in {"begin", "checkStop", "notify"}
  BY DEF Begin, CheckStop, Notify
<1>4. main' = main \/ (main = "asleep" /\ main' = "check")
  BY DEF Begin, CheckStop, Notify
<1>5. Filled' <=> Filled
  BY <1>4 DEF Filled
<1>6. RingsFit' /\ NoDoubles' /\ OnePlace' /\ \A k \in Tasks : Waits(k)' <=> Waits(k)
  BY <1>1, Kept
<1>7. RunOnce' /\ Unfilled' /\ PendingExact'
  BY <1>1, <1>2, <1>3, <1>5, <1>6, Uncounted
<1>8. TypeOK'
  BY <1>1, <1>2, <1>4 DEF Inv, TypeOK
<1>9. LabelsFit'
  BY <1>1, <1>2, <1>3 DEF Inv, TypeOK, LabelsFit
<1>10. MainFits'
  BY <1>1, <1>4 DEF Inv, MainFits
<1>11. QED
  BY <1>6, <1>7, <1>8, <1>9, <1>10 DEF Inv, Spread

\* Main's steps after it has filled the global queue and before the next iteration.
LEMMA WaitInv ==
  ASSUME Inv, UNCHANGED undefined,
         CheckDone \/ Sleep \/ SpuriousWakeup \/ Stop \/ Join
  PROVE  Inv'
<1>1. UNCHANGED <<g_global_queue, g_local_queues, task, started, g_pending_tasks, executed, pc,
                  iteration>>
  BY DEF CheckDone, Sleep, SpuriousWakeup, Stop, Join, shared
<1>2. Filled' /\ Filled
  BY DEF CheckDone, Sleep, SpuriousWakeup, Stop, Join, Filled
<1>3. RingsFit' /\ NoDoubles' /\ OnePlace' /\ \A k \in Tasks : Waits(k)' <=> Waits(k)
  BY <1>1, Kept
<1>4. RunOnce' /\ Unfilled' /\ PendingExact'
  BY <1>1, <1>2, <1>3 DEF Inv, Spread, RunOnce, Unfilled, PendingExact
<1>5. g_stop' \in BOOLEAN /\ main' \in {"check", "checked", "asleep", "stop", "join", "done"}
  BY DEF Inv, TypeOK, CheckDone, Sleep, SpuriousWakeup, Stop, Join, shared
<1>6. TypeOK' /\ LabelsFit'
  BY <1>1, <1>5 DEF Inv, TypeOK, LabelsFit
<1>7. MainFits'
  BY <1>1 DEF Inv, MainFits, CheckDone, Sleep, SpuriousWakeup, Stop, Join, shared
<1>8. QED
  BY <1>3, <1>4, <1>6, <1>7 DEF Inv, Spread

\* Main starts a worker.
LEMMA StartInv ==
  ASSUME Inv, UNCHANGED undefined, Grow \/ Spawn
  PROVE  Inv'
<1>1. UNCHANGED <<g_global_queue, g_local_queues, task, g_pending_tasks, g_stop, executed, iteration>>
  BY DEF Grow, Spawn, shared
<1>2. ~Filled' /\ ~Filled
  BY DEF Grow, Spawn, Filled
<1>3. RingsFit' /\ NoDoubles' /\ OnePlace' /\ \A k \in Tasks : Waits(k)' <=> Waits(k)
  BY <1>1, Kept
<1>4. pc' = pc \/ (started \in Ids /\ pc' = [pc EXCEPT ![started] = "begin"])
  BY Constants DEF Grow, Spawn, Goto, Inv, TypeOK, MainFits, Ids
<1>5. started' \in 0 .. num_threads
  BY Constants DEF Grow, Spawn, Inv, TypeOK, MainFits
<1>6. \A j \in Ids : pc'[j] = pc[j] \/ pc'[j] = "begin"
  BY <1>4 DEF Inv, TypeOK
<1>7. RunOnce' /\ Unfilled' /\ PendingExact'
  BY <1>1, <1>2, <1>3, <1>6 DEF Inv, Spread, RunOnce, Unfilled, PendingExact
<1>8. TypeOK'
  BY <1>1, <1>4, <1>5 DEF Inv, TypeOK, Grow, Spawn
<1>9. LabelsFit'
  <2>1. \A j \in Ids : task[j] = 0
    BY <1>2, NothingWaits DEF Inv, Spread, Unfilled
  <2>2. QED
    BY <1>1, <1>6, <2>1 DEF Inv, LabelsFit
<1>10. MainFits'
  BY <1>1 DEF Inv, MainFits, Grow, Spawn
<1>11. QED
  BY <1>3, <1>7, <1>8, <1>9, <1>10 DEF Inv, Spread
-----------------------------------------------------------------------------
(* Steps that move tasks. *)

\* A task moves between a queue and a hand, in either direction.
LEMMA HandedOver ==
  ASSUME Inv, NEW i \in Ids, NEW v \in Ids, NEW h \in Tasks, NEW q \in Seq(Tasks), NEW l,
         UNCHANGED <<g_global_queue, g_pending_tasks, executed, started, main, iteration, g_stop>>,
         undefined' \in BOOLEAN,
         g_local_queues' = [g_local_queues EXCEPT ![v] = q], Distinct(q), 2 * Len(q) <= CAPACITY,
         pc' = [pc EXCEPT ![i] = l], pc[i] # "count",
         \/ /\ task' = [task EXCEPT ![i] = h] /\ task[i] = 0
            /\ \A k : InQueue(k, v) <=> k = h \/ k \in Range(q)
            /\ h \notin Range(q)
            /\ l \in {"run", "keep"} /\ (l = "keep" => 2 <= CAPACITY /\ g_local_queues'[i] = << >>)
            /\ \A j \in Ids : g_local_queues[j] = << >> => g_local_queues'[j] = << >>
         \/ /\ task' = [task EXCEPT ![i] = 0] /\ task[i] = h
            /\ \A k : k \in Range(q) <=> k = h \/ InQueue(k, v)
            /\ ~InQueue(h, v) /\ l = "pop" /\ v = i
  PROVE  Inv'
<1>1. l \in {"run", "keep", "pop"} /\ 0 \notin Tasks /\ h # 0 /\ h \in 0 .. TaskCount
  BY Constants
<1>2. TypeOK'
  <2>1. task' \in [Ids -> 0 .. TaskCount]
    BY <1>1, Constants DEF Inv, TypeOK
  <2>2. pc' = [pc EXCEPT ![i] = l] /\ l \in {"run", "keep", "pop"}
    BY <1>1
  <2>3. g_local_queues' \in [Ids -> Seq(Tasks)]
    BY DEF Inv, TypeOK
  <2>4. QED
    BY <2>1, <2>2, <2>3 DEF Inv, TypeOK
<1>3. LabelsFit'
  BY <1>1 DEF Inv, TypeOK, LabelsFit
<1>4. RingsFit' /\ NoDoubles'
  <2>1. \A j \in Ids : g_local_queues'[j] = q \/ g_local_queues'[j] = g_local_queues[j]
    BY DEF Inv, TypeOK
  <2>2. QED
    BY <2>1 DEF Inv, RingsFit, Spread, NoDoubles
<1>5. /\ \A k : InGlobal(k)' <=> InGlobal(k)
      /\ \A k : \A j \in Ids \ {v} : InQueue(k, j)' <=> InQueue(k, j)
      /\ \A k : InQueue(k, v)' <=> k \in Range(q)
      /\ \A j \in Ids \ {i} : task'[j] = task[j]
  BY DEF InGlobal, InQueue, Inv, TypeOK
<1>6. \/ /\ task'[i] = h /\ task[i] = 0
         /\ \A k : InQueue(k, v) <=> k = h \/ InQueue(k, v)'
         /\ ~InQueue(h, v)'
      \/ /\ task'[i] = 0 /\ task[i] = h
         /\ \A k : InQueue(k, v)' <=> k = h \/ InQueue(k, v)
         /\ ~InQueue(h, v)
  BY <1>5 DEF Inv, TypeOK
<1>7. OnePlace'
  <2> SUFFICES ASSUME NEW k \in Tasks PROVE OnePlace!(k)'
    BY DEF OnePlace
  <2>1. OnePlace!(k)
    BY DEF Inv, Spread, OnePlace
  <2>2. CASE k = h
    BY <1>1, <1>5, <1>6, <2>1, <2>2
  <2>3. CASE k # h
    BY <1>1, <1>5, <1>6, <2>1, <2>3
  <2>4. QED
    BY <2>2, <2>3
<1>8. ASSUME NEW k \in Tasks PROVE Waits(k)' <=> Waits(k)
  <2>1. CASE k = h
    BY <1>1, <1>5, <1>6, <2>1 DEF Waits
  <2>2. CASE k # h
    BY <1>1, <1>5, <1>6, <2>2 DEF Waits
  <2>3. QED
    BY <2>1, <2>2
<1>9. RunOnce' /\ Unfilled' /\ PendingExact'
  <2>1. Filled' <=> Filled
    BY DEF Filled
  <2>2. l # "count"
    BY <1>1
  <2>3. QED
    BY <1>8, <2>1, <2>2, Uncounted
<1>10. MainFits'
  BY DEF Inv, MainFits
<1>11. QED
  BY <1>2, <1>3, <1>4, <1>7, <1>9, <1>10 DEF Inv, Spread

\* A worker finds nothing and looks elsewhere.
LEMMA LooksElsewhere ==
  ASSUME Inv, NEW i \in Ids, undefined' \in BOOLEAN,
         UNCHANGED <<g_global_queue, g_local_queues, g_pending_tasks, g_stop, executed, started, task,
                     main, iteration>>,
         \/ pc[i] = "pop" /\ g_local_queues[i] = << >> /\ pc' = [pc EXCEPT ![i] = "steal"]
         \/ pc[i] = "steal" /\ pc' = [pc EXCEPT ![i] = "global"]
  PROVE  Inv'
<1>1. RingsFit' /\ NoDoubles' /\ OnePlace' /\ \A k \in Tasks : Waits(k)' <=> Waits(k)
  BY Kept
<1>2. PICK l \in {"steal", "global"} : pc' = [pc EXCEPT ![i] = l]
  OBVIOUS
<1>3. RunOnce' /\ Unfilled' /\ PendingExact'
  <2>1. (Filled' <=> Filled) /\ l # "count" /\ pc[i] # "count"
    BY DEF Filled
  <2>2. QED
    BY <1>1, <1>2, <2>1, Uncounted
<1>4. TypeOK' /\ MainFits'
  BY <1>2 DEF Inv, TypeOK, MainFits
<1>5. LabelsFit'
  BY DEF Inv, TypeOK, LabelsFit
<1>6. QED
  BY <1>1, <1>3, <1>4, <1>5 DEF Inv, Spread

\* The bound of a queue survives the loss of an entry.
LEMMA Shorter ==
  ASSUME NEW n \in Nat, NEW m, m = n - 1, 2 * n <= CAPACITY
  PROVE  2 * m <= CAPACITY
BY Constants

\* try_pop (WorkStealing.cpp:31-39) keeps the invariant.
LEMMA TryPopInv ==
  ASSUME Inv, NEW i \in Ids, try_pop(i)
  PROVE  Inv'
<1>1. /\ UNCHANGED <<g_global_queue, g_pending_tasks, g_stop, executed, started, main, iteration>>
      /\ undefined' \in BOOLEAN /\ pc[i] = "pop"
  BY DEF try_pop, Inv, TypeOK
<1>2. CASE g_local_queues[i] = << >>
  BY <1>1, <1>2, LooksElsewhere DEF try_pop, Goto
<1>3. CASE g_local_queues[i] # << >>
  <2> DEFINE q == g_local_queues[i]
             h == Last(q)
             r == Front(q)
  <2>1. /\ task' = [task EXCEPT ![i] = h] /\ g_local_queues' = [g_local_queues EXCEPT ![i] = r]
        /\ pc' = [pc EXCEPT ![i] = "run"]
    BY <1>3 DEF try_pop, Goto
  <2>2. q \in Seq(Tasks) /\ Distinct(q) /\ 2 * Len(q) <= CAPACITY /\ task[i] = 0 /\ Len(q) \in Nat
    BY <1>1, Entries DEF Inv, TypeOK, Spread, NoDoubles, RingsFit, LabelsFit
  <2>3. /\ r \in Seq(Tasks) /\ Len(r) = Len(q) - 1 /\ Distinct(r) /\ h \in Tasks
        /\ \A k : InQueue(k, i) <=> k = h \/ k \in Range(r)
        /\ h \notin Range(r)
    BY <1>3, <2>2, PopLast DEF InQueue
  <2>4. 2 * Len(r) <= CAPACITY
    BY <2>2, <2>3, Shorter
  <2>5. \A j \in Ids : g_local_queues[j] = << >> => g_local_queues'[j] = << >>
    BY <1>3, <2>1 DEF Inv, TypeOK
  <2> HIDE DEF q, h, r
  <2>6. PICK x \in Tasks : x = h
    BY <2>3
  <2>7. PICK s \in Seq(Tasks) : s = r
    BY <2>3
  <2>8. QED
    BY <1>1, <2>1, <2>2, <2>3, <2>4, <2>5, <2>6, <2>7, HandedOver
<1>4. QED
  BY <1>2, <1>3

\* Steal (WorkStealing.cpp:41-79) keeps the invariant.
LEMMA StealInv ==
  ASSUME Inv, NEW i \in Ids, Steal(i), ~undefined
  PROVE  Inv'
<1>1. /\ UNCHANGED <<g_global_queue, g_pending_tasks, g_stop, executed, started, main, iteration>>
      /\ undefined' \in BOOLEAN /\ pc[i] = "steal"
  BY DEF Steal, ReadQueues, Inv, TypeOK
<1>2. CASE Goto(i, "global") /\ UNCHANGED <<task, g_local_queues>>
  BY <1>1, <1>2, LooksElsewhere DEF Goto
<1>3. ASSUME NEW v \in 0 .. started - 1, v # i, g_local_queues[v] # << >>,
             task' = [task EXCEPT ![i] = Head(g_local_queues[v])],
             g_local_queues' = [g_local_queues EXCEPT ![v] = Tail(@)], Goto(i, "keep")
      PROVE  Inv'
  <2> DEFINE q == g_local_queues[v]
             h == Head(q)
             r == Tail(q)
  <2>a. v \in Ids
    BY <1>3, Constants DEF Ids, Inv, TypeOK
  <2>1. /\ task' = [task EXCEPT ![i] = h] /\ g_local_queues' = [g_local_queues EXCEPT ![v] = r]
        /\ pc' = [pc EXCEPT ![i] = "keep"]
    BY <1>3, <2>a DEF Goto
  <2>2. /\ q \in Seq(Tasks) /\ Distinct(q) /\ 2 * Len(q) <= CAPACITY /\ task[i] = 0 /\ Len(q) \in Nat
        /\ g_local_queues[i] = << >>
    <3>1. q \in Seq(Tasks) /\ Len(q) \in Nat
      BY <2>a DEF Inv, TypeOK
    <3>2. Distinct(q) /\ 2 * Len(q) <= CAPACITY
      BY <2>a DEF Inv, Spread, NoDoubles, RingsFit
    <3>3. task[i] = 0 /\ g_local_queues[i] = << >>
      BY <1>1 DEF Inv, LabelsFit
    <3>4. QED
      BY <3>1, <3>2, <3>3
  <2>3. /\ r \in Seq(Tasks) /\ Len(r) = Len(q) - 1 /\ Distinct(r) /\ h \in Tasks
        /\ \A k : InQueue(k, v) <=> k = h \/ k \in Range(r)
        /\ h \notin Range(r)
    BY <1>3, <2>2, PopHead DEF InQueue
  <2>4. 2 * Len(r) <= CAPACITY /\ 2 <= CAPACITY
    <3>1. Len(q) > 0
      BY <1>3, <2>2, Entries
    <3>2. QED
      BY <2>2, <2>3, <3>1, Shorter, Constants
  <2>5. /\ \A j \in Ids : g_local_queues[j] = << >> => g_local_queues'[j] = << >>
        /\ g_local_queues'[i] = << >>
    BY <1>3, <2>1, <2>2 DEF Inv, TypeOK
  <2> HIDE DEF q, h, r
  <2>6. PICK x \in Tasks : x = h
    BY <2>3
  <2>7. PICK s \in Seq(Tasks) : s = r
    BY <2>3
  <2>8. QED
    BY <1>1, <2>a, <2>1, <2>2, <2>3, <2>4, <2>5, <2>6, <2>7, HandedOver
<1>4. QED
  BY <1>2, <1>3 DEF Steal

\* Keep (WorkStealing.cpp:24-29) keeps the invariant.
LEMMA KeepInv ==
  ASSUME Inv, NEW i \in Ids, Keep(i)
  PROVE  Inv'
<1>1. /\ UNCHANGED <<g_global_queue, g_pending_tasks, g_stop, executed, started, main, iteration>>
      /\ undefined' \in BOOLEAN /\ pc[i] = "keep"
      /\ g_local_queues' = [g_local_queues EXCEPT ![i] = Append(g_local_queues[i], task[i])]
      /\ task' = [task EXCEPT ![i] = 0] /\ pc' = [pc EXCEPT ![i] = "pop"]
  BY DEF Keep, Goto, Inv, TypeOK
<1>2. PICK h \in Tasks : h = task[i]
  BY <1>1, Constants DEF Inv, TypeOK, LabelsFit
<1>3. g_local_queues[i] = << >> /\ 2 <= CAPACITY /\ CAPACITY \in Nat
  BY <1>1, Constants DEF Inv, LabelsFit
<1>4. Append(g_local_queues[i], task[i]) = <<h>>
  BY <1>2, <1>3
<1>5. /\ <<h>> \in Seq(Tasks) /\ Len(<<h>>) = 1 /\ Distinct(<<h>>)
      /\ \A k : k \in Range(<<h>>) <=> k = h
  BY <1>2 DEF Distinct, Range
<1>6. PICK q \in Seq(Tasks) : q = <<h>>
  BY <1>5
<1>7. \A k : ~InQueue(k, i)
  <2>1. Range(<< >>) = {}
    BY DEF Range
  <2>2. QED
    BY <1>3, <2>1 DEF InQueue
<1>8. 2 * Len(q) <= CAPACITY
  BY <1>3, <1>5, <1>6
<1>9. QED
  BY <1>1, <1>2, <1>4, <1>5, <1>6, <1>7, <1>8, HandedOver

\* Try_pop_global (WorkStealing.cpp:81-94) keeps the invariant.
LEMMA TryPopGlobalInv ==
  ASSUME Inv, NEW i \in Ids, Try_pop_global(i)
  PROVE  Inv'
<1> DEFINE g == g_global_queue
           rest == Len(g) - Batch
           front == SubSeq(g, 1, rest)
           back == SubSeq(g, rest + 1, Len(g))
           new == Reverse(back)
<1>1. /\ UNCHANGED <<g_pending_tasks, g_stop, executed, started, task, main, iteration, undefined>>
      /\ g_global_queue' = front
      /\ g_local_queues' = [g_local_queues EXCEPT ![i] = g_local_queues[i] \o new]
      /\ pc' = [pc EXCEPT ![i] = IF Batch > 0 THEN "pop" ELSE "checkStop"] /\ pc[i] = "global"
  BY DEF Try_pop_global, Goto
<1>2. g \in Seq(Tasks) /\ Distinct(g) /\ Len(g) \in Nat /\ g_local_queues[i] = << >> /\ task[i] = 0
  <2>1. g \in Seq(Tasks) /\ Distinct(g) /\ Len(g) \in Nat
    BY DEF Inv, TypeOK, Spread, NoDoubles
  <2>2. g_local_queues[i] = << >> /\ task[i] = 0
    BY <1>1 DEF Inv, LabelsFit
  <2>3. QED
    BY <2>1, <2>2
<1>3. CAPACITY \div 2 \in Nat /\ 2 * (CAPACITY \div 2) <= CAPACITY
  BY Constants
<1>4. Batch \in Nat /\ Batch <= Len(g) /\ Batch <= CAPACITY \div 2
  <2>1. Len(g) \in Int /\ CAPACITY \div 2 \in Int
    BY <1>2, <1>3
  <2>2. Batch \in {Len(g), CAPACITY \div 2} /\ Batch <= Len(g) /\ Batch <= CAPACITY \div 2
    BY <2>1, MinOfTwo DEF Batch
  <2>3. QED
    BY <1>2, <1>3, <2>2
<1>5. PICK b \in Nat : b = Batch
  BY <1>4
<1>6. rest \in 0 .. Len(g) /\ Len(g) - rest = Batch
  BY <1>2, <1>4
<1> HIDE DEF rest, g
<1>7. /\ front \in Seq(Tasks) /\ back \in Seq(Tasks) /\ Distinct(front) /\ Distinct(back)
      /\ Len(front) = rest /\ Len(back) = Len(g) - rest
      /\ \A x : x \in Range(g) <=> x \in Range(front) \/ x \in Range(back)
      /\ \A x : ~(x \in Range(front) /\ x \in Range(back))
  BY <1>2, <1>6, Cut
<1> HIDE DEF front, back
<1>8. /\ new \in Seq(Tasks) /\ Len(new) = Len(back) /\ Distinct(new)
      /\ \A x : x \in Range(new) <=> x \in Range(back)
  BY <1>7, Turned
<1> HIDE DEF new
<1>9. g_local_queues[i] \o new = new
  BY <1>2, <1>8
<1>10. g_local_queues' = [g_local_queues EXCEPT ![i] = new]
  BY <1>1, <1>9
<1>11. PICK l \in {"pop", "checkStop"} : pc' = [pc EXCEPT ![i] = l]
  BY <1>1
<1>12. TypeOK'
  <2>1. g_local_queues' \in [Ids -> Seq(Tasks)]
    BY <1>8, <1>10 DEF Inv, TypeOK
  <2>2. QED
    BY <1>1, <1>7, <1>11, <2>1 DEF Inv, TypeOK
<1>13. LabelsFit'
  BY <1>1, <1>2, <1>10, <1>11 DEF Inv, TypeOK, LabelsFit
<1>14. RingsFit' /\ NoDoubles'
  <2>1. 2 * Len(new) <= CAPACITY
    BY <1>2, <1>3, <1>4, <1>6, <1>7, <1>8, Constants
  <2>2. g_local_queues'[i] = new /\ \A j \in Ids \ {i} : g_local_queues'[j] = g_local_queues[j]
    BY <1>10 DEF Inv, TypeOK
  <2>3. QED
    BY <1>1, <1>7, <1>8, <2>1, <2>2 DEF Inv, RingsFit, Spread, NoDoubles
<1>15. PICK M : M = Range(new)
  OBVIOUS
<1>16. /\ \A k : InGlobal(k) <=> k \in M \/ InGlobal(k)'
       /\ \A k : ~(k \in M /\ InGlobal(k)')
       /\ \A k : InQueue(k, i)' <=> k \in M
       /\ \A k : ~InQueue(k, i)
       /\ \A k : \A j \in Ids \ {i} : InQueue(k, j)' <=> InQueue(k, j)
       /\ task' = task
  <2>1. Range(<< >>) = {}
    BY DEF Range
  <2>2. \A k : ~InQueue(k, i)
    BY <1>2, <2>1 DEF InQueue
  <2>3. \A k : InQueue(k, i)' <=> k \in M
    BY <1>10, <1>15 DEF InQueue, Inv, TypeOK
  <2>4. \A k : \A j \in Ids \ {i} : InQueue(k, j)' <=> InQueue(k, j)
    BY <1>10 DEF InQueue, Inv, TypeOK
  <2>5. \A k : (InGlobal(k) <=> k \in M \/ InGlobal(k)') /\ ~(k \in M /\ InGlobal(k)')
    BY <1>1, <1>7, <1>8, <1>15 DEF InGlobal, g
  <2>6. QED
    BY <1>1, <2>2, <2>3, <2>4, <2>5
<1>17. OnePlace'
  <2> SUFFICES ASSUME NEW k \in Tasks PROVE OnePlace!(k)'
    BY DEF OnePlace
  <2>1. OnePlace!(k)
    BY DEF Inv, Spread, OnePlace
  <2>2. CASE k \in M
    BY <1>16, <2>1, <2>2
  <2>3. CASE k \notin M
    BY <1>16, <2>1, <2>3
  <2>4. QED
    BY <2>2, <2>3
<1>18. ASSUME NEW k \in Tasks PROVE Waits(k)' <=> Waits(k)
  BY <1>16 DEF Waits
<1>19. RunOnce' /\ Unfilled' /\ PendingExact'
  <2>1. (Filled' <=> Filled) /\ l # "count" /\ pc[i] # "count"
    BY <1>1 DEF Filled
  <2>2. QED
    BY <1>1, <1>11, <1>18, <2>1, Uncounted
<1>20. MainFits'
  BY <1>1 DEF Inv, MainFits
<1>21. QED
  BY <1>12, <1>13, <1>14, <1>17, <1>19, <1>20 DEF Inv, Spread
-----------------------------------------------------------------------------
(* Steps that run tasks and count them. *)

\* RunTask (WorkStealing.cpp:100-102) keeps the invariant.
LEMMA RunTaskInv ==
  ASSUME Inv, NEW i \in Ids, RunTask(i)
  PROVE  Inv'
<1>1. PICK h : h = task[i]
  OBVIOUS
<1>2. /\ executed' = [executed EXCEPT ![h] = executed[h] + 1]
      /\ task' = [task EXCEPT ![i] = 0]
      /\ pc' = [pc EXCEPT ![i] = "count"] /\ pc[i] = "run"
      /\ UNCHANGED <<g_global_queue, g_local_queues, g_pending_tasks, g_stop, started, main,
                     iteration, undefined>>
  BY <1>1 DEF RunTask, Goto
<1>3. h \in Tasks /\ 0 \notin Tasks
  BY <1>1, <1>2, Constants DEF Inv, TypeOK, LabelsFit
<1>4. Filled /\ Filled'
  <2>1. Waits(h)
    BY <1>1 DEF Waits
  <2>2. QED
    BY <1>2, <1>3, <2>1 DEF Inv, Spread, Unfilled, Filled
<1>5. executed[h] = 0
  <2>1. Waits(h)
    BY <1>1 DEF Waits
  <2>2. QED
    BY <1>3, <1>4, <2>1 DEF Inv, Spread, RunOnce
<1>6. Unrun' = Unrun \ {h} /\ h \in Unrun
  BY <1>2, <1>3, <1>5 DEF Unrun, Inv, TypeOK
<1>7. Counting' = Counting \cup {i} /\ i \notin Counting
  BY <1>2 DEF Counting, Inv, TypeOK
<1>8. Cardinality(Unrun') = Cardinality(Unrun) - 1
  BY <1>6, Finite, FS_RemoveElement
<1>9. Cardinality(Counting') = Cardinality(Counting) + 1
  BY <1>7, Finite, FS_AddElement
<1>10. PendingExact'
  <2>1. g_pending_tasks = Cardinality(Unrun) + Cardinality(Counting)
    BY <1>4, PendingParts DEF Inv
  <2>2. g_pending_tasks' = Cardinality(Unrun') + Cardinality(Counting')
    BY <1>2, <1>8, <1>9, <2>1, Finite
  <2>3. QED
    BY <2>2 DEF PendingExact, Unrun, Counting
<1>11. TypeOK'
  BY <1>2, <1>3, <1>5, Constants DEF Inv, TypeOK
<1>12. LabelsFit' /\ RingsFit' /\ NoDoubles' /\ MainFits'
  BY <1>2 DEF Inv, TypeOK, LabelsFit, RingsFit, Spread, NoDoubles, MainFits
<1>13. /\ \A k : InGlobal(k)' <=> InGlobal(k)
       /\ \A k : \A j \in Ids : InQueue(k, j)' <=> InQueue(k, j)
       /\ task'[i] = 0 /\ \A j \in Ids \ {i} : task'[j] = task[j]
  BY <1>2 DEF InGlobal, InQueue, Inv, TypeOK
<1>14. OnePlace'
  <2> SUFFICES ASSUME NEW k \in Tasks PROVE OnePlace!(k)'
    BY DEF OnePlace
  <2>1. OnePlace!(k)
    BY DEF Inv, Spread, OnePlace
  <2>2. QED
    BY <1>3, <1>13, <2>1
<1>15. RunOnce' /\ Unfilled'
  <2> SUFFICES ASSUME NEW k \in Tasks PROVE executed'[k] = IF Waits(k)' THEN 0 ELSE 1
    BY <1>4 DEF RunOnce, Unfilled
  <2>1. OnePlace!(k) /\ executed[k] = IF Waits(k) THEN 0 ELSE 1
    BY <1>4 DEF Inv, Spread, OnePlace, RunOnce
  <2>2. CASE k = h
    <3>1. ~Waits(k)'
      BY <1>1, <1>3, <1>13, <2>1, <2>2 DEF Waits
    <3>2. executed'[k] = 1
      BY <1>2, <1>3, <1>5, <2>2 DEF Inv, TypeOK
    <3>3. QED
      BY <3>1, <3>2
  <2>3. CASE k # h
    <3>1. Waits(k)' <=> Waits(k)
      BY <1>1, <1>3, <1>13, <2>3 DEF Waits
    <3>2. executed'[k] = executed[k]
      BY <1>2, <2>3 DEF Inv, TypeOK
    <3>3. QED
      BY <2>1, <3>1, <3>2
  <2>4. QED
    BY <2>2, <2>3
<1>16. QED
  BY <1>10, <1>11, <1>12, <1>14, <1>15 DEF Inv, Spread

\* CountOff (WorkStealing.cpp:103-103) keeps the invariant.
LEMMA CountOffInv ==
  ASSUME Inv, NEW i \in Ids, CountOff(i)
  PROVE  Inv'
<1>1. /\ g_pending_tasks' = g_pending_tasks - 1 /\ pc[i] = "count"
      /\ UNCHANGED <<g_global_queue, g_local_queues, g_stop, executed, started, task, main,
                     iteration, undefined>>
  BY DEF CountOff
<1>2. PICK l \in {"notify", "pop"} : pc' = [pc EXCEPT ![i] = l]
  BY DEF CountOff, Goto
<1>3. Filled /\ Filled'
  BY <1>1 DEF Inv, Spread, Unfilled, Filled
<1>4. Counting' = Counting \ {i} /\ i \in Counting
  BY <1>1, <1>2 DEF Counting, Inv, TypeOK
<1>5. Cardinality(Counting') = Cardinality(Counting) - 1
  BY <1>4, Finite, FS_RemoveElement
<1>6. g_pending_tasks = Cardinality(Unrun) + Cardinality(Counting)
  BY <1>3, PendingParts DEF Inv
<1>7. g_pending_tasks' = Cardinality(Unrun) + Cardinality(Counting') /\ g_pending_tasks > 0
  BY <1>1, <1>5, <1>6, Finite
<1>8. PendingExact'
  <2>1. Unrun' = Unrun
    BY <1>1 DEF Unrun
  <2>2. QED
    BY <1>7, <2>1 DEF PendingExact, Unrun, Counting
<1>9. TypeOK'
  <2>1. g_pending_tasks' \in 0 .. TaskCount
    BY <1>1, <1>7, Constants DEF Inv, TypeOK
  <2>2. QED
    BY <1>1, <1>2, <2>1 DEF Inv, TypeOK
<1>10. LabelsFit'
  BY <1>1, <1>2 DEF Inv, TypeOK, LabelsFit
<1>11. RingsFit' /\ NoDoubles' /\ OnePlace' /\ \A k \in Tasks : Waits(k)' <=> Waits(k)
  BY <1>1, Kept
<1>12. RunOnce' /\ Unfilled'
  BY <1>1, <1>3, <1>11 DEF Inv, Spread, RunOnce, Unfilled
<1>13. MainFits'
  BY <1>1, <1>7 DEF Inv, MainFits
<1>14. QED
  BY <1>8, <1>9, <1>10, <1>11, <1>12, <1>13 DEF Inv, Spread
-----------------------------------------------------------------------------
(* The start of an iteration. *)

\* The queue that main fills holds every task once.
LEMMA FreshQueue ==
  LET q == [k \in Tasks |-> k]
  IN q \in Seq(Tasks) /\ Distinct(q) /\ Range(q) = Tasks
<1>1. [k \in Tasks |-> k] \in Seq(Tasks) /\ Len([k \in Tasks |-> k]) = TaskCount
  BY Constants, IsASeq DEF Tasks
<1>2. QED
  BY <1>1 DEF Distinct, Range, Tasks

\* Fill (WorkStealing.cpp:140-148) keeps the invariant.
LEMMA FillInv ==
  ASSUME Inv, UNCHANGED undefined, Fill
  PROVE  Inv'
<1>1. /\ g_pending_tasks' = TaskCount /\ g_global_queue' = [k \in Tasks |-> k]
      /\ main = "spawn" /\ main' = "check"
      /\ UNCHANGED <<g_local_queues, g_stop, executed, started, task, pc, iteration, undefined>>
  BY DEF Fill
<1>2. ~Filled /\ Filled'
  BY <1>1 DEF Filled
<1>3. /\ \A k \in Tasks : ~Waits(k) /\ executed[k] = 0
      /\ ~g_stop /\ \A i \in Ids : pc[i] # "count"
  BY <1>2 DEF Inv, Spread, Unfilled
<1>4. \A i \in Ids : g_local_queues[i] = << >> /\ task[i] = 0
  BY <1>3, NothingWaits
<1>5. TypeOK' /\ LabelsFit' /\ RingsFit' /\ MainFits'
  BY <1>1, <1>3, FreshQueue, Constants DEF Inv, TypeOK, LabelsFit, RingsFit, MainFits
<1>6. NoDoubles'
  BY <1>1, FreshQueue DEF Inv, Spread, NoDoubles
<1>7. /\ \A k \in Tasks : InGlobal(k)'
      /\ \A k \in Tasks : \A i \in Ids : ~InQueue(k, i)' /\ task'[i] # k
  <2>1. Range(<< >>) = {}
    BY DEF Range
  <2>2. QED
    BY <1>1, <1>4, <2>1, FreshQueue, Constants DEF InGlobal, InQueue
<1>8. OnePlace'
  BY <1>7 DEF OnePlace
<1>9. RunOnce' /\ Unfilled'
  BY <1>1, <1>2, <1>3, <1>7 DEF RunOnce, Unfilled, Waits
<1>10. PendingExact'
  <2>1. Unrun' = Tasks /\ Counting' = {}
    BY <1>1, <1>3 DEF Unrun, Counting
  <2>2. g_pending_tasks' = Cardinality(Unrun') + Cardinality(Counting')
    BY <1>1, <2>1, Finite, FS_EmptySet, Constants
  <2>3. QED
    BY <2>2 DEF PendingExact, Unrun, Counting
<1>11. QED
  BY <1>5, <1>6, <1>8, <1>9, <1>10 DEF Inv, Spread

\* A state in which main has started no worker and there is nothing to do.
Empty ==
  /\ g_global_queue = << >> /\ g_local_queues = [i \in Ids |-> << >>] /\ started = 0
  /\ task = [i \in Ids |-> 0] /\ pc = [i \in Ids |-> "new"]
  /\ g_pending_tasks = 0 /\ g_stop = FALSE
  /\ main = "spawn" /\ executed = [k \in Tasks |-> 0] /\ iteration \in 1 .. iterations
  /\ undefined = FALSE

\* Such a state satisfies the invariant.
LEMMA EmptyInv == Empty => Inv
<1> SUFFICES ASSUME Empty PROVE Inv
  OBVIOUS
<1>1. Len(<< >>) = 0 /\ Range(<< >>) = {} /\ Distinct(<< >>) /\ << >> \in Seq(Tasks)
  BY DEF Range, Distinct
<1>2. TypeOK /\ LabelsFit /\ RingsFit /\ MainFits
  <2>1. g_stop \in BOOLEAN /\ undefined \in BOOLEAN /\ ~g_stop
    BY DEF Empty
  <2>2. TypeOK
    BY <1>1, <2>1, Constants DEF Empty, TypeOK
  <2>3. LabelsFit /\ RingsFit
    BY <1>1, Constants DEF Empty, LabelsFit, RingsFit
  <2>4. MainFits
    BY <2>1 DEF Empty, MainFits
  <2>5. QED
    BY <2>2, <2>3, <2>4
<1>3. NoDoubles /\ \A k \in Tasks : \A i \in Ids : ~InGlobal(k) /\ ~InQueue(k, i) /\ task[i] # k
  BY <1>1, Constants DEF Empty, NoDoubles, InGlobal, InQueue
<1>4. ~Filled /\ \A k \in Tasks : ~Waits(k)
  <2>1. \A k : ~InGlobal(k)
    BY <1>1 DEF Empty, InGlobal
  <2>2. QED
    BY <1>3, <2>1 DEF Empty, Filled, Waits
<1>5. OnePlace /\ RunOnce /\ Unfilled /\ PendingExact
  BY <1>3, <1>4 DEF Empty, OnePlace, RunOnce, Unfilled, PendingExact
<1>6. QED
  BY <1>2, <1>3, <1>5 DEF Inv, Spread

\* NextIteration (WorkStealing.cpp:165-175) keeps the invariant.
LEMMA NextIterationInv ==
  ASSUME Inv, ~undefined, UNCHANGED undefined, NextIteration
  PROVE  Inv'
<1>1. Filled /\ g_pending_tasks = 0
  BY DEF NextIteration, Filled, Inv, MainFits
<1>2. g_global_queue = << >> /\ \A i \in Ids : task[i] = 0
  BY <1>1, NothingPending, NothingWaits
<1>3. task' = [i \in Ids |-> 0]
  BY <1>2 DEF NextIteration, Inv, TypeOK
<1>4. iteration' \in 1 .. iterations
  BY Constants DEF NextIteration, Inv, TypeOK
<1>5. Empty'
  BY <1>2, <1>3, <1>4 DEF NextIteration, Empty, Inv, TypeOK
<1>6. QED
  BY <1>5, EmptyInv, PTL
-----------------------------------------------------------------------------
\* The invariant is inductive.
LEMMA NextInv ==
  ASSUME Inv, [Next]_vars PROVE Inv'
<1>1. CASE UNCHANGED vars
  <2>1. RingsFit' /\ NoDoubles' /\ OnePlace' /\ \A k \in Tasks : Waits(k)' <=> Waits(k)
    BY <1>1, Kept DEF vars, shared
  <2>2. TypeOK' /\ LabelsFit' /\ MainFits'
    BY <1>1 DEF vars, shared, Inv, TypeOK, LabelsFit, MainFits
  <2>3. RunOnce' /\ Unfilled' /\ PendingExact'
    BY <1>1, <2>1 DEF vars, shared, Inv, Spread, RunOnce, Unfilled, PendingExact, Filled
  <2>4. QED
    BY <2>1, <2>2, <2>3 DEF Inv, Spread
<1>2. ASSUME NEW i \in Ids, Worker(i) PROVE Inv'
  <2>1. ~undefined /\ undefined \in BOOLEAN
    BY <1>2 DEF Worker, Inv, TypeOK
  <2>2. CASE Begin(i) \/ CheckStop(i) \/ Notify(i)
    <3>1. undefined' \in BOOLEAN
      BY <2>1, <2>2 DEF Begin, CheckStop, Notify, ReadQueues
    <3>2. QED
      BY <2>2, <3>1, IdleInv
  <2>3. QED
    BY <1>2, <2>1, <2>2, TryPopInv, RunTaskInv, CountOffInv, StealInv, KeepInv, TryPopGlobalInv DEF Worker
<1>3. CASE RunTasks
  BY <1>3, StartInv, FillInv, WaitInv, NextIterationInv DEF RunTasks
<1>4. CASE SpuriousWakeup /\ UNCHANGED undefined
  BY <1>4, WaitInv
<1>5. QED
  BY <1>1, <1>2, <1>3, <1>4 DEF Next

\* It holds of every behaviour.
LEMMA InvHolds == Spec => []Inv
<1>1. Init => Empty
  BY Constants DEF Init, Empty
<1>2. Inv /\ [Next]_vars => Inv'
  BY NextInv
<1>3. QED
  BY <1>1, <1>2, EmptyInv, PTL DEF Spec

\* Tasks in one place each, counted.
LEMMA InvEachTaskOnce == Inv => EachTaskOnce
<1> SUFFICES ASSUME Inv, Filled, NEW k \in Tasks PROVE Places(k) + executed[k] = 1
  BY DEF EachTaskOnce
<1> DEFINE G == {j \in DOMAIN g_global_queue : g_global_queue[j] = k}
           Q == {x \in Ids \X (1 .. TaskCount + CAPACITY) :
                   x[2] \in DOMAIN g_local_queues[x[1]] /\ g_local_queues[x[1]][x[2]] = k}
           H == {i \in Ids : task[i] = k}
<1>1. /\ g_global_queue \in Seq(Tasks) /\ Distinct(g_global_queue)
      /\ \A i \in Ids : /\ g_local_queues[i] \in Seq(Tasks) /\ Distinct(g_local_queues[i])
                        /\ 2 * Len(g_local_queues[i]) <= CAPACITY
  BY DEF Inv, TypeOK, Spread, NoDoubles, RingsFit
<1>2. OnePlace!(k) /\ executed[k] = IF Waits(k) THEN 0 ELSE 1
  BY DEF Inv, Spread, OnePlace, RunOnce
<1>3. (G # {} <=> InGlobal(k)) /\ \A i, j \in G : i = j
  BY <1>1 DEF InGlobal, Range, Distinct
<1>4. (Q # {} <=> \E i \in Ids : InQueue(k, i)) /\ \A x, y \in Q : x = y
  <2>1. ASSUME NEW i \in Ids, InQueue(k, i) PROVE Q # {}
    <3>1. PICK j \in 1 .. Len(g_local_queues[i]) : g_local_queues[i][j] = k
      BY <1>1, <2>1, Entries DEF InQueue
    <3>2. j \in 1 .. TaskCount + CAPACITY /\ j \in DOMAIN g_local_queues[i]
      BY <1>1, Constants
    <3>3. <<i, j>> \in Q
      BY <3>1, <3>2
    <3>4. QED
      BY <3>3
  <2>2. \A x \in Q : x[1] \in Ids /\ InQueue(k, x[1]) /\ x = <<x[1], x[2]>>
    BY <1>1 DEF InQueue, Range
  <2>3. ASSUME NEW x \in Q, NEW y \in Q PROVE x = y
    <3>1. x[1] = y[1]
      BY <1>2, <2>2
    <3>2. x[2] = y[2]
      <4>1. /\ x[2] \in 1 .. Len(g_local_queues[x[1]]) /\ g_local_queues[x[1]][x[2]] = k
            /\ y[2] \in 1 .. Len(g_local_queues[x[1]]) /\ g_local_queues[x[1]][y[2]] = k
        BY <1>1, <2>2, <3>1
      <4>2. Distinct(g_local_queues[x[1]])
        BY <1>1, <2>2
      <4>3. QED
        BY <4>1, <4>2 DEF Distinct
    <3>3. QED
      BY <2>2, <3>1, <3>2
  <2>4. QED
    BY <2>1, <2>2, <2>3
<1>5. (H # {} <=> \E i \in Ids : task[i] = k) /\ \A x, y \in H : x = y
  BY <1>2
<1>6. Places(k) = Cardinality(G) + Cardinality(H) + Cardinality(Q)
  BY DEF Places, Copies
<1> HIDE DEF G, Q, H
<1>7. /\ Cardinality(G) = IF G = {} THEN 0 ELSE 1
      /\ Cardinality(Q) = IF Q = {} THEN 0 ELSE 1
      /\ Cardinality(H) = IF H = {} THEN 0 ELSE 1
  BY <1>3, <1>4, <1>5, Single
<1>8. ~(G # {} /\ Q # {}) /\ ~(G # {} /\ H # {}) /\ ~(Q # {} /\ H # {})
  BY <1>2, <1>3, <1>4, <1>5
<1>9. executed[k] = IF G # {} \/ Q # {} \/ H # {} THEN 0 ELSE 1
  BY <1>2, <1>3, <1>4, <1>5 DEF Waits
<1>10. QED
  BY <1>6, <1>7, <1>8, <1>9

\* The state of WorkStealing.cpp keeps its type: in particular no worker counts off a task
\* that is not pending (WorkStealing.cpp:102).
THEOREM WorkStealingTyped == Spec => []TypeOK
<1>1. Inv => TypeOK
  BY DEF Inv
<1>2. QED
  BY <1>1, InvHolds, PTL

\* WorkStealing.cpp:24-49, 73-74, 89-92: batches from the global queue, pops at one end and
\* thefts at the other lose no task and run none twice.
THEOREM StolenOnce == Spec => []EachTaskOnce
BY InvEachTaskOnce, InvHolds, PTL

\* WorkStealing.cpp:18, 27, 85: though push checks nothing, a ring never has more than half
\* its capacity.
THEOREM RingsHalfEmpty == Spec => []RingsFit
<1>1. Inv => RingsFit
  BY DEF Inv
<1>2. QED
  BY <1>1, InvHolds, PTL

\* WorkStealing.cpp:102-105: g_pending_tasks counts exactly the tasks that have not run and
\* those not yet counted off.
THEOREM PendingCounted == Spec => []PendingExact
<1>1. Inv => PendingExact
  BY DEF Inv
<1>2. QED
  BY <1>1, InvHolds, PTL

\* WorkStealing.cpp:112, 151-157, 172: workers are told to leave, and the queues are
\* cleared, only when every task of the round has run.
THEOREM NothingLeftBehind == Spec => []StopMeansDone
<1>1. ASSUME Inv PROVE StopMeansDone
  <2>1. g_stop \/ main = "done" => Filled /\ g_pending_tasks = 0
    BY <1>1 DEF Inv, MainFits, Filled
  <2>2. QED
    BY <1>1, <2>1, NothingPending, NothingWaits DEF StopMeansDone
<1>2. QED
  BY <1>1, InvHolds, PTL
=============================================================================
