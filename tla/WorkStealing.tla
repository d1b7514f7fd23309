---------------------------- MODULE WorkStealing ----------------------------
(***************************************************************************)
(* Scheduler/WorkStealing.cpp, the first scheduler: every worker has a     *)
(* queue of its own, whose newest task it takes, while others steal the    *)
(* oldest; a worker that finds nothing to steal moves a batch from the     *)
(* global queue to its own.  Main starts the workers one by one, growing   *)
(* the vector of queues while those already started look through it.       *)
(*                                                                         *)
(* A ring is a sequence; an entry is overwritten exactly when the sequence *)
(* grows past CAPACITY.  What is done under a mutex is one step.  The      *)
(* random choice of victims may miss all that have tasks.                  *)
(***************************************************************************)
EXTENDS Integers, Sequences, FiniteSets, SequencesExt

CONSTANTS
  num_threads,
  TaskCount,   \* tasks per round (num_threads * 100000)
  CAPACITY,
  iterations   \* bound: rounds of the benchmark

ASSUME WorkStealingAssumption ==
  /\ {num_threads, TaskCount, CAPACITY, iterations} \subseteq Nat \ {0}

Tasks == 1 .. TaskCount
Ids == 0 .. num_threads - 1

VARIABLES
  g_global_queue,
  g_local_queues,   \* a queue for every id; those from started on do not exist yet
  started,          \* g_local_queues.size()
  task,             \* per worker: the task in its hand, or 0
  pc,
  g_pending_tasks, g_stop,
  main,             \* where main is
  executed,         \* executed[k]: how often task k has run in this round
  iteration,
  undefined         \* a worker read the vector while it was being moved

shared == <<g_global_queue, g_local_queues, g_pending_tasks, g_stop, executed>>
vars == <<shared, started, task, pc, main, iteration, undefined>>

Init ==
  /\ g_global_queue = << >> /\ g_local_queues = [i \in Ids |-> << >>] /\ started = 0
  /\ task = [i \in Ids |-> 0] /\ pc = [i \in Ids |-> "new"]
  /\ g_pending_tasks = 0 /\ g_stop = FALSE
  /\ main = "spawn" /\ executed = [k \in Tasks |-> 0] /\ iteration = 1
  /\ undefined = FALSE

Goto(i, label) == pc' = [pc EXCEPT ![i] = label]

\* Main holds g_m from the evaluation of the predicate until it sleeps.
MtxFree == main # "checked"
-----------------------------------------------------------------------------
(* Worker(i). *)

\* g_local_queues is read without a lock.  While push_back moves it the read is
\* undefined: it may find the old vector, or memory that is gone.
ReadQueues == UNCHANGED undefined \/ (main = "growing" /\ undefined' = TRUE)

Begin(i) ==
  /\ pc[i] = "begin" /\ ReadQueues
  /\ Goto(i, "pop")
  /\ UNCHANGED <<shared, started, task, main, iteration>>

try_pop(i) ==
  /\ pc[i] = "pop"
  /\ IF g_local_queues[i] # << >>
     THEN /\ task' = [task EXCEPT ![i] = Last(g_local_queues[i])]
          /\ g_local_queues' = [g_local_queues EXCEPT ![i] = Front(@)]
          /\ Goto(i, "run")
     ELSE Goto(i, "steal") /\ UNCHANGED <<task, g_local_queues>>
  /\ UNCHANGED <<g_global_queue, g_pending_tasks, g_stop, executed, started, main, iteration,
                 undefined>>

RunTask(i) ==
  /\ pc[i] = "run"
  /\ executed' = [executed EXCEPT ![task[i]] = @ + 1]
  /\ task' = [task EXCEPT ![i] = 0]
  /\ Goto(i, "count")
  /\ UNCHANGED <<g_global_queue, g_local_queues, g_pending_tasks, g_stop, started, main,
                 iteration, undefined>>

\* mutant: one worker does not count off the tasks it runs
CountOff_Skipped(i) ==
  /\ pc[i] = "count"
  /\ g_pending_tasks' = IF i = 0 THEN g_pending_tasks ELSE g_pending_tasks - 1
  /\ Goto(i, IF g_pending_tasks = 1 THEN "notify" ELSE "pop")
  /\ UNCHANGED <<g_global_queue, g_local_queues, g_stop, executed, started, task, main,
                 iteration, undefined>>

CountOff(i) ==
  /\ pc[i] = "count"
  /\ g_pending_tasks' = g_pending_tasks - 1
  /\ Goto(i, IF g_pending_tasks = 1 THEN "notify" ELSE "pop")
  /\ UNCHANGED <<g_global_queue, g_local_queues, g_stop, executed, started, task, main,
                 iteration, undefined>>

\* notify_one without g_m: lost unless main already sleeps.
Notify(i) ==
  /\ pc[i] = "notify"
  /\ main' = IF main = "asleep" THEN "check" ELSE main
  /\ Goto(i, "pop")
  /\ UNCHANGED <<shared, started, task, iteration, undefined>>

\* mutant: the thief reads the task but does not advance head
Steal_Copy(i) ==
  /\ pc[i] = "steal" /\ ReadQueues
  /\ \/ \E v \in 0 .. started - 1 :
          /\ v # i /\ g_local_queues[v] # << >>
          /\ task' = [task EXCEPT ![i] = Head(g_local_queues[v])]
          /\ Goto(i, "keep")
     \/ Goto(i, "global") /\ UNCHANGED task
  /\ UNCHANGED <<shared, started, main, iteration>>

\* Some victim's oldest task, or nothing.
Steal(i) ==
  /\ pc[i] = "steal" /\ ReadQueues
  /\ \/ \E v \in 0 .. started - 1 :
          /\ v # i /\ g_local_queues[v] # << >>
          /\ task' = [task EXCEPT ![i] = Head(g_local_queues[v])]
          /\ g_local_queues' = [g_local_queues EXCEPT ![v] = Tail(@)]
          /\ Goto(i, "keep")
     \/ Goto(i, "global") /\ UNCHANGED <<task, g_local_queues>>
  /\ UNCHANGED <<g_global_queue, g_pending_tasks, g_stop, executed, started, main, iteration>>

\* mutant: the stolen task is forgotten
Keep_Dropped(i) ==
  /\ pc[i] = "keep"
  /\ task' = [task EXCEPT ![i] = 0]
  /\ Goto(i, "pop")
  /\ UNCHANGED <<shared, started, main, iteration, undefined>>

\* my_q.push: the stolen task goes to the own queue, where it can be stolen again.
Keep(i) ==
  /\ pc[i] = "keep"
  /\ g_local_queues' = [g_local_queues EXCEPT ![i] = Append(@, task[i])]
  /\ task' = [task EXCEPT ![i] = 0]
  /\ Goto(i, "pop")
  /\ UNCHANGED <<g_global_queue, g_pending_tasks, g_stop, executed, started, main, iteration,
                 undefined>>

\* mutant: the whole global queue is moved
Batch_All == Len(g_global_queue)

Batch == Min({Len(g_global_queue), CAPACITY \div 2})

\* The newest tasks of the global queue go to the own one, newest first.
Try_pop_global(i) ==
  LET rest == Len(g_global_queue) - Batch
  IN /\ pc[i] = "global" /\ MtxFree
     /\ g_global_queue' = SubSeq(g_global_queue, 1, rest)
     /\ g_local_queues' =
          [g_local_queues EXCEPT ![i] =
             @ \o Reverse(SubSeq(g_global_queue, rest + 1, Len(g_global_queue)))]
     /\ Goto(i, IF Batch > 0 THEN "pop" ELSE "checkStop")
     /\ UNCHANGED <<g_pending_tasks, g_stop, executed, started, task, main, iteration, undefined>>

CheckStop(i) ==
  /\ pc[i] = "checkStop"
  /\ Goto(i, IF g_stop THEN "exit" ELSE "pop")
  /\ UNCHANGED <<shared, started, task, main, iteration, undefined>>

Worker(i) ==
  /\ ~undefined
  /\ Begin(i) \/ try_pop(i) \/ RunTask(i) \/ CountOff(i) \/ Notify(i) \/ Steal(i) \/ Keep(i)
       \/ Try_pop_global(i) \/ CheckStop(i)
-----------------------------------------------------------------------------
(* RunTasks and main. *)

\* g_local_queues.push_back: the vector is being moved ...
Grow ==
  /\ main = "spawn" /\ started < num_threads
  /\ main' = "growing"
  /\ UNCHANGED <<shared, started, task, pc, iteration>>

\* ... has one more queue, and the thread for it starts.
Spawn ==
  /\ main = "growing"
  /\ started' = started + 1
  /\ Goto(started, "begin")
  /\ main' = "spawn"
  /\ UNCHANGED <<shared, task, iteration>>

\* mutant: g_pending_tasks is not set
Fill_NotPending ==
  /\ main = "spawn" /\ started = num_threads
  /\ g_global_queue' = [k \in Tasks |-> k]
  /\ main' = "check"
  /\ UNCHANGED <<g_local_queues, g_pending_tasks, g_stop, executed, started, task, pc, iteration>>

Fill ==
  /\ main = "spawn" /\ started = num_threads
  /\ g_pending_tasks' = TaskCount
  /\ g_global_queue' = [k \in Tasks |-> k]
  /\ main' = "check"
  /\ UNCHANGED <<g_local_queues, g_stop, executed, started, task, pc, iteration>>

\* mutant: any wake-up ends the wait
CheckDone_Skipped ==
  main = "check" /\ main' = "stop" /\ UNCHANGED <<shared, started, task, pc, iteration>>

CheckDone ==
  /\ main = "check"
  /\ main' = IF g_pending_tasks = 0 THEN "stop" ELSE "checked"
  /\ UNCHANGED <<shared, started, task, pc, iteration>>

Sleep ==
  main = "checked" /\ main' = "asleep" /\ UNCHANGED <<shared, started, task, pc, iteration>>

\* A condition variable may wake up by itself.
SpuriousWakeup ==
  main = "asleep" /\ main' = "check" /\ UNCHANGED <<shared, started, task, pc, iteration>>

Stop ==
  /\ main = "stop"
  /\ g_stop' = TRUE /\ main' = "join"
  /\ UNCHANGED <<g_global_queue, g_local_queues, g_pending_tasks, executed, started, task, pc,
                 iteration>>

Join ==
  /\ main = "join" /\ \A i \in Ids : pc[i] = "exit"
  /\ main' = "done"
  /\ UNCHANGED <<shared, started, task, pc, iteration>>

\* The next iteration of main: everything is reset but g_global_queue.
NextIteration ==
  /\ main = "done" /\ iteration < iterations
  /\ iteration' = iteration + 1
  /\ g_pending_tasks' = 0 /\ g_stop' = FALSE
  /\ g_local_queues' = [i \in Ids |-> << >>] /\ started' = 0
  /\ pc' = [i \in Ids |-> "new"]
  /\ executed' = [k \in Tasks |-> 0]
  /\ main' = "spawn"
  /\ UNCHANGED <<g_global_queue, task>>

RunTasks ==
  /\ ~undefined
  /\ Grow \/ Spawn \/ Fill \/ CheckDone \/ Sleep \/ Stop \/ Join \/ NextIteration
  /\ UNCHANGED undefined

Next ==
  \/ \E i \in Ids : Worker(i)
  \/ RunTasks
  \/ ~undefined /\ SpuriousWakeup /\ UNCHANGED undefined

\* Every thread runs, and one that waits for g_m gets it some time.
Spec ==
  /\ Init /\ [][Next]_vars
  /\ WF_vars(RunTasks)
  /\ \A i \in Ids : WF_vars(Worker(i)) /\ SF_vars(~undefined /\ Try_pop_global(i))
-----------------------------------------------------------------------------
TypeOK ==
  /\ g_global_queue \in Seq(Tasks) /\ g_local_queues \in [Ids -> Seq(Tasks)]
  /\ started \in 0 .. num_threads
  /\ task \in [Ids -> 0 .. TaskCount]
  /\ pc \in [Ids -> {"new", "begin", "pop", "run", "count", "notify", "steal", "keep",
                     "global", "checkStop", "exit"}]
  /\ g_pending_tasks \in 0 .. TaskCount
  /\ g_stop \in BOOLEAN /\ undefined \in BOOLEAN
  /\ main \in {"spawn", "growing", "check", "checked", "asleep", "stop", "join", "done"}
  /\ executed \in [Tasks -> Nat]
  /\ iteration \in 1 .. iterations

Filled == main \notin {"spawn", "growing"}

\* The places where a task waits or is held.
Copies(k, s) == Cardinality({j \in DOMAIN s : s[j] = k})
Places(k) ==
  Copies(k, g_global_queue) + Cardinality({i \in Ids : task[i] = k})
  + Cardinality({x \in Ids \X (1 .. TaskCount + CAPACITY) :
                   x[2] \in DOMAIN g_local_queues[x[1]] /\ g_local_queues[x[1]][x[2]] = k})

\* WorkStealing.cpp:24-49, 73-74, 89-92: however tasks are fetched, popped at one end and
\* stolen at the other, each is in one place or has run once.
EachTaskOnce == Filled => \A k \in Tasks : Places(k) + executed[k] = 1

\* WorkStealing.cpp:18, 27, 85: push checks nothing, but no queue takes more than
\* CAPACITY tasks; indeed none has more than half of it.
RingsFit == \A i \in Ids : 2 * Len(g_local_queues[i]) <= CAPACITY

\* WorkStealing.cpp:102-105: what is pending has not run, or its worker is about to count
\* it off.
PendingExact ==
  Filled => g_pending_tasks = Cardinality({k \in Tasks : executed[k] = 0})
                              + Cardinality({i \in Ids : pc[i] = "count"})

\* WorkStealing.cpp:112, 151-157, 172: a worker leaves, and main clears the queues, only
\* when nothing is left in any of them.
StopMeansDone ==
  (g_stop \/ main = "done")
    => g_global_queue = << >> /\ \A i \in Ids : g_local_queues[i] = << >> /\ task[i] = 0

Stealing(i) == pc[i] = "steal" /\ pc'[i] = "keep"

\* WorkStealing.cpp:96-117: the tasks of every round are done, unless the workers go on
\* stealing them from each other for ever, which only the random choice of victims makes
\* unlikely.
DoneOrStolen ==
  []<>(undefined \/ g_pending_tasks = 0) \/ []<><<\E i \in Ids : Stealing(i)>>_vars
=============================================================================
