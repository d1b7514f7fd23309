------------------------------ MODULE Scheduler ------------------------------
(***************************************************************************)
(* Scheduler/Main.cpp and Scheduler/Worker.cpp: one producer and a set of  *)
(* workers, in two variants.                                               *)
(*                                                                         *)
(* Simple workers take tasks one by one from the global queue and count    *)
(* each of them off.  Complex workers move tasks in batches from the       *)
(* global queue, or from another worker's queue, to a queue of their own,  *)
(* from there to a private buffer, and count off what they did only when   *)
(* they find nothing more to do.  Main sleeps on a condition variable      *)
(* until everything is counted off, then tells the workers to stop.        *)
(*                                                                         *)
(* The rings queue_ and buffer_ are sequences; an entry of a ring is       *)
(* overwritten exactly when its sequence grows past the capacity.  What is *)
(* done under the mutexes is one step.  try_lock may fail, and the unlocked *)
(* look at a victim's queue may be wrong, so fetching and stealing may     *)
(* come back with nothing at any time.                                     *)
(***************************************************************************)
EXTENDS Integers, Sequences, FiniteSets, SequencesExt

CONSTANTS
  Workers,
  TaskCount,        \* tasks per round (num_threads_ * 100000)
  kQueueSize_, kMaxBufferSize_,
  fillBatch,        \* batch_size of FillBuffer
  batchSize,        \* batch_size of TryFetchGlobal and TryStealFrom
  Rounds            \* bound: rounds of the benchmark (iterations)

ASSUME SchedulerAssumption ==
  /\ IsFiniteSet(Workers) /\ Workers # {}
  /\ {TaskCount, kQueueSize_, kMaxBufferSize_, fillBatch, batchSize, Rounds} \subseteq Nat \ {0}
  /\ fillBatch <= kMaxBufferSize_

Tasks == 1 .. TaskCount

VARIABLES
  use_complex_worker, \* which variant the program was built with
  global_queue_,
  queue_, buffer_,  \* per worker
  task_did_,        \* per worker: tasks executed and not counted off yet
  hand,             \* per worker: the task being executed, or 0
  pc,               \* per worker
  pending_tasks_, stop_,
  main,             \* where Main is in RunTasks
  executed,         \* executed[k]: how often task k has run in this round
  round

local == <<queue_, buffer_, task_did_, hand>>
vars == <<use_complex_worker, global_queue_, local, pc, pending_tasks_, stop_, main, executed, round>>

num_threads_ == Cardinality(Workers)

\* Main holds ctx.mtx_ from the evaluation of the predicate until it sleeps.
MtxFree == main # "checked"

Goto(w, label) == pc' = [pc EXCEPT ![w] = label]

Init ==
  /\ use_complex_worker \in BOOLEAN
  /\ global_queue_ = [k \in Tasks |-> k]
  /\ queue_ = [w \in Workers |-> <<>>] /\ buffer_ = [w \in Workers |-> <<>>]
  /\ task_did_ = [w \in Workers |-> 0] /\ hand = [w \in Workers |-> 0]
  /\ pc = [w \in Workers |-> "get"]
  /\ pending_tasks_ = TaskCount
  /\ stop_ = FALSE
  /\ main = "check"
  /\ executed = [k \in Tasks |-> 0]
  /\ round = 1
-----------------------------------------------------------------------------
(* Steps of a worker. *)

\* RunComplex, Worker.cpp:76.
GetNextTask(w) ==
  /\ use_complex_worker /\ pc[w] = "get"
  /\ IF buffer_[w] # <<>>
     THEN /\ hand' = [hand EXCEPT ![w] = Head(buffer_[w])]
          /\ buffer_' = [buffer_ EXCEPT ![w] = Tail(@)]
          /\ Goto(w, "run")
     ELSE Goto(w, "fill") /\ UNCHANGED <<hand, buffer_>>
  /\ UNCHANGED <<global_queue_, queue_, task_did_, pending_tasks_, stop_, main, executed, round>>

\* RunSimple, Worker.cpp:104-121.
TakeGlobal(w) ==
  /\ ~use_complex_worker /\ pc[w] = "get" /\ MtxFree
  /\ IF global_queue_ # <<>>
     THEN /\ hand' = [hand EXCEPT ![w] = Head(global_queue_)]
          /\ global_queue_' = Tail(global_queue_)
          /\ Goto(w, "run")
     ELSE Goto(w, "checkStop") /\ UNCHANGED <<hand, global_queue_>>
  /\ UNCHANGED <<queue_, buffer_, task_did_, pending_tasks_, stop_, main, executed, round>>

\* mutant: a simple worker forgets to count the task off
Execute_NoCount(w) ==
  /\ pc[w] = "run"
  /\ executed' = [executed EXCEPT ![hand[w]] = @ + 1]
  /\ hand' = [hand EXCEPT ![w] = 0]
  /\ task_did_' = [task_did_ EXCEPT ![w] = @ + 1]
  /\ Goto(w, "get")
  /\ UNCHANGED <<global_queue_, queue_, buffer_, pending_tasks_, stop_, main, round>>

\* The task runs; a complex worker only remembers that it did.
Execute(w) ==
  /\ pc[w] = "run"
  /\ executed' = [executed EXCEPT ![hand[w]] = @ + 1]
  /\ hand' = [hand EXCEPT ![w] = 0]
  /\ task_did_' = [task_did_ EXCEPT ![w] = @ + 1]
  /\ Goto(w, IF use_complex_worker THEN "get" ELSE "count")
  /\ UNCHANGED <<global_queue_, queue_, buffer_, pending_tasks_, stop_, main, round>>

\* mutant: the batch is not limited to what the buffer holds
FillBuffer_All(w) ==
  /\ pc[w] = "fill"
  /\ buffer_' = [buffer_ EXCEPT ![w] = @ \o queue_[w]]
  /\ queue_' = [queue_ EXCEPT ![w] = <<>>]
  /\ Goto(w, IF queue_[w] # <<>> THEN "get" ELSE "fetch")
  /\ UNCHANGED <<global_queue_, task_did_, hand, pending_tasks_, stop_, main, executed, round>>

\* From the own queue to the buffer, which is empty here.
FillBuffer(w) ==
  LET cnt == Min({Len(queue_[w]), fillBatch})
  IN /\ pc[w] = "fill"
     /\ buffer_' = [buffer_ EXCEPT ![w] = @ \o SubSeq(queue_[w], 1, cnt)]
     /\ queue_' = [queue_ EXCEPT ![w] = SubSeq(@, cnt + 1, Len(@))]
     /\ Goto(w, IF cnt > 0 THEN "get" ELSE "fetch")
     /\ UNCHANGED <<global_queue_, task_did_, hand, pending_tasks_, stop_, main, executed, round>>

\* How much room TryFetchGlobal and TryStealFrom see in the own queue.
Room(w) == kQueueSize_ - Len(queue_[w])

TryFetchGlobal(w) ==
  LET cnt == Min({Len(global_queue_) \div num_threads_ + 1, Room(w), batchSize})
  IN /\ pc[w] = "fetch"
     /\ \/ /\ MtxFree /\ global_queue_ # <<>> /\ cnt > 0
           /\ queue_' = [queue_ EXCEPT ![w] = @ \o SubSeq(global_queue_, 1, cnt)]
           /\ global_queue_' = SubSeq(global_queue_, cnt + 1, Len(global_queue_))
           /\ Goto(w, "get")
        \/ Goto(w, "steal") /\ UNCHANGED <<queue_, global_queue_>>
     /\ UNCHANGED <<buffer_, task_did_, hand, pending_tasks_, stop_, main, executed, round>>

\* mutant: the thief copies the tasks but does not advance the victim's head
TryStealAny_Copy(w) ==
  /\ pc[w] = "steal"
  /\ \/ \E v \in Workers \ {w} :
          LET cnt == Min({(Len(queue_[v]) + 1) \div 2, Room(w), batchSize})
          IN /\ cnt > 0
             /\ queue_' = [queue_ EXCEPT ![w] = @ \o SubSeq(queue_[v], 1, cnt)]
             /\ Goto(w, "get")
     \/ Goto(w, "checkStop") /\ UNCHANGED queue_
  /\ UNCHANGED <<global_queue_, buffer_, task_did_, hand, pending_tasks_, stop_, main, executed, round>>

\* Half of some victim's queue; random choice may miss every victim that has tasks.
\* A worker that steals has an empty queue, so it never is its own victim.
TryStealAny(w) ==
  /\ pc[w] = "steal"
  /\ \/ \E v \in Workers \ {w} :
          LET cnt == Min({(Len(queue_[v]) + 1) \div 2, Room(w), batchSize})
          IN /\ cnt > 0
             /\ queue_' = [queue_ EXCEPT ![w] = @ \o SubSeq(queue_[v], 1, cnt),
                                         ![v] = SubSeq(@, cnt + 1, Len(@))]
             /\ Goto(w, "get")
     \/ Goto(w, "checkStop") /\ UNCHANGED queue_
  /\ UNCHANGED <<global_queue_, buffer_, task_did_, hand, pending_tasks_, stop_, main, executed, round>>

CheckStop(w) ==
  /\ pc[w] = "checkStop"
  /\ Goto(w, IF stop_ THEN "exit" ELSE IF use_complex_worker THEN "count" ELSE "get")
  /\ UNCHANGED <<global_queue_, local, pending_tasks_, stop_, main, executed, round>>

\* mutant: a batch counts for one task
CountOff_Partial(w) ==
  /\ pc[w] = "count"
  /\ pending_tasks_' = pending_tasks_ - (IF task_did_[w] > 1 THEN 1 ELSE task_did_[w])
  /\ task_did_' = [task_did_ EXCEPT ![w] = 0]
  /\ Goto(w, "get")
  /\ UNCHANGED <<global_queue_, queue_, buffer_, hand, stop_, main, executed, round>>

\* mutant: the batch is not reset after it was counted off
CountOff_Again(w) ==
  /\ pc[w] = "count"
  /\ pending_tasks_' = pending_tasks_ - task_did_[w]
  /\ Goto(w, IF task_did_[w] > 0 /\ pending_tasks_ = task_did_[w] THEN "notify" ELSE "get")
  /\ UNCHANGED <<global_queue_, queue_, buffer_, task_did_, hand, stop_, main, executed, round>>

\* pending_tasks_.fetch_sub: the worker that brings it to 0 notifies.
CountOff(w) ==
  /\ pc[w] = "count"
  /\ pending_tasks_' = pending_tasks_ - task_did_[w]
  /\ task_did_' = [task_did_ EXCEPT ![w] = 0]
  /\ Goto(w, IF task_did_[w] > 0 /\ pending_tasks_ = task_did_[w] THEN "notify" ELSE "get")
  /\ UNCHANGED <<global_queue_, queue_, buffer_, hand, stop_, main, executed, round>>

\* notify_one, called without ctx.mtx_: lost unless Main already sleeps.
Notify(w) ==
  /\ pc[w] = "notify"
  /\ main' = IF main = "asleep" THEN "check" ELSE main
  /\ Goto(w, "get")
  /\ UNCHANGED <<global_queue_, local, pending_tasks_, stop_, executed, round>>

Run(w) ==
  \/ GetNextTask(w)
  \/ TakeGlobal(w)
  \/ Execute(w)
  \/ FillBuffer(w)
  \/ TryFetchGlobal(w)
  \/ TryStealAny(w)
  \/ CheckStop(w)
  \/ CountOff(w)
  \/ Notify(w)
-----------------------------------------------------------------------------
(* RunTasks and main. *)
rest == <<global_queue_, local, pc, pending_tasks_, executed, round>>

\* The predicate of task_done_.wait, with the mutex held.
CheckDone_Skipped ==  \* mutant: any wake-up ends the wait
  /\ main = "check"
  /\ main' = "stop"
  /\ UNCHANGED <<rest, stop_>>

CheckDone ==
  /\ main = "check"
  /\ main' = IF pending_tasks_ = 0 THEN "stop" ELSE "checked"
  /\ UNCHANGED <<rest, stop_>>

\* wait releases the mutex and blocks.
Sleep == main = "checked" /\ main' = "asleep" /\ UNCHANGED <<rest, stop_>>

\* A condition variable may wake up by itself; it need not.
SpuriousWakeup == main = "asleep" /\ main' = "check" /\ UNCHANGED <<rest, stop_>>

Stop == main = "stop" /\ stop_' = TRUE /\ main' = "join" /\ UNCHANGED rest

Join ==
  /\ main = "join" /\ \A w \in Workers : pc[w] = "exit"
  /\ main' = "done"
  /\ UNCHANGED <<rest, stop_>>

\* The next iteration of main: everything is reset, MakeTask fills the queue and the
\* threads are started again.
NextRound ==
  /\ main = "done" /\ round < Rounds
  /\ round' = round + 1
  /\ stop_' = FALSE
  /\ global_queue_' = [k \in Tasks |-> k]
  /\ queue_' = [w \in Workers |-> <<>>] /\ buffer_' = [w \in Workers |-> <<>>]
  /\ task_did_' = [w \in Workers |-> 0] /\ hand' = [w \in Workers |-> 0]
  /\ pc' = [w \in Workers |-> "get"]
  /\ pending_tasks_' = TaskCount
  /\ executed' = [k \in Tasks |-> 0]
  /\ main' = "check"

RunTasks == CheckDone \/ Sleep \/ Stop \/ Join \/ NextRound

\* The variant is chosen at compile time.
Built(A) == A /\ UNCHANGED use_complex_worker

Next ==
  \/ \E w \in Workers : Built(Run(w))
  \/ Built(RunTasks)
  \/ Built(SpuriousWakeup)

Fetching(w) == pc[w] = "fetch" /\ TryFetchGlobal(w) /\ pc'[w] = "get"
Stealing(w) == pc[w] = "steal" /\ pc'[w] = "get"

\* Every thread runs, and of those that ask for ctx.mtx_ again and again, which is held
\* only for moments, some get it.
Spec ==
  /\ Init /\ [][Next]_vars
  /\ WF_vars(Built(RunTasks))
  /\ \A w \in Workers : WF_vars(Built(Run(w)))
  /\ SF_vars(Built(\E w \in Workers : TakeGlobal(w) \/ Fetching(w)))
-----------------------------------------------------------------------------
TypeOK ==
  /\ use_complex_worker \in BOOLEAN
  /\ global_queue_ \in Seq(Tasks)
  /\ queue_ \in [Workers -> Seq(Tasks)] /\ buffer_ \in [Workers -> Seq(Tasks)]
  /\ task_did_ \in [Workers -> 0 .. TaskCount]
  /\ hand \in [Workers -> 0 .. TaskCount]
  /\ pc \in [Workers -> {"get", "run", "fill", "fetch", "steal", "checkStop", "count",
                         "notify", "exit"}]
  /\ pending_tasks_ \in 0 .. TaskCount
  /\ stop_ \in BOOLEAN
  /\ main \in {"check", "checked", "asleep", "stop", "join", "done"}
  /\ executed \in [Tasks -> Nat]
  /\ round \in 1 .. Rounds

\* How often task k is in sequence s.
Copies(k, s) == Cardinality({i \in DOMAIN s : s[i] = k})

\* The number of places a task is in, over all queues, buffers and hands.
Places(k) ==
  Copies(k, global_queue_)
  + Cardinality({x \in Workers \X (1 .. TaskCount + kQueueSize_) :
                   x[2] \in DOMAIN queue_[x[1]] /\ queue_[x[1]][x[2]] = k})
  + Cardinality({x \in Workers \X (1 .. TaskCount + kMaxBufferSize_) :
                   x[2] \in DOMAIN buffer_[x[1]] /\ buffer_[x[1]][x[2]] = k})
  + Cardinality({w \in Workers : hand[w] = k})

\* Worker.cpp:22-26, 44-49, Worker.hpp:42-47: however the batches are fetched, stolen
\* and stolen back, a task is in one place or has run once, never both, never neither.
EachTaskOnce == \A k \in Tasks : Places(k) + executed[k] = 1

\* Worker.cpp:20, 41, Worker.hpp:41: no ring ever takes more tasks than it has slots.
RingsFit ==
  \A w \in Workers : Len(queue_[w]) <= kQueueSize_ /\ Len(buffer_[w]) <= kMaxBufferSize_

\* One pair for every task a worker has executed and not counted off.
HeldBack == {x \in Workers \X Tasks : x[2] <= task_did_[x[1]]}

\* Worker.cpp:89-95, 114: what has run and is still counted as pending is exactly what
\* the workers hold back in task_did_.
PendingExact ==
  pending_tasks_ = Cardinality({k \in Tasks : executed[k] = 0}) + Cardinality(HeldBack)

\* Main.cpp:35-41: the workers are told to stop only when every task of the round has
\* run, so a worker that leaves abandons nothing.
StopMeansDone == stop_ => \A k \in Tasks : executed[k] = 1

\* Worker.cpp:101-123: simple workers count off every task of every round.
AllDone == ~use_complex_worker => []<>(pending_tasks_ = 0)

\* Worker.cpp:31-64, 66-99: complex workers count off every task too, unless they go on
\* stealing from each other for ever, which only the random choice of victims prevents, or
\* main wakes up for ever just before their try_lock.
DoneOrStolen ==
  use_complex_worker =>
    \/ []<>(pending_tasks_ = 0)
    \/ []<><<\E w \in Workers : Stealing(w)>>_vars
    \/ []<><<Built(SpuriousWakeup)>>_vars

\* Main.cpp:51 "워밍업 1회 + 측정 10회" (one warm-up and ten measured rounds): every
\* round ends, so main gets through all of them.
AllRoundsRun == ~use_complex_worker => <>(main = "done" /\ round = Rounds)
=============================================================================
