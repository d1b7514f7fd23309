# Verification of server_study

TLA+ specifications of the IOCP game server (`src/Network`) and the task scheduler
(`src/Scheduler`), TLC models of small instances, and TLAPS proofs for all instances.

## The system

**Network/Server.** A pool of `Config::kPoolSize` sessions, each with a socket that is
reused from connection to connection, served by `hardware_concurrency` threads that wait
on one I/O completion port.

| Part | State | Operations | Works with |
| --- | --- | --- | --- |
| `SparseSet` | `sparse_` (position, generation, state per slot), `dense_`, `cursor_` | `Pop`, `Push`, `MoveToState`, `GetIndicesInState`, `IsValid`, `GetState` | called by `SparsePool`, the mutating ones under its mutex |
| `SparsePool`, `SharedPoolPtr`, `ObjectPool` | `refCount_` per slot, the objects | `Acquire`, `AddRef`, `ReleaseRef`, copy/assign/`Reset` | the last release runs the deleter, `Push` and `postReleaseFunc_` (= `Listener::PostAccept`) |
| `SessionManager` | the pool, `sessionPtrs_` | `CreateSession`, `ConnectSession`, `DisconnectSession`, `GetSession`, `Broadcast` | listener, sessions, packet handlers |
| `Listener` | `pendingAccepts_` | `PostAccept`, `RegisterAccept`, `HandleAccept`, `DecrementPendingAccepts` | called by main, by workers, by releases |
| `Session`, `OverlappedEx` | three OVERLAPPEDs with a session pointer each, ring positions, `isSending_`, `handle_`, `listener_` | `Connect`, `RegisterRead`, `OnRead`, `SendPacket`, `OnWrite`, `Disconnect`, `Clear` | driven by completions |
| `IocpCore` | the port, the threads | `WorkerThread`, `HandleError`, `Dispatch` | all of the above |
| `PacketHandler`, `Protocol`, `MagicBuffer` | handler table, packet layouts, doubly mapped memory | `Execute`, the two handlers | `SessionManager::Broadcast` |

**Scheduler.** `Main.cpp` fills a global queue and starts workers. Simple workers take one
task at a time; complex workers fetch batches to a ring of their own, refill a private
buffer from it and steal from each other. The last to finish notifies main through a
condition variable. `Legacy/` is an earlier copy, `WorkStealing.cpp` an independent first
version.

What is hard here: any worker may handle any completion, so one session's accept, read,
write and disconnect run on several threads at once; reference counts decide when a slot is
reused; the pump that keeps accepts outstanding is entered from three places, itself
included; completions race the code that posted them; Winsock calls fail at once or later;
and the scheduler moves tasks under try-locks and sleeps on a condition variable that is
notified without the mutex. `PROJECT.json` lists these hazards with their lines.

## Modules

| Module | Models | Checked by |
| --- | --- | --- |
| `SlotTable` | what `SparseSet` promises a caller with the mutex: slots with a state and a generation, which calls are refused, what is answered | refinement |
| `SparseSet` | the calls of `SparseSet.hpp` that are made under the mutex | `MCSparseSet`, `SparseSetProofs` |
| `SparseScan` | `SparseSet` and `GetIndicesInState`, which is called without it | `MCSparseSet`, `SparseSetProofs` |
| `Listener` | the accept pump, with the pool and the connection's life reduced to what the pump sees | `MCListener`, `ListenerProofs` |
| `Session` | one session across its lives, with the worker loop, the reference counts and the table | `MCSession`, `SessionProofs` |
| `Broadcast` | `Session` and the threads that broadcast to it | `MCBroadcast`, `BroadcastProofs` |
| `MagicBuffer` | memory that is mapped twice in a row | through `Relay` |
| `ByteQueue` | what a ring promises: a bounded first-in first-out queue of bytes | refinement |
| `ReadStream` | the read ring, `RegisterRead` and the framing of `OnRead` | through `Relay` |
| `WriteStream` | the write ring, `SendPacket` and `OnWrite` | through `Relay` |
| `Relay` | `PacketHandler` between one session's `ReadStream` and another's `WriteStream` | `MCRelay`, `RelayProofs` |
| `Scheduler` | both worker variants and main | `MCScheduler`, `SchedulerProofs` |
| `WorkStealing` | `WorkStealing.cpp` | `MCWorkStealing`, `WorkStealingProofs` |
| `QueueLemmas` | facts about the schedulers' queues: cutting, adding, popping at either end | by both scheduler proofs |

Names are the source's where TLA+ allows; `pc` records where a thread is between two steps.
A step is the code between two points at which another thread can see or change shared
state; what runs under one mutex is one step.

**SparseSet.** The variables are the class's arrays. `op` is the call that has the pool's
mutex: `Pop`, `Push` and `MoveToState` begin it, `IncrementState`/`DecrementState` are one
step of `MoveToState`'s loops each, and `Return` ends it. The walk is split because
`GetState` and `GetIndicesInState` are called without the mutex and see the table between
two steps. `ret` is what the last call answered. `SlotTable` has the same calls without the
arrays: `Pop` hands out an idle slot, `Move` and `Push` need a valid handle, and `Refusals`
says when a call may be turned down, so a table that moves a slot it should not, hands out
a slot in use or keeps one back is not one of its behaviours.

**SparseScan** adds a reader in `GetIndicesInState`, as `Broadcast` calls it: the two reads of
`reserve` (in either order), the first value of `i`, each test of the loop and each read of
`dense_` are steps of their own, and threads with the mutex go on between them. Inside one
`IncrementState` or `DecrementState` the source stores several words, unordered for this
reader; while such a step is due, a read of what it is about to change returns the old or
the new value (`CursorRead`, `DenseRead`). `left` records that some slot has been leaving the
scanned state since the scan began. `ScanExact` is what the scan promises as long as none
has: slots that enter from below appear before the cursor it started at, those from above
behind its end, and neither disturbs what lies between.

**Listener.** One action per line of `PostAccept` that touches shared state: `Load`, `Cas`,
`Create`, `Undo`, `RegisterAccept`, `SetListener`, and `Dtor` for the local pointer. A
release that frees a session goes back to `Load`; `nest` counts the calls of `PostAccept`
suspended in such a release. `TakeAccept`, `Dec`, `HandleAccept`, `TakeClose` and `Drop`
are the worker loop as far as the pump notices it. `AcceptEx` may fail at once: since its
`BOOL` is compared with `SOCKET_ERROR`, `RegisterAccept` returns true all the same and the
session is `lost`, still counted. A null `listener_` stops the model (`crashed`).

**Session.** One slot of the pool. `table`, `ovPtr` and `locals` are the places where a
`SharedPoolPtr` can be; a pointer is the generation of the handle it holds, and it counts
only while that generation is current, as `AddRef`/`ReleaseRef` check. `Take` is
`GetQueuedCompletionStatus` and the copy of the pointer; `HandleError` and `Dispatch` take
over the OVERLAPPED's reference; `Connect`, `SendWelcome`, `RegisterRead`, `OnRead`,
`OnWrite`, `Disconnect`, `DisconnectEx` and `Clear` follow `Session.cpp`; `ReleaseRef` and
`Push` are the end of a life. The kernel and the peer (marked external) complete what was
posted; `up` tells whether the socket is connected, for Winsock calls on an unconnected
socket fail at once. How many bytes are in the buffers is left open: `OnWrite` may find
everything sent or not, `RegisterRead` may find the buffer full.

**Broadcast** extends `Session` by threads that handle packets of other sessions.
`GetIndices` is the unlocked look at the pool; it may list the slot in any state, for the
loop can be overtaken by swaps (`SparseScan`) and slots pass through `kConnected`. `Check`
and `Get` are the two tests of the table's pointer, `Lock` to `WSASendFails` are
`SendPacket` and `RegisterWriteInternal`, between which the session's own threads go on
unless they need `writeMtx_` (`Unlocked`). The sender holds no reference, so the session may
be freed under it; the history variable `outlived` records that this has happened. From then
on the code has no promise to keep: the invariants of the run speak of everything before.
`abandoned` records that a sender's `WSASend` failed and `isSending_` has not been cleared
since, which nobody repairs: `BroadcastGate` speaks of the time before that too, and
`WelcomeGoesOut` of what comes after.

**ReadStream, WriteStream, Relay.** A byte is its offset in the stream it belongs to, so a
ring that mixes up, loses or overwrites bytes shows it. A header is recognised by the
bytes at the read position. `OnRead(n)` is the completion of `WSARecv` with any number of
bytes, `Execute`, `InvalidSize` and `RegisterRead` are the turns and the ends of `OnRead`'s loop.
`SendPacket` and `OnWrite(n)` hold `writeMtx_` and are one step each; the `WSASend` in them is
taken by the kernel or refused at once (`post`), and a refused one leaves the bytes in the
ring and `isSending_` set. `Relay` joins them: a
packet that is complete is turned into one with the sender's handle and put into the other
ring in the same step, as `Execute` calls the handler, which calls `Broadcast`, which ignores
what `SendPacket` returns. `SendWelcome` is the worker that accepted the receiver: its packet
goes into the same ring before, between or after the others, with the size the source gives
it, which leaves out the handle; if `SendPacket` returns false the session is told to
disconnect. Pointers and reference counts are `Session`'s and `Broadcast`'s.

**WorkStealing.** As in `Scheduler` a ring is a sequence, and what is done under a mutex is
one step. A stolen task is in the thief's hand between `Steal` and `Keep`. `Grow` and
`Spawn` are the two ends of `push_back`; a worker that reads the vector between them finds
the old one or memory that is gone, and the latter (`undefined`) stops the model.

**Scheduler.** The rings are sequences; overwriting an entry is exactly exceeding the
capacity. `TryFetchGlobal` and `TryStealAny` may come back empty at any time, since
`try_lock` may fail, the victim is random and the first look at its queue is unlocked.
`CheckDone` and `Sleep` split `wait` so that a notification can fall between. The variant
is chosen in `Init`.

## Runs

| Run | Bounds | Shows |
| --- | --- | --- |
| `sparse_set` | 3 slots, 3 states, generations mod 2, one reader scanning the middle state | `Consistent`, `ScanExact`, `PushRetiresHandle`, `CallsReturn`, refinement of `SlotTable` |
| `listener` | main + 1 worker, 3 sessions, `kAcceptCount` 2, nesting 1, AcceptEx may fail | `AcceptAccounting`, `AcceptBound`, `RefillBound`, `NeverDeaf` |
| `listener_up` | same, AcceptEx does not fail | **violated**: a null `listener_` is dereferenced |
| `session` | 2 workers, 2 lives, connections fail, accept and disconnect do not | `IoHoldsReference`, `SessionReturns` |
| `session_faults` | 3 workers, 1 sender, 2 lives, everything may fail | `BroadcastRefExact`, `BroadcastFreedIsUnused`, `BroadcastOneOwner`, `BroadcastAsserts`, `BroadcastGate` |
| `session_leak` | 2 workers, 1 life, accept may fail | **violated**: the session never returns |
| `broadcast_welcome` | 1 worker, 1 sender, 2 lives | **violated**: a client's welcome packet is never posted |
| `relay` | rings of 6 bytes, headers of 2, 3 packets of 4 kinds, one welcome from another thread, posts may be refused | `Framing`, `RingsInside`, `RelayedWhole`, `NothingStranded`, `ReadIsQueue`, `WriteIsQueue` |
| `relay_size` | same rings, 1 chat packet of any size | **violated**: the size field wraps |
| `scheduler` | 3 workers, 3 tasks, rings of 2 and 1, 2 rounds | `EachTaskOnce`, `RingsFit`, `PendingExact`, `StopMeansDone`, `AllDone`, `DoneOrStolen` |
| `scheduler_wakeup` | 2 workers, 2 tasks, 1 round | **violated**: main sleeps through the last notification |
| `work_stealing` | 3 workers, 5 tasks, rings of 4, 2 iterations | `EachTaskOnce`, `RingsFit`, `PendingExact`, `StopMeansDone`, `DoneOrStolen` |

*Why the bounds are enough.* Three states give the scanned one a neighbour on either side,
and walks of two steps that only pass through it (the session has four, `kConnected` in
between); three slots give a region a first, a middle and a last element; two generations
make the counter wrap at once. The pump needs two threads in it, as many accepts as threads
for `RefillBound` to say anything, and more sessions than `kAcceptCount` for `AcceptBound`;
more threads are left to the proofs. A session has at most three completions at a time
(accept or read, write, disconnect), hence three workers, and two lives let something of the
first meet the second. The exploration of `session_faults` ends where a sender outlives the
session (`UntilOutlived`). The rings of `relay` keep the code's relations: the size field
has as many values as the ring has bytes (2^16 and 65536), a header is shorter than the
ring, and the packets are a bad size, the shortest, and the longest there are, so that the
positions wrap within two packets and the write ring gets full. In the schedulers the rings
are smaller than the number of tasks, so that limits are met, and the second round starts
from what the first left. `MaxNest`, `MaxLives`, `MaxPackets`, `Rounds` and `iterations` are
the only bounds on behaviour. The workers of `session_faults` are interchangeable and
declared so; no run with a liveness property uses symmetry.

*Deadlock* is not checked in `Listener` (no client need come), `Session` and `Broadcast` (lives
are used up), `Relay` (the client stops sending) and the schedulers (the rounds end).

*Fairness.* A thread that can run does (`WF` per thread). A call that has the pool's mutex
ends. The kernel completes a `DisconnectEx` it accepted and, once the session disconnects,
the reads and writes still outstanding; it owes nothing else, and clients owe nothing: `Relay`
has no fairness, since a client may stop reading and a refused post is not repeated. In
`Scheduler` some of the workers that keep asking for `ctx.mtx_`, which
is held only for moments, get it (one `SF` for all of them); in `WorkStealing` each worker
that keeps waiting for `g_m`, with a blocking lock, gets it some time. Nothing is assumed
about the random choice of victims: complex workers and those of `WorkStealing` may steal
one task from each other for ever, and `DoneOrStolen` says that this is the only way not
to finish a round (apart, in `Scheduler`, from a condition variable that wakes up main all
the time, so that it holds the mutex whenever a worker tries it).

### What the violated runs say

* `Listener.cpp:107-115`: the accept is posted before `SetListener`. On the first use of a
  session a worker can dereference a null `listener_` at `IocpCore.cpp:160`.
* `Session.cpp:266`: `DisconnectEx` returns `FALSE` on failure, not `SOCKET_ERROR`. After a
  failed accept it fails at once on the unconnected socket, nobody notices, and
  `disconnectOv_` keeps the session's last reference.
* `Worker.cpp:114-116`, `Main.cpp:36-39`: `notify_one` without the mutex is lost when it
  falls between the evaluation of the predicate and the sleep. `WorkStealing.cpp:104`
  notifies in the same way.
* `SessionManager.cpp:88`: the list of connected sessions is made without the mutex and used
  by index. A sender whose list is old or wrong meets a client that is still `kPending`, as
  the slot's next client or through a scan that was overtaken; `WSASend` fails on its
  socket, `isSending_` stays set, and every later packet, the welcome first, is queued
  behind a write that does not exist.
* `PacketHandler.cpp:41`: a chat packet whose size is within 8 bytes of 65536 is relayed
  with a size field that has wrapped; 65528 becomes 0, and a write without a byte
  disconnects the receiver.

Three more findings are about what passing runs check:

* `SparseSet.hpp:24` describes `Pop(state)` as returning a handle *from* `state`, and none when
  `state` is empty; the code takes a slot from idle, moves it *to* `state`, and refuses only
  when none is idle. `SlotTable!Pop` says the latter, which is what the callers rely on.
* `SparseSet.hpp:162-165`: `ScanExact` needs its hypothesis. When a slot leaves the state during
  the scan, another is swapped into its place and may be missed or listed twice, so that a
  client misses a broadcast or gets it twice; and the two cursors in `reserve` can be read so
  that their difference wraps. With the hypothesis dropped TLC finds all three.
* `Session.cpp:215-216`: the size of the welcome packet leaves out the eight bytes of
  `sessionHandle`, which is never set either. The client gets a handle of 0 and a text
  without its last eight bytes. `RelayedWhole` therefore says of the welcome only that what
  follows starts where its size field ends.

`IoHoldsReference` is checked without failing disconnects. When a `DisconnectEx` completes
with an error, `HandleError` clears the table while the socket is still connected; a read
that another worker then posts carries no reference. This is the one place where the
invariant depends on the fault model.

`Broadcast` does not look at what `SendPacket` returns. A receiver that is slow loses packets
(`SendFails`), which `RelayedWhole` allows: what it does get is whole and in order. A sender's
failed post leaves `isSending_` set without disconnecting the session: the packet, and all that
come after it, wait in the ring until the read side notices that the client is gone. There
is therefore no liveness property of the write side. What holds is `NothingStranded`, as long
as no post was refused, and `BroadcastGate`, as long as no sender's was.

## Proofs

TLAPS checks these for every value of the constants that the named assumptions allow.

**SparseSetProofs** (`N`, `stateCount` positive, `GenMod` at least 2). The inductive
invariant is `TypeOK`, `Consistent` and `OpHandleValid` (the handle of the call in progress
stays valid; without it nothing says the slot being moved exists). The core is that a swap
of two positions keeps `dense_` and `where_` inverse, and that moving the cursor past the
swapped position moves exactly that slot to the neighbouring region; one lemma per action
applies it. From the invariant follow `TypeCorrect`, `ConsistentAlways`, `PushRetires` and
`Refinement`: with a call taking effect when it gets the mutex, every step is a step of
`SlotTable` or a stutter. For the reader the invariant is extended by what the scan knows
while nothing leaves the state: the slots that were there lie between the cursors, those
before `i` have been listed once and those from `i` on not yet, and the cursor that `reserve`
has read is not past the other one. A step of another thread keeps that because it swaps two
positions outside the region and can only widen it; a read keeps it whichever value it
returns. Hence `ScanTypes` and `ScanAlwaysExact`; `ScanIsSilent` says that the
reader changes nothing, so what is proved of `Spec` holds of `SSpec`.

**ListenerProofs** (finite sets of threads and sessions, any `kAcceptCount`, `MaxNest`).
`AcceptAccounting` is not inductive alone: that `Dec` takes exactly one session out of the
count needs to know that no two workers serve the same completion. `Ownership` says what
each thread may assume of the sessions it refers to (`Mine`) and that two threads do not
prepare or answer the same one (`Apart`). `Refilled` strengthens `RefillBound` to states in
which threads are still about to return a reservation: if nobody will look at the count
again, the count less those reservations is within `|Threads| - 1` of full. A thread leaves
the pump only when it saw the count full, when fewer than all threads can be returning
reservations, or when it found no session idle. Hence `TypeCorrect` (so `pendingAccepts_`,
an unsigned counter, never wraps), `AccountingAlways`, `BoundAlways` and `RefillAlways`.

**SessionProofs** (finite sets of workers, any `MaxLives`, any `Faults`). `RefExact` counts
the pointers that exist, and to know that `ReleaseRef` never goes below zero, or that the
one who gets to zero is alone, one must know where they are. `LocalsFit` and `TaskFits` give
for each `pc` what its thread holds, `Pointers` says that no pointer of an earlier life
survives, `Unused` that a session on its way to the pool has nothing left, `PushOnce` that
it is pushed once. `Apart` and `Sending` are the ownership of the OVERLAPPEDs;
`LeavingFits`, `AcceptAlone` and `Down` tie the state, the table and the socket together:
the table lets go only of a socket that is down, which is why `GetSession` in `RegisterRead`
finds it. With these, `TypeCorrect`, `Counted`, `FreedUnused` and `Owned`. `Gated`, what the
session's own steps make of `isSending_`, is kept relative to them and used by
`BroadcastProofs`. The one exception is a failed `DisconnectEx`, which clears the table of a
session that is `Leaked`: `Held` is therefore stated for fault sets without it.

**BroadcastProofs** (finite set of senders). The invariant is that of `SessionProofs` with
`SendersFit`, `PostingAlone` (the sender that has `writeMtx_` has the write to itself) and
`WsaSendHeld` (a write about to be posted has its pointer, or will fail), all of it until a
sender outlives the session. Each of the session's own steps keeps `Inv` by the lemmas of
`SessionProofs`; what is new is that it leaves the senders' part alone. Result:
`BroadcastCounted`, `BroadcastFreed`, `BroadcastOwned`, `BroadcastAsserted`, and from these with
`Gated` as the additional inductive part, `BroadcastGated`.

**SchedulerProofs** and **WorkStealingProofs** (any number of workers, tasks and rounds, any
ring and batch sizes with `fillBatch <= kMaxBufferSize_`). `EachTaskOnce` counts the places
of a task. The proofs use it without counting: queues have no doubles (`NoDoubles`), two
places never have a task in common (`OnePlace`), and a task has run once exactly if it is
nowhere (`RunOnce`). `LabelsFit` says what a worker has at each `pc`; in `WorkStealing` it
carries the reason why `push` needs no check, that only a worker whose own queue is empty
brings in tasks, at most half a ring of them. `Ends`/`MainFits` and `PendingExact` then give
`StopMeansDone`: with nothing pending, no task is unrun. The lemmas on queues are in
`QueueLemmas`. The attempt to prove `TasksOnce` found the boundary of one worker:
`size / num_threads_ + 1` (`Worker.cpp:20`) is then more than the global queue holds, and
`pop_front` is called on an empty `deque`. The theorems about `Scheduler` are stated for
`Defined`: the complex variant has at least two workers. `WorkStealing.cpp:85-89` tests for
this and needs no such hypothesis.

**RelayProofs** (any ring size, header, packets and pieces; the size field has at most as many
values as the ring has bytes and `S2C_MOVE` fits in it, as 2^16, 65536 and 20 do). `Address`
and `HoldsMore` are the arithmetic of the double mapping: within one ring's length,
different addresses are different cells, so a store behind the data does not touch it, and
pulling both positions back by `size_` changes no cell. The invariant says that the positions
agree with what was received, parsed, queued and transmitted (`ReadPositions`,
`WritePositions`), that the cells between them are those bytes of the stream (`ReadHolds`,
`WriteHolds`), that parsing stands at a packet's begin (`Laid`, `Between`, `LeftBehind`) and
that the accepted packets follow one another in the sender's order (`Chained`, `InOrder`,
`Faithful`). `RingsInside` needs all of the first two: the read ring does not fill up because
an incomplete packet is shorter than the size field's range, hence than the ring. From it
`RelayTyped`, `Framed`, `StaysInside` and the refinements `ReadRefines` and `WriteRefines`:
every step of a ring is one of `ByteQueue` or a stutter. `Whole` and `Unstranded` have a
hypothesis, `Honest`: a `C2S_MOVE` has both coordinates and a chat packet plus the handle fits
in 16 bits. The handlers check neither; `relay_size` shows what happens otherwise. Without
it `Unstranded` fails as well: a size that has wrapped to 0 posts a write without a byte. Its
inductive form is `Carried`: nothing waits unless `isSending_` is set, a session that is sending and
not told to disconnect has made a post, and an outstanding write has at least one byte.

Each of these invariants was first checked by TLC on the constants of the component's run.

Every invariant and refinement that a passing run checks is thus proved, within the
hypotheses named. Only model-checked are the liveness properties (`CallsReturn`, `NeverDeaf`,
`SessionReturns`, `AllDone`, `DoneOrStolen`), which the prover does not handle, and
the five violated runs.

## Not modelled

`ObjectPool` (storage); the operating system calls of `MagicBuffer`; start-up and shutdown of
the service (`Main.cpp` destroys it while I/O is outstanding, and the listener goes before
the workers are joined); packet ids outside the handler table and moves shorter than
`C2S_MOVE`, for which the code reads memory it should not; logging; the legacy echo servers and
clients, which share no state; the tests. Memory orders are taken as sequentially
consistent, except where `SparseScan` lets a reader see one step's stores in any order.
`AddRef`/`ReleaseRef` test the handle and change the counter in one step, so the window between
the two is not in the model: where the caller holds a reference nothing can come between,
and where it does not, in a broadcast, the invariants stop at the moment the session is
freed. Two hazards are named by the models and excluded rather than caught: tasks stolen
back and forth for ever (the escape of `DoneOrStolen`) and a read of the vector's freed memory
in `WorkStealing` (`undefined`).

## Plan

The models are complete as far as the above, and their safety properties are proved. What
could still be proved: action properties of `Session` (`refCount_` of a free slot changes only
by `Acquire`, the state goes round in one direction), and `HandleAdded` under `Honest` as the
positive counterpart of `relay_size`.
