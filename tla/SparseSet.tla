------------------------------ MODULE SparseSet ------------------------------
(***************************************************************************)
(* Network/Common/Pool/SparseSet.hpp: N slots partitioned by state.        *)
(*                                                                         *)
(* dense_ is a permutation of the slots in which the slots of one state    *)
(* are contiguous; cursor_[s] is where state s begins.  A handle is a slot *)
(* index with the generation the slot had when the handle was made.        *)
(*                                                                         *)
(* SparsePool calls Pop, Push and MoveToState with its mutex held, so one  *)
(* call is in progress at a time (op).  The walk of MoveToState from state *)
(* to state is one step per IncrementState/DecrementState, because         *)
(* GetState, IsValid and GetIndicesInState are called without the mutex    *)
(* and see the table between those steps.  GetIndicesInState, a loop that  *)
(* other threads' swaps can overtake, is module SparseScan.                *)
(***************************************************************************)
EXTENDS Integers, Sequences

CONSTANTS
  N,           \* number of slots (Config::kPoolSize)
  stateCount,  \* number of states (SessionState::kCnt)
  GenMod       \* 2^32: generation_ is a uint32_t

ASSUME NAssumption == N \in Nat \ {0}
ASSUME StateAssumption == stateCount \in Nat \ {0}
ASSUME GenAssumption == GenMod \in Nat \ {0, 1}

VARIABLES
  where_,       \* sparse_[w].where_: position of slot w in dense_
  generation_,  \* sparse_[w].generation_
  state_,       \* sparse_[w].state_
  dense_,       \* slots, grouped by state
  cursor_,      \* cursor_[s]: first position of state s
  op,           \* the call in progress under the mutex
  ret           \* the answer of the last call, until the next one begins

vars == <<where_, generation_, state_, dense_, cursor_, op, ret>>

Who == 0 .. N-1
State == 0 .. stateCount-1
Gen == 0 .. GenMod-1

\* who = N stands for any index at or past N.
Handle == [gen : Gen, who : 0 .. N]
kInvalidHandle == [gen |-> GenMod-1, who |-> N]

IsValid(h) == h.who < N /\ generation_[h.who] = h.gen
GetHandle(who) == [gen |-> generation_[who], who |-> who]

NoOp == [kind |-> "none", h |-> kInvalidHandle, target |-> 0]
OpKind == {"none", "pop", "push", "move"}
NoRet == [kind |-> "none", h |-> kInvalidHandle, ok |-> TRUE]

\* Where state s begins and ends in dense_, and the successor of a generation.
FirstOf(s) == cursor_[s]
LastOf(s) == cursor_[s+1] - 1
NextGen_Same(g) == g      \* mutant: Push forgets generation_++
NextGen_Wide(g) == g + 1  \* mutant: a counter wider than its half of the handle
NextGen(g) == (g + 1) % GenMod
-----------------------------------------------------------------------------
Init ==
  /\ where_ = [w \in Who |-> w]
  /\ generation_ = [w \in Who |-> 0]
  /\ state_ = [w \in Who |-> 0]
  /\ dense_ = [p \in Who |-> p]
  /\ cursor_ = [s \in 0 .. stateCount |-> IF s = 0 THEN 0 ELSE N]
  /\ op = NoOp
  /\ ret = NoRet

table == <<where_, generation_, state_, dense_, cursor_>>

\* The early returns; "range" is an argument out of range, whatever the call.
Fail(kind) ==
  /\ ret' = [kind |-> kind, h |-> kInvalidHandle, ok |-> FALSE]
  /\ UNCHANGED <<table, op>>

Begin(kind, h, target) ==
  /\ op' = [kind |-> kind, h |-> h, target |-> target]
  /\ ret' = NoRet
  /\ UNCHANGED table

NoneIdle_Early == cursor_[0] + 1 >= cursor_[1]  \* mutant: keeps a slot back
NoneIdle == cursor_[0] = cursor_[1]

\* s = stateCount stands for any argument out of range.
Pop(s) ==
  /\ op.kind = "none"
  /\ IF s >= stateCount THEN Fail("range")
     ELSE IF NoneIdle THEN Fail("pop")
     ELSE Begin("pop", GetHandle(dense_[cursor_[0]]), s)

Push(h) ==
  /\ op.kind = "none"
  /\ IF ~IsValid(h) THEN Fail("push") ELSE Begin("push", h, 0)

MoveToState(h, newState) ==
  /\ op.kind = "none"
  /\ IF newState >= stateCount THEN Fail("range")
     ELSE IF ~IsValid(h) THEN Fail("move")
     ELSE Begin("move", h, newState)

\* mutant: only the moved slot learns its new position
SwapDense_OneSided(p, q) ==
  /\ dense_' = [dense_ EXCEPT ![p] = dense_[q], ![q] = dense_[p]]
  /\ where_' = [where_ EXCEPT ![dense_[p]] = q]

\* The slot at position p trades places with the one at position q.
SwapDense(p, q) ==
  /\ dense_' = [dense_ EXCEPT ![p] = dense_[q], ![q] = dense_[p]]
  /\ where_' = [where_ EXCEPT ![dense_[q]] = p, ![dense_[p]] = q]

\* mutant: returns true before anything is moved
IncrementState_Stuck ==
  op.kind # "none" /\ state_[op.h.who] < op.target /\ UNCHANGED vars

IncrementState ==
  LET who == op.h.who
      nextState == state_[who] + 1
      swapWith == LastOf(state_[who])
  IN /\ op.kind # "none" /\ state_[who] < op.target
     /\ SwapDense(where_[who], swapWith)
     /\ cursor_' = [cursor_ EXCEPT ![nextState] = @ - 1]
     /\ state_' = [state_ EXCEPT ![who] = nextState]
     /\ UNCHANGED <<generation_, op, ret>>

DecrementState ==
  LET who == op.h.who
      currentState == state_[who]
      swapWith == FirstOf(currentState)
  IN /\ op.kind # "none" /\ state_[who] > op.target
     /\ SwapDense(where_[who], swapWith)
     /\ cursor_' = [cursor_ EXCEPT ![currentState] = @ + 1]
     /\ state_' = [state_ EXCEPT ![who] = currentState - 1]
     /\ UNCHANGED <<generation_, op, ret>>

\* Only Pop's caller learns a handle; the others return true.
Answer ==
  [kind |-> op.kind, h |-> IF op.kind = "pop" THEN op.h ELSE kInvalidHandle, ok |-> TRUE]

\* The walk has arrived; Push bumps the generation.
Return ==
  /\ op.kind # "none" /\ state_[op.h.who] = op.target
  /\ generation_' = IF op.kind = "push"
                    THEN [generation_ EXCEPT ![op.h.who] = NextGen(@)]
                    ELSE generation_
  /\ ret' = Answer
  /\ op' = NoOp
  /\ UNCHANGED <<where_, state_, dense_, cursor_>>

Next ==
  \/ \E s \in 0 .. stateCount : Pop(s)
  \/ \E h \in Handle : Push(h)
  \/ \E h \in Handle, s \in 0 .. stateCount : MoveToState(h, s)
  \/ IncrementState
  \/ DecrementState
  \/ Return

\* A call that has the mutex runs to its end; nobody is obliged to call.
Spec == Init /\ [][Next]_vars /\ WF_vars(IncrementState \/ DecrementState \/ Return)
-----------------------------------------------------------------------------
TypeOK ==
  /\ where_ \in [Who -> Who]
  /\ generation_ \in [Who -> Gen]
  /\ state_ \in [Who -> State]
  /\ dense_ \in [Who -> Who]
  /\ cursor_ \in [0 .. stateCount -> 0 .. N]
  /\ op \in [kind : OpKind, h : Handle, target : State]
  /\ ret \in [kind : OpKind \union {"range"}, h : Handle, ok : BOOLEAN]

\* SparseSet.hpp:119-121, 142-144: after any number of swaps, also between the
\* steps of one walk, dense_ and sparse_[].where_ are inverse permutations.
Permutation ==
  /\ \A w \in Who : dense_[where_[w]] = w
  /\ \A p \in Who : where_[dense_[p]] = p

\* The cursors frame the whole array and never cross.
CursorsOrdered ==
  /\ cursor_[0] = 0 /\ cursor_[stateCount] = N
  /\ \A s, t \in 0 .. stateCount : s <= t => cursor_[s] <= cursor_[t]

\* SparseSet.hpp:44-45 "dense_[cursor_[state]]부터 dense_[cursor_[state + 1] - 1]
\* 까지 state에 있는 핸들들의 인덱스": the slots of a state are exactly the ones
\* between its cursors.
Regions ==
  \A w \in Who : /\ cursor_[state_[w]] <= where_[w]
                 /\ where_[w] < cursor_[state_[w] + 1]

\* The handle a call works on stays valid until the call returns.
OpHandleValid == op.kind # "none" => IsValid(op.h)

Consistent == Permutation /\ CursorsOrdered /\ Regions

\* SparseSet.hpp:82: once Push has returned, the handle it was given is stale,
\* and no handle of another slot has become stale or valid with it.
PushRetiresHandle ==
  [][op.kind = "push" /\ op'.kind = "none"
        => \A h \in Handle : /\ h = op.h => ~IsValid(h)'
                             /\ h.who # op.h.who => IsValid(h)' = IsValid(h)]_vars

\* MoveToState's two loops end, so the mutex is released.
CallsReturn == (op.kind # "none") ~> (op.kind = "none")

\* Refinement: a call takes effect for SlotTable when it gets the mutex.
AbsState == [w \in Who |-> IF op.kind # "none" /\ op.h.who = w THEN op.target ELSE state_[w]]
AbsGen == [w \in Who |-> IF op.kind = "push" /\ op.h.who = w
                         THEN NextGen(generation_[w]) ELSE generation_[w]]
Table == INSTANCE SlotTable WITH slotState <- AbsState, slotGen <- AbsGen

\* SparseSet.hpp:60-105: with the mutex held SparseSet is SlotTable.  Whatever calls
\* came before, Pop hands out a slot that is idle, with its present handle, and is
\* refused only when no slot is idle; Push and MoveToState change the slot of a valid
\* handle and no other.  The comment at SparseSet.hpp:24 describes another Pop.
ImplementsSlotTable == Table!Spec
=============================================================================
