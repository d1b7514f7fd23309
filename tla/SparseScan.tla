------------------------------ MODULE SparseScan ------------------------------
(***************************************************************************)
(* GetIndicesInState of Network/Common/Pool/SparseSet.hpp, as the server   *)
(* uses it: SessionManager::Broadcast calls it without the pool's mutex,   *)
(* while other threads move slots from state to state with the mutex held  *)
(* (module SparseSet).  The reader takes the cursors and dense_ one read   *)
(* at a time.                                                              *)
(*                                                                         *)
(* SparseSet makes one IncrementState or DecrementState a single step.     *)
(* The code makes it several stores (two of dense_, one of cursor_) that   *)
(* nothing orders for this reader, so while such a step is due a read of   *)
(* what it is about to change returns the old or the new value.            *)
(***************************************************************************)
EXTENDS SparseSet

CONSTANT Scanned   \* the states that are scanned; Broadcast asks for kConnected

ASSUME ScanAssumption == Scanned \subseteq State

VARIABLES
  pc,      \* where the reader is
  state,   \* the argument of GetIndicesInState
  edge,    \* reserve: the cursor that was read first, and its value
  i,       \* the loop's index
  there,   \* history: the slots that were in the state when the scan began,
  listed,  \* how often the result has each of them, and
  left     \* whether some slot has been leaving the state since; then the first
           \* two are given up

reader == <<pc, state, edge, i, listed, there, left>>
svars == <<vars, reader>>

Pc == {"idle", "reserve", "start", "test", "read", "thrown"}
NoEdge == [at |-> 0, value |-> 0]

\* The step of a walk that is due, and the two positions it swaps.
Moving == op.kind # "none" /\ state_[op.h.who] # op.target
Up == state_[op.h.who] < op.target
From == where_[op.h.who]
To == IF Up THEN LastOf(state_[op.h.who]) ELSE FirstOf(state_[op.h.who])

\* What a read of cursor_[s], and of dense_[p], can return.
CursorRead(s) ==
  {cursor_[s]} \union (IF Moving /\ Up /\ s = state_[op.h.who] + 1 THEN {cursor_[s] - 1} ELSE {})
               \union (IF Moving /\ ~Up /\ s = state_[op.h.who] THEN {cursor_[s] + 1} ELSE {})
DenseRead(p) ==
  {dense_[p]} \union (IF Moving /\ p = From THEN {dense_[To]} ELSE {})
              \union (IF Moving /\ p = To THEN {dense_[From]} ELSE {})

\* A slot is on its way out of the state that is being scanned.
Leaving == pc # "idle" /\ Moving /\ state_[op.h.who] = state
None == [w \in Who |-> 0]

\* The history after a step, if the result then has each slot of there as in counts.
Track(counts) ==
  /\ left' = (left \/ Leaving)
  /\ there' = IF left' THEN {} ELSE there
  /\ listed' = IF left' THEN None ELSE counts
-----------------------------------------------------------------------------
SInit ==
  /\ Init
  /\ pc = "idle" /\ state = 0 /\ edge = NoEdge /\ i = 0
  /\ listed = None /\ there = {} /\ left = FALSE

\* A thread holding the mutex takes a step of SparseSet.
Mutate == Next /\ Track(listed) /\ UNCHANGED <<pc, state, edge, i>>

\* The operands of cursor_[state + 1] - cursor_[state] are read in either order.  A
\* state out of range returns an empty vector and is no scan.
ReserveFirst(s) ==
  /\ pc = "idle" /\ pc' = "reserve"
  /\ state' = s
  /\ left' = (Moving /\ state_[op.h.who] = s)
  /\ there' = IF left' THEN {} ELSE {w \in Who : state_[w] = s}
  /\ \E c \in {s, s+1} : \E v \in CursorRead(c) : edge' = [at |-> c, value |-> v]
  /\ UNCHANGED <<vars, i, listed>>

\* The difference is unsigned: below zero it asks for some 2^32 handles and reserve
\* throws; nothing catches it, and no scan follows.
ReserveSecond ==
  /\ pc = "reserve"
  /\ \E v \in CursorRead(IF edge.at = state THEN state + 1 ELSE state) :
       pc' = IF (IF edge.at = state THEN v < edge.value ELSE edge.value < v)
             THEN "thrown" ELSE "start"
  /\ edge' = NoEdge
  /\ Track(listed)
  /\ UNCHANGED <<vars, state, i>>

LoopStart ==
  /\ pc = "start" /\ pc' = "test"
  /\ i' \in CursorRead(state)
  /\ Track(listed)
  /\ UNCHANGED <<vars, state, edge>>

\* mutant: the loop stops one short
LoopTest_Short ==
  /\ pc = "test"
  /\ \E end \in CursorRead(state + 1) :
       IF i + 1 < end
       THEN pc' = "read" /\ Track(listed) /\ UNCHANGED <<state, edge, i>>
       ELSE /\ pc' = "idle" /\ state' = 0 /\ edge' = NoEdge /\ i' = 0
            /\ listed' = None /\ there' = {} /\ left' = FALSE
  /\ UNCHANGED vars

\* i < cursor_[state + 1]; the vector is the caller's when the loop is over.
LoopTest ==
  /\ pc = "test"
  /\ \E end \in CursorRead(state + 1) :
       IF i < end
       THEN pc' = "read" /\ Track(listed) /\ UNCHANGED <<state, edge, i>>
       ELSE /\ pc' = "idle" /\ state' = 0 /\ edge' = NoEdge /\ i' = 0
            /\ listed' = None /\ there' = {} /\ left' = FALSE
  /\ UNCHANGED vars

\* result.push_back(GetHandle(dense_[i])), ++i
PushBack ==
  /\ pc = "read" /\ pc' = "test"
  /\ \E w \in DenseRead(i) :
       Track(IF w \in there THEN [listed EXCEPT ![w] = @ + 1] ELSE listed)
  /\ i' = i + 1
  /\ UNCHANGED <<vars, state, edge>>

GetIndicesInState ==
  (\E s \in Scanned : ReserveFirst(s)) \/ ReserveSecond \/ LoopStart \/ LoopTest \/ PushBack

SNext == Mutate \/ GetIndicesInState

SSpec == SInit /\ [][SNext]_svars /\ WF_vars(IncrementState \/ DecrementState \/ Return)
-----------------------------------------------------------------------------
STypeOK ==
  /\ TypeOK
  /\ pc \in Pc /\ state \in State
  /\ edge \in [at : 0 .. stateCount, value : 0 .. N]
  /\ i \in 0 .. N
  /\ listed \in [Who -> 0 .. N]
  /\ there \in SUBSET Who /\ left \in BOOLEAN

\* SparseSet.hpp:161-165: a scan during which no slot leaves the state returns every
\* slot that was in it exactly once, however many slots enter the state or move
\* elsewhere in the table between two of its reads, and its reserve never wraps.
ScanExact ==
  [][~left /\ ~Leaving =>
       /\ pc' = "thrown" => pc = "thrown"
       /\ pc = "test" /\ pc' = "idle" => \A w \in there : listed[w] = 1]_svars
=============================================================================
