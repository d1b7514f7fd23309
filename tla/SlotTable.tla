------------------------------ MODULE SlotTable ------------------------------
(***************************************************************************)
(* What SparseSet promises to a caller that holds the pool's mutex: a      *)
(* table of N slots, each in one of stateCount states and carrying a       *)
(* generation.  A call either takes effect at once and later returns, or   *)
(* is refused; which calls are refused, and what the caller is told, is    *)
(* part of the promise.  How the slots of one state are kept contiguous    *)
(* (dense_, cursor_) is not visible here.                                  *)
(***************************************************************************)
EXTENDS Naturals

CONSTANTS
  N,           \* number of slots
  stateCount,  \* number of states; state 0 is the idle state
  GenMod       \* generations are counted modulo GenMod (2^32 in the code)

VARIABLES
  slotState,   \* slotState[w]: the state of slot w
  slotGen,     \* slotGen[w]: its generation
  op,          \* the call that has the mutex
  ret          \* the answer of the last call, until the next one takes effect

vars == <<slotState, slotGen, op, ret>>

Slots == 0 .. N-1
States == 0 .. stateCount-1
Handles == [gen : 0 .. GenMod-1, who : 0 .. N]

NoHandle == [gen |-> GenMod-1, who |-> N]
NoCall == [kind |-> "none", h |-> NoHandle, target |-> 0]
NoAnswer == [kind |-> "none", h |-> NoHandle, ok |-> TRUE]
HandleOf(w) == [gen |-> slotGen[w], who |-> w]
Valid(h) == h.who \in Slots /\ h = HandleOf(h.who)

Init ==
  /\ slotState = [w \in Slots |-> 0]
  /\ slotGen = [w \in Slots |-> 0]
  /\ op = NoCall
  /\ ret = NoAnswer

Call(kind, h, s) ==
  /\ op' = [kind |-> kind, h |-> h, target |-> s]
  /\ op.kind = "none"
  /\ ret' = NoAnswer
  /\ slotState' = [slotState EXCEPT ![h.who] = s]

\* Pop(s): some idle slot is handed out in state s.
Pop(w, s) ==
  /\ Call("pop", HandleOf(w), s)
  /\ slotState[w] = 0
  /\ UNCHANGED slotGen

\* MoveToState(h, s).
Move(h, s) ==
  /\ Call("move", h, s)
  /\ Valid(h)
  /\ UNCHANGED slotGen

\* Push(h): the slot is idle again and every handle given out for it is stale.
Push(h) ==
  /\ Call("push", h, 0)
  /\ Valid(h)
  /\ slotGen' = [slotGen EXCEPT ![h.who] = (@ + 1) % GenMod]

Refuse(kind) ==
  /\ ret' = [kind |-> kind, h |-> NoHandle, ok |-> FALSE]
  /\ op.kind = "none"
  /\ UNCHANGED <<slotState, slotGen, op>>

\* A call with a stale handle, or with a state out of range, may come at any time;
\* Pop with a state in range is refused only when no slot is idle.
Refusals ==
  \/ \E kind \in {"range", "push", "move"} : Refuse(kind)
  \/ Refuse("pop") /\ \A w \in Slots : slotState[w] # 0

\* Only Pop's caller learns a handle.
Return ==
  /\ op.kind # "none"
  /\ op' = NoCall
  /\ ret' = [kind |-> op.kind, h |-> IF op.kind = "pop" THEN op.h ELSE NoHandle, ok |-> TRUE]
  /\ UNCHANGED <<slotState, slotGen>>

Calls ==
  \/ \E w \in Slots, s \in States : Pop(w, s)
  \/ \E h \in Handles, s \in States : Move(h, s)
  \/ \E h \in Handles : Push(h)

Next ==
  \/ op' # op /\ (Calls \/ Return)
  \/ op' = op /\ ret' # ret /\ Refusals

Spec == Init /\ [][Next]_vars
=============================================================================
