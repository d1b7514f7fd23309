--------------------------- MODULE SparseSetProofs ---------------------------
(***************************************************************************)
(* SparseSet keeps its three arrays consistent for every N, stateCount and *)
(* GenMod, at every step of every walk, and implements SlotTable.  A scan  *)
(* that no slot leaves is exact, whatever else moves meanwhile.            *)
(***************************************************************************)
EXTENDS SparseScan, TLAPS

USE NAssumption, StateAssumption, GenAssumption

\* The inductive invariant: the types, the agreement of the arrays, and the
\* fact that the call in progress works on a valid handle.
IInv == TypeOK /\ Consistent /\ OpHandleValid

\* SparseSet.hpp:20: kInvalidHandle is a handle, and no slot answers to it.
LEMMA InvalidHandle == kInvalidHandle \in Handle /\ ~IsValid(kInvalidHandle)
BY DEF kInvalidHandle, Handle, IsValid, Gen

\* SparseSet.hpp:119-121: the swap keeps dense_ and where_ inverse, exchanges the
\* two slots and moves no other.
LEMMA SwapKeepsPermutation ==
  ASSUME where_ \in [Who -> Who], dense_ \in [Who -> Who], Permutation,
         NEW p \in Who, NEW q \in Who, SwapDense(p, q)
  PROVE  /\ where_' \in [Who -> Who]
         /\ dense_' \in [Who -> Who]
         /\ Permutation'
         /\ where_'[dense_[p]] = q
         /\ where_'[dense_[q]] = p
         /\ \A w \in Who : w # dense_[p] /\ w # dense_[q] => where_'[w] = where_[w]
<1>1. dense_' = [dense_ EXCEPT ![p] = dense_[q], ![q] = dense_[p]]
  BY DEF SwapDense
<1>2. where_' = [where_ EXCEPT ![dense_[q]] = p, ![dense_[p]] = q]
  BY DEF SwapDense
<1>3. dense_[p] \in Who /\ dense_[q] \in Who
  OBVIOUS
<1>4. where_[dense_[p]] = p /\ where_[dense_[q]] = q
  BY DEF Permutation
<1>5. where_' \in [Who -> Who] /\ dense_' \in [Who -> Who]
  BY <1>1, <1>2, <1>3
<1>6. /\ where_'[dense_[p]] = q
      /\ where_'[dense_[q]] = p
      /\ \A w \in Who : w # dense_[p] /\ w # dense_[q] => where_'[w] = where_[w]
  BY <1>2, <1>3, <1>4
<1>7. /\ dense_'[p] = dense_[q]
      /\ dense_'[q] = dense_[p]
      /\ \A r \in Who : r # p /\ r # q => dense_'[r] = dense_[r]
  BY <1>1
<1>8. ASSUME NEW w \in Who PROVE dense_'[where_'[w]] = w
  <2>1. CASE w = dense_[p]
    BY <2>1, <1>6, <1>7
  <2>2. CASE w = dense_[q]
    BY <2>2, <1>6, <1>7
  <2>3. CASE w # dense_[p] /\ w # dense_[q]
    <3>1. where_[w] # p /\ where_[w] # q
      BY <2>3 DEF Permutation
    <3>2. QED
      BY <2>3, <3>1, <1>6, <1>7 DEF Permutation
  <2>4. QED
    BY <2>1, <2>2, <2>3
<1>9. ASSUME NEW r \in Who PROVE where_'[dense_'[r]] = r
  <2>1. CASE r = p \/ r = q
    BY <2>1, <1>6, <1>7
  <2>2. CASE r # p /\ r # q
    <3>1. dense_[r] # dense_[p] /\ dense_[r] # dense_[q]
      BY <2>2 DEF Permutation
    <3>2. QED
      BY <2>2, <3>1, <1>6, <1>7 DEF Permutation
  <2>3. QED
    BY <2>1, <2>2
<1>10. QED
  BY <1>5, <1>6, <1>8, <1>9 DEF Permutation

\* The state of the slot at a position is the state whose cursors enclose it.
LEMMA RegionUnique ==
  ASSUME TypeOK, Consistent, NEW w \in Who, NEW s \in State
  PROVE  cursor_[s] <= where_[w] /\ where_[w] < cursor_[s+1] => state_[w] = s
<1>1. PICK t \in State : t = state_[w]
  BY DEF TypeOK
<1>2. PICK r \in Int : r = where_[w]
  BY DEF TypeOK, Who
<1>3. \A u \in 0 .. stateCount : cursor_[u] \in Int
  BY DEF TypeOK
<1>4. t + 1 \in 0 .. stateCount /\ s + 1 \in 0 .. stateCount
      /\ t \in 0 .. stateCount /\ s \in 0 .. stateCount
  BY DEF State
<1>5. cursor_[t] <= r /\ r < cursor_[t+1]
  BY <1>1, <1>2 DEF Consistent, Regions
<1>6. ASSUME t < s PROVE cursor_[t+1] <= cursor_[s]
  BY <1>4, <1>6 DEF Consistent, CursorsOrdered, State
<1>7. ASSUME s < t PROVE cursor_[s+1] <= cursor_[t]
  BY <1>4, <1>7 DEF Consistent, CursorsOrdered, State
<1>8. ASSUME cursor_[s] <= r, r < cursor_[s+1] PROVE t = s
  <2>1. ~(t < s)
    BY <1>3, <1>4, <1>5, <1>6, <1>8
  <2>2. ~(s < t)
    BY <1>3, <1>4, <1>5, <1>7, <1>8
  <2>3. QED
    BY <2>1, <2>2 DEF State
<1>9. QED
  BY <1>1, <1>2, <1>8

\* SparseSet.hpp:107-127: one IncrementState keeps the arrays consistent.
LEMMA IncrementStep == IInv /\ IncrementState => IInv'
<1> SUFFICES ASSUME IInv, IncrementState PROVE IInv'
  OBVIOUS
<1>1. TypeOK /\ Consistent /\ OpHandleValid /\ op.kind # "none"
  BY DEF IInv, IncrementState
<1>2. PICK who \in Who : who = op.h.who
  BY <1>1 DEF OpHandleValid, IsValid, TypeOK, Handle, Who
<1>3. PICK s \in State : s = state_[who]
  BY <1>1 DEF TypeOK
<1>4. PICK target \in State : target = op.target
  BY <1>1 DEF TypeOK
<1>5. s < target
  BY <1>2, <1>3, <1>4 DEF IncrementState
<1>6. s + 1 \in State /\ s + 2 \in 0 .. stateCount
      /\ s \in 0 .. stateCount /\ s + 1 \in 0 .. stateCount
  BY <1>5 DEF State
<1>7. \A u \in 0 .. stateCount : cursor_[u] \in 0 .. N
  BY <1>1 DEF TypeOK
<1>8. PICK p \in Who : p = where_[who]
  BY <1>1 DEF TypeOK
<1>9. cursor_[s] <= p /\ p < cursor_[s+1] /\ dense_[p] = who
  BY <1>1, <1>3, <1>8 DEF Consistent, Regions, Permutation
<1>10. PICK q \in Int : q = cursor_[s+1] - 1
  BY <1>6, <1>7
<1>11. q \in Who /\ p <= q /\ cursor_[s] <= q /\ q < cursor_[s+1]
  BY <1>6, <1>7, <1>9, <1>10 DEF Who
<1>12. /\ SwapDense(p, q)
      /\ cursor_' = [cursor_ EXCEPT ![s+1] = q]
      /\ state_' = [state_ EXCEPT ![who] = s + 1]
      /\ generation_' = generation_ /\ op' = op /\ ret' = ret
  BY <1>2, <1>3, <1>8, <1>10 DEF IncrementState, LastOf
<1>13. /\ where_' \in [Who -> Who] /\ dense_' \in [Who -> Who] /\ Permutation'
      /\ where_'[who] = q /\ where_'[dense_[q]] = p
      /\ \A w \in Who : w # who /\ w # dense_[q] => where_'[w] = where_[w]
  BY <1>1, <1>9, <1>11, <1>12, SwapKeepsPermutation DEF TypeOK, Consistent
<1>14. /\ cursor_' \in [0 .. stateCount -> 0 .. N]
      /\ cursor_'[s+1] = q
      /\ \A u \in 0 .. stateCount : u # s+1 => cursor_'[u] = cursor_[u]
  <2>1. q \in 0 .. N
    BY <1>11 DEF Who
  <2>2. cursor_ \in [0 .. stateCount -> 0 .. N]
    BY <1>1 DEF TypeOK
  <2>3. cursor_' = [cursor_ EXCEPT ![s+1] = q]
    BY <1>12
  <2>4. QED
    BY <2>1, <2>2, <2>3, <1>6
<1>15. /\ state_' \in [Who -> State]
       /\ state_'[who] = s + 1
       /\ \A w \in Who : w # who => state_'[w] = state_[w]
  BY <1>1, <1>2, <1>6, <1>12 DEF TypeOK
<1>16. TypeOK'
  BY <1>1, <1>12, <1>13, <1>14, <1>15 DEF TypeOK
<1>17. CursorsOrdered'
  <2>1. cursor_'[0] = 0 /\ cursor_'[stateCount] = N
    BY <1>1, <1>6, <1>14 DEF Consistent, CursorsOrdered, State
  <2>2. ASSUME NEW a \in 0 .. stateCount, NEW b \in 0 .. stateCount, a <= b
        PROVE  cursor_'[a] <= cursor_'[b]
    <3>1. cursor_[a] <= cursor_[b]
      BY <1>1, <2>2 DEF Consistent, CursorsOrdered
    <3>2. CASE b = s+1 /\ a # s+1
      <4>1. cursor_[a] <= cursor_[s]
        BY <1>1, <1>6, <2>2, <3>2 DEF Consistent, CursorsOrdered
      <4>2. QED
        BY <4>1, <3>2, <1>6, <1>7, <1>11, <1>14 DEF Who
    <3>3. CASE a = s+1 /\ b # s+1
      <4>1. PICK cb \in 0 .. N : cb = cursor_[b]
        BY <1>7
      <4>2. PICK ca \in 0 .. N : ca = cursor_[s+1]
        BY <1>6, <1>7
      <4>3. ca <= cb
        BY <4>1, <4>2, <3>1, <3>3
      <4>4. q <= cb
        BY <4>2, <4>3, <1>10
      <4>5. QED
        BY <4>1, <4>4, <3>3, <1>14
    <3>4. CASE a = b
      BY <3>4, <1>7, <1>14 DEF Who
    <3>5. CASE a # s+1 /\ b # s+1
      BY <3>1, <3>5, <1>14
    <3>6. QED
      BY <3>2, <3>3, <3>4, <3>5
  <2>3. QED
    BY <2>1, <2>2 DEF CursorsOrdered
<1>18. Regions'
  <2> SUFFICES ASSUME NEW w \in Who
               PROVE  /\ cursor_'[state_'[w]] <= where_'[w]
                      /\ where_'[w] < cursor_'[state_'[w] + 1]
    BY DEF Regions
  <2>1. CASE w = who
    <3>1. cursor_[s+1] <= cursor_[s+2]
      BY <1>1, <1>6 DEF Consistent, CursorsOrdered
    <3>2. cursor_'[s+2] = cursor_[s+2]
      BY <1>6, <1>14
    <3>3. cursor_'[state_'[w]] = q /\ where_'[w] = q /\ state_'[w] + 1 = s + 2
      BY <2>1, <1>13, <1>14, <1>15 DEF State
    <3>4. q < cursor_[s+2]
      BY <3>1, <1>6, <1>7, <1>11
    <3>5. QED
      BY <3>2, <3>3, <3>4
  <2>2. CASE w = dense_[q] /\ w # who
    <3>1. where_[w] = q
      BY <2>2, <1>1, <1>11 DEF Consistent, Permutation
    <3>3. state_[w] = s
      BY <1>1, <1>11, <3>1, RegionUnique
    <3>4. p # q
      BY <2>2, <1>9
    <3>5. cursor_'[s] = cursor_[s]
      BY <1>6, <1>14
    <3>6. state_'[w] = s
      BY <2>2, <3>3, <1>15
    <3>7. where_'[w] = p /\ cursor_'[state_'[w]] = cursor_[s] /\ cursor_'[state_'[w]+1] = q
      BY <2>2, <3>5, <3>6, <1>13, <1>14
    <3>8. p < q
      BY <3>4, <1>11 DEF Who
    <3>9. QED
      BY <3>7, <3>8, <1>9
  <2>3. CASE w # who /\ w # dense_[q]
    <3>1. PICK t \in State : t = state_[w]
      BY <1>1 DEF TypeOK
    <3>2. PICK r \in Who : r = where_[w]
      BY <1>1 DEF TypeOK
    <3>3. t \in 0 .. stateCount /\ t + 1 \in 0 .. stateCount
      BY DEF State
    <3>4. where_'[w] = r /\ state_'[w] = t
      BY <2>3, <3>1, <3>2, <1>13, <1>15
    <3>5. cursor_[t] <= r /\ r < cursor_[t+1]
      BY <3>1, <3>2, <1>1 DEF Consistent, Regions
    <3>6. r # q
      BY <2>3, <3>2, <1>1 DEF Consistent, Permutation
    <3>7. cursor_'[t] <= r
      <4>1. CASE t = s+1
        BY <4>1, <3>3, <3>5, <1>6, <1>7, <1>10, <1>14 DEF Who
      <4>2. CASE t # s+1
        BY <4>2, <3>3, <3>5, <1>14
      <4>3. QED
        BY <4>1, <4>2
    <3>8. r < cursor_'[t+1]
      <4>1. CASE t = s
        <5>1. r < cursor_[s+1]
          BY <4>1, <3>5
        <5>2. PICK c \in 0 .. N : c = cursor_[s+1]
          BY <1>6, <1>7
        <5>3. q = c - 1 /\ r < c
          BY <5>1, <5>2, <1>10
        <5>4. r < q
          BY <5>3, <3>6 DEF Who
        <5>5. QED
          BY <5>4, <4>1, <1>14
      <4>2. CASE t # s
        <5>1. t + 1 # s + 1
          BY <4>2 DEF State
        <5>2. QED
          BY <5>1, <3>3, <3>5, <1>14
      <4>3. QED
        BY <4>1, <4>2
    <3>9. QED
      BY <3>4, <3>7, <3>8
  <2>4. QED
    BY <2>1, <2>2, <2>3
<1>19. OpHandleValid'
  BY <1>1, <1>12 DEF OpHandleValid, IsValid
<1>20. QED
  BY <1>13, <1>16, <1>17, <1>18, <1>19 DEF IInv, Consistent

\* SparseSet.hpp:129-150: so does one DecrementState.
LEMMA DecrementStep == IInv /\ DecrementState => IInv'
<1> SUFFICES ASSUME IInv, DecrementState PROVE IInv'
  OBVIOUS
<1>1. TypeOK /\ Consistent /\ OpHandleValid /\ op.kind # "none"
  BY DEF IInv, DecrementState
<1>2. PICK who \in Who : who = op.h.who
  BY <1>1 DEF OpHandleValid, IsValid, TypeOK, Handle, Who
<1>3. PICK s \in State : s = state_[who]
  BY <1>1 DEF TypeOK
<1>4. PICK target \in State : target = op.target
  BY <1>1 DEF TypeOK
<1>5. s > target
  BY <1>2, <1>3, <1>4 DEF DecrementState
<1>6. s - 1 \in State /\ s - 1 \in 0 .. stateCount
      /\ s \in 0 .. stateCount /\ s + 1 \in 0 .. stateCount /\ s > 0
  BY <1>5 DEF State
<1>7. \A u \in 0 .. stateCount : cursor_[u] \in 0 .. N
  BY <1>1 DEF TypeOK
<1>8. PICK p \in Who : p = where_[who]
  BY <1>1 DEF TypeOK
<1>9. cursor_[s] <= p /\ p < cursor_[s+1] /\ dense_[p] = who
  BY <1>1, <1>3, <1>8 DEF Consistent, Regions, Permutation
<1>10. PICK q \in Who : q = cursor_[s]
  BY <1>6, <1>7, <1>9 DEF Who
<1>11. q <= p /\ q < cursor_[s+1]
  <2>1. PICK c \in 0 .. N : c = cursor_[s+1]
    BY <1>6, <1>7
  <2>2. q <= p /\ p < c
    BY <2>1, <1>9, <1>10
  <2>3. q < c
    BY <2>2 DEF Who
  <2>4. QED
    BY <2>1, <2>2, <2>3
<1>12. /\ SwapDense(p, q)
       /\ cursor_' = [cursor_ EXCEPT ![s] = q + 1]
       /\ state_' = [state_ EXCEPT ![who] = s - 1]
       /\ generation_' = generation_ /\ op' = op /\ ret' = ret
  BY <1>2, <1>3, <1>8, <1>10 DEF DecrementState, FirstOf
<1>13. /\ where_' \in [Who -> Who] /\ dense_' \in [Who -> Who] /\ Permutation'
       /\ where_'[who] = q /\ where_'[dense_[q]] = p
       /\ \A w \in Who : w # who /\ w # dense_[q] => where_'[w] = where_[w]
  BY <1>1, <1>9, <1>12, SwapKeepsPermutation DEF TypeOK, Consistent
<1>14. /\ cursor_' \in [0 .. stateCount -> 0 .. N]
       /\ cursor_'[s] = q + 1
       /\ \A u \in 0 .. stateCount : u # s => cursor_'[u] = cursor_[u]
  <2>1. q + 1 \in 0 .. N
    BY DEF Who
  <2>2. cursor_ \in [0 .. stateCount -> 0 .. N]
    BY <1>1 DEF TypeOK
  <2>3. cursor_' = [cursor_ EXCEPT ![s] = q + 1]
    BY <1>12
  <2>4. QED
    BY <2>1, <2>2, <2>3, <1>6
<1>15. /\ state_' \in [Who -> State]
       /\ state_'[who] = s - 1
       /\ \A w \in Who : w # who => state_'[w] = state_[w]
  BY <1>1, <1>6, <1>12 DEF TypeOK
<1>16. TypeOK'
  BY <1>1, <1>12, <1>13, <1>14, <1>15 DEF TypeOK
<1>17. CursorsOrdered'
  <2>1. cursor_'[0] = 0 /\ cursor_'[stateCount] = N
    BY <1>1, <1>6, <1>14 DEF Consistent, CursorsOrdered, State
  <2>2. ASSUME NEW a \in 0 .. stateCount, NEW b \in 0 .. stateCount, a <= b
        PROVE  cursor_'[a] <= cursor_'[b]
    <3>1. cursor_[a] <= cursor_[b]
      BY <1>1, <2>2 DEF Consistent, CursorsOrdered
    <3>2. PICK ca \in 0 .. N : ca = cursor_[a]
      BY <1>7
    <3>3. PICK cb \in 0 .. N : cb = cursor_[b]
      BY <1>7
    <3>4. CASE b = s /\ a # s
      <4>1. ca <= q
        BY <3>1, <3>2, <3>4, <1>10
      <4>2. ca <= q + 1
        BY <4>1 DEF Who
      <4>3. QED
        BY <4>2, <3>2, <3>4, <1>14
    <3>5. CASE a = s /\ b # s
      <4>1. s + 1 <= b
        BY <2>2, <3>5 DEF State
      <4>2. cursor_[s+1] <= cb
        BY <4>1, <3>3, <1>1, <1>6 DEF Consistent, CursorsOrdered
      <4>3. PICK c \in 0 .. N : c = cursor_[s+1]
        BY <1>6, <1>7
      <4>4. c <= cb /\ q < c
        BY <4>2, <4>3, <1>11
      <4>5. q + 1 <= cb
        BY <4>4 DEF Who
      <4>6. QED
        BY <4>5, <3>3, <3>5, <1>14
    <3>6. CASE a = b
      BY <3>6, <1>14
    <3>7. CASE a # s /\ b # s
      BY <3>1, <3>7, <1>14
    <3>8. QED
      BY <3>4, <3>5, <3>6, <3>7
  <2>3. QED
    BY <2>1, <2>2 DEF CursorsOrdered
<1>18. Regions'
  <2> SUFFICES ASSUME NEW w \in Who
               PROVE  /\ cursor_'[state_'[w]] <= where_'[w]
                      /\ where_'[w] < cursor_'[state_'[w] + 1]
    BY DEF Regions
  <2>1. CASE w = who
    <3>1. cursor_[s-1] <= q
      BY <1>1, <1>6, <1>10 DEF Consistent, CursorsOrdered
    <3>2. cursor_'[s-1] = cursor_[s-1] /\ s - 1 + 1 = s
      BY <1>6, <1>14 DEF State
    <3>3. q < q + 1
      BY DEF Who
    <3>4. QED
      BY <2>1, <3>1, <3>2, <3>3, <1>13, <1>14, <1>15
  <2>2. CASE w = dense_[q] /\ w # who
    <3>1. where_[w] = q
      BY <2>2, <1>1 DEF Consistent, Permutation
    <3>2. state_[w] = s
      <4>1. q <= q /\ cursor_[s] <= where_[w] /\ where_[w] < cursor_[s+1]
        BY <3>1, <1>10, <1>11 DEF Who
      <4>2. QED
        BY <4>1, <1>1, RegionUnique
    <3>3. p # q
      BY <2>2, <1>9
    <3>4. cursor_'[s+1] = cursor_[s+1]
      BY <1>6, <1>14 DEF State
    <3>5. where_'[w] = p /\ state_'[w] = s
      BY <2>2, <3>2, <1>13, <1>15
    <3>6. q + 1 <= p
      BY <3>3, <1>11 DEF Who
    <3>7. QED
      BY <3>4, <3>5, <3>6, <1>9, <1>14
  <2>3. CASE w # who /\ w # dense_[q]
    <3>1. PICK t \in State : t = state_[w]
      BY <1>1 DEF TypeOK
    <3>2. PICK r \in Who : r = where_[w]
      BY <1>1 DEF TypeOK
    <3>3. t \in 0 .. stateCount /\ t + 1 \in 0 .. stateCount
      BY DEF State
    <3>4. where_'[w] = r /\ state_'[w] = t
      BY <2>3, <3>1, <3>2, <1>13, <1>15
    <3>5. cursor_[t] <= r /\ r < cursor_[t+1]
      BY <3>1, <3>2, <1>1 DEF Consistent, Regions
    <3>6. r # q
      BY <2>3, <3>2, <1>1 DEF Consistent, Permutation
    <3>7. cursor_'[t] <= r
      <4>1. CASE t = s
        <5>1. q <= r
          BY <4>1, <3>5, <1>10
        <5>2. q + 1 <= r
          BY <5>1, <3>6 DEF Who
        <5>3. QED
          BY <4>1, <5>2, <1>14
      <4>2. CASE t # s
        BY <4>2, <3>3, <3>5, <1>14
      <4>3. QED
        BY <4>1, <4>2
    <3>8. r < cursor_'[t+1]
      <4>1. CASE t + 1 = s
        <5>1. r < q
          BY <4>1, <3>5, <1>10
        <5>2. r < q + 1
          BY <5>1 DEF Who
        <5>3. QED
          BY <4>1, <5>2, <1>14
      <4>2. CASE t + 1 # s
        BY <4>2, <3>3, <3>5, <1>14
      <4>3. QED
        BY <4>1, <4>2
    <3>9. QED
      BY <3>4, <3>7, <3>8
  <2>4. QED
    BY <2>1, <2>2, <2>3
<1>19. OpHandleValid'
  BY <1>1, <1>12 DEF OpHandleValid, IsValid
<1>20. QED
  BY <1>13, <1>16, <1>17, <1>18, <1>19 DEF IInv, Consistent

\* SparseSet.hpp:50-57: the constructor establishes the invariant.
LEMMA InitInv == Init => IInv
<1> SUFFICES ASSUME Init PROVE IInv
  OBVIOUS
<1>1. 0 \in Gen /\ 0 \in State /\ 0 \in 0 .. N /\ N \in 0 .. N
  BY DEF Gen, State
<1>2. TypeOK
  <2>1. where_ \in [Who -> Who] /\ dense_ \in [Who -> Who]
    BY DEF Init
  <2>2. generation_ \in [Who -> Gen] /\ state_ \in [Who -> State]
    BY <1>1 DEF Init
  <2>3. cursor_ \in [0 .. stateCount -> 0 .. N]
    BY <1>1 DEF Init
  <2>4. op \in [kind : OpKind, h : Handle, target : State]
    BY <1>1, InvalidHandle DEF Init, NoOp, OpKind
  <2>5. ret \in [kind : OpKind \union {"range"}, h : Handle, ok : BOOLEAN]
    BY InvalidHandle DEF Init, NoRet, OpKind
  <2>6. QED
    BY <2>1, <2>2, <2>3, <2>4, <2>5 DEF TypeOK
<1>3. Permutation
  BY DEF Init, Permutation
<1>4. CursorsOrdered
  BY DEF Init, CursorsOrdered
<1>5. Regions
  BY DEF Init, Regions, Who
<1>6. OpHandleValid
  BY DEF Init, OpHandleValid, NoOp
<1>7. QED
  BY <1>2, <1>3, <1>4, <1>5, <1>6 DEF IInv, Consistent

\* The handle GetHandle makes for a slot is valid while its generation stands.
LEMMA HandleOfSlot ==
  ASSUME TypeOK, NEW w \in Who
  PROVE  GetHandle(w) \in Handle /\ IsValid(GetHandle(w))
BY DEF TypeOK, GetHandle, Handle, IsValid, Who

\* A refused call leaves the arrays alone.
LEMMA FailStep ==
  ASSUME IInv, NEW k \in OpKind \union {"range"}, Fail(k)
  PROVE  IInv'
<1>1. UNCHANGED <<where_, generation_, state_, dense_, cursor_, op>>
  BY DEF Fail, table
<1>2. ret' \in [kind : OpKind \union {"range"}, h : Handle, ok : BOOLEAN]
  BY InvalidHandle DEF Fail
<1>3. QED
  BY <1>1, <1>2 DEF IInv, TypeOK, Consistent, Permutation, CursorsOrdered, Regions,
                    OpHandleValid, IsValid

\* A call that gets the mutex with a valid handle only fills in op.
LEMMA BeginStep ==
  ASSUME IInv, NEW k \in OpKind, NEW h \in Handle, NEW t \in State,
         IsValid(h), Begin(k, h, t)
  PROVE  IInv'
<1>1. UNCHANGED <<where_, generation_, state_, dense_, cursor_>>
      /\ op' = [kind |-> k, h |-> h, target |-> t] /\ ret' = NoRet
  BY DEF Begin, table
<1>2. op' \in [kind : OpKind, h : Handle, target : State] /\ op'.h = h
      /\ ret' \in [kind : OpKind \union {"range"}, h : Handle, ok : BOOLEAN]
  BY <1>1, InvalidHandle DEF NoRet, OpKind
<1>3. OpHandleValid'
  BY <1>1, <1>2 DEF OpHandleValid, IsValid
<1>4. QED
  BY <1>1, <1>2, <1>3 DEF IInv, TypeOK, Consistent, Permutation, CursorsOrdered, Regions

\* SparseSet.hpp:60-74.
LEMMA PopStep ==
  ASSUME IInv, NEW s \in 0 .. stateCount, Pop(s)
  PROVE  IInv'
<1>1. CASE s >= stateCount \/ NoneIdle
  BY <1>1, FailStep DEF Pop, OpKind
<1>2. CASE s < stateCount /\ ~NoneIdle
  <2>1. Begin("pop", GetHandle(dense_[cursor_[0]]), s)
    BY <1>2 DEF Pop
  <2>2. cursor_[0] = 0 /\ 0 \in Who
    BY DEF IInv, Consistent, CursorsOrdered, Who
  <2>3. dense_[cursor_[0]] \in Who
    BY <2>2 DEF IInv, TypeOK
  <2>4. GetHandle(dense_[cursor_[0]]) \in Handle /\ IsValid(GetHandle(dense_[cursor_[0]]))
    BY <2>3, HandleOfSlot DEF IInv
  <2>5. s \in State
    BY <1>2 DEF State
  <2>6. QED
    BY <2>1, <2>4, <2>5, BeginStep DEF OpKind
<1>3. QED
  BY <1>1, <1>2

\* SparseSet.hpp:77-85.
LEMMA PushStep ==
  ASSUME IInv, NEW h \in Handle, Push(h)
  PROVE  IInv'
<1>1. CASE ~IsValid(h)
  BY <1>1, FailStep DEF Push, OpKind
<1>2. CASE IsValid(h)
  <2>1. 0 \in State
    BY DEF State
  <2>2. QED
    BY <1>2, <2>1, BeginStep DEF Push, OpKind
<1>3. QED
  BY <1>1, <1>2

\* SparseSet.hpp:89-105.
LEMMA MoveStep ==
  ASSUME IInv, NEW h \in Handle, NEW s \in 0 .. stateCount, MoveToState(h, s)
  PROVE  IInv'
<1>1. CASE s >= stateCount \/ ~IsValid(h)
  BY <1>1, FailStep DEF MoveToState, OpKind
<1>2. CASE s < stateCount /\ IsValid(h)
  <2>1. s \in State
    BY <1>2 DEF State
  <2>2. QED
    BY <1>2, <2>1, BeginStep DEF MoveToState, OpKind
<1>3. QED
  BY <1>1, <1>2

\* SparseSet.hpp:82: the successor of a generation is a different generation.
LEMMA NextGenType ==
  ASSUME NEW g \in Gen
  PROVE  NextGen(g) \in Gen /\ NextGen(g) # g
<1>1. CASE g = GenMod - 1
  BY <1>1 DEF NextGen, Gen
<1>2. CASE g # GenMod - 1
  BY <1>2 DEF NextGen, Gen
<1>3. QED
  BY <1>1, <1>2

\* SparseSet.hpp:73, 82-84, 104: the end of a call bumps at most one generation.
LEMMA ReturnStep == IInv /\ Return => IInv'
<1> SUFFICES ASSUME IInv, Return PROVE IInv'
  OBVIOUS
<1>1. op' = NoOp /\ UNCHANGED <<where_, state_, dense_, cursor_>>
  BY DEF Return
<1>2. op.h.who \in Who
  BY DEF IInv, Return, OpHandleValid, IsValid, TypeOK, Handle, Who
<1>3. generation_' \in [Who -> Gen]
  <2>1. generation_ \in [Who -> Gen] /\ generation_[op.h.who] \in Gen
    BY <1>2 DEF IInv, TypeOK
  <2>2. NextGen(generation_[op.h.who]) \in Gen
    BY <2>1, NextGenType
  <2>3. QED
    BY <2>1, <2>2 DEF Return
<1>4. ret' \in [kind : OpKind \union {"range"}, h : Handle, ok : BOOLEAN]
  BY InvalidHandle DEF IInv, TypeOK, Return, Answer
<1>5. op' \in [kind : OpKind, h : Handle, target : State]
  <2>1. 0 \in State
    BY DEF State
  <2>2. QED
    BY <1>1, <2>1, InvalidHandle DEF NoOp, OpKind
<1>6. OpHandleValid'
  BY <1>1 DEF OpHandleValid, NoOp
<1>7. QED
  BY <1>1, <1>3, <1>4, <1>5, <1>6 DEF IInv, TypeOK, Consistent, Permutation,
                                      CursorsOrdered, Regions

\* The invariant is a predicate of the variables.
LEMMA StutterStep == IInv /\ UNCHANGED vars => IInv'
BY DEF IInv, vars, TypeOK, Consistent, Permutation, CursorsOrdered, Regions,
       OpHandleValid, IsValid

\* The invariant is inductive.
LEMMA NextStep == IInv /\ [Next]_vars => IInv'
<1> SUFFICES ASSUME IInv, [Next]_vars PROVE IInv'
  OBVIOUS
<1>1. ASSUME NEW s \in 0 .. stateCount, Pop(s) PROVE IInv'
  BY <1>1, PopStep
<1>2. ASSUME NEW h \in Handle, Push(h) PROVE IInv'
  BY <1>2, PushStep
<1>3. ASSUME NEW h \in Handle, NEW s \in 0 .. stateCount, MoveToState(h, s) PROVE IInv'
  BY <1>3, MoveStep
<1>4. CASE IncrementState
  BY <1>4, IncrementStep
<1>5. CASE DecrementState
  BY <1>5, DecrementStep
<1>6. CASE Return
  BY <1>6, ReturnStep
<1>7. CASE UNCHANGED vars
  BY <1>7, StutterStep
<1>8. QED
  BY <1>1, <1>2, <1>3, <1>4, <1>5, <1>6, <1>7 DEF Next

\* The inductive invariant holds in every state the program can reach.
THEOREM Invariance == Spec => []IInv
<1>1. QED
  BY InitInv, NextStep, PTL DEF Spec

\* Every array of SparseSet stays inside its bounds, whatever the calls.
THEOREM TypeCorrect == Spec => []TypeOK
<1>1. IInv => TypeOK
  BY DEF IInv
<1>2. QED
  BY <1>1, Invariance, PTL

\* SparseSet.hpp:43-46: dense_ and sparse_ are inverse, the cursors are ordered and
\* each state's slots are exactly the ones between its cursors - between the steps of
\* a walk too, which is when readers without the mutex look.
THEOREM ConsistentAlways == Spec => []Consistent
<1>1. IInv => Consistent
  BY DEF IInv
<1>2. QED
  BY <1>1, Invariance, PTL

\* SparseSet.hpp:82: Push makes its own handle stale and touches no other slot's.
THEOREM PushRetires == Spec => PushRetiresHandle
<1>1. ASSUME IInv, [Next]_vars, op.kind = "push", op'.kind = "none", NEW h \in Handle
      PROVE  /\ h = op.h => ~IsValid(h)'
             /\ h.who # op.h.who => IsValid(h)' = IsValid(h)
  <2>1. Return
    BY <1>1 DEF Next, Pop, Push, MoveToState, IncrementState, DecrementState, vars
  <2>2. PICK who \in Who : who = op.h.who
    BY <1>1 DEF IInv, OpHandleValid, IsValid, TypeOK, Handle, Who
  <2>3. generation_ \in [Who -> Gen] /\ generation_[who] = op.h.gen
    BY <1>1, <2>2 DEF IInv, TypeOK, OpHandleValid, IsValid
  <2>4. generation_' = [generation_ EXCEPT ![who] = NextGen(generation_[who])]
    BY <2>1, <2>2, <1>1 DEF Return
  <2>5. generation_'[who] # op.h.gen
    BY <2>3, <2>4, NextGenType
  <2>6. \A w \in Who : w # who => generation_'[w] = generation_[w]
    BY <2>3, <2>4
  <2>7. h.who < N => h.who \in Who
    BY DEF Handle, Who
  <2>8. QED
    BY <2>2, <2>5, <2>6, <2>7 DEF IsValid
<1>2. IInv /\ [Next]_vars
        => [op.kind = "push" /\ op'.kind = "none"
              => \A h \in Handle : /\ h = op.h => ~IsValid(h)'
                                   /\ h.who # op.h.who => IsValid(h)' = IsValid(h)]_vars
  BY <1>1
<1>3. QED
  BY <1>2, Invariance, PTL DEF Spec, PushRetiresHandle

-----------------------------------------------------------------------------
\* A call that gets the mutex takes effect in SlotTable.
LEMMA BeginRefines ==
  ASSUME IInv, op.kind = "none", NEW k \in {"pop", "push", "move"},
         NEW h \in Handle, NEW t \in State, IsValid(h), Begin(k, h, t)
  PROVE  /\ h.who \in Who
         /\ h = Table!HandleOf(h.who)
         /\ op' # op
         /\ Table!Call(k, h, t)
         /\ AbsState = state_
         /\ AbsGen' = IF k = "push"
                      THEN [AbsGen EXCEPT ![h.who] = (@ + 1) % GenMod]
                      ELSE AbsGen
<1>1. h.who \in Who
  BY DEF IsValid, Handle, Who
<1>2. /\ UNCHANGED <<generation_, state_>>
      /\ op' = [kind |-> k, h |-> h, target |-> t] /\ ret' = NoRet
  BY DEF Begin, table
<1>3. op'.kind = k /\ op'.h = h /\ op'.target = t /\ k # "none"
  BY <1>2
<1>4. AbsState = state_ /\ AbsGen = generation_
  BY DEF AbsState, AbsGen, IInv, TypeOK
<1>5. AbsState' = [w \in Who |-> IF h.who = w THEN t ELSE state_[w]]
  BY <1>2, <1>3 DEF AbsState
<1>6. AbsGen' = [w \in Who |-> IF k = "push" /\ h.who = w
                              THEN NextGen(generation_[w]) ELSE generation_[w]]
  BY <1>2, <1>3 DEF AbsGen
<1>7. state_ \in [Who -> State] /\ generation_ \in [Who -> Gen]
  BY DEF IInv, TypeOK
<1>8. AbsState' = [AbsState EXCEPT ![h.who] = t]
  BY <1>1, <1>4, <1>5, <1>7
<1>9. AbsGen' = IF k = "push" THEN [AbsGen EXCEPT ![h.who] = (@ + 1) % GenMod] ELSE AbsGen
  <2>1. CASE k = "push"
    BY <1>1, <1>4, <1>6, <1>7, <2>1 DEF NextGen
  <2>2. CASE k # "push"
    BY <1>1, <1>4, <1>6, <1>7, <2>2
  <2>3. QED
    BY <2>1, <2>2
<1>10. h = Table!HandleOf(h.who)
  BY <1>4 DEF Table!HandleOf, IsValid, Handle
<1>11. Table!Call(k, h, t)
  <2>1. NoRet = Table!NoAnswer
    BY DEF Table!NoAnswer, Table!NoHandle, NoRet, kInvalidHandle
  <2>2. QED
    BY <1>2, <1>8, <2>1 DEF Table!Call
<1>12. op' # op
  BY <1>3
<1>13. QED
  BY <1>1, <1>4, <1>9, <1>10, <1>11, <1>12

\* A refused call is refused by SlotTable, unless the same answer stands already.
LEMMA FailRefines ==
  ASSUME IInv, op.kind = "none", NEW k, Fail(k),
         \/ k \in {"range", "push", "move"}
         \/ k = "pop" /\ \A w \in Who : state_[w] # 0
  PROVE  [Table!Next]_(Table!vars)
<1>1. /\ UNCHANGED <<state_, generation_, op>>
      /\ ret' = [kind |-> k, h |-> kInvalidHandle, ok |-> FALSE]
  BY DEF Fail, table
<1>2. UNCHANGED <<AbsState, AbsGen>>
  BY <1>1 DEF AbsState, AbsGen
<1>3. Table!Refuse(k)
  <2>1. Table!NoHandle = kInvalidHandle
    BY DEF Table!NoHandle, kInvalidHandle
  <2>2. QED
    BY <1>1, <1>2, <2>1 DEF Table!Refuse
<1>4. k = "pop" => \A w \in Table!Slots : AbsState[w] # 0
  BY DEF AbsState, Table!Slots, Who
<1>5. Table!Refusals
  BY <1>3, <1>4 DEF Table!Refusals
<1>6. CASE ret' = ret
  BY <1>1, <1>2, <1>6 DEF Table!vars
<1>7. CASE ret' # ret
  BY <1>1, <1>5, <1>7 DEF Table!Next
<1>8. QED
  BY <1>6, <1>7

\* A step of the walk (IncrementState or DecrementState) is invisible with the mutex held.
LEMMA WalkStutters ==
  ASSUME IInv, op.kind # "none", UNCHANGED <<generation_, op, ret>>,
         NEW s \in State, state_' = [state_ EXCEPT ![op.h.who] = s]
  PROVE  UNCHANGED <<AbsState, AbsGen, op, ret>>
<1>1. state_ \in [Who -> State]
  BY DEF IInv, TypeOK
<1>2. \A w \in Who : w # op.h.who => state_'[w] = state_[w]
  BY <1>1
<1>3. AbsState' = AbsState
  BY <1>2 DEF AbsState
<1>4. AbsGen' = AbsGen
  BY DEF AbsGen
<1>5. QED
  BY <1>3, <1>4

\* At the end of a call the table does not change: SlotTable took the step when the call
\* began.  What is left is the answer.
LEMMA ReturnRefines == IInv /\ Return => Table!Return /\ op' # op
<1> SUFFICES ASSUME IInv, Return PROVE Table!Return /\ op' # op
  OBVIOUS
<1>1. op'.kind = "none" /\ state_' = state_ /\ state_[op.h.who] = op.target /\ op.kind # "none"
  BY DEF Return, NoOp
<1>2. AbsState' = AbsState
  BY <1>1 DEF AbsState
<1>3. generation_ \in [Who -> Gen]
  BY DEF IInv, TypeOK
<1>4. AbsGen' = AbsGen
  <2>1. CASE op.kind = "push"
    <3>1. generation_' = [generation_ EXCEPT ![op.h.who] = NextGen(generation_[op.h.who])]
      BY <2>1 DEF Return
    <3>2. QED
      BY <3>1, <2>1, <1>1, <1>3 DEF AbsGen
  <2>2. CASE op.kind # "push"
    BY <2>2, <1>1 DEF AbsGen, Return
  <2>3. QED
    BY <2>1, <2>2
<1>5. op' = Table!NoCall
  BY DEF Return, NoOp, Table!NoCall, Table!NoHandle, kInvalidHandle
<1>6. ret' = [kind |-> op.kind, h |-> IF op.kind = "pop" THEN op.h ELSE Table!NoHandle,
              ok |-> TRUE]
  BY DEF Return, Answer, Table!NoHandle, kInvalidHandle
<1>7. QED
  BY <1>1, <1>2, <1>4, <1>5, <1>6 DEF Table!Return

\* SparseSet implements SlotTable: to a caller that holds the mutex each call takes
\* effect at once, Pop takes an idle slot whenever there is one and hands out its present
\* handle, and only Push changes a generation.
THEOREM Refinement == Spec => ImplementsSlotTable
<1>1. Init => Table!Init
  BY DEF Init, Table!Init, AbsState, AbsGen, Table!Slots, Who, NoOp, NoRet, kInvalidHandle,
         Table!NoCall, Table!NoAnswer, Table!NoHandle
<1>2. ASSUME IInv, [Next]_vars PROVE [Table!Next]_(Table!vars)
  <2>1. ASSUME NEW s \in 0 .. stateCount, Pop(s) PROVE [Table!Next]_(Table!vars)
    <3>1. CASE s >= stateCount
      BY <1>2, <2>1, <3>1, FailRefines DEF Pop
    <3>2. CASE s < stateCount /\ NoneIdle
      <4>1. cursor_[0] = 0 /\ cursor_[1] = 0
        BY <1>2, <3>2 DEF IInv, Consistent, CursorsOrdered, NoneIdle
      <4>2. ASSUME NEW w \in Who PROVE state_[w] # 0
        <5>1. where_[w] \in Who
          BY <1>2 DEF IInv, TypeOK
        <5>2. state_[w] = 0 => where_[w] < cursor_[1]
          BY <1>2 DEF IInv, Consistent, Regions
        <5>3. QED
          BY <4>1, <5>1, <5>2 DEF Who
      <4>3. QED
        BY <1>2, <2>1, <3>2, <4>2, FailRefines DEF Pop
    <3>3. CASE s < stateCount /\ ~NoneIdle
      <4>1. cursor_[0] = 0 /\ 0 \in Who /\ dense_[0] \in Who
        BY <1>2 DEF IInv, TypeOK, Consistent, CursorsOrdered, Who
      <4>2. PICK w \in Who : w = dense_[0]
        BY <4>1
      <4>3. where_[w] = 0 /\ GetHandle(w) \in Handle /\ IsValid(GetHandle(w))
        BY <1>2, <4>1, <4>2, HandleOfSlot DEF IInv, Consistent, Permutation
      <4>4. s \in State /\ op.kind = "none" /\ Begin("pop", GetHandle(w), s)
        BY <2>1, <3>3, <4>1, <4>2 DEF Pop, State
      <4>5. GetHandle(w).who = w
        BY DEF GetHandle
      <4>6. /\ GetHandle(w) = Table!HandleOf(w) /\ op' # op
            /\ Table!Call("pop", GetHandle(w), s) /\ AbsGen' = AbsGen /\ AbsState = state_
        BY <1>2, <4>3, <4>4, <4>5, BeginRefines
      <4>7. state_[w] = 0
        <5>1. 0 \in State /\ 0 + 1 = 1 /\ 1 \in 0 .. stateCount
          BY DEF State
        <5>2. cursor_[1] \in 0 .. N /\ cursor_[1] # 0
          BY <1>2, <3>3, <4>1, <5>1 DEF IInv, TypeOK, NoneIdle
        <5>3. cursor_[0] <= where_[w] /\ where_[w] < cursor_[0 + 1]
          BY <4>1, <4>3, <5>1, <5>2
        <5>4. QED
          BY <1>2, <5>1, <5>3, RegionUnique DEF IInv
      <4>8. Table!Pop(w, s)
        BY <4>6, <4>7 DEF Table!Pop
      <4>9. QED
        BY <4>4, <4>6, <4>8 DEF Table!Next, Table!Calls, Table!Slots, Table!States, Who, State
    <3>4. QED
      BY <3>1, <3>2, <3>3
  <2>2. ASSUME NEW h \in Handle, Push(h) PROVE [Table!Next]_(Table!vars)
    <3>1. CASE ~IsValid(h)
      BY <1>2, <2>2, <3>1, FailRefines DEF Push
    <3>2. CASE IsValid(h)
      <4>1. Begin("push", h, 0) /\ op.kind = "none" /\ 0 \in State
        BY <2>2, <3>2 DEF Push, State
      <4>2. h.who \in Who /\ h = Table!HandleOf(h.who) /\ op' # op /\ Table!Call("push", h, 0)
            /\ AbsGen' = [AbsGen EXCEPT ![h.who] = (@ + 1) % GenMod]
        BY <1>2, <3>2, <4>1, BeginRefines
      <4>3. Table!Push(h)
        BY <4>2 DEF Table!Push, Table!Valid, Table!Slots, Who
      <4>4. h \in Table!Handles
        BY DEF Table!Handles, Handle, Gen
      <4>5. QED
        BY <4>2, <4>3, <4>4 DEF Table!Next, Table!Calls
    <3>3. QED
      BY <3>1, <3>2
  <2>3. ASSUME NEW h \in Handle, NEW s \in 0 .. stateCount, MoveToState(h, s)
        PROVE  [Table!Next]_(Table!vars)
    <3>1. CASE s >= stateCount \/ ~IsValid(h)
      BY <1>2, <2>3, <3>1, FailRefines DEF MoveToState
    <3>2. CASE s < stateCount /\ IsValid(h)
      <4>1. Begin("move", h, s) /\ op.kind = "none" /\ s \in State
        BY <2>3, <3>2 DEF MoveToState, State
      <4>2. h.who \in Who /\ h = Table!HandleOf(h.who) /\ op' # op /\ Table!Call("move", h, s)
            /\ AbsGen' = AbsGen
        BY <1>2, <3>2, <4>1, BeginRefines
      <4>3. Table!Move(h, s)
        BY <4>2 DEF Table!Move, Table!Valid, Table!Slots, Who
      <4>4. h \in Table!Handles /\ s \in Table!States
        BY <4>1 DEF Table!Handles, Handle, Gen, Table!States, State
      <4>5. QED
        BY <4>2, <4>3, <4>4 DEF Table!Next, Table!Calls
    <3>3. QED
      BY <3>1, <3>2
  <2>4. CASE IncrementState \/ DecrementState
    <3>1. PICK who \in Who : who = op.h.who
      BY <1>2, <2>4 DEF IInv, OpHandleValid, IsValid, TypeOK, Handle, Who,
                        IncrementState, DecrementState
    <3>2. PICK s \in State : s = state_[who]
      BY <1>2 DEF IInv, TypeOK
    <3>3. PICK t \in State : t = op.target
      BY <1>2 DEF IInv, TypeOK
    <3>4. op.kind # "none" /\ UNCHANGED <<generation_, op, ret>>
      BY <2>4 DEF IncrementState, DecrementState
    <3>5. \/ s < t /\ state_' = [state_ EXCEPT ![op.h.who] = s + 1]
          \/ s > t /\ state_' = [state_ EXCEPT ![op.h.who] = s - 1]
      BY <2>4, <3>1, <3>2, <3>3 DEF IncrementState, DecrementState
    <3>6. PICK u \in State : state_' = [state_ EXCEPT ![op.h.who] = u]
      <4>1. CASE s < t /\ state_' = [state_ EXCEPT ![op.h.who] = s + 1]
        <5>1. s + 1 \in State
          BY <4>1 DEF State
        <5>2. QED
          BY <4>1, <5>1
      <4>2. CASE s > t /\ state_' = [state_ EXCEPT ![op.h.who] = s - 1]
        <5>1. s - 1 \in State
          BY <4>2 DEF State
        <5>2. QED
          BY <4>2, <5>1
      <4>3. QED
        BY <3>5, <4>1, <4>2
    <3>7. QED
      BY <1>2, <3>4, <3>6, WalkStutters DEF Table!vars
  <2>5. CASE Return
    BY <1>2, <2>5, ReturnRefines DEF Table!Next
  <2>6. CASE UNCHANGED vars
    BY <2>6 DEF vars, Table!vars, AbsState, AbsGen
  <2>7. QED
    BY <1>2, <2>1, <2>2, <2>3, <2>4, <2>5, <2>6 DEF Next
<1>3. QED
  BY <1>1, <1>2, Invariance, PTL DEF Spec, ImplementsSlotTable, Table!Spec
-----------------------------------------------------------------------------
(* The scan. *)

\* The step that is due swaps two positions of the region its slot is in.
LEMMA MovingFacts ==
  ASSUME IInv, Moving
  PROVE  /\ op.h.who \in Who /\ state_[op.h.who] \in State
         /\ From \in Who /\ To \in Who
         /\ cursor_[state_[op.h.who]] < cursor_[state_[op.h.who] + 1]
         /\ dense_[From] = op.h.who
         /\ dense_[To] \in Who /\ state_[dense_[To]] = state_[op.h.who]
         /\ where_[dense_[To]] = To
<1>1. PICK who \in Who : who = op.h.who
  BY DEF IInv, OpHandleValid, IsValid, TypeOK, Handle, Who, Moving
<1>2. PICK c \in State : c = state_[who]
  BY DEF IInv, TypeOK
<1>3. c \in 0 .. stateCount /\ c + 1 \in 0 .. stateCount
  BY DEF State
<1>4. PICK lo \in 0 .. N : lo = cursor_[c]
  BY <1>3 DEF IInv, TypeOK
<1>5. PICK hi \in 0 .. N : hi = cursor_[c+1]
  BY <1>3 DEF IInv, TypeOK
<1>6. PICK p \in Who : p = where_[who]
  BY DEF IInv, TypeOK
<1>7. lo <= p /\ p < hi /\ dense_[p] = who
  BY <1>2, <1>4, <1>5, <1>6 DEF IInv, Consistent, Regions, Permutation
<1>8. To = IF Up THEN hi - 1 ELSE lo
  BY <1>1, <1>2, <1>4, <1>5 DEF To, LastOf, FirstOf
<1>9. PICK q \in Who : q = To
  BY <1>7, <1>8 DEF Who
<1>10. lo <= q /\ q < hi
  BY <1>7, <1>8, <1>9 DEF Who
<1>11. dense_[q] \in Who /\ where_[dense_[q]] = q
  BY DEF IInv, TypeOK, Consistent, Permutation
<1>12. state_[dense_[q]] = c
  BY <1>4, <1>5, <1>10, <1>11, RegionUnique DEF IInv
<1>13. lo < hi
  BY <1>7 DEF Who
<1>14. QED
  BY <1>1, <1>2, <1>4, <1>5, <1>6, <1>7, <1>9, <1>11, <1>12, <1>13 DEF From

\* SparseSet.hpp:162-164: what a racing read of a cursor returns is a cursor value; where
\* no slot is leaving the state, the read of its first cursor is not too high and the one
\* of its last not too low.
LEMMA CursorReads ==
  ASSUME IInv, NEW s \in 0 .. stateCount, NEW v \in CursorRead(s)
  PROVE  /\ v \in 0 .. N
         /\ s \in State /\ ~(Moving /\ state_[op.h.who] = s) => v <= cursor_[s]
         /\ s - 1 \in State /\ ~(Moving /\ state_[op.h.who] = s - 1) => cursor_[s] <= v
<1>1. PICK c \in 0 .. N : c = cursor_[s]
  BY DEF IInv, TypeOK
<1>2. CASE v = c
  BY <1>1, <1>2
<1>3. CASE Moving /\ Up /\ s = state_[op.h.who] + 1 /\ v = c - 1
  <2>1. PICK t \in State : t = state_[op.h.who]
    BY <1>3, MovingFacts
  <2>2. cursor_[t] \in 0 .. N /\ cursor_[t] < c
    <3>1. t \in 0 .. stateCount
      BY DEF State
    <3>2. cursor_[t] < cursor_[t+1]
      BY <1>3, <2>1, MovingFacts
    <3>3. QED
      BY <1>1, <1>3, <2>1, <3>1, <3>2 DEF IInv, TypeOK
  <2>3. c - 1 \in 0 .. N /\ c - 1 <= c
    BY <2>2
  <2>4. s - 1 = t
    BY <1>3, <2>1 DEF State
  <2>5. QED
    BY <1>1, <1>3, <2>1, <2>3, <2>4
<1>4. CASE Moving /\ ~Up /\ s = state_[op.h.who] /\ v = c + 1
  <2>1. s \in State /\ s + 1 \in 0 .. stateCount
    BY <1>4, MovingFacts DEF State
  <2>2. cursor_[s+1] \in 0 .. N /\ c < cursor_[s+1]
    BY <1>1, <1>4, <2>1, MovingFacts DEF IInv, TypeOK
  <2>3. c + 1 \in 0 .. N /\ c <= c + 1
    BY <2>2
  <2>4. QED
    BY <1>1, <1>4, <2>3
<1>5. QED
  BY <1>1, <1>2, <1>3, <1>4 DEF CursorRead

\* SparseSet.hpp:164: a racing read of dense_ returns a slot, and if that slot, or the
\* one that is at this position, is in a state no slot is leaving, it is the same slot.
LEMMA DenseReads ==
  ASSUME IInv, NEW p \in Who, NEW v \in DenseRead(p)
  PROVE  /\ v \in Who
         /\ \A s \in State : ~(Moving /\ state_[op.h.who] = s)
              => /\ state_[v] = s => where_[v] = p
                 /\ \A w \in Who : state_[w] = s /\ where_[w] = p => v = w
<1>1. dense_[p] \in Who /\ where_[dense_[p]] = p
      /\ \A w \in Who : where_[w] = p => w = dense_[p]
  BY DEF IInv, TypeOK, Consistent, Permutation
<1>2. CASE v = dense_[p]
  BY <1>1, <1>2
<1>3. CASE Moving /\ p = From /\ v = dense_[To]
  BY <1>1, <1>3, MovingFacts
<1>4. CASE Moving /\ p = To /\ v = dense_[From]
  BY <1>1, <1>4, MovingFacts
<1>5. QED
  BY <1>2, <1>3, <1>4 DEF DenseRead

\* SparseSet.hpp:107-150: a step of another thread that takes no slot out of state s
\* moves none of its slots, and its cursors only move apart.
LEMMA OthersStay ==
  ASSUME IInv, [Next]_vars, NEW s \in State, ~(Moving /\ state_[op.h.who] = s)
  PROVE  /\ \A w \in Who : state_[w] = s => state_'[w] = s /\ where_'[w] = where_[w]
         /\ cursor_'[s] <= cursor_[s]
         /\ cursor_[s+1] <= cursor_'[s+1]
<1>1. s \in 0 .. stateCount /\ s + 1 \in 0 .. stateCount
  BY DEF State
<1>2. PICK lo \in 0 .. N : lo = cursor_[s]
  BY <1>1 DEF IInv, TypeOK
<1>3. PICK hi \in 0 .. N : hi = cursor_[s+1]
  BY <1>1 DEF IInv, TypeOK
<1>4. lo <= lo /\ hi <= hi
  OBVIOUS
<1>5. CASE UNCHANGED <<where_, state_, cursor_>>
  BY <1>2, <1>3, <1>4, <1>5
<1>6. CASE IncrementState
  <2>1. Moving /\ Up
    BY <1>6 DEF IInv, TypeOK, State, IncrementState, Moving, Up
  <2>2. PICK who \in Who : who = op.h.who
    BY <2>1, MovingFacts
  <2>3. PICK c \in State : c = state_[who]
    BY <2>1, <2>2, MovingFacts
  <2>4. /\ SwapDense(From, To)
        /\ cursor_' = [cursor_ EXCEPT ![c+1] = @ - 1]
        /\ state_' = [state_ EXCEPT ![who] = c + 1]
    BY <1>6, <2>1, <2>2, <2>3 DEF IncrementState, From, To
  <2>5. /\ where_'[who] = To /\ where_'[dense_[To]] = From
        /\ \A w \in Who : w # who /\ w # dense_[To] => where_'[w] = where_[w]
    BY <2>1, <2>2, <2>4, MovingFacts, SwapKeepsPermutation DEF IInv, TypeOK, Consistent
  <2>6. c # s /\ c + 1 # s + 1 /\ state_[dense_[To]] = c
    BY <2>1, <2>2, <2>3, MovingFacts DEF State
  <2>7. ASSUME NEW w \in Who, state_[w] = s
        PROVE  state_'[w] = s /\ where_'[w] = where_[w]
    BY <2>3, <2>4, <2>5, <2>6, <2>7 DEF IInv, TypeOK
  <2>8. cursor_'[s+1] = cursor_[s+1] /\ (s = c + 1 => cursor_'[s] = lo - 1)
        /\ (s # c + 1 => cursor_'[s] = lo)
    BY <1>1, <1>2, <2>4, <2>6 DEF IInv, TypeOK
  <2>9. lo - 1 <= lo
    OBVIOUS
  <2>10. QED
    BY <1>2, <1>3, <1>4, <2>7, <2>8, <2>9
<1>7. CASE DecrementState
  <2>1. Moving /\ ~Up
    <3>1. op.h.who \in Who /\ op.kind # "none" /\ state_[op.h.who] > op.target
      BY <1>7 DEF IInv, OpHandleValid, IsValid, TypeOK, Handle, Who, DecrementState
    <3>2. state_[op.h.who] \in Int /\ op.target \in Int
      BY <3>1 DEF IInv, TypeOK, State
    <3>3. QED
      BY <3>1, <3>2 DEF Moving, Up
  <2>2. PICK who \in Who : who = op.h.who
    BY <2>1, MovingFacts
  <2>3. PICK c \in State : c = state_[who]
    BY <2>1, <2>2, MovingFacts
  <2>4. /\ SwapDense(From, To)
        /\ cursor_' = [cursor_ EXCEPT ![c] = @ + 1]
        /\ state_' = [state_ EXCEPT ![who] = c - 1]
    BY <1>7, <2>1, <2>2, <2>3 DEF DecrementState, From, To
  <2>5. /\ where_'[who] = To /\ where_'[dense_[To]] = From
        /\ \A w \in Who : w # who /\ w # dense_[To] => where_'[w] = where_[w]
    BY <2>1, <2>2, <2>4, MovingFacts, SwapKeepsPermutation DEF IInv, TypeOK, Consistent
  <2>6. c # s /\ state_[dense_[To]] = c
    BY <2>1, <2>2, <2>3, MovingFacts
  <2>7. ASSUME NEW w \in Who, state_[w] = s
        PROVE  state_'[w] = s /\ where_'[w] = where_[w]
    BY <2>3, <2>4, <2>5, <2>6, <2>7 DEF IInv, TypeOK
  <2>8. cursor_'[s] = cursor_[s] /\ (s + 1 = c => cursor_'[s+1] = hi + 1)
        /\ (s + 1 # c => cursor_'[s+1] = hi)
    BY <1>1, <1>3, <2>4, <2>6 DEF IInv, TypeOK
  <2>9. hi <= hi + 1
    OBVIOUS
  <2>10. QED
    BY <1>2, <1>3, <1>4, <2>7, <2>8, <2>9
<1>8. QED
  BY <1>5, <1>6, <1>7 DEF Next, Pop, Push, MoveToState, Begin, Fail, Return, table, vars

\* The part of the invariant that is about the scan.  A slot that was in the state when
\* the scan began is still in it and has been listed once if the loop has passed its
\* position, else not at all; what the reserve has read so far is on the right side of
\* the cursor it has not read yet.
ScanInv ==
  /\ STypeOK
  /\ pc = "read" => i \in Who
  /\ pc = "idle" => there = {} /\ listed = None /\ ~left
  /\ \A w \in there : /\ state_[w] = state
                      /\ listed[w] = IF pc \in {"test", "read"} /\ where_[w] < i THEN 1 ELSE 0
  /\ pc = "reserve" /\ ~left => \/ edge.at = state /\ edge.value <= cursor_[state+1]
                                \/ edge.at = state + 1 /\ cursor_[state] <= edge.value

SInv == IInv /\ ScanInv

\* The state that is scanned and its two cursors.
LEMMA ScanState ==
  ASSUME SInv
  PROVE  /\ state \in State /\ state \in 0 .. stateCount /\ state + 1 \in 0 .. stateCount
         /\ (state + 1) - 1 = state
         /\ cursor_[state] \in 0 .. N /\ cursor_[state+1] \in 0 .. N
         /\ cursor_[state] <= cursor_[state+1]
         /\ there \subseteq Who /\ listed \in [Who -> 0 .. N] /\ left \in BOOLEAN
         /\ \A w \in Who : where_[w] \in Who
         /\ \A w \in there : cursor_[state] <= where_[w] /\ where_[w] < cursor_[state+1]
<1>1. state \in State /\ there \subseteq Who /\ listed \in [Who -> 0 .. N] /\ left \in BOOLEAN
  BY DEF SInv, ScanInv, STypeOK
<1>2. state \in 0 .. stateCount /\ state + 1 \in 0 .. stateCount /\ (state + 1) - 1 = state
      /\ state <= state + 1
  BY <1>1 DEF State
<1>3. cursor_[state] \in 0 .. N /\ cursor_[state+1] \in 0 .. N
  BY <1>2 DEF SInv, IInv, TypeOK
<1>4. cursor_[state] <= cursor_[state+1]
  BY <1>2 DEF SInv, IInv, Consistent, CursorsOrdered
<1>5. \A w \in there : cursor_[state] <= where_[w] /\ where_[w] < cursor_[state+1]
  BY <1>1 DEF SInv, ScanInv, IInv, Consistent, Regions
<1>6. QED
  BY <1>1, <1>2, <1>3, <1>4, <1>5 DEF SInv, IInv, TypeOK

\* When a slot is leaving, or has left, there is nothing to say about the result.
LEMMA LeftStep ==
  ASSUME SInv, IInv', left' = TRUE, there' = {}, listed' = None,
         pc' \in Pc, state' \in State, edge' \in [at : 0 .. stateCount, value : 0 .. N],
         i' \in 0 .. N, pc' = "read" => i' \in Who, pc' # "idle"
  PROVE  SInv'
<1>1. listed' \in [Who -> 0 .. N]
  BY DEF None
<1>2. STypeOK'
  BY <1>1 DEF STypeOK, IInv
<1>3. QED
  BY <1>2 DEF SInv, ScanInv

\* What Track does while nothing leaves and once something does.
LEMMA TrackCases ==
  ASSUME SInv, NEW counts, Track(counts)
  PROVE  \/ (left \/ Leaving) /\ left' = TRUE /\ there' = {} /\ listed' = None
         \/ ~left /\ ~Leaving /\ left' = FALSE /\ there' = there /\ listed' = counts
<1>1. CASE left \/ Leaving
  BY <1>1 DEF Track
<1>2. CASE ~left /\ ~Leaving
  BY <1>2 DEF Track
<1>3. QED
  BY <1>1, <1>2

\* SparseSet.hpp:107-150: another thread's step.
LEMMA MutateStep == ASSUME SInv, Mutate PROVE SInv'
<1>1. IInv' /\ [Next]_vars
  BY NextStep DEF SInv, Mutate
<1>2. UNCHANGED <<pc, state, edge, i>>
  BY DEF Mutate
<1>3. CASE (left \/ Leaving) /\ left' = TRUE /\ there' = {} /\ listed' = None
  <2>1. pc \in Pc /\ state \in State /\ edge \in [at : 0 .. stateCount, value : 0 .. N]
        /\ i \in 0 .. N /\ (pc = "read" => i \in Who) /\ pc # "idle"
    BY <1>3 DEF SInv, ScanInv, STypeOK, Leaving
  <2>2. QED
    BY <1>1, <1>2, <1>3, <2>1, LeftStep
<1>4. CASE ~left /\ ~Leaving /\ left' = FALSE /\ there' = there /\ listed' = listed
  <2>1. STypeOK'
    BY <1>1, <1>2, <1>4 DEF SInv, ScanInv, STypeOK, IInv
  <2>2. CASE pc = "idle" /\ there = {}
    BY <1>1, <1>2, <1>4, <2>1, <2>2 DEF SInv, ScanInv
  <2>3. CASE pc # "idle"
    <3>1. ~(Moving /\ state_[op.h.who] = state)
      BY <1>4, <2>3 DEF Leaving
    <3>2. /\ \A w \in Who : state_[w] = state => state_'[w] = state /\ where_'[w] = where_[w]
          /\ cursor_'[state] <= cursor_[state] /\ cursor_[state+1] <= cursor_'[state+1]
      BY <1>1, <3>1, ScanState, OthersStay DEF SInv
    <3>3. \A w \in there : /\ state_'[w] = state
                           /\ listed[w] = IF pc \in {"test", "read"} /\ where_'[w] < i
                                          THEN 1 ELSE 0
      BY <3>2, ScanState DEF SInv, ScanInv
    <3>4. cursor_'[state] \in 0 .. N /\ cursor_'[state+1] \in 0 .. N
      BY <1>1, ScanState DEF IInv, TypeOK
    <3>5. ASSUME pc = "reserve"
          PROVE  \/ edge.at = state /\ edge.value <= cursor_'[state+1]
                 \/ edge.at = state + 1 /\ cursor_'[state] <= edge.value
      <4>1. edge.value \in 0 .. N
        BY DEF SInv, ScanInv, STypeOK
      <4>2. CASE edge.at = state /\ edge.value <= cursor_[state+1]
        BY <3>2, <3>4, <4>1, <4>2, ScanState
      <4>3. CASE edge.at = state + 1 /\ cursor_[state] <= edge.value
        BY <3>2, <3>4, <4>1, <4>3, ScanState
      <4>4. QED
        BY <1>4, <3>5, <4>2, <4>3 DEF SInv, ScanInv
    <3>6. pc = "read" => i \in Who
      BY DEF SInv, ScanInv
    <3>7. QED
      BY <1>1, <1>2, <1>4, <2>1, <3>3, <3>5, <3>6 DEF SInv, ScanInv
  <2>4. QED
    BY <2>2, <2>3 DEF SInv, ScanInv
<1>5. QED
  BY <1>3, <1>4, TrackCases DEF Mutate

\* The variables of SparseSet stand still while the reader takes a step.
LEMMA ReaderFrame ==
  SInv /\ UNCHANGED vars
    => IInv' /\ state_' = state_ /\ where_' = where_ /\ cursor_' = cursor_
BY StutterStep DEF SInv, vars

\* SparseSet.hpp:162: the first operand of the difference.
LEMMA ReserveFirstStep ==
  ASSUME SInv, NEW s \in Scanned, ReserveFirst(s)
  PROVE  SInv'
<1>1. IInv' /\ state_' = state_ /\ where_' = where_ /\ cursor_' = cursor_
  BY ReaderFrame DEF ReserveFirst
<1>2. s \in State /\ s \in 0 .. stateCount /\ s + 1 \in 0 .. stateCount /\ (s + 1) - 1 = s
      /\ s <= s + 1
  BY ScanAssumption DEF State
<1>0. PICK c \in {s, s+1} : \E v \in CursorRead(c) : edge' = [at |-> c, value |-> v]
  BY DEF ReserveFirst
<1>3. PICK v \in CursorRead(c) : edge' = [at |-> c, value |-> v]
  BY <1>0
<1>4. /\ v \in 0 .. N
      /\ c = s /\ ~(Moving /\ state_[op.h.who] = s) => v <= cursor_[s]
      /\ c = s + 1 /\ ~(Moving /\ state_[op.h.who] = s) => cursor_[s+1] <= v
  BY <1>2, CursorReads DEF SInv
<1>5. /\ pc' = "reserve" /\ state' = s /\ i' = i /\ listed' = listed /\ listed = None
      /\ left' = (Moving /\ state_[op.h.who] = s)
      /\ there' = IF left' THEN {} ELSE {w \in Who : state_[w] = s}
      /\ i \in 0 .. N
  BY DEF ReserveFirst, SInv, ScanInv, STypeOK
<1>6. edge' \in [at : 0 .. stateCount, value : 0 .. N]
  BY <1>2, <1>3, <1>4
<1>7. CASE Moving /\ state_[op.h.who] = s
  BY <1>1, <1>2, <1>5, <1>6, <1>7, LeftStep DEF Pc
<1>8. CASE ~(Moving /\ state_[op.h.who] = s)
  <2>1. left' = FALSE /\ there' = {w \in Who : state_[w] = s}
    BY <1>5, <1>8
  <2>2. STypeOK'
    <3>1. listed' \in [Who -> 0 .. N]
      BY <1>5 DEF None
    <3>2. there' \in SUBSET Who
      BY <2>1
    <3>3. QED
      BY <1>1, <1>2, <1>5, <1>6, <2>1, <3>1, <3>2 DEF STypeOK, IInv, Pc
  <2>3. \A w \in there' : state_[w] = s /\ listed'[w] = 0
    BY <1>5, <2>1 DEF None
  <2>4. cursor_[s] \in 0 .. N /\ cursor_[s+1] \in 0 .. N /\ cursor_[s] <= cursor_[s+1]
    BY <1>2 DEF SInv, IInv, TypeOK, Consistent, CursorsOrdered
  <2>5. \/ edge'.at = s /\ edge'.value <= cursor_[s+1]
        \/ edge'.at = s + 1 /\ cursor_[s] <= edge'.value
    <3>1. CASE c = s
      BY <1>3, <1>4, <1>8, <2>4, <3>1
    <3>2. CASE c = s + 1
      BY <1>3, <1>4, <1>8, <2>4, <3>2
    <3>3. QED
      BY <3>1, <3>2
  <2>6. QED
    BY <1>1, <1>5, <2>2, <2>3, <2>5 DEF SInv, ScanInv
<1>9. QED
  BY <1>7, <1>8

\* SparseSet.hpp:162: the second one.  If no slot is leaving it does not wrap.
LEMMA ReserveSecondStep ==
  ASSUME SInv, ReserveSecond
  PROVE  SInv' /\ (~left /\ ~Leaving => pc' # "thrown")
<1>1. IInv' /\ state_' = state_ /\ where_' = where_ /\ cursor_' = cursor_
  BY ReaderFrame DEF ReserveSecond
<1>2. PICK v \in CursorRead(IF edge.at = state THEN state + 1 ELSE state) :
        pc' = IF (IF edge.at = state THEN v < edge.value ELSE edge.value < v)
              THEN "thrown" ELSE "start"
  BY DEF ReserveSecond
<1>3. /\ pc = "reserve" /\ edge' = NoEdge /\ state' = state /\ i' = i
      /\ pc' \in {"thrown", "start"} /\ state \in State /\ i \in 0 .. N
      /\ edge.value \in 0 .. N
  BY <1>2 DEF ReserveSecond, SInv, ScanInv, STypeOK
<1>4. edge' \in [at : 0 .. stateCount, value : 0 .. N]
  BY <1>3 DEF NoEdge
<1>5. CASE (left \/ Leaving) /\ left' = TRUE /\ there' = {} /\ listed' = None
  <2>1. SInv'
    BY <1>1, <1>3, <1>4, <1>5, LeftStep DEF Pc
  <2>2. QED
    BY <1>5, <2>1
<1>6. CASE ~left /\ ~Leaving /\ left' = FALSE /\ there' = there /\ listed' = listed
  <2>1. ~(Moving /\ state_[op.h.who] = state)
    BY <1>3, <1>6 DEF Leaving
  <2>2. ASSUME edge.at = state, edge.value <= cursor_[state+1] PROVE pc' = "start"
    <3>1. v \in CursorRead(state + 1)
      BY <1>2, <2>2
    <3>2. v \in 0 .. N /\ cursor_[state+1] <= v
      BY <2>1, <3>1, ScanState, CursorReads DEF SInv
    <3>3. ~(v < edge.value)
      BY <1>3, <2>2, <3>2, ScanState
    <3>4. QED
      BY <1>2, <2>2, <3>3
  <2>3. ASSUME edge.at = state + 1, cursor_[state] <= edge.value PROVE pc' = "start"
    <3>1. edge.at # state
      BY <2>3, <1>3 DEF State
    <3>2. v \in CursorRead(state)
      BY <1>2, <3>1
    <3>3. v \in 0 .. N /\ v <= cursor_[state]
      BY <2>1, <3>2, ScanState, CursorReads DEF SInv
    <3>4. ~(edge.value < v)
      BY <1>3, <2>3, <3>3, ScanState
    <3>5. QED
      BY <1>2, <3>1, <3>4
  <2>4. pc' = "start"
    BY <1>2, <1>3, <1>6, <2>2, <2>3 DEF SInv, ScanInv
  <2>5. STypeOK'
    BY <1>1, <1>3, <1>4, <1>6, <2>4 DEF SInv, ScanInv, STypeOK, IInv, Pc
  <2>6. \A w \in there' : state_[w] = state /\ listed'[w] = 0
    BY <1>3, <1>6 DEF SInv, ScanInv
  <2>7. SInv'
    BY <1>1, <1>3, <2>4, <2>5, <2>6 DEF SInv, ScanInv
  <2>8. QED
    BY <2>4, <2>7
<1>7. QED
  BY <1>5, <1>6, TrackCases DEF ReserveSecond

\* SparseSet.hpp:163: the loop begins at or before every slot that is in the state.
LEMMA LoopStartStep == ASSUME SInv, LoopStart PROVE SInv'
<1>1. IInv' /\ state_' = state_ /\ where_' = where_ /\ cursor_' = cursor_
  BY ReaderFrame DEF LoopStart
<1>2. /\ pc = "start" /\ pc' = "test" /\ edge' = edge /\ state' = state
      /\ i' \in CursorRead(state)
      /\ edge \in [at : 0 .. stateCount, value : 0 .. N]
  BY DEF LoopStart, SInv, ScanInv, STypeOK
<1>3. i' \in 0 .. N /\ (~(Moving /\ state_[op.h.who] = state) => i' <= cursor_[state])
  BY <1>2, ScanState, CursorReads DEF SInv
<1>4. CASE (left \/ Leaving) /\ left' = TRUE /\ there' = {} /\ listed' = None
  BY <1>1, <1>2, <1>3, <1>4, ScanState, LeftStep DEF Pc
<1>5. CASE ~left /\ ~Leaving /\ left' = FALSE /\ there' = there /\ listed' = listed
  <2>1. i' <= cursor_[state]
    BY <1>2, <1>3, <1>5 DEF Leaving
  <2>2. ASSUME NEW w \in there PROVE ~(where_[w] < i')
    <3>1. PICK p \in Int : p = where_[w]
      <4>1. w \in Who /\ where_[w] \in Who
        BY ScanState
      <4>2. QED
        BY <4>1 DEF Who
    <3>2. PICK c \in Int : c = cursor_[state]
      BY ScanState
    <3>3. c <= p /\ i' <= c /\ i' \in Int
      BY <1>3, <2>1, <3>1, <3>2, ScanState
    <3>4. QED
      BY <3>1, <3>3
  <2>3. \A w \in there : state_[w] = state /\ listed[w] = 0
    BY <1>2 DEF SInv, ScanInv
  <2>4. STypeOK'
    BY <1>1, <1>2, <1>3, <1>5 DEF SInv, ScanInv, STypeOK, IInv, Pc
  <2>5. QED
    BY <1>1, <1>2, <1>5, <2>2, <2>3, <2>4 DEF SInv, ScanInv
<1>6. QED
  BY <1>4, <1>5, TrackCases DEF LoopStart

\* SparseSet.hpp:163: the loop's test.  If no slot is leaving, the loop ends only past
\* every slot that was in the state.
LEMMA LoopTestStep ==
  ASSUME SInv, LoopTest
  PROVE  SInv' /\ (~left /\ ~Leaving /\ pc' = "idle" => \A w \in there : listed[w] = 1)
<1>1. IInv' /\ state_' = state_ /\ where_' = where_ /\ cursor_' = cursor_
  BY ReaderFrame DEF LoopTest
<1>2. PICK end \in CursorRead(state + 1) :
        IF i < end
        THEN pc' = "read" /\ Track(listed) /\ UNCHANGED <<state, edge, i>>
        ELSE /\ pc' = "idle" /\ state' = 0 /\ edge' = NoEdge /\ i' = 0
             /\ listed' = None /\ there' = {} /\ left' = FALSE
  BY DEF LoopTest
<1>3. end \in 0 .. N /\ (~(Moving /\ state_[op.h.who] = state) => cursor_[state+1] <= end)
  BY ScanState, CursorReads DEF SInv
<1>4. pc = "test" /\ i \in 0 .. N /\ edge \in [at : 0 .. stateCount, value : 0 .. N]
  BY DEF LoopTest, SInv, ScanInv, STypeOK
<1>5. CASE i < end
  <2>1. pc' = "read" /\ Track(listed) /\ state' = state /\ edge' = edge /\ i' = i
    BY <1>2, <1>5
  <2>2. i \in Who
    BY <1>3, <1>4, <1>5 DEF Who
  <2>3. CASE (left \/ Leaving) /\ left' = TRUE /\ there' = {} /\ listed' = None
    BY <1>1, <1>4, <2>1, <2>2, <2>3, ScanState, LeftStep DEF Pc
  <2>4. CASE ~left /\ ~Leaving /\ left' = FALSE /\ there' = there /\ listed' = listed
    <3>1. STypeOK'
      BY <1>1, <1>4, <2>1, <2>4 DEF SInv, ScanInv, STypeOK, IInv, Pc
    <3>2. QED
      BY <1>1, <1>4, <2>1, <2>2, <2>4, <3>1 DEF SInv, ScanInv
  <2>5. QED
    BY <2>1, <2>3, <2>4, TrackCases
<1>6. CASE ~(i < end)
  <2>1. /\ pc' = "idle" /\ state' = 0 /\ edge' = NoEdge /\ i' = 0
        /\ listed' = None /\ there' = {} /\ left' = FALSE
    BY <1>2, <1>6
  <2>2. STypeOK'
    <3>1. NoEdge \in [at : 0 .. stateCount, value : 0 .. N] /\ 0 \in State /\ 0 \in 0 .. N
          /\ None \in [Who -> 0 .. N]
      BY DEF NoEdge, State, None
    <3>2. QED
      BY <1>1, <2>1, <3>1 DEF STypeOK, IInv, Pc
  <2>3. SInv'
    BY <1>1, <2>1, <2>2 DEF SInv, ScanInv
  <2>4. ASSUME ~left, ~Leaving, NEW w \in there PROVE listed[w] = 1
    <3>1. cursor_[state+1] <= end
      BY <1>3, <1>4, <2>4 DEF Leaving
    <3>2. where_[w] \in Who /\ where_[w] < cursor_[state+1]
      BY ScanState
    <3>3. where_[w] < i
      <4>1. PICK p \in Int : p = where_[w]
        BY <3>2 DEF Who
      <4>2. PICK c \in Int : c = cursor_[state+1]
        BY ScanState
      <4>3. p < c /\ c <= end /\ ~(i < end) /\ end \in Int /\ i \in Int
        BY <1>3, <1>4, <1>6, <3>1, <3>2, <4>1, <4>2
      <4>4. QED
        BY <4>1, <4>3
    <3>4. QED
      BY <1>4, <3>3 DEF SInv, ScanInv
  <2>5. QED
    BY <2>3, <2>4
<1>7. QED
  BY <1>5, <1>6

\* SparseSet.hpp:164: one slot is pushed back.
LEMMA PushBackStep == ASSUME SInv, PushBack PROVE SInv'
<1>1. IInv' /\ state_' = state_ /\ where_' = where_ /\ cursor_' = cursor_
  BY ReaderFrame DEF PushBack
<1>2. /\ pc = "read" /\ pc' = "test" /\ edge' = edge /\ state' = state /\ i' = i + 1
      /\ edge \in [at : 0 .. stateCount, value : 0 .. N] /\ i \in Who
  BY DEF PushBack, SInv, ScanInv, STypeOK
<1>3. i' \in 0 .. N
  BY <1>2 DEF Who
<1>4. PICK v \in DenseRead(i) :
        Track(IF v \in there THEN [listed EXCEPT ![v] = @ + 1] ELSE listed)
  BY DEF PushBack
<1>5. CASE (left \/ Leaving) /\ left' = TRUE /\ there' = {} /\ listed' = None
  BY <1>1, <1>2, <1>3, <1>5, ScanState, LeftStep DEF Pc
<1>6. CASE /\ ~left /\ ~Leaving /\ left' = FALSE /\ there' = there
           /\ listed' = IF v \in there THEN [listed EXCEPT ![v] = @ + 1] ELSE listed
  <2>1. ~(Moving /\ state_[op.h.who] = state)
    BY <1>2, <1>6 DEF Leaving
  <2>2. /\ v \in Who
        /\ state_[v] = state => where_[v] = i
        /\ \A w \in Who : state_[w] = state /\ where_[w] = i => v = w
    BY <1>2, <2>1, ScanState, DenseReads DEF SInv
  <2>3. \A w \in there : /\ state_[w] = state
                         /\ listed[w] = IF where_[w] < i THEN 1 ELSE 0
    BY <1>2 DEF SInv, ScanInv
  <2>4. v \in there => where_[v] = i /\ listed[v] = 0
    BY <1>2, <2>2, <2>3 DEF Who
  <2>5. listed' \in [Who -> 0 .. N]
    <3>1. CASE v \in there
      BY <1>6, <2>2, <2>4, <3>1, ScanState
    <3>2. CASE v \notin there
      BY <1>6, <3>2, ScanState
    <3>3. QED
      BY <3>1, <3>2
  <2>6. ASSUME NEW w \in there PROVE listed'[w] = IF where_[w] < i + 1 THEN 1 ELSE 0
    <3>1. w \in Who /\ where_[w] \in Who
      BY ScanState
    <3>2. CASE where_[w] = i
      <4>1. v = w
        BY <2>2, <2>3, <3>1, <3>2
      <4>2. listed'[w] = 1
        BY <1>6, <2>4, <3>1, <4>1, ScanState
      <4>3. QED
        BY <1>2, <3>2, <4>2 DEF Who
    <3>3. CASE where_[w] # i
      <4>1. v # w
        BY <2>2, <2>3, <3>3
      <4>2. listed'[w] = listed[w]
        BY <1>6, <3>1, <4>1, ScanState
      <4>3. where_[w] < i + 1 <=> where_[w] < i
        BY <1>2, <3>1, <3>3 DEF Who
      <4>4. QED
        BY <2>3, <4>2, <4>3
    <3>4. QED
      BY <3>2, <3>3
  <2>7. STypeOK'
    BY <1>1, <1>2, <1>3, <1>6, <2>5, ScanState DEF STypeOK, IInv, Pc
  <2>8. QED
    BY <1>1, <1>2, <1>6, <2>3, <2>6, <2>7 DEF SInv, ScanInv
<1>7. \/ (left \/ Leaving) /\ left' = TRUE /\ there' = {} /\ listed' = None
      \/ /\ ~left /\ ~Leaving /\ left' = FALSE /\ there' = there
         /\ listed' = IF v \in there THEN [listed EXCEPT ![v] = @ + 1] ELSE listed
  <2>1. CASE left \/ Leaving
    <3>1. left' = TRUE
      BY <1>4, <2>1 DEF Track
    <3>2. QED
      BY <1>4, <2>1, <3>1 DEF Track
  <2>2. CASE ~left /\ ~Leaving
    <3>1. left' = FALSE
      BY <1>4, <2>2 DEF Track
    <3>2. QED
      BY <1>4, <2>2, <3>1 DEF Track
  <2>3. QED
    BY <2>1, <2>2
<1>8. QED
  BY <1>5, <1>6, <1>7

\* The scan's invariant is inductive.
LEMMA SNextStep == SInv /\ [SNext]_svars => SInv'
<1> SUFFICES ASSUME SInv, [SNext]_svars PROVE SInv'
  OBVIOUS
<1>1. CASE UNCHANGED svars
  <2>1. UNCHANGED vars /\ UNCHANGED <<pc, state, edge, i, listed, there, left>>
    BY <1>1 DEF svars, reader
  <2>2. IInv' /\ state_' = state_ /\ where_' = where_ /\ cursor_' = cursor_
    BY <2>1, ReaderFrame
  <2>3. QED
    BY <2>1, <2>2 DEF SInv, ScanInv, STypeOK, IInv
<1>2. QED
  BY <1>1, MutateStep, ReserveFirstStep, ReserveSecondStep, LoopStartStep, LoopTestStep,
     PushBackStep DEF SNext, GetIndicesInState

\* It holds whenever the reader looks, whatever the other threads do.
THEOREM ScanInvariance == SSpec => []SInv
<1>1. SInit => SInv
  <2> SUFFICES ASSUME SInit PROVE SInv
    OBVIOUS
  <2>1. IInv
    BY InitInv DEF SInit
  <2>2. NoEdge \in [at : 0 .. stateCount, value : 0 .. N] /\ 0 \in State /\ 0 \in 0 .. N
        /\ None \in [Who -> 0 .. N]
    BY DEF NoEdge, State, None
  <2>3. QED
    BY <2>1, <2>2 DEF SInit, SInv, ScanInv, STypeOK, IInv, Pc
<1>2. QED
  BY <1>1, SNextStep, PTL DEF SSpec

\* The types of the table and of the scan.
THEOREM ScanTypes == SSpec => []STypeOK
<1>1. SInv => STypeOK
  BY DEF SInv, ScanInv
<1>2. QED
  BY <1>1, ScanInvariance, PTL

\* SparseSet.hpp:161-165: for every size of the table and every state, a scan during
\* which no slot leaves the state lists each slot that was in it exactly once, and its
\* reserve does not wrap, although it reads without the mutex and other threads move
\* slots between, and during, its reads.
THEOREM ScanAlwaysExact == SSpec => ScanExact
<1>1. ASSUME SInv, [SNext]_svars, ~left, ~Leaving
      PROVE  /\ pc' = "thrown" => pc = "thrown"
             /\ pc = "test" /\ pc' = "idle" => \A w \in there : listed[w] = 1
  <2>1. CASE Mutate \/ UNCHANGED svars
    BY <2>1 DEF Mutate, svars, reader
  <2>2. ASSUME NEW s \in Scanned, ReserveFirst(s) PROVE pc' = "reserve" /\ pc = "idle"
    BY <2>2 DEF ReserveFirst
  <2>3. CASE ReserveSecond
    BY <1>1, <2>3, ReserveSecondStep DEF ReserveSecond
  <2>4. CASE LoopTest
    BY <1>1, <2>4, LoopTestStep DEF LoopTest
  <2>5. CASE LoopStart \/ PushBack
    BY <2>5 DEF LoopStart, PushBack
  <2>6. QED
    BY <1>1, <2>1, <2>2, <2>3, <2>4, <2>5 DEF SNext, GetIndicesInState
<1>2. SInv /\ [SNext]_svars
        => [~left /\ ~Leaving =>
              /\ pc' = "thrown" => pc = "thrown"
              /\ pc = "test" /\ pc' = "idle" => \A w \in there : listed[w] = 1]_svars
  BY <1>1
<1>3. QED
  BY <1>2, ScanInvariance, PTL DEF SSpec, ScanExact

\* A scan changes nothing: SparseSet with a reader is still SparseSet, so what is proved
\* of Spec holds beside any number of scans.
THEOREM ScanIsSilent == SSpec => Spec
<1>1. SInit => Init
  BY DEF SInit
<1>2. [SNext]_svars => [Next]_vars
  BY DEF SNext, Mutate, GetIndicesInState, ReserveFirst, ReserveSecond, LoopStart, LoopTest,
         PushBack, svars
<1>3. QED
  BY <1>1, <1>2, PTL DEF SSpec, Spec
=============================================================================
