---------------------------- MODULE QueueLemmas ----------------------------
(***************************************************************************)
(* What the schedulers' proofs need to know of queues whose entries are    *)
(* all different: taking from either end and adding at the tail move       *)
(* entries and neither lose nor double one.                                *)
(***************************************************************************)
EXTENDS SequencesExt, SequenceTheorems, FiniteSetTheorems, TLAPS

\* No entry is twice in the queue.
Distinct(s) == \A i, j \in 1 .. Len(s) : s[i] = s[j] => i = j

\* The entries of a queue.
LEMMA Entries ==
  ASSUME NEW S, NEW s \in Seq(S)
  PROVE  /\ \A x : x \in Range(s) <=> \E i \in 1 .. Len(s) : s[i] = x
         /\ Range(s) \subseteq S /\ Len(s) \in Nat /\ (s = << >> <=> Len(s) = 0)
         /\ s = << >> => Range(s) = {} /\ Distinct(s)
BY DEF Range, Distinct

\* The first c entries and the others.
LEMMA Cut ==
  ASSUME NEW S, NEW s \in Seq(S), NEW c \in 0 .. Len(s), Distinct(s)
  PROVE  LET front == SubSeq(s, 1, c)
             back  == SubSeq(s, c + 1, Len(s))
         IN /\ front \in Seq(S) /\ back \in Seq(S) /\ Distinct(front) /\ Distinct(back)
            /\ Len(front) = c /\ Len(back) = Len(s) - c
            /\ \A x : x \in Range(s) <=> x \in Range(front) \/ x \in Range(back)
            /\ \A x : ~(x \in Range(front) /\ x \in Range(back))
<1> DEFINE front == SubSeq(s, 1, c)
           back == SubSeq(s, c + 1, Len(s))
<1>1. Len(s) \in Nat /\ c \in Nat /\ c <= Len(s) /\ \A i \in 1 .. Len(s) : s[i] \in S
  OBVIOUS
<1>2. /\ front \in Seq(S) /\ Len(front) = c
      /\ \A i \in 1 .. c : front[i] = s[i]
  BY <1>1, SubSeqProperties
<1>3. /\ back \in Seq(S) /\ Len(back) = Len(s) - c
      /\ \A i \in 1 .. Len(s) - c : back[i] = s[i + c]
  <2>1. /\ back \in Seq(S)
        /\ Len(back) = IF c + 1 <= Len(s) THEN Len(s) - (c + 1) + 1 ELSE 0
        /\ \A i \in 1 .. Len(s) - (c + 1) + 1 : back[i] = s[(c + 1) + i - 1]
    <3>1. c + 1 \in Int /\ Len(s) \in Int /\ \A i \in c + 1 .. Len(s) : s[i] \in S
      BY <1>1
    <3>2. QED
      BY <3>1, SubSeqProperties
  <2>2. QED
    BY <1>1, <2>1
<1> HIDE DEF front, back
<1>4. Distinct(front)
  BY <1>1, <1>2 DEF Distinct
<1>5. Distinct(back)
  BY <1>1, <1>3 DEF Distinct
<1>6. ASSUME NEW x PROVE x \in Range(s) <=> x \in Range(front) \/ x \in Range(back)
  <2>1. ASSUME NEW i \in 1 .. Len(s), s[i] = x PROVE x \in Range(front) \/ x \in Range(back)
    <3>1. CASE i <= c
      BY <1>1, <1>2, <2>1, <3>1, Entries
    <3>2. CASE i > c
      <4>1. i - c \in 1 .. Len(s) - c /\ back[i - c] = s[i]
        BY <1>1, <1>3, <3>2
      <4>2. QED
        BY <1>3, <2>1, <4>1, Entries
    <3>3. QED
      BY <1>1, <3>1, <3>2
  <2>2. x \in Range(front) => x \in Range(s)
    BY <1>1, <1>2, Entries
  <2>3. ASSUME NEW i \in 1 .. Len(s) - c, back[i] = x PROVE x \in Range(s)
    <3>1. i + c \in 1 .. Len(s) /\ s[i + c] = x
      BY <1>1, <1>3, <2>3
    <3>2. QED
      BY <3>1, Entries
  <2>4. QED
    BY <1>2, <1>3, <2>1, <2>2, <2>3, Entries
<1>7. ASSUME NEW x, x \in Range(front), x \in Range(back) PROVE FALSE
  <2>1. PICK i \in 1 .. c : front[i] = x
    BY <1>2, <1>7, Entries
  <2>2. PICK j \in 1 .. Len(s) - c : back[j] = x
    BY <1>3, <1>7, Entries
  <2>3. i \in 1 .. Len(s) /\ j + c \in 1 .. Len(s) /\ s[i] = s[j + c] /\ i # j + c
    BY <1>1, <1>2, <1>3, <2>1, <2>2
  <2>4. QED
    BY <2>3 DEF Distinct
<1>8. QED
  BY <1>2, <1>3, <1>4, <1>5, <1>6, <1>7 DEF front, back

\* Entries that are added at the tail.
LEMMA Add ==
  ASSUME NEW S, NEW s \in Seq(S), NEW t \in Seq(S), Distinct(s), Distinct(t),
         \A x : ~(x \in Range(s) /\ x \in Range(t))
  PROVE  /\ s \o t \in Seq(S) /\ Len(s \o t) = Len(s) + Len(t) /\ Distinct(s \o t)
         /\ \A x : x \in Range(s \o t) <=> x \in Range(s) \/ x \in Range(t)
<1> DEFINE u == s \o t
<1>1. /\ u \in Seq(S) /\ Len(u) = Len(s) + Len(t) /\ Len(s) \in Nat /\ Len(t) \in Nat
      /\ \A i \in 1 .. Len(s) + Len(t) : u[i] = IF i <= Len(s) THEN s[i] ELSE t[i - Len(s)]
  BY ConcatProperties
<1> HIDE DEF u
<1>2. \A i \in 1 .. Len(s) : s[i] \in Range(s)
  BY Entries
<1>3. \A i \in 1 .. Len(t) : t[i] \in Range(t)
  BY Entries
<1>4. \A i \in 1 .. Len(u) : \/ i \in 1 .. Len(s) /\ u[i] = s[i]
                             \/ i - Len(s) \in 1 .. Len(t) /\ u[i] = t[i - Len(s)] /\ i > Len(s)
  BY <1>1
<1>5. Range(u) = Range(s) \cup Range(t)
  BY RangeConcatenation DEF u
<1>6. Distinct(u)
  <2> SUFFICES ASSUME NEW i \in 1 .. Len(u), NEW j \in 1 .. Len(u), u[i] = u[j] PROVE i = j
    BY DEF Distinct
  <2>1. CASE i <= Len(s) /\ j <= Len(s)
    BY <1>1, <1>4, <2>1 DEF Distinct
  <2>2. CASE i > Len(s) /\ j > Len(s)
    <3>1. i - Len(s) \in 1 .. Len(t) /\ j - Len(s) \in 1 .. Len(t) /\ t[i - Len(s)] = t[j - Len(s)]
      BY <1>1, <1>4, <2>2
    <3>2. i - Len(s) = j - Len(s)
      BY <3>1 DEF Distinct
    <3>3. QED
      BY <1>1, <3>2
  <2>3. CASE ~(i <= Len(s) <=> j <= Len(s))
    <3>1. CASE i <= Len(s) /\ j > Len(s)
      <4>1. u[i] \in Range(s)
        BY <1>1, <1>2, <1>4, <3>1
      <4>2. u[j] \in Range(t)
        <5>1. j - Len(s) \in 1 .. Len(t) /\ u[j] = t[j - Len(s)]
          BY <1>1, <1>4, <3>1
        <5>2. QED
          BY <1>3, <5>1
      <4>3. QED
        BY <4>1, <4>2
    <3>2. CASE j <= Len(s) /\ i > Len(s)
      <4>1. u[j] \in Range(s)
        BY <1>1, <1>2, <1>4, <3>2
      <4>2. u[i] \in Range(t)
        <5>1. i - Len(s) \in 1 .. Len(t) /\ u[i] = t[i - Len(s)]
          BY <1>1, <1>4, <3>2
        <5>2. QED
          BY <1>3, <5>1
      <4>3. QED
        BY <4>1, <4>2
    <3>3. QED
      BY <1>1, <2>3, <3>1, <3>2
  <2>4. QED
    BY <1>1, <2>1, <2>2, <2>3
<1>7. QED
  BY <1>1, <1>5, <1>6 DEF u

\* The oldest entry is taken.
LEMMA PopHead ==
  ASSUME NEW S, NEW s \in Seq(S), s # << >>, Distinct(s)
  PROVE  /\ Tail(s) \in Seq(S) /\ Len(Tail(s)) = Len(s) - 1 /\ Distinct(Tail(s))
         /\ Head(s) \in S
         /\ \A x : x \in Range(s) <=> x = Head(s) \/ x \in Range(Tail(s))
         /\ Head(s) \notin Range(Tail(s))
<1>1. Len(s) \in Nat /\ Len(s) > 0 /\ Head(s) = s[1]
  BY Entries
<1>2. /\ Tail(s) \in Seq(S) /\ Len(Tail(s)) = Len(s) - 1 /\ Head(s) \in S
      /\ \A i \in 1 .. Len(s) - 1 : Tail(s)[i] = s[i + 1]
  BY HeadTailProperties
<1>3. Distinct(Tail(s))
  BY <1>1, <1>2 DEF Distinct
<1>4. ASSUME NEW i \in 1 .. Len(s) PROVE s[i] = Head(s) \/ s[i] \in Range(Tail(s))
  <2>1. CASE i = 1
    BY <1>1, <2>1
  <2>2. CASE i > 1
    <3>1. i - 1 \in 1 .. Len(s) - 1 /\ Tail(s)[i - 1] = s[i]
      BY <1>1, <1>2, <2>2
    <3>2. QED
      BY <1>2, <3>1, Entries
  <2>3. QED
    BY <2>1, <2>2
<1>5. ASSUME NEW i \in 1 .. Len(s) - 1 PROVE Tail(s)[i] \in Range(s) /\ Tail(s)[i] # Head(s)
  <2>1. i + 1 \in 1 .. Len(s) /\ 1 \in 1 .. Len(s) /\ i + 1 # 1 /\ Tail(s)[i] = s[i + 1]
    BY <1>1, <1>2
  <2>2. QED
    BY <1>1, <2>1, Entries DEF Distinct
<1>6. Head(s) \in Range(s)
  BY <1>1, Entries
<1>7. \A x : x \in Range(s) => x = Head(s) \/ x \in Range(Tail(s))
  BY <1>4, Entries
<1>8. ASSUME NEW x \in Range(Tail(s)) PROVE x \in Range(s) /\ x # Head(s)
  <2>1. PICK i \in 1 .. Len(Tail(s)) : Tail(s)[i] = x
    BY <1>2, Entries
  <2>2. QED
    BY <1>2, <1>5, <2>1
<1>9. QED
  BY <1>2, <1>3, <1>6, <1>7, <1>8

\* The newest entry is taken.
LEMMA PopLast ==
  ASSUME NEW S, NEW s \in Seq(S), s # << >>, Distinct(s)
  PROVE  /\ Front(s) \in Seq(S) /\ Len(Front(s)) = Len(s) - 1 /\ Distinct(Front(s))
         /\ Last(s) \in S
         /\ \A x : x \in Range(s) <=> x = Last(s) \/ x \in Range(Front(s))
         /\ Last(s) \notin Range(Front(s))
<1>1. Len(s) \in Nat /\ Len(s) > 0 /\ Last(s) = s[Len(s)] /\ \A i \in 1 .. Len(s) : s[i] \in S
  BY Entries DEF Last
<1>2. /\ Front(s) \in Seq(S) /\ Len(Front(s)) = Len(s) - 1
      /\ \A i \in 1 .. Len(s) - 1 : Front(s)[i] = s[i]
  <2>1. Len(s) - 1 \in Int /\ \A i \in 1 .. Len(s) - 1 : s[i] \in S
    BY <1>1
  <2>2. /\ SubSeq(s, 1, Len(s) - 1) \in Seq(S)
        /\ Len(SubSeq(s, 1, Len(s) - 1)) = IF 1 <= Len(s) - 1 THEN (Len(s) - 1) - 1 + 1 ELSE 0
        /\ \A i \in 1 .. (Len(s) - 1) - 1 + 1 : SubSeq(s, 1, Len(s) - 1)[i] = s[1 + i - 1]
    BY <2>1, SubSeqProperties
  <2>3. /\ Front(s) \in Seq(S)
        /\ Len(Front(s)) = IF 1 <= Len(s) - 1 THEN (Len(s) - 1) - 1 + 1 ELSE 0
        /\ \A i \in 1 .. (Len(s) - 1) - 1 + 1 : Front(s)[i] = s[1 + i - 1]
    BY <2>2 DEF Front
  <2>4. \A n \in Nat : n > 0 => /\ (n - 1) - 1 + 1 = n - 1
                                /\ (IF 1 <= n - 1 THEN (n - 1) - 1 + 1 ELSE 0) = n - 1
    OBVIOUS
  <2>5. Len(Front(s)) = Len(s) - 1
    BY <1>1, <2>3, <2>4, Zenon
  <2>6. ASSUME NEW i \in 1 .. Len(s) - 1 PROVE Front(s)[i] = s[i]
    <3>1. i \in 1 .. (Len(s) - 1) - 1 + 1 /\ 1 + i - 1 = i
      BY <1>1, <2>4
    <3>2. QED
      BY <2>3, <3>1, Zenon
  <2>7. QED
    BY <2>3, <2>5, <2>6
<1>3. Distinct(Front(s))
  BY <1>1, <1>2 DEF Distinct
<1>4. ASSUME NEW i \in 1 .. Len(s) PROVE s[i] = Last(s) \/ s[i] \in Range(Front(s))
  BY <1>1, <1>2, Entries
<1>5. ASSUME NEW i \in 1 .. Len(s) - 1 PROVE Front(s)[i] \in Range(s) /\ Front(s)[i] # Last(s)
  BY <1>1, <1>2, Entries DEF Distinct
<1>6. Last(s) \in Range(s)
  BY <1>1, Entries
<1>7. QED
  BY <1>1, <1>2, <1>3, <1>4, <1>5, <1>6, Entries

\* The order does not matter.
LEMMA Turned ==
  ASSUME NEW S, NEW s \in Seq(S), Distinct(s)
  PROVE  /\ Reverse(s) \in Seq(S) /\ Len(Reverse(s)) = Len(s) /\ Distinct(Reverse(s))
         /\ \A x : x \in Range(Reverse(s)) <=> x \in Range(s)
<1> DEFINE r == Reverse(s)
<1>1. Len(s) \in Nat /\ \A i \in 1 .. Len(s) : Len(s) - i + 1 \in 1 .. Len(s) /\ s[i] \in S
  OBVIOUS
<1>2. r = [i \in 1 .. Len(s) |-> s[(Len(s) - i) + 1]]
  BY DEF Reverse
<1>3. r \in Seq(S) /\ Len(r) = Len(s) /\ \A i \in 1 .. Len(s) : r[i] = s[Len(s) - i + 1]
  BY <1>1, <1>2, IsASeq
<1> HIDE DEF r
<1>4. Distinct(r)
  <2> SUFFICES ASSUME NEW i \in 1 .. Len(s), NEW j \in 1 .. Len(s), r[i] = r[j] PROVE i = j
    BY <1>3 DEF Distinct
  <2>1. Len(s) - i + 1 = Len(s) - j + 1
    BY <1>1, <1>3 DEF Distinct
  <2>2. QED
    BY <1>1, <2>1
<1>5. ASSUME NEW i \in 1 .. Len(s) PROVE s[i] \in Range(r) /\ r[i] \in Range(s)
  <2>1. r[i] = s[Len(s) - i + 1] /\ Len(s) - i + 1 \in 1 .. Len(s)
    BY <1>1, <1>3
  <2>2. r[Len(s) - i + 1] = s[i]
    <3>1. r[Len(s) - i + 1] = s[Len(s) - (Len(s) - i + 1) + 1]
      BY <1>1, <1>3
    <3>2. Len(s) - (Len(s) - i + 1) + 1 = i
      BY <1>1
    <3>3. QED
      BY <3>1, <3>2
  <2>3. QED
    BY <1>3, <2>1, <2>2, Entries
<1>6. ASSUME NEW x \in Range(r) PROVE x \in Range(s)
  <2>1. PICK i \in 1 .. Len(r) : r[i] = x
    BY <1>3, Entries
  <2>2. QED
    BY <1>3, <1>5, <2>1
<1>7. \A x : x \in Range(s) => x \in Range(r)
  BY <1>5, Entries
<1>8. QED
  BY <1>3, <1>4, <1>6, <1>7 DEF r

\* std::min.
LEMMA MinOfTwo ==
  ASSUME NEW a \in Int, NEW b \in Int
  PROVE  Min({a, b}) \in {a, b} /\ Min({a, b}) <= a /\ Min({a, b}) <= b
<1>1. \E x \in {a, b} : \A y \in {a, b} : x <= y
  OBVIOUS
<1>2. QED
  BY <1>1 DEF Min

\* std::min of an initializer list.
LEMMA MinOfThree ==
  ASSUME NEW a \in Int, NEW b \in Int, NEW c \in Int
  PROVE  /\ Min({a, b, c}) \in {a, b, c}
         /\ Min({a, b, c}) <= a /\ Min({a, b, c}) <= b /\ Min({a, b, c}) <= c
<1>1. \E x \in {a, b, c} : \A y \in {a, b, c} : x <= y
  OBVIOUS
<1>2. QED
  BY <1>1 DEF Min

\* A set whose elements are all the same.
LEMMA Single ==
  ASSUME NEW S, \A x, y \in S : x = y
  PROVE  Cardinality(S) = IF S = {} THEN 0 ELSE 1
<1>1. CASE S = {}
  BY <1>1, FS_EmptySet
<1>2. CASE S # {}
  <2>1. PICK x \in S : TRUE
    BY <1>2
  <2>2. S = {x}
    BY <2>1
  <2>3. QED
    BY <1>2, <2>2, FS_Singleton
<1>3. QED
  BY <1>1, <1>2
=============================================================================
