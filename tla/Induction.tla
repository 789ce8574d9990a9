----------------------------- MODULE Induction ------------------------------
(***************************************************************************)
(* Induction without operators as parameters: over a set of numbers instead *)
(* of a property of numbers, and for the functions that loops and walks are *)
(* defined by.                                                              *)
(***************************************************************************)
EXTENDS Integers, Sequences, SequenceTheorems, WellFoundedInduction, TLAPS

\* A set of numbers that has one has a least one.
LEMMA LeastExists ==
  ASSUME NEW S, S \subseteq Nat, S # {}
  PROVE  \E m \in S : \A k \in S : m <= k
<1>1. PICK m \in S : \A k \in S : ~(<<k, m>> \in OpToRel(<, Nat))
  BY NatLessThanWellFounded, WFMin
<1>2. \A k \in S : ~(k < m)
  BY <1>1 DEF OpToRel
<1>3. QED
  BY <1>2

\* What holds at the start of a walk, and after each step if it held before it.
LEMMA HoldsUpTo ==
  ASSUME NEW n \in Nat, NEW T, 0 \in T,
         \A i \in 0 .. n - 1 : i \in T => i + 1 \in T
  PROVE  0 .. n \subseteq T
<1> SUFFICES ASSUME (0 .. n) \ T # {} PROVE FALSE
  OBVIOUS
<1>1. PICK m \in (0 .. n) \ T : \A k \in (0 .. n) \ T : m <= k
  <2>1. (0 .. n) \ T \subseteq Nat
    OBVIOUS
  <2>2. QED
    BY <2>1, LeastExists
<1>2. m # 0 /\ m - 1 \in 0 .. n - 1
  BY <1>1
<1>3. m - 1 \in T
  BY <1>1, <1>2
<1>4. QED
  BY <1>1, <1>2, <1>3

\* What holds of the empty sequence, and of one more element if it held without it.
LEMMA HoldsOfSequences ==
  ASSUME NEW S, NEW T, <<>> \in T,
         \A s \in Seq(S), e \in S : s \in T => Append(s, e) \in T
  PROVE  Seq(S) \subseteq T
<1> SUFFICES ASSUME NEW s \in Seq(S) PROVE s \in T
  OBVIOUS
<1> DEFINE n == Len(s)
           P == {i \in Nat : SubSeq(s, 1, i) \in T}
<1>1. n \in Nat
  BY LenProperties
<1>2. 0 \in P
  <2>1. SubSeq(s, 1, 0) = <<>>
    BY SubSeqEmpty
  <2>2. QED
    BY <2>1
<1>3. ASSUME NEW i \in 0 .. n - 1, i \in P PROVE i + 1 \in P
  <2>1. i + 1 \in 1 .. n /\ 1 \in 1 .. n /\ (i + 1) - 1 = i /\ i \in Int
    BY <1>1
  <2>2. SubSeq(s, 1, i) \in Seq(S) /\ s[i + 1] \in S
    <3>1. \A j \in 1 .. n : s[j] \in S
      BY ElementOfSeq
    <3>2. \A j \in 1 .. i : s[j] \in S
      BY <1>1, <3>1
    <3>3. QED
      BY <2>1, <3>1, <3>2, SubSeqProperties
  <2>3. SubSeq(s, 1, i + 1) = SubSeq(s, 1, i) \o <<s[i + 1]>>
    BY <2>1, SubSeqRecursiveSecond
  <2>4. SubSeq(s, 1, i) \o <<s[i + 1]>> = Append(SubSeq(s, 1, i), s[i + 1])
    BY <2>2, AppendIsConcat
  <2>5. SubSeq(s, 1, i) \in T
    BY <1>3
  <2>6. SubSeq(s, 1, i + 1) \in T
    <3>1. Append(SubSeq(s, 1, i), s[i + 1]) \in T
      BY <2>2, <2>5
    <3>2. QED
      BY <2>3, <2>4, <3>1, Zenon
  <2>7. QED
    BY <2>1, <2>6
<1>4. n \in P
  <2> HIDE DEF P, n
  <2>1. 0 .. n \subseteq P
    BY <1>1, <1>2, <1>3, HoldsUpTo
  <2>2. QED
    BY <1>1, <2>1
<1>5. QED
  BY <1>4, SubSeqFull

-----------------------------------------------------------------------------
\* The walk as far as position m, with the results on the way.
Visits(f, m, start, visit) ==
  f = [i \in 0 .. m |-> IF i = 0 THEN start ELSE visit[i][f[i - 1]]]

LEMMA WalkExists ==
  ASSUME NEW n \in Nat, NEW start, NEW visit
  PROVE  \E f : Visits(f, n, start, visit)
<1> DEFINE T == {m \in Nat : \E f : Visits(f, m, start, visit)}
<1>1. 0 \in T
  <2> DEFINE f == [i \in 0 .. 0 |-> start]
  <2>1. Visits(f, 0, start, visit)
    BY DEF Visits
  <2>2. QED
    BY <2>1
<1>2. ASSUME NEW m \in 0 .. n - 1, m \in T PROVE m + 1 \in T
  <2>1. PICK f : Visits(f, m, start, visit)
    BY <1>2
  <2> DEFINE g == [i \in 0 .. m + 1 |-> IF i = m + 1 THEN visit[i][f[m]] ELSE f[i]]
  <2>2. \A i \in 0 .. m : g[i] = f[i]
    OBVIOUS
  <2>3. \A i \in 0 .. m + 1 : g[i] = IF i = 0 THEN start ELSE visit[i][g[i - 1]]
    <3> SUFFICES ASSUME NEW i \in 0 .. m + 1
                 PROVE  g[i] = IF i = 0 THEN start ELSE visit[i][g[i - 1]]
      OBVIOUS
    <3>1. CASE i = m + 1
      BY <2>2, <3>1
    <3>2. CASE i # m + 1
      <4>1. i \in 0 .. m /\ f[i] = IF i = 0 THEN start ELSE visit[i][f[i - 1]]
        BY <2>1, <3>2 DEF Visits
      <4>2. g[i] = f[i] /\ (i # 0 => i - 1 \in 0 .. m)
        BY <2>2, <4>1
      <4>3. i # 0 => g[i - 1] = f[i - 1]
        BY <2>2, <4>2
      <4>4. QED
        BY <4>1, <4>2, <4>3
    <3>3. QED
      BY <3>1, <3>2
  <2>4. g = [i \in 0 .. m + 1 |-> IF i = 0 THEN start ELSE visit[i][g[i - 1]]]
    BY <2>3, Zenon
  <2>5. Visits(g, m + 1, start, visit)
    BY <2>4 DEF Visits
  <2>6. QED
    BY <2>5
<1>3. 0 .. n \subseteq T
  <2> HIDE DEF T
  <2> QED BY <1>1, <1>2, HoldsUpTo
<1>4. QED
  BY <1>3
=============================================================================
