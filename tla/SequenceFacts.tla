---------------------------- MODULE SequenceFacts ----------------------------
(***************************************************************************)
(* Induction and recursion over the natural numbers, stated with sets and  *)
(* functions instead of operators, so that their instances can be proved.  *)
(***************************************************************************)
EXTENDS Integers, Sequences, SequenceTheorems, WellFoundedInduction, TLAPS

\* Putting sequences over a set one after the other is associative.  The fact
\* has a name, so that a proof can state it of the one set it is about.
Associative(C) == \A u, v, w \in Seq(C) : (u \o v) \o w = u \o (v \o w)

LEMMA ConcatIsAssociative ==
  ASSUME NEW C
  PROVE  Associative(C)
<1>1. ASSUME NEW u \in Seq(C), NEW v \in Seq(C), NEW w \in Seq(C)
      PROVE  (u \o v) \o w = u \o (v \o w)
  BY ConcatAssociative
<1> QED BY <1>1, Zenon DEF Associative

\* Every set of natural numbers that is not empty has a least element.
LEMMA Least ==
  ASSUME NEW T \in SUBSET Nat, T # {}
  PROVE  \E x \in T : \A y \in T : x <= y
<1> DEFINE R == {p \in Nat \X Nat : p[1] < p[2]}
<1>1. OpToRel(<, Nat) = R
  BY DEF OpToRel
<1>2. IsWellFoundedOn(R, Nat)
  BY <1>1, NatLessThanWellFounded
<1>3. PICK x \in T : \A y \in T : ~(<<y, x>> \in R)
  <2> HIDE DEF R
  <2> QED BY <1>2, WFMin
<1>4. ASSUME NEW y \in T
      PROVE  x <= y
  <2>1. <<y, x>> \in Nat \X Nat /\ <<y, x>>[1] = y /\ <<y, x>>[2] = x
    OBVIOUS
  <2>2. ~(<<y, x>>[1] < <<y, x>>[2])
    BY <1>3, <2>1
  <2> QED BY <2>1, <2>2
<1> QED BY <1>4

\* What holds of zero, and of n + 1 with n, holds of all natural numbers.
LEMMA Induction ==
  ASSUME NEW S \in SUBSET Nat, 0 \in S, \A n \in S : n + 1 \in S
  PROVE  S = Nat
<1> SUFFICES ASSUME Nat \ S # {} PROVE FALSE
  OBVIOUS
<1>1. PICK x \in Nat \ S : \A y \in Nat \ S : x <= y
  BY Least
<1>2. x # 0 /\ x - 1 \in Nat
  BY <1>1
<1>3. x - 1 \in S
  BY <1>1, <1>2
<1>4. (x - 1) + 1 \in S
  BY <1>3
<1> QED BY <1>1, <1>4

\* The same up to a bound.
LEMMA InductionUpTo ==
  ASSUME NEW N \in Nat, NEW S \in SUBSET (0..N), 0 \in S,
         \A n \in S : n < N => n + 1 \in S
  PROVE  S = 0..N
<1> DEFINE T == {n \in Nat : n <= N => n \in S}
<1>1. T \in SUBSET Nat /\ 0 \in T
  OBVIOUS
<1>2. ASSUME NEW n \in T
      PROVE  n + 1 \in T
  <2>1. n \in Nat /\ (n <= N => n \in S)
    OBVIOUS
  <2>2. n + 1 <= N => n + 1 \in S
    BY <2>1
  <2> QED BY <2>1, <2>2
<1>3. T = Nat
  <2> HIDE DEF T
  <2> QED BY <1>1, <1>2, Induction
<1>4. ASSUME NEW n \in 0..N
      PROVE  n \in S
  <2>1. n \in T
    BY <1>3
  <2>2. n <= N => n \in S
    BY <2>1
  <2> QED BY <2>2
<1> QED BY <1>4

\* The function g on 0..N has the first value b and the step h.
MadeBy(g, b, h, N) == g[0] = b /\ \A n \in 1..N : g[n] = h[n, g[n - 1]]

\* A function can be defined by its first value and a step.
LEMMA Recursion ==
  ASSUME NEW V, NEW b \in V, NEW N \in Nat, NEW h \in [(1..N) \X V -> V]
  PROVE  \E g \in [0..N -> V] : MadeBy(g, b, h, N)
<1> DEFINE IsRec(g, m) == g[0] = b /\ \A n \in 1..m : g[n] = h[n, g[n - 1]]
           S == {m \in 0..N : \E g \in [0..N -> V] : IsRec(g, m)}
<1>1. 0 \in S
  <2> DEFINE c == [n \in 0..N |-> b]
  <2>1. c \in [0..N -> V] /\ c[0] = b
    OBVIOUS
  <2>2. IsRec(c, 0)
    <3>1. 1..0 = {}
      OBVIOUS
    <3> HIDE DEF c
    <3> QED BY <2>1, <3>1
  <2>3. 0 \in 0..N
    OBVIOUS
  <2> HIDE DEF c, IsRec
  <2> QED BY <2>1, <2>2, <2>3
<1>2. ASSUME NEW m \in 0..N, m < N, NEW g \in [0..N -> V], IsRec(g, m)
      PROVE  \E r \in [0..N -> V] : IsRec(r, m + 1)
  <2> HIDE DEF S
  <2>0. m \in Nat /\ m < N /\ m + 1 \in 1..N /\ g[m] \in V /\ 0 # m + 1
    <3> HIDE DEF IsRec
    <3> QED BY <1>2
  <2> DEFINE v == h[m + 1, g[m]]
             r == [g EXCEPT ![m + 1] = v]
  <2>3. v \in V
    BY <2>0
  <2>4. r \in [0..N -> V] /\ r[m + 1] = v /\ \A i \in 0..N : i # m + 1 => r[i] = g[i]
    <3> HIDE DEF v, IsRec
    <3> QED BY <2>0, <2>3
  <2>5. g[0] = b /\ \A n \in 1..m : g[n] = h[n, g[n - 1]]
    BY <1>2
  <2>6. r[0] = b
    <3> HIDE DEF r, v, IsRec
    <3>1. 0 \in 0..N
      OBVIOUS
    <3>2. r[0] = g[0]
      BY <2>0, <2>4, <3>1
    <3> QED BY <2>5, <3>2
  <2>7. \A n \in 1..(m + 1) : r[n] = h[n, r[n - 1]]
    <3> SUFFICES ASSUME NEW n \in 1..(m + 1)
                 PROVE  r[n] = h[n, r[n - 1]]
      OBVIOUS
    <3> HIDE DEF r, IsRec
    <3>1. CASE n = m + 1
      <4>1. n - 1 = m /\ m \in 0..N /\ m # m + 1
        BY <2>0, <3>1
      <4>2. r[m] = g[m]
        BY <2>4, <4>1
      <4>3. r[n] = h[m + 1, g[m]]
        BY <2>4, <3>1
      <4>4. r[n - 1] = g[m]
        BY <4>1, <4>2
      <4> QED BY <3>1, <4>3, <4>4, Zenon
    <3>2. CASE n # m + 1
      <4>1. n \in 1..m /\ n \in 0..N /\ n - 1 \in 0..N /\ n - 1 # m + 1
        BY <2>0, <3>2
      <4>2. r[n] = g[n] /\ r[n - 1] = g[n - 1]
        BY <2>4, <3>2, <4>1
      <4>3. g[n] = h[n, g[n - 1]]
        BY <2>5, <4>1
      <4> QED BY <4>2, <4>3
    <3> QED BY <3>1, <3>2
  <2>9. IsRec(r, m + 1)
    BY <2>6, <2>7
  <2> HIDE DEF r, IsRec
  <2> QED BY <2>4, <2>9
<1>3. S = 0..N
  <2>1. S \in SUBSET (0..N)
    OBVIOUS
  <2>2. ASSUME NEW m \in S, m < N
        PROVE  m + 1 \in S
    <3> HIDE DEF IsRec
    <3>1. m \in 0..N /\ \E g \in [0..N -> V] : IsRec(g, m)
      OBVIOUS
    <3>2. m + 1 \in 0..N
      BY <2>2, <3>1
    <3>3. \E r \in [0..N -> V] : IsRec(r, m + 1)
      BY <1>2, <2>2, <3>1
    <3> QED BY <3>2, <3>3
  <2> HIDE DEF S
  <2> QED BY <1>1, <2>1, <2>2, InductionUpTo
<1>4. N \in S
  <2> HIDE DEF S
  <2> QED BY <1>3
<1> QED BY <1>4 DEF MadeBy

\* What holds of the empty sequence, and of Append(s, x) with s, holds of all
\* sequences.
LEMMA SequenceInduction ==
  ASSUME NEW V, NEW T \in SUBSET Seq(V), <<>> \in T,
         \A s \in T : \A x \in V : Append(s, x) \in T
  PROVE  T = Seq(V)
<1> DEFINE S == {n \in Nat : \A s \in Seq(V) : Len(s) = n => s \in T}
<1>1. 0 \in S
  OBVIOUS
<1>2. ASSUME NEW n \in S
      PROVE  n + 1 \in S
  <2>1. n \in Nat /\ \A s \in Seq(V) : Len(s) = n => s \in T
    OBVIOUS
  <2>2. ASSUME NEW s \in Seq(V), Len(s) = n + 1
        PROVE  s \in T
    <3>1. s # <<>>
      BY <2>1, <2>2
    <3>2. PICK p \in Seq(V), x \in V : s = Append(p, x)
      BY <3>1, SequenceEmptyOrAppend
    <3>3. Len(s) = Len(p) + 1 /\ Len(p) \in Nat
      BY <3>2, AppendProperties
    <3>4. p \in T
      BY <2>1, <2>2, <3>3
    <3> QED BY <3>2, <3>4
  <2> QED BY <2>1, <2>2
<1>3. S = Nat
  <2>1. S \in SUBSET Nat
    OBVIOUS
  <2> HIDE DEF S
  <2> QED BY <1>1, <1>2, <2>1, Induction
<1>4. ASSUME NEW s \in Seq(V)
      PROVE  s \in T
  <2>1. Len(s) \in S
    BY <1>3
  <2> QED BY <2>1
<1> QED BY <1>4

=============================================================================
