----------------------------- MODULE BufferProofs -----------------------------
(***************************************************************************)
(* What the operations of a buffer do, for every buffer.                   *)
(***************************************************************************)
EXTENDS Buffer, SequenceFacts

\* Pushing data gives a buffer with one element more and the same error.
LEMMA PushType ==
  ASSUME NEW C, NEW E, NEW b \in Buffers(C, E), NEW d \in Seq(C)
  PROVE  Push(b, d) \in Buffers(C, E)
<1>1. b.queue \in Seq(Seq(C)) /\ b.error \in E
  BY DEF Buffers
<1>2. Append(b.queue, d) \in Seq(Seq(C))
  BY <1>1
<1> DEFINE q == Append(b.queue, d)
<1>3. Push(b, d) = [b EXCEPT !.queue = q]
  BY DEF Push
<1> HIDE DEF q
<1>4. [b EXCEPT !.queue = q] = [queue |-> q, error |-> b.error]
  BY DEF Buffers
<1> QED BY <1>1, <1>2, <1>3, <1>4 DEF Buffers, q

\* Popping a buffer that is not empty gives a buffer.
LEMMA PopType ==
  ASSUME NEW C, NEW E, NEW b \in Buffers(C, E), ~IsEmpty(b)
  PROVE  /\ Pop(b) \in Buffers(C, E)
         /\ Front(b) \in Seq(C)
<1>1. b.queue \in Seq(Seq(C)) /\ b.error \in E /\ b.queue # <<>>
  BY DEF Buffers, IsEmpty
<1>2. Tail(b.queue) \in Seq(Seq(C)) /\ Head(b.queue) \in Seq(C)
  BY <1>1
<1> DEFINE q == Tail(b.queue)
<1>3. Pop(b) = [b EXCEPT !.queue = q]
  BY DEF Pop
<1> HIDE DEF q
<1>4. [b EXCEPT !.queue = q] = [queue |-> q, error |-> b.error]
  BY DEF Buffers
<1> QED BY <1>1, <1>2, <1>3, <1>4 DEF Buffers, Front, q

\* Appending data gives a buffer.
LEMMA AppendToType ==
  ASSUME NEW C, NEW E, NEW b \in Buffers(C, E), NEW d \in Seq(C)
  PROVE  AppendTo(b, d) \in Buffers(C, E)
<1>1. CASE IsEmpty(b) \/ d = <<>>
  BY <1>1, PushType DEF AppendTo
<1>2. CASE ~(IsEmpty(b) \/ d = <<>>)
  <2> DEFINE n == Len(b.queue)
             q == [b.queue EXCEPT ![n] = @ \o d]
  <2>1. b.queue \in Seq(Seq(C)) /\ b.queue # <<>> /\ b.error \in E
    BY <1>2 DEF Buffers, IsEmpty
  <2>2. n \in 1..Len(b.queue)
    BY <2>1
  <2>3. b.queue[n] \o d \in Seq(C)
    BY <2>1, <2>2
  <2>4. q \in Seq(Seq(C))
    BY <2>1, <2>2, <2>3
  <2>5. AppendTo(b, d) = [queue |-> q, error |-> b.error]
    BY <1>2 DEF AppendTo, Buffers
  <2> HIDE DEF q
  <2> QED BY <2>1, <2>4, <2>5 DEF Buffers
<1> QED BY <1>1, <1>2

\* What is left of the buffers of a stream when their first element is gone.
LEMMA ShortTails ==
  ASSUME NEW S, NEW s \in Seq(S), s # <<>>
  PROVE  /\ Len(s) = 1 => Tail(s) = <<>>
         /\ Len(s) = 2 => Tail(s) = <<s[2]>>
<1>1. /\ Tail(s) \in Seq(S) /\ Len(Tail(s)) = Len(s) - 1
      /\ \A i \in 1 .. Len(Tail(s)) : Tail(s)[i] = s[i+1]
  BY HeadTailProperties
<1> DEFINE r == Tail(s)
<1> HIDE DEF r
<1>2. /\ r \in Seq(S) /\ Len(r) = Len(s) - 1
      /\ \A i \in 1 .. Len(r) : r[i] = s[i+1]
  BY <1>1 DEF r
<1>3. ASSUME Len(s) = 1 PROVE r = <<>>
  BY <1>2, <1>3
<1>4. ASSUME Len(s) = 2 PROVE r = <<s[2]>>
  <2>1. Len(r) = 1 /\ r[1] = s[2]
    BY <1>2, <1>4
  <2> QED BY <1>2, <2>1
<1> QED BY <1>3, <1>4 DEF r

\* A string without zero characters is all there is to read as a C string.
LEMMA WithoutZeros ==
  ASSUME NEW C, C \intersect Zero = {}, NEW data \in Seq(C)
  PROVE  CStr(data) = data /\ AfterCStr(data) = <<>>
<1>1. Zeros(data) = {}
  BY DEF Zeros
<1> QED BY <1>1 DEF CStr, AfterCStr

(***************************************************************************)
(* What a buffer holds, put together.                                      *)
(***************************************************************************)

\* g[n] is the first n elements of q put together.
PutTogether(g, q) == g[0] = <<>> /\ \A n \in 1..Len(q) : g[n] = g[n - 1] \o q[n]

\* FlattenSeq is made up step by step, from the front.
LEMMA FlattenSteps ==
  ASSUME NEW C, NEW q \in Seq(Seq(C))
  PROVE  \E g \in [0..Len(q) -> Seq(C)] :
            PutTogether(g, q) /\ Seqs!FlattenSeq(q) = g[Len(q)]
<1> DEFINE N == Len(q)
           h == [x \in (1..N) \X Seq(C) |-> x[2] \o q[x[1]]]
<1>1. N \in Nat /\ \A n \in 1..N : q[n] \in Seq(C)
  OBVIOUS
<1>2. h \in [(1..N) \X Seq(C) -> Seq(C)]
  <2> SUFFICES ASSUME NEW x \in (1..N) \X Seq(C) PROVE x[2] \o q[x[1]] \in Seq(C)
    OBVIOUS
  <2>1. x[1] \in 1..N /\ x[2] \in Seq(C)
    OBVIOUS
  <2>2. q[x[1]] \in Seq(C)
    BY <1>1, <2>1
  <2> QED BY <2>1, <2>2
<1>3. \A n \in 1..N, s \in Seq(C) : h[n, s] = s \o q[n]
  OBVIOUS
<1>4. PICK g \in [0..N -> Seq(C)] :
        g[0] = <<>> /\ \A n \in 1..N : g[n] = h[n, g[n - 1]]
  <2>1. <<>> \in Seq(C)
    OBVIOUS
  <2>2. \E g \in [0..N -> Seq(C)] : MadeBy(g, <<>>, h, N)
    <3> HIDE DEF N, h
    <3> QED BY <1>1, <1>2, <2>1, Recursion
  <2> QED BY <2>2 DEF MadeBy
<1>5. \A n \in 1..N : g[n] = g[n - 1] \o q[n]
  <2> SUFFICES ASSUME NEW n \in 1..N PROVE g[n] = g[n - 1] \o q[n]
    OBVIOUS
  <2> HIDE DEF N, h
  <2>1. n - 1 \in 0..N
    BY <1>1
  <2>2. g[n - 1] \in Seq(C) /\ g[n] = h[n, g[n - 1]]
    BY <1>4, <2>1
  <2> QED BY <1>3, <2>2
<1>6. CASE N = 0
  <2>1. Seqs!FlattenSeq(q) = q /\ q = <<>>
    BY <1>6 DEF Seqs!FlattenSeq
  <2> QED BY <1>4, <1>5, <1>6, <2>1 DEF PutTogether
<1>7. CASE N # 0
  <2> DEFINE Step(f) == [i \in 1..N |-> IF i = 1 THEN q[i] ELSE f[i - 1] \o q[i]]
             f == CHOOSE f : f = Step(f)
             r == [i \in 1..N |-> g[i]]
  <2>1. r = Step(r)
    <3> SUFFICES ASSUME NEW i \in 1..N
                 PROVE  g[i] = IF i = 1 THEN q[i] ELSE r[i - 1] \o q[i]
      OBVIOUS
    <3>1. CASE i = 1
      <4>1. g[1] = g[0] \o q[1] /\ q[1] \in Seq(C)
        <5> HIDE DEF N
        <5>1. 1 \in 1..N /\ 1 - 1 = 0
          BY <1>1, <3>1
        <5> QED BY <1>1, <1>5, <5>1
      <4>2. <<>> \o q[1] = q[1]
        BY <4>1, ConcatEmptySeq
      <4> QED BY <1>4, <3>1, <4>1, <4>2
    <3>2. CASE i # 1
      <4>1. i - 1 \in 1..N
        <5> HIDE DEF N
        <5> QED BY <1>1, <3>2
      <4>2. r[i - 1] = g[i - 1]
        BY <4>1
      <4> HIDE DEF r
      <4> QED BY <1>5, <3>2, <4>2
    <3> QED BY <3>1, <3>2
  <2>2. f = Step(f)
    <3> HIDE DEF r, Step
    <3> QED BY <2>1, Zenon
  <2>3. Seqs!FlattenSeq(q) = f[N]
    BY <1>7 DEF Seqs!FlattenSeq
  <2> HIDE DEF f
  <2>4. \A i \in 1..N : f[i] = IF i = 1 THEN q[i] ELSE f[i - 1] \o q[i]
    <3> HIDE DEF N
    <3> QED BY <2>2
  <2> DEFINE S == {n \in 0..N : n >= 1 => f[n] = g[n]}
  <2>5. S = 0..N
    <3>1. 0 \in S
      <4> HIDE DEF N
      <4> QED BY <1>1
    <3>2. ASSUME NEW n \in S, n < N
          PROVE  n + 1 \in S
      <4>1. n \in 0..N /\ (n >= 1 => f[n] = g[n])
        OBVIOUS
      <4> HIDE DEF S, N
      <4>2. n \in Nat /\ n + 1 \in 1..N /\ (n + 1) - 1 = n
        BY <1>1, <3>2, <4>1
      <4>3. g[n + 1] = g[n] \o q[n + 1]
        BY <1>5, <4>2
      <4>4. f[n + 1] = IF n = 0 THEN q[n + 1] ELSE f[n] \o q[n + 1]
        BY <2>4, <4>2
      <4>5. CASE n = 0
        <5>1. q[n + 1] \in Seq(C)
          BY <1>1, <4>2
        <5>2. <<>> \o q[n + 1] = q[n + 1]
          BY <5>1, ConcatEmptySeq
        <5>3. f[n + 1] = g[n + 1]
          BY <1>4, <4>3, <4>4, <4>5, <5>2
        <5> QED BY <1>1, <4>2, <5>3 DEF S
      <4>6. CASE n # 0
        <5>1. f[n + 1] = g[n + 1]
          <6>1. f[n] = g[n]
            BY <4>1, <4>2, <4>6
          <6> QED BY <4>3, <4>4, <4>6, <6>1
        <5> QED BY <1>1, <4>2, <5>1 DEF S
      <4> QED BY <4>5, <4>6
    <3>3. S \in SUBSET (0..N)
      OBVIOUS
    <3> HIDE DEF S, N
    <3> QED BY <1>1, <3>1, <3>2, <3>3, InductionUpTo
  <2>6. f[N] = g[N]
    <3>1. N \in S
      <4> HIDE DEF S, N
      <4> QED BY <1>1, <2>5
    <3>2. N >= 1 => f[N] = g[N]
      BY <3>1
    <3> HIDE DEF N
    <3> QED BY <1>1, <1>7, <3>2
  <2> QED BY <1>4, <1>5, <2>3, <2>6 DEF PutTogether
<1> QED BY <1>6, <1>7

\* A sequence put together is a sequence.
LEMMA FlattenType ==
  ASSUME NEW C, NEW q \in Seq(Seq(C))
  PROVE  Seqs!FlattenSeq(q) \in Seq(C)
<1>1. PICK g \in [0..Len(q) -> Seq(C)] : Seqs!FlattenSeq(q) = g[Len(q)]
  BY FlattenSteps
<1>2. Len(q) \in 0..Len(q)
  OBVIOUS
<1> QED BY <1>1, <1>2

\* Nothing put together is nothing.
LEMMA FlattenEmpty == Seqs!FlattenSeq(<<>>) = <<>>
BY DEF Seqs!FlattenSeq

\* What is put together does not depend on what follows.
AgreeUpTo(g, k, N) == \A n \in 0..N : g[n] = k[n]

LEMMA FlattenPrefix ==
  ASSUME NEW C, NEW q \in Seq(Seq(C)), NEW r \in Seq(Seq(C)), Len(q) <= Len(r),
         \A i \in 1..Len(q) : r[i] = q[i],
         NEW g, PutTogether(g, q), NEW k, PutTogether(k, r)
  PROVE  AgreeUpTo(g, k, Len(q))
<1> DEFINE S == {n \in 0..Len(q) : g[n] = k[n]}
<1>1. S \in SUBSET (0..Len(q)) /\ 0 \in S
  BY DEF PutTogether
<1>2. ASSUME NEW n \in S, n < Len(q)
      PROVE  n + 1 \in S
  <2>1. n \in Nat /\ n + 1 \in 1..Len(q) /\ n + 1 \in 1..Len(r) /\ (n + 1) - 1 = n
    BY <1>2
  <2>2. g[n + 1] = g[n] \o q[n + 1] /\ k[n + 1] = k[n] \o r[n + 1]
    BY <2>1 DEF PutTogether
  <2>3. g[n] = k[n] /\ r[n + 1] = q[n + 1]
    BY <2>1
  <2>4. g[n + 1] = k[n + 1]
    BY <2>2, <2>3
  <2>5. n + 1 \in 0..Len(q)
    BY <2>1
  <2> QED BY <2>4, <2>5
<1>3. S = 0..Len(q)
  <2>1. Len(q) \in Nat
    OBVIOUS
  <2> HIDE DEF S
  <2> QED BY <1>1, <1>2, <2>1, InductionUpTo
<1> QED BY <1>3 DEF AgreeUpTo

\* An element at the end comes last.
LEMMA FlattenAppend ==
  ASSUME NEW C, NEW q \in Seq(Seq(C)), NEW d \in Seq(C)
  PROVE  Seqs!FlattenSeq(Append(q, d)) = Seqs!FlattenSeq(q) \o d
<1> DEFINE r == Append(q, d)
<1>1. /\ r \in Seq(Seq(C)) /\ Len(r) = Len(q) + 1 /\ Len(q) \in Nat
      /\ \A i \in 1..Len(q) : r[i] = q[i]
      /\ r[Len(q) + 1] = d
  BY AppendProperties
<1> HIDE DEF r
<1>2. PICK g \in [0..Len(q) -> Seq(C)] : PutTogether(g, q) /\ Seqs!FlattenSeq(q) = g[Len(q)]
  BY FlattenSteps
<1>3. PICK k \in [0..Len(r) -> Seq(C)] : PutTogether(k, r) /\ Seqs!FlattenSeq(r) = k[Len(r)]
  BY <1>1, FlattenSteps
<1>4. g[Len(q)] = k[Len(q)]
  <2>1. Len(q) <= Len(r)
    BY <1>1
  <2>2. \A n \in 0..Len(q) : g[n] = k[n]
    <3>1. AgreeUpTo(g, k, Len(q))
      BY <1>1, <1>2, <1>3, <2>1, FlattenPrefix
    <3> QED BY <3>1, Zenon DEF AgreeUpTo
  <2> QED BY <1>1, <2>2
<1>5. k[Len(q) + 1] = k[Len(q)] \o d
  <2>1. Len(q) + 1 \in 1..Len(r) /\ (Len(q) + 1) - 1 = Len(q)
    BY <1>1
  <2> QED BY <1>1, <1>3, <2>1 DEF PutTogether
<1> QED BY <1>1, <1>2, <1>3, <1>4, <1>5 DEF r

\* The first element comes first.
LEMMA FlattenFront ==
  ASSUME NEW C, NEW q \in Seq(Seq(C)), q # <<>>
  PROVE  Seqs!FlattenSeq(q) = Head(q) \o Seqs!FlattenSeq(Tail(q))
<1>0. \A u, v, w \in Seq(C) : (u \o v) \o w = u \o (v \o w)
  <2>1. Associative(C)
    BY ConcatIsAssociative
  <2> QED BY <2>1 DEF Associative
<1> DEFINE t == Tail(q)
           h == Head(q)
<1>1. /\ h \in Seq(C) /\ h = q[1]
      /\ t \in Seq(Seq(C)) /\ Len(t) = Len(q) - 1 /\ Len(q) \in Nat \ {0}
      /\ \A i \in 1..Len(t) : t[i] = q[i + 1]
  BY HeadTailProperties
<1> HIDE DEF t, h
<1>2. PICK g \in [0..Len(q) -> Seq(C)] : PutTogether(g, q) /\ Seqs!FlattenSeq(q) = g[Len(q)]
  BY FlattenSteps
<1>3. PICK k \in [0..Len(t) -> Seq(C)] : PutTogether(k, t) /\ Seqs!FlattenSeq(t) = k[Len(t)]
  BY <1>1, FlattenSteps
<1> DEFINE S == {n \in 0..Len(t) : g[n + 1] = h \o k[n]}
<1>4. 0 \in S
  <2>1. 1 \in 1..Len(q) /\ 1 - 1 = 0 /\ 0 \in 0..Len(t) /\ 0 + 1 = 1
    BY <1>1
  <2>2. g[1] = <<>> \o h /\ k[0] = <<>>
    BY <1>1, <1>2, <1>3, <2>1 DEF PutTogether
  <2>3. <<>> \o h = h /\ h \o <<>> = h
    BY <1>1, ConcatEmptySeq
  <2> QED BY <2>1, <2>2, <2>3
<1>5. ASSUME NEW n \in S, n < Len(t)
      PROVE  n + 1 \in S
  <2>1. n \in 0..Len(t) /\ g[n + 1] = h \o k[n]
    OBVIOUS
  <2>2. /\ n + 1 \in 1..Len(t) /\ (n + 1) - 1 = n /\ n + 1 \in 0..Len(t)
        /\ n + 2 \in 1..Len(q) /\ (n + 2) - 1 = n + 1 /\ (n + 1) + 1 = n + 2
    BY <1>1, <1>5, <2>1
  <2>3. k[n + 1] = k[n] \o t[n + 1] /\ g[n + 2] = g[n + 1] \o q[n + 2]
    BY <1>2, <1>3, <2>2 DEF PutTogether
  <2> DEFINE x == k[n]
             y == t[n + 1]
  <2>4. x \in Seq(C) /\ y \in Seq(C) /\ y = q[n + 2]
    <3>1. x \in Seq(C)
      BY <1>3, <2>1
    <3>2. y \in Seq(C)
      BY <1>1, <2>2
    <3>3. t[n + 1] = q[(n + 1) + 1] /\ (n + 1) + 1 = n + 2
      BY <1>1, <2>2
    <3> QED BY <3>1, <3>2, <3>3
  <2>5. (h \o x) \o y = h \o (x \o y)
    <3> HIDE DEF S, x, y
    <3>1. h \in Seq(C)
      BY <1>1
    <3>2. x \in Seq(C) /\ y \in Seq(C)
      BY <2>4
    <3> QED BY <1>0, <3>1, <3>2, Zenon
  <2>6. g[n + 2] = h \o k[n + 1]
    BY <2>1, <2>3, <2>4, <2>5
  <2> QED BY <2>2, <2>6
<1>6. S = 0..Len(t)
  <2>1. S \in SUBSET (0..Len(t)) /\ Len(t) \in Nat
    BY <1>1
  <2> HIDE DEF S
  <2> QED BY <1>4, <1>5, <2>1, InductionUpTo
<1>7. g[Len(t) + 1] = h \o k[Len(t)] /\ Len(t) + 1 = Len(q)
  <2>1. Len(t) \in 0..Len(t) /\ Len(t) + 1 = Len(q)
    BY <1>1
  <2>2. Len(t) \in S
    BY <1>6, <2>1
  <2> QED BY <2>1, <2>2
<1> QED BY <1>2, <1>3, <1>7 DEF t, h

\* What is put after the last element comes last.
LEMMA FlattenLast ==
  ASSUME NEW C, NEW q \in Seq(Seq(C)), q # <<>>, NEW d \in Seq(C)
  PROVE  Seqs!FlattenSeq([q EXCEPT ![Len(q)] = @ \o d]) = Seqs!FlattenSeq(q) \o d
<1>1. PICK p \in Seq(Seq(C)), x \in Seq(C) : q = Append(p, x)
  BY SequenceEmptyOrAppend
<1> DEFINE r == [q EXCEPT ![Len(q)] = @ \o d]
<1>2. /\ Len(p) \in Nat /\ Len(q) = Len(p) + 1 /\ q[Len(q)] = x
      /\ \A i \in 1..Len(p) : q[i] = p[i]
  BY <1>1, AppendProperties
<1>3. x \o d \in Seq(C)
  OBVIOUS
<1>4. r = Append(p, x \o d)
  <2> DEFINE u == x \o d
             v == Append(p, u)
  <2> HIDE DEF u
  <2>1. r = [q EXCEPT ![Len(q)] = u]
    BY <1>2 DEF u
  <2>2. Len(q) \in 1..Len(q) /\ u \in Seq(C)
    BY <1>2, <1>3 DEF u
  <2> DEFINE N == Len(q)
             w == [q EXCEPT ![N] = u]
  <2>a. N \in 1..Len(q) /\ w = r
    BY <2>1, <2>2
  <2>b. /\ w \in Seq(Seq(C)) /\ Len(w) = Len(q)
        /\ \A i \in 1..Len(q) : w[i] = IF i = N THEN u ELSE q[i]
    <3> HIDE DEF N
    <3> QED BY <2>2, <2>a, ExceptSeq
  <2>3. /\ r \in Seq(Seq(C)) /\ Len(r) = Len(q)
        /\ \A i \in 1..Len(q) : r[i] = IF i = Len(q) THEN u ELSE q[i]
    <3> HIDE DEF w, r
    <3> QED BY <2>a, <2>b
  <2>4. /\ v \in Seq(Seq(C)) /\ Len(v) = Len(p) + 1 /\ v[Len(p) + 1] = u
        /\ \A i \in 1..Len(p) : v[i] = p[i]
    BY <2>2, AppendProperties
  <2> HIDE DEF r, v
  <2>5. ASSUME NEW i \in 1..Len(r)
        PROVE  r[i] = v[i]
    <3>1. CASE i = Len(q)
      BY <1>2, <2>3, <2>4, <3>1
    <3>2. CASE i # Len(q)
      <4>1. i \in 1..Len(q) /\ i \in 1..Len(p)
        BY <1>2, <2>3, <3>2
      <4>2. r[i] = q[i] /\ v[i] = p[i] /\ q[i] = p[i]
        BY <1>2, <2>3, <2>4, <3>2, <4>1
      <4> QED BY <4>2
    <3> QED BY <3>1, <3>2
  <2>6. Len(r) = Len(v)
    BY <1>2, <2>3, <2>4
  <2>7. r = v
    BY <2>3, <2>4, <2>5, <2>6, SeqEqual
  <2> QED BY <2>7 DEF u, v
<1> DEFINE f == Seqs!FlattenSeq(p)
<1>5. f \in Seq(C)
  BY FlattenType
<1>6. Seqs!FlattenSeq(r) = Seqs!FlattenSeq(p) \o (x \o d)
  BY <1>3, <1>4, FlattenAppend
<1>7. Seqs!FlattenSeq(q) = Seqs!FlattenSeq(p) \o x
  BY <1>1, FlattenAppend
<1>8. (f \o x) \o d = f \o (x \o d)
  <2> HIDE DEF f
  <2>1. Associative(C)
    BY ConcatIsAssociative
  <2>2. x \in Seq(C) /\ d \in Seq(C) /\ f \in Seq(C)
    BY <1>3, <1>5
  <2> QED BY <2>1, <2>2, Zenon DEF Associative
<1> QED BY <1>6, <1>7, <1>8

(***************************************************************************)
(* The elements of a sequence that are in a set.                           *)
(***************************************************************************)

\* k[n] is what the set S leaves of the first n elements of seq.
Left(k, seq, S) ==
  /\ k[0] = <<>>
  /\ \A n \in 1..Len(seq) :
       k[n] = IF seq[n] \in S THEN Append(k[n - 1], seq[n]) ELSE k[n - 1]

\* Selected is made up step by step, from the front.
SelectedBySteps(V, S, seq) ==
  \E k \in [0..Len(seq) -> Seq(V)] :
     Left(k, seq, S) /\ Selected(seq, S) = k[Len(seq)]

LEMMA SelectedSteps ==
  ASSUME NEW V, NEW S, NEW seq \in Seq(V)
  PROVE  SelectedBySteps(V, S, seq)
<1> DEFINE N == Len(seq)
           h == [x \in (1..N) \X Seq(V) |->
                   IF seq[x[1]] \in S THEN Append(x[2], seq[x[1]]) ELSE x[2]]
<1>1. N \in Nat /\ \A n \in 1..N : seq[n] \in V
  OBVIOUS
<1>2. h \in [(1..N) \X Seq(V) -> Seq(V)]
  <2> SUFFICES ASSUME NEW x \in (1..N) \X Seq(V)
               PROVE  (IF seq[x[1]] \in S THEN Append(x[2], seq[x[1]]) ELSE x[2]) \in Seq(V)
    OBVIOUS
  <2>1. x[1] \in 1..N /\ x[2] \in Seq(V)
    OBVIOUS
  <2>2. seq[x[1]] \in V
    BY <1>1, <2>1
  <2> QED BY <2>1, <2>2
<1>3. \A n \in 1..N, s \in Seq(V) :
        h[n, s] = IF seq[n] \in S THEN Append(s, seq[n]) ELSE s
  OBVIOUS
<1>4. PICK g \in [0..N -> Seq(V)] :
        g[0] = <<>> /\ \A n \in 1..N : g[n] = h[n, g[n - 1]]
  <2>1. <<>> \in Seq(V)
    OBVIOUS
  <2>2. \E g \in [0..N -> Seq(V)] : MadeBy(g, <<>>, h, N)
    <3> HIDE DEF N, h
    <3> QED BY <1>1, <1>2, <2>1, Recursion
  <2> QED BY <2>2 DEF MadeBy
<1>5. ASSUME NEW n \in 1..N
      PROVE  g[n] = IF seq[n] \in S THEN Append(g[n - 1], seq[n]) ELSE g[n - 1]
  <2> HIDE DEF N, h
  <2>1. n - 1 \in 0..N
    BY <1>1
  <2>2. g[n - 1] \in Seq(V) /\ g[n] = h[n, g[n - 1]]
    BY <1>4, <2>1
  <2> QED BY <1>3, <2>2
<1> DEFINE Step(f) == [n \in 0..N |->
                         IF n = 0 THEN <<>>
                         ELSE IF seq[n] \in S THEN Append(f[n - 1], seq[n]) ELSE f[n - 1]]
           f == CHOOSE f : f = Step(f)
<1>6. g = Step(g)
  <2> SUFFICES ASSUME NEW n \in 0..N
               PROVE  g[n] = IF n = 0 THEN <<>>
                             ELSE IF seq[n] \in S THEN Append(g[n - 1], seq[n]) ELSE g[n - 1]
    OBVIOUS
  <2> HIDE DEF N
  <2>1. n = 0 \/ n \in 1..N
    BY <1>1
  <2> QED BY <1>4, <1>5, <2>1
<1>7. f = Step(f)
  <2> HIDE DEF Step
  <2> QED BY <1>6, Zenon
<1>8. Selected(seq, S) = f[N]
  BY DEF Selected
<1> HIDE DEF f
<1>9. \A n \in 0..N : f[n] = IF n = 0 THEN <<>>
                             ELSE IF seq[n] \in S THEN Append(f[n - 1], seq[n]) ELSE f[n - 1]
  <2> HIDE DEF N
  <2> QED BY <1>7
<1> DEFINE A == {n \in 0..N : f[n] = g[n]}
<1>10. A = 0..N
  <2> HIDE DEF N
  <2>1. A \in SUBSET (0..N) /\ 0 \in A
    <3>1. 0 \in 0..N
      BY <1>1
    <3>2. f[0] = <<>> /\ g[0] = <<>>
      BY <1>4, <1>9, <3>1
    <3> QED BY <3>1, <3>2
  <2>2. ASSUME NEW n \in A, n < N
        PROVE  n + 1 \in A
    <3>1. n \in Nat /\ n + 1 \in 1..N /\ n + 1 \in 0..N /\ n + 1 # 0 /\ (n + 1) - 1 = n /\ f[n] = g[n]
      BY <1>1, <2>2
    <3> HIDE DEF A
    <3>2. g[n + 1] = IF seq[n + 1] \in S THEN Append(g[n], seq[n + 1]) ELSE g[n]
      BY <1>5, <3>1
    <3>3. f[n + 1] = IF seq[n + 1] \in S THEN Append(f[n], seq[n + 1]) ELSE f[n]
      BY <1>9, <3>1
    <3>4. f[n + 1] = g[n + 1]
      BY <3>1, <3>2, <3>3
    <3> QED BY <3>1, <3>4 DEF A
  <2> HIDE DEF A
  <2> QED BY <1>1, <2>1, <2>2, InductionUpTo
<1>11. f[N] = g[N]
  <2>1. N \in A
    <3> HIDE DEF A, N
    <3> QED BY <1>1, <1>10
  <2> QED BY <2>1
<1>12. Left(g, seq, S)
  BY <1>4, <1>5 DEF Left
<1> QED BY <1>8, <1>11, <1>12 DEF SelectedBySteps

\* What is selected is a sequence of the same things.
LEMMA SelectedType ==
  ASSUME NEW V, NEW S, NEW seq \in Seq(V)
  PROVE  Selected(seq, S) \in Seq(V)
<1>1. PICK k \in [0..Len(seq) -> Seq(V)] : Selected(seq, S) = k[Len(seq)]
  BY SelectedSteps DEF SelectedBySteps
<1>2. Len(seq) \in 0..Len(seq)
  OBVIOUS
<1> QED BY <1>1, <1>2

\* Of nothing, nothing.
LEMMA SelectedEmpty ==
  ASSUME NEW S
  PROVE  Selected(<<>>, S) = <<>>
<1>1. <<>> \in Seq({}) /\ Len(<<>>) = 0
  OBVIOUS
<1> DEFINE e == <<>>
<1> HIDE DEF e
<1>2. PICK k \in [0..Len(e) -> Seq({})] : Left(k, e, S) /\ Selected(e, S) = k[Len(e)]
  <2>1. e \in Seq({})
    BY <1>1 DEF e
  <2>2. SelectedBySteps({}, S, e)
    BY <2>1, SelectedSteps
  <2> QED BY <2>2, Zenon DEF SelectedBySteps
<1>3. k[0] = e /\ Len(e) = 0
  BY <1>1, <1>2 DEF Left, e
<1> QED BY <1>2, <1>3 DEF e

\* An element at the end is selected by itself.
LEMMA SelectedAppend ==
  ASSUME NEW V, NEW S, NEW seq \in Seq(V), NEW x \in V
  PROVE  Selected(Append(seq, x), S)
           = IF x \in S THEN Append(Selected(seq, S), x) ELSE Selected(seq, S)
<1> DEFINE r == Append(seq, x)
           N == Len(seq)
<1>1. /\ r \in Seq(V) /\ Len(r) = N + 1 /\ N \in Nat
      /\ \A i \in 1..N : r[i] = seq[i]
      /\ r[N + 1] = x
  BY AppendProperties
<1>2. PICK g \in [0..N -> Seq(V)] : Left(g, seq, S) /\ Selected(seq, S) = g[N]
  BY SelectedSteps DEF SelectedBySteps
<1> HIDE DEF r
<1>3. PICK k \in [0..Len(r) -> Seq(V)] : Left(k, r, S) /\ Selected(r, S) = k[Len(r)]
  <2>1. r \in Seq(V)
    BY <1>1
  <2> HIDE DEF N
  <2>2. SelectedBySteps(V, S, r)
    BY <2>1, SelectedSteps
  <2> QED BY <2>2, Zenon DEF SelectedBySteps
<1>4. ASSUME NEW n \in 1..N
      PROVE  /\ g[n] = IF seq[n] \in S THEN Append(g[n - 1], seq[n]) ELSE g[n - 1]
             /\ k[n] = IF seq[n] \in S THEN Append(k[n - 1], seq[n]) ELSE k[n - 1]
  <2>1. n \in 1..Len(seq) /\ n \in 1..Len(r) /\ r[n] = seq[n]
    BY <1>1
  <2> QED BY <1>2, <1>3, <2>1 DEF Left
<1> DEFINE A == {n \in 0..N : g[n] = k[n]}
<1>5. A = 0..N
  <2> HIDE DEF N
  <2>1. A \in SUBSET (0..N) /\ 0 \in A
    BY <1>1, <1>2, <1>3 DEF Left
  <2>2. ASSUME NEW n \in A, n < N
        PROVE  n + 1 \in A
    <3>1. n \in Nat /\ n + 1 \in 1..N /\ n + 1 \in 0..N /\ (n + 1) - 1 = n /\ g[n] = k[n]
      BY <1>1, <2>2
    <3> HIDE DEF A
    <3>2. g[n + 1] = k[n + 1]
      BY <1>4, <3>1
    <3> QED BY <3>1, <3>2 DEF A
  <2> HIDE DEF A
  <2> QED BY <1>1, <2>1, <2>2, InductionUpTo
<1>6. g[N] = k[N]
  <2>1. N \in A
    <3> HIDE DEF A, N
    <3> QED BY <1>1, <1>5
  <2> QED BY <2>1
<1>7. k[N + 1] = IF x \in S THEN Append(k[N], x) ELSE k[N]
  <2> HIDE DEF N
  <2>1. N + 1 \in 1..Len(r) /\ (N + 1) - 1 = N
    BY <1>1
  <2> QED BY <1>1, <1>3, <2>1 DEF Left
<1> QED BY <1>1, <1>2, <1>3, <1>6, <1>7 DEF r

\* Of one element.
LEMMA SelectedOne ==
  ASSUME NEW S, NEW x
  PROVE  Selected(<<x>>, S) = IF x \in S THEN <<x>> ELSE <<>>
<1>1. <<>> \in Seq({x}) /\ x \in {x} /\ Append(<<>>, x) = <<x>>
  OBVIOUS
<1>2. Selected(Append(<<>>, x), S)
        = IF x \in S THEN Append(Selected(<<>>, S), x) ELSE Selected(<<>>, S)
  <2> DEFINE e == <<>>
             V == {x}
  <2>1. e \in Seq(V) /\ x \in V
    BY <1>1
  <2> HIDE DEF e, V
  <2>2. Selected(Append(e, x), S) = IF x \in S THEN Append(Selected(e, S), x) ELSE Selected(e, S)
    BY <2>1, SelectedAppend
  <2> QED BY <2>2, Zenon DEF e
<1> QED BY <1>1, <1>2, SelectedEmpty

\* An element appended to the second of two sequences is appended to both.
LEMMA ConcatAppend ==
  ASSUME NEW V, NEW p \in Seq(V), NEW q \in Seq(V), NEW x \in V
  PROVE  p \o Append(q, x) = Append(p \o q, x)
<1> DEFINE y == <<x>>
<1>1. y \in Seq(V) /\ p \o q \in Seq(V)
  BY ConcatProperties
<1>2. Append(q, x) = q \o y /\ Append(p \o q, x) = (p \o q) \o y
  BY <1>1, AppendIsConcat
<1>3. Associative(V)
  BY ConcatIsAssociative
<1> HIDE DEF y
<1>4. (p \o q) \o y = p \o (q \o y)
  BY <1>1, <1>3, Zenon DEF Associative
<1> QED BY <1>2, <1>4

\* Of two sequences, one after the other.
LEMMA SelectedConcat ==
  ASSUME NEW V, NEW S, NEW s \in Seq(V), NEW t \in Seq(V)
  PROVE  Selected(s \o t, S) = Selected(s, S) \o Selected(t, S)
<1> DEFINE T == {u \in Seq(V) : Selected(s \o u, S) = Selected(s, S) \o Selected(u, S)}
           c == Selected(s, S)
<1>0. c \in Seq(V) /\ \A u \in Seq(V) : Selected(u, S) \in Seq(V)
  BY SelectedType
<1>1. <<>> \in T
  <2>1. s \o <<>> = s /\ c \o <<>> = c /\ <<>> \in Seq(V)
    BY <1>0, ConcatEmptySeq
  <2> QED BY <2>1, SelectedEmpty
<1>2. ASSUME NEW u \in T, NEW x \in V
      PROVE  Append(u, x) \in T
  <2> DEFINE a == s \o u
             b == Selected(u, S)
  <2>1. u \in Seq(V) /\ Selected(a, S) = c \o b
    OBVIOUS
  <2> HIDE DEF T
  <2>2. a \in Seq(V) /\ b \in Seq(V)
    BY <1>0, <2>1, ConcatProperties
  <2>3. s \o Append(u, x) = Append(a, x) /\ Append(u, x) \in Seq(V)
    BY <2>1, ConcatAppend, AppendProperties
  <2>4. /\ Selected(Append(a, x), S) = IF x \in S THEN Append(Selected(a, S), x) ELSE Selected(a, S)
        /\ Selected(Append(u, x), S) = IF x \in S THEN Append(b, x) ELSE b
    <3>1. a \in Seq(V) /\ u \in Seq(V)
      BY <2>1, <2>2
    <3> HIDE DEF a
    <3> QED BY <3>1, SelectedAppend
  <2>5. c \o Append(b, x) = Append(c \o b, x)
    <3>1. c \in Seq(V)
      BY <1>0
    <3> HIDE DEF c, b, a
    <3> QED BY <2>2, <3>1, ConcatAppend
  <2>6. Selected(s \o Append(u, x), S) = c \o Selected(Append(u, x), S)
    <3> HIDE DEF c, b, a
    <3> QED BY <2>1, <2>3, <2>4, <2>5
  <2> QED BY <2>3, <2>6 DEF T
<1>3. T = Seq(V)
  <2>1. T \in SUBSET Seq(V)
    OBVIOUS
  <2> HIDE DEF T
  <2> QED BY <1>1, <1>2, <2>1, SequenceInduction
<1> QED BY <1>3

\* Nothing but elements of the set.
LEMMA SelectedMembers ==
  ASSUME NEW V, NEW S, NEW seq \in Seq(V)
  PROVE  Selected(seq, S) \in Seq(S)
<1> DEFINE T == {u \in Seq(V) : Selected(u, S) \in Seq(S)}
<1>1. <<>> \in T
  <2>1. <<>> \in Seq(V) /\ <<>> \in Seq(S)
    OBVIOUS
  <2> QED BY <2>1, SelectedEmpty
<1>2. ASSUME NEW u \in T, NEW x \in V
      PROVE  Append(u, x) \in T
  <2>1. u \in Seq(V) /\ Selected(u, S) \in Seq(S)
    OBVIOUS
  <2>2. Selected(Append(u, x), S)
          = IF x \in S THEN Append(Selected(u, S), x) ELSE Selected(u, S)
    BY <2>1, SelectedAppend
  <2>3. Selected(Append(u, x), S) \in Seq(S)
    BY <2>1, <2>2
  <2> QED BY <2>1, <2>3
<1>3. T = Seq(V)
  <2>1. T \in SUBSET Seq(V)
    OBVIOUS
  <2> HIDE DEF T
  <2> QED BY <1>1, <1>2, <2>1, SequenceInduction
<1> QED BY <1>3

\* Of a sequence of selected elements, all.
LEMMA SelectedAll ==
  ASSUME NEW S, NEW seq \in Seq(S)
  PROVE  Selected(seq, S) = seq
<1> DEFINE T == {u \in Seq(S) : Selected(u, S) = u}
<1>1. <<>> \in T
  BY SelectedEmpty
<1>2. ASSUME NEW u \in T, NEW x \in S
      PROVE  Append(u, x) \in T
  <2>1. u \in Seq(S) /\ Selected(u, S) = u
    OBVIOUS
  <2>2. Selected(Append(u, x), S) = Append(u, x)
    BY <2>1, SelectedAppend
  <2> QED BY <2>1, <2>2
<1>3. T = Seq(S)
  <2>1. T \in SUBSET Seq(S)
    OBVIOUS
  <2> HIDE DEF T
  <2> QED BY <1>1, <1>2, <2>1, SequenceInduction
<1> QED BY <1>3

\* Of a sequence of others, none.
LEMMA SelectedNone ==
  ASSUME NEW S, NEW V, V \intersect S = {}, NEW seq \in Seq(V)
  PROVE  Selected(seq, S) = <<>>
<1> DEFINE T == {u \in Seq(V) : Selected(u, S) = <<>>}
<1>1. <<>> \in T
  BY SelectedEmpty
<1>2. ASSUME NEW u \in T, NEW x \in V
      PROVE  Append(u, x) \in T
  <2>1. u \in Seq(V) /\ Selected(u, S) = <<>> /\ x \notin S
    OBVIOUS
  <2>2. Selected(Append(u, x), S) = <<>>
    BY <2>1, SelectedAppend
  <2> QED BY <2>1, <2>2
<1>3. T = Seq(V)
  <2>1. T \in SUBSET Seq(V)
    OBVIOUS
  <2> HIDE DEF T
  <2> QED BY <1>1, <1>2, <2>1, SequenceInduction
<1> QED BY <1>3

(***************************************************************************)
(* What the operations do to what a buffer holds.                          *)
(***************************************************************************)

\* The content of a buffer is a sequence, empty if the buffer is.
LEMMA ContentType ==
  ASSUME NEW C, NEW E, NEW b \in Buffers(C, E)
  PROVE  /\ Content(b) \in Seq(C)
         /\ IsEmpty(b) => Content(b) = <<>>
<1>1. b.queue \in Seq(Seq(C))
  BY DEF Buffers
<1>2. Content(b) \in Seq(C)
  BY <1>1, FlattenType DEF Content
<1>3. IsEmpty(b) => Content(b) = <<>>
  BY FlattenEmpty DEF Content, IsEmpty
<1> QED BY <1>2, <1>3

\* What is pushed comes after everything else.
LEMMA ContentPush ==
  ASSUME NEW C, NEW E, NEW b \in Buffers(C, E), NEW d \in Seq(C)
  PROVE  Content(Push(b, d)) = Content(b) \o d
<1>1. b.queue \in Seq(Seq(C)) /\ Push(b, d).queue = Append(b.queue, d)
  BY DEF Buffers, Push
<1>2. Seqs!FlattenSeq(Append(b.queue, d)) = Seqs!FlattenSeq(b.queue) \o d
  BY <1>1, FlattenAppend
<1> QED BY <1>1, <1>2 DEF Content

\* And so does what is appended, whether it gets an element of its own or not.
LEMMA ContentAppendTo ==
  ASSUME NEW C, NEW E, NEW b \in Buffers(C, E), NEW d \in Seq(C)
  PROVE  Content(AppendTo(b, d)) = Content(b) \o d
<1>1. CASE IsEmpty(b) \/ d = <<>>
  BY <1>1, ContentPush DEF AppendTo
<1>2. CASE ~(IsEmpty(b) \/ d = <<>>)
  <2>1. b.queue \in Seq(Seq(C)) /\ b.queue # <<>>
    BY <1>2 DEF Buffers, IsEmpty
  <2>2. AppendTo(b, d).queue = [b.queue EXCEPT ![Len(b.queue)] = @ \o d]
    BY <1>2 DEF AppendTo, Buffers
  <2>3. Seqs!FlattenSeq([b.queue EXCEPT ![Len(b.queue)] = @ \o d])
          = Seqs!FlattenSeq(b.queue) \o d
    BY <2>1, FlattenLast
  <2> QED BY <2>2, <2>3 DEF Content
<1> QED BY <1>1, <1>2

\* What is popped came first.
LEMMA ContentPop ==
  ASSUME NEW C, NEW E, NEW b \in Buffers(C, E), ~IsEmpty(b)
  PROVE  Content(b) = Front(b) \o Content(Pop(b))
<1>1. b.queue \in Seq(Seq(C)) /\ b.queue # <<>> /\ Pop(b).queue = Tail(b.queue)
  BY DEF Buffers, Pop, IsEmpty
<1>2. Seqs!FlattenSeq(b.queue) = Head(b.queue) \o Seqs!FlattenSeq(Tail(b.queue))
  BY <1>1, FlattenFront
<1> QED BY <1>1, <1>2 DEF Content, Front

(***************************************************************************)
(* What reading an element as a C string takes and leaves.                 *)
(***************************************************************************)

\* A string is its first C string, zero characters, and what is left of it;
\* what is left after a zero character does not begin with one.
LEMMA CStrParts ==
  ASSUME NEW C, NEW data \in Seq(C)
  PROVE  /\ CStr(data) \in Seq(C)
         /\ AfterCStr(data) \in Seq(C)
         /\ \E z \in Seq(C \intersect Zero) : data = CStr(data) \o (z \o AfterCStr(data))
         /\ Zeros(data) # {} /\ AfterCStr(data) # <<>> => AfterCStr(data)[1] \notin Zero
<1> DEFINE N == Len(data)
           D == C \intersect Zero
<1>1. N \in Nat /\ \A i \in 1..N : data[i] \in C
  OBVIOUS
<1>2. CASE Zeros(data) = {}
  <2>1. CStr(data) = data /\ AfterCStr(data) = <<>>
    BY <1>2 DEF CStr, AfterCStr
  <2>2. <<>> \in Seq(D) /\ <<>> \in Seq(C)
    OBVIOUS
  <2>3. <<>> \o <<>> = <<>> /\ data \o <<>> = data
    BY <2>2, ConcatEmptySeq
  <2> QED BY <1>2, <2>1, <2>2, <2>3
<1>3. CASE Zeros(data) # {}
  <2> DEFINE m == CHOOSE i \in Zeros(data) : \A j \in Zeros(data) : i <= j
             past == {i \in Len(CStr(data)) + 1..N : data[i] \notin Zero}
             p == CHOOSE i \in past : \A j \in past : i <= j
  <2>1. m \in Zeros(data) /\ \A j \in Zeros(data) : m <= j
    <3>1. Zeros(data) \in SUBSET Nat
      BY DEF Zeros
    <3> QED BY <1>3, <3>1, Least
  <2>2. m \in 1..N /\ data[m] \in Zero
    BY <2>1 DEF Zeros
  <2>3. CStr(data) = SubSeq(data, 1, m - 1)
    BY <1>3 DEF CStr
  <2> HIDE DEF m
  <2>4. CStr(data) \in Seq(C) /\ Len(CStr(data)) = m - 1
    <3>1. \A i \in 1..m - 1 : data[i] \in C
      BY <1>1, <2>2
    <3>2. 1 \in Int /\ m - 1 \in Int /\ (1 <= m - 1 => (m - 1) - 1 + 1 = m - 1) /\ (~(1 <= m - 1) => m - 1 = 0)
      BY <1>1, <2>2
    <3> DEFINE k == m - 1
    <3> HIDE DEF k
    <3>3. SubSeq(data, 1, k) \in Seq(C) /\ Len(SubSeq(data, 1, k)) = IF 1 <= k THEN k - 1 + 1 ELSE 0
      BY <3>1, <3>2, SubSeqProperties DEF k
    <3> QED BY <2>3, <3>2, <3>3 DEF k
  <2>5. past = {i \in m..N : data[i] \notin Zero}
    BY <1>1, <2>2, <2>4
  <2>6. CASE past = {}
    <3>1. AfterCStr(data) = <<>>
      BY <2>6 DEF AfterCStr
    <3> DEFINE z == SubSeq(data, m, N)
    <3>2. z \in Seq(D)
      <4>1. \A i \in m..N : data[i] \in D
        BY <1>1, <2>2, <2>5, <2>6
      <4>2. m \in Int /\ N \in Int
        BY <1>1, <2>2
      <4> HIDE DEF N, D
      <4> QED BY <4>1, <4>2, SubSeqProperties
    <3>3. SubSeq(data, 1, m - 1) \o z = data
      <4>1. 1 \in 1..N + 1 /\ m - 1 \in 0..N /\ N \in m - 1..N /\ (m - 1) + 1 = m
        BY <1>1, <2>2
      <4> DEFINE k == m - 1
      <4> HIDE DEF k
      <4>2. SubSeq(data, 1, k) \o SubSeq(data, k + 1, N) = SubSeq(data, 1, N)
        <5>1. 1 \in 1..N + 1 /\ k \in 1 - 1..N /\ N \in k..N
          BY <1>1, <4>1 DEF k
        <5> QED BY <5>1, ConcatAdjacentSubSeq
      <4> QED BY <4>1, <4>2, SubSeqFull DEF k
    <3>4. z \o <<>> = z /\ <<>> \in Seq(C)
      <4> HIDE DEF z
      <4> QED BY <3>2, ConcatEmptySeq
    <3> HIDE DEF z
    <3> QED BY <2>3, <2>4, <3>1, <3>2, <3>3, <3>4
  <2>7. CASE past # {}
    <3>1. p \in past /\ \A j \in past : p <= j
      <4>1. past \in SUBSET Nat
        BY <1>1, <2>2, <2>5
      <4> HIDE DEF past
      <4> QED BY <2>7, <4>1, Least
    <3>2. AfterCStr(data) = SubSeq(data, p, N)
      BY <1>3, <2>7 DEF AfterCStr
    <3> HIDE DEF p
    <3>3. p \in m..N /\ data[p] \notin Zero /\ p # m
      BY <2>2, <2>5, <3>1
    <3>4. \A i \in m..p - 1 : data[i] \in D
      <4> SUFFICES ASSUME NEW i \in m..p - 1 PROVE data[i] \in D
        OBVIOUS
      <4>1. i \in m..N /\ ~(p <= i) /\ i \in 1..N
        BY <1>1, <2>2, <3>3
      <4>2. data[i] \in Zero
        BY <2>5, <3>1, <4>1
      <4> QED BY <1>1, <4>1, <4>2
    <3> DEFINE z == SubSeq(data, m, p - 1)
               a == SubSeq(data, p, N)
    <3>5. /\ m \in Int /\ p \in Int /\ N \in Int /\ p - 1 \in Int /\ p <= N
          /\ m \in 1..N + 1 /\ p - 1 \in m - 1..N /\ N \in p - 1..N /\ (p - 1) + 1 = p
          /\ 1 \in 1..N + 1 /\ m - 1 \in 0..N /\ N \in m - 1..N /\ (m - 1) + 1 = m
          /\ 1 \in 1..N - p + 1 /\ p + 1 - 1 = p
      BY <1>1, <2>2, <3>3
    <3>6. z \in Seq(D)
      <4> DEFINE k == p - 1
      <4> HIDE DEF k, D
      <4> QED BY <3>4, <3>5, SubSeqProperties DEF k
    <3>7. a \in Seq(C) /\ a[1] = data[p]
      <4>1. \A i \in p..N : data[i] \in C
        BY <1>1, <2>2, <3>3
      <4>2. a[1] = data[p + 1 - 1]
        <5> HIDE DEF N
        <5> QED BY <3>5, <4>1, SubSeqProperties
      <4>3. a \in Seq(C)
        <5> HIDE DEF N
        <5> QED BY <3>5, <4>1, SubSeqProperties
      <4> QED BY <3>5, <4>2, <4>3
    <3>8. z \o a = SubSeq(data, m, N)
      <4>1. SubSeq(data, m, p - 1) \o SubSeq(data, (p - 1) + 1, N) = SubSeq(data, m, N)
        BY <3>5, ConcatAdjacentSubSeq
      <4> QED BY <3>5, <4>1
    <3>9. SubSeq(data, 1, m - 1) \o SubSeq(data, m, N) = data
      <4> DEFINE k == m - 1
      <4> HIDE DEF k
      <4>1. SubSeq(data, 1, k) \o SubSeq(data, k + 1, N) = SubSeq(data, 1, N)
        <5>1. 1 \in 1..N + 1 /\ k \in 1 - 1..N /\ N \in k..N
          BY <1>1, <3>5 DEF k
        <5> QED BY <5>1, ConcatAdjacentSubSeq
      <4> QED BY <3>5, <4>1, SubSeqFull DEF k
    <3> HIDE DEF z, a
    <3>10. data = CStr(data) \o (z \o AfterCStr(data))
      BY <2>3, <3>2, <3>8, <3>9 DEF a
    <3>11. AfterCStr(data) = a
      BY <3>2 DEF a
    <3> QED BY <2>4, <3>3, <3>6, <3>7, <3>10, <3>11
  <2> QED BY <2>6, <2>7
<1> QED BY <1>2, <1>3

\* Extracting takes the C string and the zeros after it from the front.
LEMMA ExtractParts ==
  ASSUME NEW C, NEW E, NEW b \in Buffers(C, E), ~IsEmpty(b)
  PROVE  /\ Extract(b) \in Buffers(C, E)
         /\ Content(Extract(b)) = AfterCStr(Front(b)) \o Content(Pop(b))
<1> DEFINE a == AfterCStr(Front(b))
           q == b.queue
<1>1. q \in Seq(Seq(C)) /\ q # <<>> /\ b.error \in E /\ Front(b) \in Seq(C)
  BY PopType DEF Buffers, IsEmpty
<1>2. a \in Seq(C)
  BY <1>1, CStrParts
<1>3. Pop(b) \in Buffers(C, E) /\ Content(Pop(b)) \in Seq(C)
  BY PopType, ContentType
<1>4. CASE a = <<>>
  <2>1. Extract(b) = Pop(b)
    BY <1>4 DEF Extract
  <2> QED BY <1>3, <1>4, <2>1, ConcatEmptySeq
<1>5. CASE a # <<>>
  <2> DEFINE r == [q EXCEPT ![1] = a]
  <2>1. Extract(b) = [b EXCEPT !.queue[1] = a]
    BY <1>5 DEF Extract
  <2> HIDE DEF a
  <2>2. Extract(b) = [queue |-> r, error |-> b.error]
    BY <1>1, <2>1 DEF Buffers
  <2>3. 1 \in 1..Len(q)
    BY <1>1
  <2>4. r \in Seq(Seq(C)) /\ Len(r) = Len(q) /\ \A j \in 1..Len(q) : r[j] = IF j = 1 THEN a ELSE q[j]
    BY <1>1, <1>2, <2>3, ExceptSeq
  <2> HIDE DEF r
  <2>5. r # <<>> /\ Head(r) = a
    BY <2>3, <2>4
  <2>6. Tail(r) = Tail(q)
    <3>1. /\ Tail(r) \in Seq(Seq(C)) /\ Len(Tail(r)) = Len(r) - 1
          /\ \A j \in 1..Len(Tail(r)) : Tail(r)[j] = r[j + 1]
      BY <2>4, <2>5, HeadTailProperties
    <3>2. /\ Tail(q) \in Seq(Seq(C)) /\ Len(Tail(q)) = Len(q) - 1
          /\ \A j \in 1..Len(Tail(q)) : Tail(q)[j] = q[j + 1]
      BY <1>1, HeadTailProperties
    <3> DEFINE u == Tail(r)
               v == Tail(q)
    <3> HIDE DEF u, v, q
    <3>3. ASSUME NEW j \in 1..Len(u)
          PROVE  u[j] = v[j]
      <4>1. j + 1 \in 1..Len(q) /\ j + 1 # 1 /\ j \in 1..Len(v)
        BY <2>3, <2>4, <3>1, <3>2 DEF u, v
      <4> QED BY <2>4, <3>1, <3>2, <4>1 DEF u, v
    <3>4. Len(u) = Len(v)
      BY <2>4, <3>1, <3>2 DEF u, v
    <3>5. u = v
      BY <3>1, <3>2, <3>3, <3>4, SeqEqual DEF u, v
    <3> QED BY <3>5 DEF u, v
  <2>7. Seqs!FlattenSeq(r) = Head(r) \o Seqs!FlattenSeq(Tail(r))
    BY <2>4, <2>5, FlattenFront
  <2>8. Content(Extract(b)) = a \o Content(Pop(b))
    <3>1. Extract(b).queue = r /\ Pop(b).queue = Tail(q)
      BY <2>2 DEF Pop, Buffers
    <3> QED BY <2>5, <2>6, <2>7, <3>1 DEF Content
  <2>9. Extract(b) \in Buffers(C, E)
    BY <1>1, <2>2, <2>4 DEF Buffers
  <2> QED BY <2>8, <2>9 DEF a
<1> QED BY <1>4, <1>5

=============================================================================
