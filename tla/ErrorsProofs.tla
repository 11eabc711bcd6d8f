----------------------------- MODULE ErrorsProofs -----------------------------
(***************************************************************************)
(* What sending promises and what scripts are told of errors, for queues   *)
(* and messages of any length, any number of messages and of retries.      *)
(***************************************************************************)
EXTENDS SocketErrors, SequenceFacts

(***************************************************************************)
(* The text of a wire.                                                     *)
(***************************************************************************)

Chunks == [number : Nat, length : Nat, from : Nat, upto : Nat]
Beginnings == [number : Nat, length : Nat, upto : Nat]

LEMMA WithChunkType ==
  ASSUME NEW text \in Seq(Beginnings), NEW c \in Chunks
  PROVE  WithChunk(text, c) \in Seq(Beginnings)
<1>1. CASE c.from = 0
  <2>1. [number |-> c.number, length |-> c.length, upto |-> c.upto] \in Beginnings
    BY DEF Chunks, Beginnings
  <2> QED
    BY <1>1, <2>1, AppendProperties DEF WithChunk
<1>2. CASE c.from # 0
  <2> DEFINE n == Len(text)
             b == [text[n] EXCEPT !.upto = c.upto]
  <2>1. WithChunk(text, c) = [text EXCEPT ![n] = b]
    BY <1>2 DEF WithChunk
  <2>2. CASE n = 0
    <3>1. [text EXCEPT ![n] = b] = text
      BY <2>2
    <3> QED
      BY <2>1, <3>1
  <2>3. CASE n # 0
    <3>1. n \in 1..Len(text) /\ text[n] \in Beginnings
      BY <2>3
    <3>2. b \in Beginnings
      BY <3>1 DEF Chunks, Beginnings
    <3> HIDE DEF b
    <3> QED
      BY <2>1, <3>1, <3>2, ExceptSeq
  <2> QED
    BY <2>2, <2>3
<1> QED
  BY <1>1, <1>2

\* g is the text after each number of chunks of w.
MadeOf(g, w) == g[0] = <<>> /\ \A n \in 1..Len(w) : g[n] = WithChunk(g[n - 1], w[n])

\* There is such a function, and the text of w is its last value.
LEMMA TextSteps ==
  ASSUME NEW w \in Seq(Chunks)
  PROVE  \E g \in [0..Len(w) -> Seq(Beginnings)] : MadeOf(g, w) /\ TextOf(w) = g[Len(w)]
<1> DEFINE N == Len(w)
           V == Seq(Beginnings)
           h == [x \in (1..N) \X V |-> WithChunk(x[2], w[x[1]])]
<1>1. N \in Nat /\ \A n \in 1..N : w[n] \in Chunks
  OBVIOUS
<1>2. h \in [(1..N) \X V -> V]
  <2> SUFFICES ASSUME NEW x \in (1..N) \X V PROVE WithChunk(x[2], w[x[1]]) \in V
    OBVIOUS
  <2>1. x[2] \in V /\ w[x[1]] \in Chunks
    BY <1>1
  <2> QED
    BY <2>1, WithChunkType
<1>3. \A n \in 1..N, s \in V : h[n, s] = WithChunk(s, w[n])
  OBVIOUS
<1>4. PICK g \in [0..N -> V] : g[0] = <<>> /\ \A n \in 1..N : g[n] = h[n, g[n - 1]]
  <2>1. <<>> \in V
    OBVIOUS
  <2>2. \E g \in [0..N -> V] : MadeBy(g, <<>>, h, N)
    <3> HIDE DEF N, h, V
    <3> QED
      BY <1>1, <1>2, <2>1, Recursion
  <2> QED
    BY <2>2 DEF MadeBy
<1>5. \A n \in 1..N : g[n] = WithChunk(g[n - 1], w[n])
  <2> SUFFICES ASSUME NEW n \in 1..N PROVE g[n] = WithChunk(g[n - 1], w[n])
    OBVIOUS
  <2> HIDE DEF N, h, V
  <2>1. n - 1 \in 0..N
    BY <1>1
  <2>2. g[n - 1] \in V /\ g[n] = h[n, g[n - 1]]
    BY <1>4, <2>1
  <2> QED
    BY <1>3, <2>2
<1> DEFINE Step(f) == [n \in 0..N |-> IF n = 0 THEN <<>> ELSE WithChunk(f[n - 1], w[n])]
           f == CHOOSE f : f = Step(f)
<1>6. g = Step(g)
  <2>1. \A n \in 0..N : n = 0 \/ n \in 1..N
    BY <1>1
  <2> HIDE DEF N, h, V
  <2>2. \A n \in 0..N : g[n] = IF n = 0 THEN <<>> ELSE WithChunk(g[n - 1], w[n])
    BY <1>4, <1>5, <2>1
  <2> QED
    BY <2>2
<1>7. f = Step(f)
  <2> HIDE DEF Step
  <2> QED
    BY <1>6, Zenon
<1>8. TextOf(w) = f[N]
  BY DEF TextOf
<1> HIDE DEF f
<1>9. f = g
  <2> DEFINE S == {n \in 0..N : f[n] = g[n]}
  <2>0. \A n \in 0..N : f[n] = IF n = 0 THEN <<>> ELSE WithChunk(f[n - 1], w[n])
    <3> HIDE DEF N
    <3> QED
      BY <1>7
  <2>1. S \in SUBSET (0..N) /\ 0 \in S
    <3> HIDE DEF N
    <3>1. 0 \in 0..N
      BY <1>1
    <3>2. f[0] = <<>> /\ g[0] = <<>>
      BY <1>4, <2>0, <3>1
    <3> QED
      BY <3>1, <3>2
  <2>2. ASSUME NEW n \in S, n < N
        PROVE  n + 1 \in S
    <3>1. n \in 0..N /\ f[n] = g[n]
      OBVIOUS
    <3> HIDE DEF N, S
    <3>2. n + 1 \in 1..N /\ n + 1 \in 0..N /\ (n + 1) - 1 = n /\ n + 1 # 0
      BY <1>1, <2>2, <3>1
    <3>3. f[n + 1] = WithChunk(f[n], w[n + 1])
      BY <2>0, <3>2
    <3>4. g[n + 1] = WithChunk(g[n], w[n + 1])
      BY <1>5, <3>2
    <3>5. f[n + 1] = g[n + 1]
      BY <3>1, <3>3, <3>4
    <3> QED
      BY <3>2, <3>5 DEF S
  <2>3. S = 0..N
    <3> HIDE DEF S, N
    <3> QED
      BY <1>1, <2>1, <2>2, InductionUpTo
  <2>4. \A n \in 0..N : f[n] = g[n]
    BY <2>3
  <2> HIDE DEF N, V, S
  <2>5. g = [n \in 0..N |-> g[n]] /\ f = [n \in 0..N |-> f[n]]
    BY <1>4, <1>7
  <2> QED
    BY <2>4, <2>5
<1> HIDE DEF h
<1> QED
  BY <1>4, <1>5, <1>8, <1>9 DEF MadeOf

\* The text of a wire does not depend on the chunks that follow.
LEMMA TextPrefix ==
  ASSUME NEW w \in Seq(Chunks), NEW r \in Seq(Chunks), Len(w) <= Len(r),
         \A i \in 1..Len(w) : r[i] = w[i],
         NEW g, MadeOf(g, w), NEW k, MadeOf(k, r)
  PROVE  \A n \in 0..Len(w) : g[n] = k[n]
<1> DEFINE S == {n \in 0..Len(w) : g[n] = k[n]}
<1>1. S \in SUBSET (0..Len(w)) /\ 0 \in S
  BY DEF MadeOf
<1>2. ASSUME NEW n \in S, n < Len(w)
      PROVE  n + 1 \in S
  <2>1. /\ n \in Nat /\ n + 1 \in 1..Len(w) /\ n + 1 \in 1..Len(r) /\ (n + 1) - 1 = n
        /\ n + 1 \in 0..Len(w)
    BY <1>2
  <2>2. g[n + 1] = WithChunk(g[n], w[n + 1]) /\ k[n + 1] = WithChunk(k[n], r[n + 1])
    BY <2>1 DEF MadeOf
  <2>3. g[n] = k[n] /\ r[n + 1] = w[n + 1]
    BY <2>1
  <2>4. g[n + 1] = k[n + 1]
    BY <2>2, <2>3
  <2> QED
    BY <2>1, <2>4
<1>3. S = 0..Len(w)
  <2>1. Len(w) \in Nat
    OBVIOUS
  <2> HIDE DEF S
  <2> QED
    BY <1>1, <1>2, <2>1, InductionUpTo
<1> QED
  BY <1>3

\* Text of nothing, and of one chunk more.
LEMMA TextEmpty == TextOf(<<>>) = <<>>
<1>1. <<>> \in Seq(Chunks) /\ Len(<<>>) = 0
  OBVIOUS
<1>2. PICK g \in [0..0 -> Seq(Beginnings)] : MadeOf(g, <<>>) /\ TextOf(<<>>) = g[0]
  BY <1>1, TextSteps
<1> QED
  BY <1>2 DEF MadeOf

LEMMA TextType ==
  ASSUME NEW w \in Seq(Chunks)
  PROVE  TextOf(w) \in Seq(Beginnings)
<1>1. PICK g \in [0..Len(w) -> Seq(Beginnings)] : TextOf(w) = g[Len(w)]
  BY TextSteps
<1>2. Len(w) \in 0..Len(w)
  OBVIOUS
<1> QED
  BY <1>1, <1>2

LEMMA TextAppend ==
  ASSUME NEW w \in Seq(Chunks), NEW c \in Chunks
  PROVE  TextOf(Append(w, c)) = WithChunk(TextOf(w), c)
<1> DEFINE r == Append(w, c)
<1>1. /\ r \in Seq(Chunks) /\ Len(r) = Len(w) + 1 /\ Len(w) \in Nat
      /\ \A i \in 1..Len(w) : r[i] = w[i]
      /\ r[Len(w) + 1] = c
  BY AppendProperties
<1> HIDE DEF r
<1>2. PICK g \in [0..Len(w) -> Seq(Beginnings)] : MadeOf(g, w) /\ TextOf(w) = g[Len(w)]
  BY TextSteps
<1>3. PICK k \in [0..Len(r) -> Seq(Beginnings)] : MadeOf(k, r) /\ TextOf(r) = k[Len(r)]
  BY <1>1, TextSteps
<1>4. g[Len(w)] = k[Len(w)]
  <2>1. Len(w) <= Len(r)
    BY <1>1
  <2>2. \A n \in 0..Len(w) : g[n] = k[n]
    BY <1>1, <1>2, <1>3, <2>1, TextPrefix
  <2> QED
    BY <1>1, <2>2
<1>5. k[Len(w) + 1] = WithChunk(k[Len(w)], c)
  <2>1. Len(w) + 1 \in 1..Len(r) /\ (Len(w) + 1) - 1 = Len(w)
    BY <1>1
  <2> QED
    BY <1>1, <1>3, <2>1 DEF MadeOf
<1> QED
  BY <1>1, <1>2, <1>3, <1>4, <1>5 DEF r

(***************************************************************************)
(* The inductive invariant.                                                *)
(***************************************************************************)

SendTyped ==
  /\ stream \in BOOLEAN /\ sending \in BOOLEAN /\ result \in {0, 1}
  /\ msg \in [number : 0..MaxMessages, length : 0..MaxLen, tries : Nat]
  /\ sending \/ result = 0 => msg.number > 0
  /\ count \in 0..msg.length /\ (~sending => count = 0)
  /\ wire \in Seq(Chunks)

\* From its chunk i the wire w holds the first k bytes of the message m.
Holds(w, i, m, k) ==
  /\ w[i].from = 0 /\ w[Len(w)].upto = k
  /\ \A j \in i..Len(w) : w[j].number = m.number
  /\ \A j \in i..(Len(w) - 1) : w[j + 1].from = w[j].upto

EndsWith(w, m, k) == \E i \in 1..Len(w) : Holds(w, i, m, k)

\* What a call has sent, and what one that succeeded sent, comes last.
PartInd ==
  /\ sending /\ count < msg.length => EndsWith(wire, msg, msg.length - count)
  /\ ~sending /\ result = 1 /\ msg.length > 0 => EndsWith(wire, msg, msg.length)

\* The datagrams of w are whole messages, each once.
Datagrams(w) ==
  /\ \A i, j \in 1..Len(w) : i < j => w[i].number < w[j].number
  /\ \A i \in 1..Len(w) : w[i].from = 0 /\ w[i].upto = w[i].length

\* A datagram to be sent, or to be tried again, is not on the wire.
DatagramInd ==
  ~stream =>
    /\ Datagrams(wire)
    /\ \A i \in 1..Len(wire) :
         /\ wire[i].number <= msg.number
         /\ (IF sending THEN count > 0 ELSE result = 0) => wire[i].number < msg.number
    /\ sending => count \in {0, msg.length}

Last(s) == s[Len(s)]

\* What is left of the message m may follow the text t.
MayFollow(t, m) ==
  t # <<>> =>
    \/ m.number > Last(t).number
    \/ m.number = Last(t).number /\ m.length = Last(t).length /\ Last(t).upto < m.length

\* What a call that goes on has sent is a beginning at the end of the text;
\* the message may still follow what the peer got before.
TextInd ==
  /\ sending /\ count < msg.length =>
       TextOf(wire) = Append(Text, [number |-> msg.number, length |-> msg.length,
                                    upto   |-> msg.length - count])
  /\ Text \in Seq(Beginnings)
  /\ Text # <<>> => Last(Text).number <= msg.number
  /\ sending \/ result = 0 => MayFollow(Text, msg)

SendInd == SendTyped /\ PartInd /\ DatagramInd /\ TextInd

\* Nothing the invariant speaks of changes.
quiet == <<stream, msg, sending, count, result, wire>>

(***************************************************************************)
(* Ends of sequences.                                                      *)
(***************************************************************************)

LEMMA FrontAppend ==
  ASSUME NEW C, NEW t \in Seq(C), NEW b \in C
  PROVE  /\ Seqs!Front(Append(t, b)) = t
         /\ Append(t, b) # <<>> /\ Last(Append(t, b)) = b
<1> DEFINE r == Append(t, b)
<1>1. /\ r \in Seq(C) /\ Len(r) = Len(t) + 1 /\ Len(t) \in Nat
      /\ \A i \in 1..Len(t) : r[i] = t[i]
      /\ r[Len(t) + 1] = b
  BY AppendProperties
<1> HIDE DEF r
<1>2. SubSeq(r, 1, Len(r) - 1) = t
  <2> DEFINE q == SubSeq(r, 1, Len(t))
  <2>1. q \in Seq(C) /\ Len(q) = Len(t) /\ \A i \in 1..Len(t) : q[i] = r[i]
    BY <1>1
  <2> HIDE DEF q
  <2>2. q = t
    BY <1>1, <2>1, SeqEqual
  <2>3. Len(r) - 1 = Len(t)
    BY <1>1
  <2> QED
    BY <2>2, <2>3 DEF q
<1>3. r # <<>> /\ Last(r) = b
  BY <1>1 DEF Last
<1> QED
  BY <1>2, <1>3 DEF r, Seqs!Front

LEMMA LastIn ==
  ASSUME NEW C, NEW t \in Seq(C), t # <<>>
  PROVE  Last(t) \in C
  BY DEF Last

LEMMA ChunkFields ==
  ASSUME NEW w \in Seq(Chunks), NEW i \in 1..Len(w)
  PROVE  /\ w[i].number \in Nat /\ w[i].length \in Nat
         /\ w[i].from \in Nat /\ w[i].upto \in Nat
<1>1. w[i] \in Chunks
  OBVIOUS
<1> QED
  BY <1>1 DEF Chunks

LEMMA LastExtended ==
  ASSUME NEW t \in Seq(Beginnings), NEW b \in Beginnings, NEW c \in Chunks, c.from # 0
  PROVE  WithChunk(Append(t, b), c) = Append(t, [b EXCEPT !.upto = c.upto])
<1> DEFINE r == Append(t, b)
           n == Len(r)
           d == [b EXCEPT !.upto = c.upto]
           q == [r EXCEPT ![n] = d]
           u == Append(t, d)
<1>1. /\ r \in Seq(Beginnings) /\ n = Len(t) + 1 /\ Len(t) \in Nat
      /\ \A i \in 1..Len(t) : r[i] = t[i]
      /\ r[n] = b
  BY AppendProperties
<1>2. d \in Beginnings
  BY DEF Beginnings, Chunks
<1>3. WithChunk(r, c) = q
  <2>1. WithChunk(r, c) = [r EXCEPT ![n] = [r[n] EXCEPT !.upto = c.upto]]
    BY DEF WithChunk
  <2> HIDE DEF r
  <2> QED
    BY <1>1, <2>1
<1> HIDE DEF d
<1>4. /\ u \in Seq(Beginnings) /\ Len(u) = n
      /\ \A i \in 1..Len(t) : u[i] = t[i]
      /\ u[n] = d
  BY <1>1, <1>2, AppendProperties
<1> HIDE DEF r, u
<1>5. q \in Seq(Beginnings) /\ Len(q) = n /\ \A i \in 1..n : q[i] = IF i = n THEN d ELSE r[i]
  <2> DEFINE m == n
  <2>1. m \in 1..Len(r)
    BY <1>1
  <2> QED
    BY <1>1, <1>2, <2>1, ExceptSeq
<1> HIDE DEF q
<1>6. \A i \in 1..n : q[i] = u[i]
  <2>1. \A i \in 1..n : i = n \/ i \in 1..Len(t)
    BY <1>1
  <2> QED
    BY <1>1, <1>4, <1>5, <2>1
<1>7. q = u
  BY <1>1, <1>4, <1>5, <1>6, SeqEqual
<1> QED
  BY <1>3, <1>7 DEF r, u, d

(***************************************************************************)
(* The steps of a call.                                                    *)
(***************************************************************************)

\* The bounds.
LEMMA Bounds == MaxLen \in Nat /\ MaxLen > 0 /\ MaxMessages \in Nat /\ MaxTries \in Nat /\ Room \in Nat
  BY SendAssumption

LEMMA SendInitInd == ErrorsInit => SendInd
<1> SUFFICES ASSUME ErrorsInit PROVE SendInd
  OBVIOUS
<1>1. /\ stream \in BOOLEAN /\ msg = [number |-> 0, length |-> 0, tries |-> 0]
      /\ sending = FALSE /\ count = 0 /\ result = 1 /\ wire = <<>>
  BY DEF ErrorsInit, SendInit
<1>2. SendTyped
  <2>1. msg \in [number : 0..MaxMessages, length : 0..MaxLen, tries : Nat]
    BY <1>1, Bounds
  <2>2. wire \in Seq(Chunks)
    BY <1>1
  <2>3. count \in 0..msg.length
    BY <1>1
  <2>4. stream \in BOOLEAN /\ sending \in BOOLEAN
    BY <1>1
  <2>5. ~sending /\ result = 1 /\ count = 0
    BY <1>1
  <2>6. (~sending => count = 0) /\ result \in {0, 1} /\ (sending \/ result = 0 => msg.number > 0)
    BY <2>5
  <2> QED
    BY <2>1, <2>2, <2>3, <2>4, <2>6, Zenon DEF SendTyped
<1>3. PartInd /\ DatagramInd
  BY <1>1 DEF PartInd, DatagramInd, Datagrams
<1>4. Text = <<>>
  BY <1>1, TextEmpty DEF Text
<1>5. TextInd
  BY <1>1, <1>4 DEF TextInd
<1> QED
  BY <1>2, <1>3, <1>5 DEF SendInd

LEMMA QuietKeeps ==
  ASSUME SendInd, UNCHANGED quiet
  PROVE  SendInd' /\ Text' = Text
<1>1. Text' = Text
  BY DEF quiet, Text
<1>2. SendTyped' /\ PartInd' /\ DatagramInd'
  BY DEF quiet, SendInd, SendTyped, PartInd, DatagramInd
<1>3. TextInd'
  BY <1>1 DEF quiet, SendInd, TextInd
<1> QED
  BY <1>1, <1>2, <1>3 DEF SendInd

\* A message that is new, or that the last call could not send.
IsDue(m) ==
  /\ m \in [number : 1..MaxMessages, length : 0..MaxLen, tries : Nat]
  /\ \/ m.number > msg.number
     \/ result = 0 /\ m.number = msg.number /\ m.length = msg.length

LEMMA CallKeeps ==
  ASSUME SendInd, NEW m, IsDue(m), Call(m)
  PROVE  SendInd' /\ Text' = Text
<1>1. /\ ~sending /\ msg' = m /\ sending' = TRUE /\ count' = m.length
      /\ stream' = stream /\ result' = result /\ wire' = wire
  BY DEF Call
<1>2. /\ m \in [number : 1..MaxMessages, length : 0..MaxLen, tries : Nat]
      /\ m.number \in Nat /\ m.length \in Nat /\ m.number > 0 /\ m.number >= msg.number
      /\ ~(count' < msg'.length)
      /\ msg.number \in Nat
  BY <1>1, Bounds DEF IsDue, SendInd, SendTyped
<1>3. Text' = Text
  BY <1>1, <1>2 DEF Text
<1>4. SendTyped'
  BY <1>1, <1>2, Bounds DEF SendInd, SendTyped
<1>5. PartInd'
  BY <1>1, <1>2 DEF PartInd
<1>6. DatagramInd'
  <2> SUFFICES ASSUME ~stream PROVE DatagramInd'
    BY <1>1 DEF DatagramInd
  <2>1. /\ Datagrams(wire)
        /\ \A i \in 1..Len(wire) :
             wire[i].number <= msg.number /\ (result = 0 => wire[i].number < msg.number)
    BY <1>1 DEF SendInd, DatagramInd
  <2>2. \A i \in 1..Len(wire) : wire[i].number \in Nat
    BY ChunkFields DEF SendInd, SendTyped
  <2>3. \A i \in 1..Len(wire) : wire[i].number < m.number
    BY <1>2, <2>1, <2>2 DEF IsDue
  <2> QED
    BY <1>1, <1>2, <2>1, <2>2, <2>3 DEF DatagramInd
<1>7. TextInd'
  <2>1. /\ Text \in Seq(Beginnings)
        /\ Text # <<>> => Last(Text).number <= msg.number
        /\ result = 0 => MayFollow(Text, msg)
    BY DEF SendInd, TextInd
  <2>2. Text # <<>> => Last(Text).number \in Nat
    BY <2>1, LastIn DEF Beginnings
  <2>3. Text # <<>> => Last(Text).number <= m.number
    BY <1>2, <2>1, <2>2
  <2>4. MayFollow(Text, m)
    BY <1>2, <2>1, <2>2 DEF MayFollow, IsDue
  <2> QED
    BY <1>1, <1>2, <1>3, <2>1, <2>3, <2>4 DEF TextInd
<1> QED
  BY <1>3, <1>4, <1>5, <1>6, <1>7 DEF SendInd

\* What the invariant says of the numbers.
LEMMA Numbers ==
  ASSUME SendInd
  PROVE  /\ msg.number \in 0..MaxMessages /\ msg.length \in 0..MaxLen
         /\ count \in 0..msg.length
         /\ msg.number \in Nat /\ msg.length \in Nat /\ count \in Nat /\ count <= msg.length
         /\ sending \/ result = 0 => msg.number > 0
         /\ result \in {0, 1} /\ wire \in Seq(Chunks) /\ TextOf(wire) \in Seq(Beginnings)
<1>1. /\ msg \in [number : 0..MaxMessages, length : 0..MaxLen, tries : Nat]
      /\ count \in 0..msg.length
      /\ sending \/ result = 0 => msg.number > 0
      /\ result \in {0, 1} /\ wire \in Seq(Chunks)
  BY DEF SendInd, SendTyped
<1>2. TextOf(wire) \in Seq(Beginnings)
  BY <1>1, TextType
<1> QED
  BY <1>1, <1>2, Bounds

\* The kernel takes k bytes of what is left.
LEMMA SendSomeParts ==
  ASSUME SendInd, NEW k, SendSome(k)
  PROVE  LET start == msg.length - count IN
         /\ sending /\ count > 0 /\ start \in Nat
         /\ k \in 1..count /\ (~stream => k = count)
         /\ Chunk(k) \in Chunks
         /\ Chunk(k).number = msg.number /\ Chunk(k).length = msg.length
         /\ Chunk(k).from = start /\ Chunk(k).upto = start + k
         /\ wire' = Append(wire, Chunk(k)) /\ count' = count - k
         /\ stream' = stream /\ msg' = msg /\ sending' = sending /\ result' = result
<1>1. /\ sending /\ count > 0 /\ Fits(k)
      /\ wire' = Append(wire, Chunk(k)) /\ count' = count - k
      /\ stream' = stream /\ msg' = msg /\ sending' = sending /\ result' = result
  BY DEF SendSome
<1>2. k \in 1..count /\ (~stream => k = count)
  BY <1>1, Numbers DEF Fits
<1>3. msg.length - count \in Nat /\ msg.length - count + k \in Nat
  BY <1>2, Numbers
<1>4. Chunk(k) = [number |-> msg.number, length |-> msg.length,
                  from |-> msg.length - count, upto |-> msg.length - count + k]
  BY DEF Chunk
<1>5. Chunk(k) \in Chunks
  BY <1>3, <1>4, Numbers DEF Chunks
<1> QED
  BY <1>1, <1>2, <1>3, <1>4, <1>5

\* A chunk continues what the wire ends with, or begins anew.
LEMMA EndsLater ==
  ASSUME NEW w \in Seq(Chunks), NEW c \in Chunks, NEW m,
         c.number = m.number, c.from = 0 \/ EndsWith(w, m, c.from)
  PROVE  EndsWith(Append(w, c), m, c.upto)
<1> DEFINE r == Append(w, c)
           n == Len(w)
<1>1. /\ r \in Seq(Chunks) /\ Len(r) = n + 1 /\ n \in Nat
      /\ \A i \in 1..n : r[i] = w[i]
      /\ r[n + 1] = c
  BY AppendProperties
<1> HIDE DEF r
<1>2. CASE c.from = 0
  <2>1. n + 1 \in 1..Len(r) /\ (n + 1)..Len(r) = {n + 1} /\ (n + 1)..(Len(r) - 1) = {}
    BY <1>1
  <2>2. Holds(r, n + 1, m, c.upto)
    BY <1>1, <1>2, <2>1 DEF Holds
  <2> QED
    BY <2>1, <2>2 DEF EndsWith, r
<1>3. CASE EndsWith(w, m, c.from)
  <2>1. PICK i \in 1..n : Holds(w, i, m, c.from)
    BY <1>3 DEF EndsWith
  <2>2. /\ w[i].from = 0 /\ w[n].upto = c.from
        /\ \A j \in i..n : w[j].number = m.number
        /\ \A j \in i..(n - 1) : w[j + 1].from = w[j].upto
    BY <2>1 DEF Holds
  <2> HIDE DEF n
  <2>3. r[i].from = 0 /\ r[Len(r)].upto = c.upto
    BY <1>1, <2>2
  <2>4. ASSUME NEW j \in i..Len(r) PROVE r[j].number = m.number
    <3>1. j = n + 1 \/ (j \in i..n /\ j \in 1..n)
      BY <1>1, <2>1
    <3> QED
      BY <1>1, <2>2, <3>1
  <2>5. ASSUME NEW j \in i..(Len(r) - 1) PROVE r[j + 1].from = r[j].upto
    <3>1. j \in 1..n /\ (j = n \/ (j \in i..(n - 1) /\ j + 1 \in 1..n))
      BY <1>1, <2>1
    <3>2. CASE j = n
      BY <1>1, <2>2, <3>1, <3>2
    <3>3. CASE j \in i..(n - 1) /\ j + 1 \in 1..n
      BY <1>1, <2>2, <3>1, <3>3
    <3> QED
      BY <3>1, <3>2, <3>3
  <2>6. i \in 1..Len(r) /\ Holds(r, i, m, c.upto)
    BY <1>1, <2>1, <2>3, <2>4, <2>5 DEF Holds
  <2> QED
    BY <2>6 DEF EndsWith, r
<1> QED
  BY <1>2, <1>3

\* A message that is not on the wire may be added whole.
LEMMA DatagramsLater ==
  ASSUME NEW w \in Seq(Chunks), NEW c \in Chunks, Datagrams(w),
         \A i \in 1..Len(w) : w[i].number < c.number,
         c.from = 0, c.upto = c.length
  PROVE  /\ Datagrams(Append(w, c))
         /\ \A i \in 1..Len(Append(w, c)) : Append(w, c)[i].number <= c.number
<1> DEFINE r == Append(w, c)
           n == Len(w)
<1>1. /\ r \in Seq(Chunks) /\ Len(r) = n + 1 /\ n \in Nat
      /\ \A i \in 1..n : r[i] = w[i]
      /\ r[n + 1] = c
  BY AppendProperties
<1> HIDE DEF r, n
<1>2. \A i \in 1..Len(r) : i = n + 1 \/ i \in 1..n
  BY <1>1
<1>3. \A i \in 1..n : /\ w[i].number \in Nat /\ w[i].number < c.number
                      /\ w[i].from = 0 /\ w[i].upto = w[i].length
  BY ChunkFields DEF Datagrams, n
<1>4. c.number \in Nat
  BY DEF Chunks
<1>5. \A i \in 1..Len(r) :
        /\ r[i].from = 0 /\ r[i].upto = r[i].length
        /\ r[i].number <= c.number
  BY <1>1, <1>2, <1>3, <1>4
<1>6. ASSUME NEW i \in 1..Len(r), NEW j \in 1..Len(r), i < j
      PROVE  r[i].number < r[j].number
  <2>1. i \in 1..n
    BY <1>1, <1>6
  <2>2. CASE j = n + 1
    BY <1>1, <1>3, <2>1, <2>2
  <2>3. CASE j \in 1..n
    BY <1>1, <1>6, <2>1, <2>3 DEF Datagrams, n
  <2> QED
    BY <1>2, <2>2, <2>3
<1> QED
  BY <1>5, <1>6 DEF Datagrams, r

LEMMA SendSomeKeeps ==
  ASSUME SendInd, NEW k, SendSome(k)
  PROVE  SendInd' /\ Text' = Text
<1> DEFINE start == msg.length - count
           c == Chunk(k)
           b == [number |-> msg.number, length |-> msg.length, upto |-> start + k]
<1>1. /\ sending /\ count > 0 /\ start \in Nat
      /\ k \in 1..count /\ (~stream => k = count)
      /\ c \in Chunks
      /\ c.number = msg.number /\ c.length = msg.length
      /\ c.from = start /\ c.upto = start + k
      /\ wire' = Append(wire, c) /\ count' = count - k
      /\ stream' = stream /\ msg' = msg /\ sending' = sending /\ result' = result
  BY SendSomeParts
<1>2. /\ msg.number \in Nat /\ msg.length \in Nat /\ count \in Nat /\ count <= msg.length
      /\ wire \in Seq(Chunks)
  BY Numbers
<1> HIDE DEF c
<1>3. /\ wire' \in Seq(Chunks) /\ count' \in 0..msg.length /\ count' < msg.length
      /\ msg.length - count' = start + k
      /\ count < msg.length <=> start # 0
  <2>1. wire' \in Seq(Chunks)
    BY <1>1, <1>2, AppendProperties
  <2>2. count' = count - k /\ k \in 1..count /\ count \in Nat /\ msg.length \in Nat /\ count <= msg.length
    BY <1>1, <1>2
  <2>3. start = msg.length - count
    OBVIOUS
  <2> HIDE DEF start
  <2> DEFINE l == msg.length
  <2> HIDE DEF l
  <2>4. /\ count' \in 0..l /\ count' < l /\ l - count' = start + k
        /\ count < l <=> start # 0
    BY <2>2, <2>3 DEF l
  <2> QED BY <2>1, <2>4 DEF l
<1>4. SendTyped'
  BY <1>1, <1>3 DEF SendInd, SendTyped
<1>5. PartInd'
  <2>1. start # 0 => EndsWith(wire, msg, start)
    BY <1>1, <1>3 DEF SendInd, PartInd
  <2>2. EndsWith(Append(wire, c), msg, c.upto)
    BY <1>1, <1>2, <2>1, EndsLater
  <2>3. EndsWith(wire', msg', msg'.length - count')
    BY <1>1, <1>3, <2>2
  <2> QED
    BY <1>1, <2>3 DEF PartInd
<1>6. DatagramInd'
  <2> SUFFICES ASSUME ~stream PROVE DatagramInd'
    BY <1>1 DEF DatagramInd
  <2>1. /\ Datagrams(wire) /\ \A i \in 1..Len(wire) : wire[i].number < msg.number
        /\ count \in {0, msg.length}
    BY <1>1 DEF SendInd, DatagramInd
  <2>2. start = 0 /\ c.upto = c.length /\ count' = 0
    BY <1>1, <1>2, <2>1
  <2>3. Datagrams(wire') /\ \A i \in 1..Len(wire') : wire'[i].number <= msg.number
    BY <1>1, <1>2, <2>1, <2>2, DatagramsLater
  <2> QED
    BY <1>1, <2>2, <2>3 DEF DatagramInd, Datagrams
<1>7. b \in Beginnings
  BY <1>1, <1>2 DEF Beginnings
<1>8. Text \in Seq(Beginnings)
  BY DEF SendInd, TextInd
<1>9. TextOf(wire') = Append(Text, b)
  <2>1. TextOf(wire') = WithChunk(TextOf(wire), c)
    BY <1>1, <1>2, TextAppend
  <2>2. CASE start = 0
    <3>1. Text = TextOf(wire)
      BY <1>3, <2>2 DEF Text
    <3>2. WithChunk(TextOf(wire), c) = Append(TextOf(wire), b)
      BY <1>1, <2>2 DEF WithChunk
    <3> QED
      BY <2>1, <3>1, <3>2
  <2>3. CASE start # 0
    <3> DEFINE a == [number |-> msg.number, length |-> msg.length, upto |-> start]
    <3>1. TextOf(wire) = Append(Text, a)
      BY <1>1, <1>3, <2>3 DEF SendInd, TextInd
    <3>2. a \in Beginnings /\ [a EXCEPT !.upto = c.upto] = b
      <4>1. a \in Beginnings
        BY <1>1, <1>2 DEF Beginnings
      <4>2. [a EXCEPT !.upto = c.upto] = b
        BY <1>1
      <4> QED BY <4>1, <4>2
    <3> HIDE DEF a
    <3>3. WithChunk(Append(Text, a), c) = Append(Text, [a EXCEPT !.upto = c.upto])
      BY <1>1, <1>8, <2>3, <3>2, LastExtended
    <3> QED
      BY <2>1, <3>1, <3>2, <3>3
  <2> QED
    BY <2>2, <2>3
<1>10. Text' = Text
  <2>1. Text' = Seqs!Front(TextOf(wire'))
    BY <1>1, <1>3 DEF Text
  <2> HIDE DEF b
  <2> QED
    BY <1>7, <1>8, <1>9, <2>1, FrontAppend
<1>11. TextInd'
  <2>1. /\ Text # <<>> => Last(Text).number <= msg.number
        /\ MayFollow(Text, msg)
    BY <1>1 DEF SendInd, TextInd
  <2> QED
    BY <1>1, <1>3, <1>8, <1>9, <1>10, <2>1 DEF TextInd
<1> QED
  BY <1>4, <1>5, <1>6, <1>10, <1>11 DEF SendInd

\* A call returns r; what it put on the wire is part of the text.
LEMMA ReturnKeeps ==
  ASSUME SendInd, NEW r, NEW e, sending, Return(r, e),
         r = IF count = 0 THEN 1 ELSE 0
  PROVE  /\ SendInd'
         /\ Text' = IF count = msg.length THEN Text
                    ELSE Append(Text, [number |-> msg.number, length |-> msg.length,
                                       upto |-> msg.length - count])
<1> DEFINE b == [number |-> msg.number, length |-> msg.length, upto |-> msg.length - count]
<1>1. /\ result' = r /\ sending' = FALSE /\ count' = 0
      /\ stream' = stream /\ msg' = msg /\ wire' = wire
  BY DEF Return
<1>2. /\ msg.number \in Nat /\ msg.length \in Nat /\ count \in Nat /\ count <= msg.length
      /\ wire \in Seq(Chunks) /\ r \in {0, 1}
  BY Numbers
<1>3. Text' = TextOf(wire)
  BY <1>1 DEF Text
<1>4. count = msg.length => Text' = Text
  BY <1>2, <1>3 DEF Text
<1>5. count # msg.length => Text' = Append(Text, b)
  BY <1>2, <1>3 DEF SendInd, TextInd
<1>6. SendTyped'
  <2>1. /\ msg' \in [number : 0..MaxMessages, length : 0..MaxLen, tries : Nat]
        /\ stream' \in BOOLEAN /\ msg'.number > 0
    BY <1>1 DEF SendInd, SendTyped
  <2>2. ~sending' /\ sending' \in BOOLEAN
    BY <1>1
  <2>3. count' \in 0..msg'.length
    BY <1>1, <1>2
  <2> QED
    BY <1>1, <1>2, <2>1, <2>2, <2>3 DEF SendTyped
<1>7. PartInd'
  BY <1>1, <1>2 DEF SendInd, PartInd
<1>8. DatagramInd'
  <2> SUFFICES ASSUME ~stream PROVE DatagramInd'
    BY <1>1 DEF DatagramInd
  <2> QED
    BY <1>1, <1>2 DEF SendInd, DatagramInd
<1>9. TextInd'
  <2>1. /\ Text \in Seq(Beginnings)
        /\ Text # <<>> => Last(Text).number <= msg.number
        /\ MayFollow(Text, msg)
    BY DEF SendInd, TextInd
  <2>2. CASE count = msg.length
    <3>1. Text' = Text
      BY <1>2, <1>3, <2>2 DEF Text
    <3> QED
      BY <1>1, <2>1, <3>1 DEF TextInd
  <2>3. CASE count # msg.length
    <3>1. b \in Beginnings
      BY <1>2 DEF Beginnings
    <3>2. b.number = msg.number /\ b.length = msg.length /\ b.upto = msg.length - count
      OBVIOUS
    <3> HIDE DEF b
    <3>3. Text' \in Seq(Beginnings) /\ Last(Text') = b
      <4>1. Text' = Append(Text, b)
        BY <1>5, <2>3 DEF b
      <4>2. Append(Text, b) \in Seq(Beginnings)
        BY <2>1, <3>1, AppendProperties
      <4>3. Last(Append(Text, b)) = b
        BY <2>1, <3>1, FrontAppend
      <4> QED
        BY <4>1, <4>2, <4>3
    <3>4. Last(Text').number <= msg.number
      BY <1>2, <3>2, <3>3
    <3>5. r = 0 => MayFollow(Text', msg)
      BY <1>2, <3>2, <3>3 DEF MayFollow
    <3> QED
      BY <1>1, <3>3, <3>4, <3>5 DEF TextInd
  <2> QED
    BY <2>2, <2>3
<1> QED
  BY <1>2, <1>4, <1>5, <1>6, <1>7, <1>8, <1>9 DEF SendInd

LEMMA SendInvalidKeeps ==
  ASSUME SendInd, NEW n \in 0..MaxLen, SendInvalid(n)
  PROVE  SendInd' /\ Text' = Text /\ MayFollow(Text, msg')
<1>1. /\ ~sending /\ msg.number < MaxMessages
      /\ msg' = [number |-> msg.number + 1, length |-> n, tries |-> 1]
      /\ result' = IF n = 0 THEN 1 ELSE 0
      /\ stream' = stream /\ sending' = sending /\ count' = count /\ wire' = wire
  BY DEF SendInvalid
<1>2. /\ msg.number \in Nat /\ wire \in Seq(Chunks)
      /\ msg'.number = msg.number + 1 /\ msg'.length = n
      /\ msg' \in [number : 0..MaxMessages, length : 0..MaxLen, tries : Nat]
  BY <1>1, Numbers, Bounds
<1>3. Text' = Text
  BY <1>1 DEF Text
<1>4. SendTyped'
  <2>1. count' = 0 /\ stream' \in BOOLEAN /\ sending' \in BOOLEAN
    BY <1>1 DEF SendInd, SendTyped
  <2>2. count' \in 0..msg'.length
    BY <1>2, <2>1
  <2> QED
    BY <1>1, <1>2, <2>1, <2>2 DEF SendTyped
<1>5. PartInd'
  BY <1>1 DEF PartInd
<1>6. DatagramInd'
  <2> SUFFICES ASSUME ~stream PROVE DatagramInd'
    BY <1>1 DEF DatagramInd
  <2>1. /\ Datagrams(wire)
        /\ \A i \in 1..Len(wire) : wire[i].number <= msg.number /\ wire[i].number \in Nat
    BY <1>2, ChunkFields DEF SendInd, DatagramInd
  <2> QED
    BY <1>1, <1>2, <2>1 DEF DatagramInd
<1>7. TextInd' /\ MayFollow(Text, msg')
  <2>1. Text \in Seq(Beginnings) /\ (Text # <<>> => Last(Text).number <= msg.number)
    BY DEF SendInd, TextInd
  <2>2. Text # <<>> => Last(Text).number \in Nat
    BY <2>1, LastIn DEF Beginnings
  <2>3. MayFollow(Text, msg') /\ (Text # <<>> => Last(Text).number <= msg'.number)
    BY <1>2, <2>1, <2>2 DEF MayFollow
  <2> QED
    BY <1>1, <1>3, <2>1, <2>3 DEF TextInd
<1> QED
  BY <1>3, <1>4, <1>5, <1>6, <1>7 DEF SendInd

\* The steps there are, for the invariant.
LEMMA Steps ==
  ASSUME SendInd, [ErrorsNext]_errorVars
  PROVE  \/ \E m : IsDue(m) /\ Call(m)
         \/ \E k : SendSome(k)
         \/ \E r, e : sending /\ Return(r, e) /\ r = IF count = 0 THEN 1 ELSE 0
         \/ \E n \in 0..MaxLen : SendInvalid(n)
         \/ UNCHANGED quiet
<1>1. CASE SendBegins
  <2>1. ASSUME NEW n \in 0..MaxLen, SendNext(n) PROVE \E m : IsDue(m) /\ Call(m)
    <3> DEFINE m == [number |-> msg.number + 1, length |-> n, tries |-> 1]
    <3>1. Call(m) /\ msg.number < MaxMessages
      BY <2>1 DEF SendNext
    <3>2. IsDue(m)
      BY <3>1, Numbers, Bounds DEF IsDue
    <3> QED
      BY <3>1, <3>2
  <2>2. ASSUME SendAgain PROVE \E m : IsDue(m) /\ Call(m)
    <3> DEFINE m == [msg EXCEPT !.tries = msg.tries + 1]
    <3>1. Call(m) /\ result = 0
      BY <2>2 DEF SendAgain, TryAgain
    <3>2. msg \in [number : 0..MaxMessages, length : 0..MaxLen, tries : Nat] /\ msg.number > 0
      BY <3>1 DEF SendInd, SendTyped
    <3>3. IsDue(m)
      BY <3>1, <3>2, Bounds DEF IsDue
    <3> QED
      BY <3>1, <3>3
  <2> QED
    BY <1>1, <2>1, <2>2 DEF SendBegins
<1>2. CASE SendGoesOn
  <2>1. ASSUME SendBlocks \/ SendFails
        PROVE  \E r, e : sending /\ Return(r, e) /\ r = IF count = 0 THEN 1 ELSE 0
    <3>1. /\ sending /\ count > 0 /\ count \in Nat
          /\ Return(0, WouldBlock) \/ Return(0, Broken)
      BY <2>1, Numbers DEF SendBlocks, SendFails
    <3>2. count # 0
      BY <3>1
    <3> QED
      BY <3>1, <3>2
  <2>2. ASSUME SendDone
        PROVE  \E r, e : sending /\ Return(r, e) /\ r = IF count = 0 THEN 1 ELSE 0
    <3>1. sending /\ Return(1, errno) /\ count = 0
      BY <2>2 DEF SendDone
    <3> QED
      BY <3>1
  <2> QED
    BY <1>2, <2>1, <2>2 DEF SendGoesOn, Loop
<1>3. CASE Around
  BY <1>3 DEF Around, OtherCall, PeerTakes, Breaks, quiet
<1>4. ASSUME NEW e, Create(e) \/ Connect(e) \/ Accept(e) \/ RecvNothing(e)
                    \/ CloseReturns(e) \/ CloseForces(e)
      PROVE  UNCHANGED quiet
  BY <1>4 DEF Create, Connect, Accept, RecvNothing, CloseReturns, CloseForces, Returns, quiet
<1>5. ASSUME NEW call, NEW e, Plain(call, e) \/ GetAddress(call, e)
      PROVE  UNCHANGED quiet
  BY <1>5 DEF Plain, GetAddress, Returns, quiet
<1>6. ASSUME NEW end, RecvSome(end)
      PROVE  UNCHANGED quiet
  BY <1>6 DEF RecvSome, Returns, quiet
<1>7. CASE UNCHANGED errorVars
  BY <1>7 DEF errorVars, sendVars, quiet
<1> QED
  BY <1>1, <1>2, <1>3, <1>4, <1>5, <1>6, <1>7 DEF ErrorsNext

LEMMA SendStepInd == SendInd /\ [ErrorsNext]_errorVars => SendInd'
<1> SUFFICES ASSUME SendInd, [ErrorsNext]_errorVars PROVE SendInd'
  OBVIOUS
<1>1. ASSUME NEW m, IsDue(m), Call(m) PROVE SendInd'
  BY <1>1, CallKeeps
<1>2. ASSUME NEW k, SendSome(k) PROVE SendInd'
  BY <1>2, SendSomeKeeps
<1>3. ASSUME NEW r, NEW e, sending, Return(r, e), r = IF count = 0 THEN 1 ELSE 0 PROVE SendInd'
  BY <1>3, ReturnKeeps
<1>4. ASSUME NEW n \in 0..MaxLen, SendInvalid(n) PROVE SendInd'
  BY <1>4, SendInvalidKeeps
<1>5. CASE UNCHANGED quiet
  BY <1>5, QuietKeeps
<1> QED
  BY <1>1, <1>2, <1>3, <1>4, <1>5, Steps

(***************************************************************************)
(* The theorems about sending.                                             *)
(***************************************************************************)

\* The invariant holds of every state, for any bounds.
THEOREM SendInductive == ErrorsSpec => []SendInd
  BY SendInitInd, SendStepInd, PTL DEF ErrorsSpec

\* A call that returned success has put the whole message on the wire last,
\* in one piece, whatever partial sends and failed tries came before
\* (Socket.cpp:414-427).
THEOREM SuccessIsAlwaysWhole == ErrorsSpec => []SuccessIsWhole
<1>1. SendInd => SuccessIsWhole
  <2> SUFFICES ASSUME SendInd, ~sending, result = 1, msg.length > 0
               PROVE  \E i \in 1..Len(wire) : IsWhole(SubSeq(wire, i, Len(wire)), msg)
    BY DEF SuccessIsWhole
  <2>1. PICK i \in 1..Len(wire) : Holds(wire, i, msg, msg.length)
    BY DEF SendInd, PartInd, EndsWith
  <2> DEFINE n == Len(wire)
             s == SubSeq(wire, i, n)
  <2>2. n \in Nat /\ i \in Nat /\ 1 <= i /\ i <= n
    BY <2>1, Numbers
  <2>3. Len(s) = n - i + 1 /\ \A j \in 1..(n - i + 1) : s[j] = wire[i + j - 1]
    BY <2>2, Numbers
  <2>4. /\ wire[i].from = 0 /\ wire[n].upto = msg.length
        /\ \A j \in i..n : wire[j].number = msg.number
        /\ \A j \in i..(n - 1) : wire[j + 1].from = wire[j].upto
    BY <2>1 DEF Holds
  <2> HIDE DEF s, n
  <2>5. s[1] = wire[i] /\ s[Len(s)] = wire[n]
    <3>1. 1 \in 1..(n - i + 1) /\ n - i + 1 \in 1..(n - i + 1)
          /\ i + 1 - 1 = i /\ i + (n - i + 1) - 1 = n
      BY <2>2
    <3> QED
      BY <2>3, <3>1
  <2>6. ASSUME NEW j \in 1..Len(s) PROVE s[j].number = msg.number
    <3>1. j \in 1..(n - i + 1) /\ i + j - 1 \in i..n
      BY <2>2, <2>3
    <3> QED
      BY <2>3, <2>4, <3>1
  <2>7. ASSUME NEW j \in 1..(Len(s) - 1) PROVE s[j + 1].from = s[j].upto
    <3>1. /\ j \in 1..(n - i + 1) /\ j + 1 \in 1..(n - i + 1)
          /\ i + j - 1 \in i..(n - 1) /\ i + (j + 1) - 1 = (i + j - 1) + 1
      BY <2>2, <2>3
    <3>2. s[j] = wire[i + j - 1] /\ s[j + 1] = wire[(i + j - 1) + 1]
      BY <2>3, <3>1
    <3>3. wire[(i + j - 1) + 1].from = wire[i + j - 1].upto
      BY <2>4, <3>1
    <3> QED
      BY <3>2, <3>3
  <2>8. IsWhole(s, msg)
    BY <2>4, <2>5, <2>6, <2>7 DEF IsWhole
  <2> QED
    BY <2>8 DEF s, n
<1> QED
  BY <1>1, SendInductive, PTL

\* Each message is sent in a datagram of its own, once (Socket.cpp:447-454).
THEOREM DatagramsAreSentOnce == ErrorsSpec => []DatagramsOnce
<1>1. SendInd => DatagramsOnce
  <2> SUFFICES ASSUME SendInd, ~stream
               PROVE  RepeatsNothing /\ \A i \in 1..Len(wire) : IsWhole(<<wire[i]>>, wire[i])
    BY DEF DatagramsOnce
  <2>1. Datagrams(wire)
    BY DEF SendInd, DatagramInd
  <2>2. RepeatsNothing
    <3>1. \A i, j \in 1..Len(wire) : wire[i].number \in Nat /\ wire[j].number \in Nat
      BY Numbers, ChunkFields
    <3> QED
      BY <2>1, <3>1 DEF Datagrams, RepeatsNothing
  <2>3. ASSUME NEW i \in 1..Len(wire) PROVE IsWhole(<<wire[i]>>, wire[i])
    <3> DEFINE c == wire[i]
               s == <<c>>
    <3>1. c.from = 0 /\ c.upto = c.length
      BY <2>1 DEF Datagrams
    <3> HIDE DEF c
    <3>2. Len(s) = 1 /\ s[1] = c /\ 1..1 = {1} /\ 1..(1 - 1) = {}
      OBVIOUS
    <3> HIDE DEF s
    <3>3. IsWhole(s, c)
      BY <3>1, <3>2 DEF IsWhole
    <3> QED
      BY <3>3 DEF s, c
  <2> QED
    BY <2>2, <2>3
<1> QED
  BY <1>1, SendInductive, PTL

(***************************************************************************)
(* The sockets keep the promise of Transmission.                           *)
(***************************************************************************)

LEMMA PromisedInit == ErrorsInit => Promised!TransmissionInit
<1> SUFFICES ASSUME ErrorsInit PROVE Promised!TransmissionInit
  OBVIOUS
<1>1. stream \in BOOLEAN /\ ~sending /\ result = 1 /\ wire = <<>>
  BY DEF ErrorsInit, SendInit
<1>2. Text = <<>>
  BY <1>1, TextEmpty DEF Text
<1> QED
  BY <1>1, <1>2 DEF Promised!TransmissionInit

\* What is due may follow the text.
LEMMA DueThen ==
  ASSUME NEW m, MayFollow(Text, m)
  PROVE  Promised!Due(m.number, m.length)
  BY DEF MayFollow, Last, Promised!Due

LEMMA PromisedStep ==
  SendInd /\ [ErrorsNext]_errorVars => [Promised!TransmissionNext]_(Promised!textVars)
<1> SUFFICES ASSUME SendInd, [ErrorsNext]_errorVars
             PROVE  [Promised!TransmissionNext]_(Promised!textVars)
  OBVIOUS
<1>1. ASSUME NEW m, IsDue(m), Call(m) PROVE UNCHANGED Promised!textVars
  BY <1>1, CallKeeps DEF Call, Promised!textVars
<1>2. ASSUME NEW k, SendSome(k) PROVE UNCHANGED Promised!textVars
  BY <1>2, SendSomeKeeps DEF SendSome, Promised!textVars
<1>3. ASSUME NEW r, NEW e, sending, Return(r, e), r = IF count = 0 THEN 1 ELSE 0
      PROVE  Promised!TransmissionNext
  <2> DEFINE k == msg.length - count
  <2>1. /\ msg.number \in 1..MaxMessages /\ msg.length \in 0..MaxLen
        /\ msg.length \in Nat /\ count \in Nat /\ count <= msg.length
    BY <1>3, Numbers, Bounds
  <2>2. k \in 0..msg.length /\ (k = 0 <=> count = msg.length) /\ (k = msg.length <=> count = 0)
    BY <2>1
  <2>3. result' = (IF k = msg.length THEN 1 ELSE 0) /\ stream' = stream
    BY <1>3, <2>2 DEF Return
  <2>4. Text' = IF k = 0 THEN Text
                ELSE Append(Text, [number |-> msg.number, length |-> msg.length, upto |-> k])
    BY <1>3, <2>2, ReturnKeeps
  <2>5. stream \/ k \in {0, msg.length}
    BY <1>3, <2>2 DEF SendInd, DatagramInd
  <2>6. Promised!Due(msg.number, msg.length)
    BY <1>3, DueThen DEF SendInd, TextInd
  <2> HIDE DEF k
  <2>7. Promised!Try(msg.number, msg.length, k)
    BY <2>3, <2>4, <2>5 DEF Promised!Try
  <2> QED
    BY <2>1, <2>2, <2>6, <2>7 DEF Promised!TransmissionNext
<1>4. ASSUME NEW n \in 0..MaxLen, SendInvalid(n) PROVE Promised!TransmissionNext
  <2> DEFINE number == msg.number + 1
  <2>1. /\ msg.number < MaxMessages /\ msg'.number = number /\ msg'.length = n
        /\ (result' = IF n = 0 THEN 1 ELSE 0) /\ stream' = stream
    BY <1>4 DEF SendInvalid
  <2>2. number \in 1..MaxMessages /\ 0 \in 0..n /\ n \in Nat
    BY <2>1, Numbers, Bounds
  <2>3. Text' = Text
    BY <1>4, SendInvalidKeeps
  <2>4. MayFollow(Text, msg')
    BY <1>4, SendInvalidKeeps
  <2>5. Promised!Due(number, n)
    BY <2>1, <2>4 DEF MayFollow, Last, Promised!Due
  <2>6. Promised!Try(number, n, 0)
    BY <2>1, <2>2, <2>3 DEF Promised!Try
  <2> HIDE DEF number
  <2> QED
    BY <2>2, <2>5, <2>6 DEF Promised!TransmissionNext
<1>5. ASSUME UNCHANGED quiet PROVE UNCHANGED Promised!textVars
  BY <1>5, QuietKeeps DEF quiet, Promised!textVars
<1> QED
  BY <1>1, <1>2, <1>3, <1>4, <1>5, Steps

\* Through partial sends, full queues, broken connections and retries each
\* step of the sockets is one of Transmission or none (Socket.cpp:410-428).
THEOREM PromiseIsKept == ErrorsSpec => Promise
<1>1. Promise <=> Promised!TransmissionInit /\ [][Promised!TransmissionNext]_(Promised!textVars)
  BY DEF Promise, Promised!TransmissionSpec
<1> QED
  BY <1>1, PromisedInit, PromisedStep, SendInductive, PTL DEF ErrorsSpec

(***************************************************************************)
(* What scripts are told.                                                  *)
(***************************************************************************)

\* The answers that no repetition of the call will change.
Final == {"ENOMEM", "ECONNREFUSED", "ENOTCONN", "EBADF", Broken}

\* The table tells the two kinds apart.
LEMMA Told ==
  /\ AGSEnumerateError(NoError) = "NO_ERROR"
  /\ \A e \in Transient : AGSEnumerateError(e) = "PLEASE_TRY_AGAIN"
  /\ \A e \in Final : AGSEnumerateError(e) \notin {"NO_ERROR", "PLEASE_TRY_AGAIN"}
<1>1. DOMAIN SockError = {"NO_ERROR", "ACCESS_DENIED", "ADDRESS_NOT_AVAILABLE",
        "PLEASE_TRY_AGAIN", "SOCKET_NOT_VALID", "DISCONNECTED", "INVALID", "UNSUPPORTED",
        "HOST_NOT_REACHED", "NOT_ENOUGH_RESOURCES", "NETWORK_NOT_AVAILABLE", "NOT_CONNECTED"}
  BY DEF SockError
<1>2. /\ SockError["NO_ERROR"] = {NoError}
      /\ SockError["PLEASE_TRY_AGAIN"] = Transient
  BY DEF SockError, Transient, NoError, WouldBlock
<1>3. \A v \in DOMAIN SockError :
        /\ NoError \in SockError[v] => v = "NO_ERROR"
        /\ \A e \in Transient : e \in SockError[v] => v = "PLEASE_TRY_AGAIN"
  BY <1>1 DEF SockError, Transient, NoError, WouldBlock
<1>4. \A e \in Final : e # NoError /\ e \notin Transient
  BY DEF Final, NoError, Transient, WouldBlock, Broken
<1>5. AGSEnumerateError(NoError) = "NO_ERROR"
  BY <1>1, <1>2, <1>3 DEF AGSEnumerateError
<1>6. ASSUME NEW e \in Transient PROVE AGSEnumerateError(e) = "PLEASE_TRY_AGAIN"
  BY <1>1, <1>2, <1>3 DEF AGSEnumerateError
<1>7. ASSUME NEW e \in Final PROVE AGSEnumerateError(e) \notin {"NO_ERROR", "PLEASE_TRY_AGAIN"}
  <2> DEFINE Row(v) == v \in DOMAIN SockError /\ e \in SockError[v]
  <2>1. ~Row("NO_ERROR") /\ ~Row("PLEASE_TRY_AGAIN")
    BY <1>2, <1>4
  <2>2. CASE \E v \in DOMAIN SockError : e \in SockError[v]
    <3>1. Row(AGSEnumerateError(e))
      BY <2>2 DEF AGSEnumerateError
    <3> QED
      BY <2>1, <3>1
  <2>3. CASE ~(\E v \in DOMAIN SockError : e \in SockError[v])
    BY <2>3 DEF AGSEnumerateError
  <2> QED
    BY <2>2, <2>3
<1> QED
  BY <1>5, <1>6, <1>7

\* An error is its own, or none, when the call is worth repeating.
Fair(failure, told) ==
  failure # NoError =>
    \/ failure \in Transient /\ told \in {NoError, failure}
    \/ failure \in Final /\ told = failure

LEMMA FairIsOwn == Fair(answer, error) => FailureIsOwn
<1> SUFFICES ASSUME Fair(answer, error), answer # NoError
             PROVE  /\ answer \in Transient
                         <=> AGSEnumerateError(error) \in {"NO_ERROR", "PLEASE_TRY_AGAIN"}
                    /\ error \in {NoError, answer}
  BY DEF FailureIsOwn
<1>1. CASE answer \in Transient /\ error \in {NoError, answer}
  BY <1>1, Told
<1>2. CASE answer \in Final /\ error = answer
  <2>1. answer \notin Transient
    BY <1>2 DEF Final, Transient, WouldBlock, Broken
  <2> QED
    BY <1>2, <2>1, Told
<1> QED
  BY <1>1, <1>2 DEF Fair

\* The invariant: a socket that was not made has failed in nothing yet.
FairInd ==
  /\ id = "unmade" => ~sending /\ answer = NoError
  /\ Fair(answer, error)

\* Every answer of the kernel is one kind or the other.
LEMMA AnswersKinds ==
  ASSUME NEW call \in DOMAIN Answers, NEW e, Answered(call, e)
  PROVE  e = NoError \/ e \in Transient \/ e \in Final
  BY DEF Answered, Answers, Transient, Final, NoError, WouldBlock, Broken

LEMMA FairStep == FairInd /\ [ErrorsNext]_errorVars => FairInd'
<1> SUFFICES ASSUME FairInd, [ErrorsNext]_errorVars PROVE FairInd'
  OBVIOUS
<1>0. \A e \in Transient \union Final : e # NoError
  BY DEF Transient, Final, NoError, WouldBlock, Broken
<1>1. ASSUME NEW e \in {NoError, "ENOMEM"}, Create(e) PROVE FairInd'
  BY <1>1, <1>0 DEF Create, Stored, FairInd, Fair, Final
<1>2. CASE SendBegins
  BY <1>2 DEF SendBegins, sockVars, valid, FairInd, Fair
<1>3. CASE SendGoesOn
  <2>1. sending /\ id # "unmade" /\ id' = id
    BY <1>3 DEF SendGoesOn, Loop, SendSome, SendBlocks, SendFails, SendDone, sockVars, FairInd
  <2>2. ASSUME NEW k, SendSome(k) PROVE Fair(answer', error')
    BY <1>3, <2>1, <2>2 DEF SendGoesOn, SendSome, FairInd, Fair
  <2>3. CASE SendBlocks
    <3>1. ~sending' /\ result' = 0 /\ ~fault /\ error' = NoError
      BY <2>3 DEF SendBlocks, Return, WouldBlock
    <3>2. answer' = WouldBlock
      BY <1>3, <3>1 DEF SendGoesOn
    <3> QED
      BY <2>1, <3>1, <3>2 DEF FairInd, Fair, Transient
  <2>4. CASE SendFails
    <3>1. ~sending' /\ result' = 0 /\ fault /\ error' = Broken
      BY <2>4 DEF SendFails, Return, WouldBlock, Broken
    <3>2. answer' = Broken
      BY <1>3, <3>1 DEF SendGoesOn
    <3> QED
      BY <2>1, <3>1, <3>2 DEF FairInd, Fair, Final
  <2>5. CASE SendDone
    <3>1. ~sending' /\ result' = 1
      BY <2>5 DEF SendDone, Return
    <3>2. answer' = NoError
      BY <1>3, <3>1 DEF SendGoesOn
    <3> QED
      BY <2>1, <3>2 DEF FairInd, Fair
  <2> QED
    BY <1>3, <2>1, <2>2, <2>3, <2>4, <2>5 DEF SendGoesOn, Loop, FairInd
<1>4. ASSUME NEW n \in 0..MaxLen, SendInvalid(n) PROVE FairInd'
  <2>1. id' = id /\ id # "unmade" /\ answer' = IF n = 0 THEN NoError ELSE "EBADF"
    BY <1>4 DEF SendInvalid, sockVars
  <2>2. n # 0 => error' = "EBADF"
    BY <1>4 DEF SendInvalid, After, Stored, WOULD_BLOCK, NoError
  <2> QED
    BY <2>1, <2>2 DEF FairInd, Fair, Final
<1>5. ASSUME NEW call \in DOMAIN Answers, NEW e, Plain(call, e) PROVE FairInd'
  <2>1. /\ answer' = e /\ error' = After(e) /\ id' = id /\ sending' = sending /\ id # "unmade"
        /\ Answered(call, e)
    BY <1>5 DEF Plain, Returns, sockVars
  <2>2. e # NoError => error' = e
    BY <2>1 DEF After, Stored
  <2> QED
    BY <1>0, <2>1, <2>2, AnswersKinds DEF FairInd, Fair
<1>6. ASSUME NEW call \in DOMAIN Answers, NEW e, GetAddress(call, e) PROVE FairInd'
  BY <1>6 DEF GetAddress, Returns, FairInd, Fair
<1>7. ASSUME NEW e, Connect(e) PROVE FairInd'
  <2>1. /\ answer' = e /\ id' = id /\ sending' = sending /\ id # "unmade"
        /\ error' = IF ALREADY(After(e)) THEN NoError ELSE After(e)
        /\ Answered("Connect", e)
    BY <1>7 DEF Connect, Returns, sockVars
  <2>2. e = NoError \/ e \in Transient \/ e \in Final
    BY <2>1, AnswersKinds DEF Answers
  <2>3. e \in Final => ~ALREADY(e)
    BY DEF ALREADY, Final, Broken
  <2>4. e # NoError => After(e) = e
    BY DEF After, Stored
  <2> QED
    BY <1>0, <2>1, <2>2, <2>3, <2>4 DEF FairInd, Fair
<1>8. ASSUME NEW e, Accept(e) PROVE FairInd'
  <2>1. /\ answer' = e /\ id' = id /\ sending' = sending /\ id # "unmade"
        /\ error' = IF WOULD_BLOCK(After(e)) THEN NoError ELSE After(e)
        /\ Answered("Accept", e)
    BY <1>8 DEF Accept, Returns, sockVars
  <2>2. e = NoError \/ e \in Transient \/ e \in Final
    BY <2>1, AnswersKinds DEF Answers
  <2>3. e \in Final => ~WOULD_BLOCK(e)
    BY DEF WOULD_BLOCK, Final, Broken
  <2>4. e # NoError => After(e) = e
    BY DEF After, Stored
  <2> QED
    BY <1>0, <2>1, <2>2, <2>3, <2>4 DEF FairInd, Fair
<1>9. ASSUME NEW e \in {NoError, "ECONNREFUSED"}, RecvNothing(e) PROVE FairInd'
  <2>1. /\ answer' = IF e = NoError THEN WouldBlock ELSE e
        /\ error' = e /\ sending' = sending /\ id # "unmade" /\ id' \in {id, "INVALID"}
    BY <1>9 DEF RecvNothing, Returns
  <2> QED
    BY <1>0, <2>1 DEF FairInd, Fair, Transient, Final
<1>10. ASSUME NEW end, RecvSome(end) PROVE FairInd'
  BY <1>10 DEF RecvSome, Returns, FairInd, Fair
<1>11. ASSUME NEW e, CloseReturns(e) \/ CloseForces(e) PROVE FairInd'
  BY <1>11 DEF CloseReturns, CloseForces, Returns, sockVars, FairInd, Fair
<1>12. CASE Around
  BY <1>12 DEF Around, OtherCall, PeerTakes, Breaks, sockVars, FairInd, Fair
<1>13. CASE UNCHANGED errorVars
  BY <1>13 DEF errorVars, sendVars, sockVars, FairInd, Fair
<1> QED
  BY <1>1, <1>2, <1>3, <1>4, <1>5, <1>6, <1>7, <1>8, <1>9, <1>10, <1>11, <1>12, <1>13
  DEF ErrorsNext

\* What a script is told of a call that failed is what the kernel answered
\* that call, and tells it whether to call again, whatever was in errno
\* (Socket.cpp:259, 318-321, 345-354, 407-427, 533-535).
THEOREM FailuresAreOwn == ErrorsSpec => []FailureIsOwn
<1>1. ErrorsInit => FairInd
  BY DEF ErrorsInit, SendInit, FairInd, Fair
<1> QED
  BY <1>1, FairStep, FairIsOwn, PTL DEF ErrorsSpec, FairInd

===============================================================================
