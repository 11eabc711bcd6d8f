----------------------------- MODULE StreamProofs -----------------------------
(***************************************************************************)
(* What a script gets out of the buffer of a stream, for any characters,   *)
(* any segments and any mixture of Recv and RecvData.                      *)
(***************************************************************************)
EXTENDS BufferStream, BufferProofs

(***************************************************************************)
(* The inductive invariant.  The buffer of a stream never has more than    *)
(* two elements: the data, which is never empty, and the end, which goes   *)
(* only when nothing is in front of it.                                    *)
(***************************************************************************)
StreamTypeOK ==
  /\ strings \in BOOLEAN
  /\ buffer \in Buffers(Char, {NoError})
  /\ sent \in Seq(Char)
  /\ got \in Seq(Char)
  /\ ended \in BOOLEAN
  /\ last = <<>> \/ \E data \in Seq(Char) : last = <<data>>

Shape ==
  LET q == buffer.queue IN
  IF ended
  THEN \/ q = <<>> /\ last = EmptyResult
       \/ q = << <<>> >>
       \/ Len(q) = 2 /\ q[1] # <<>> /\ q[2] = <<>>
  ELSE q = <<>> \/ (Len(q) = 1 /\ q[1] # <<>>)

\* RecvData by itself reports an empty result for the end only.
EndIsEnd == ~strings /\ last = EmptyResult => ended /\ IsEmpty(buffer)

StreamInd ==
  /\ StreamTypeOK
  /\ Shape
  /\ EndIsEnd
  /\ NothingLost
  /\ OnlyZerosLost

\* The lengths the buffer may have.
LEMMA Lengths ==
  ASSUME StreamInd
  PROVE  LET q == buffer.queue IN
         \/ Len(q) = 0 /\ q = <<>> /\ (ended => last = EmptyResult)
         \/ Len(q) = 1 /\ q # <<>> /\ (ended <=> q[1] = <<>>)
         \/ Len(q) = 2 /\ q # <<>> /\ q[1] # <<>> /\ q[2] = <<>> /\ ended
<1> DEFINE q == buffer.queue
<1>1. q \in Seq(Seq(Char)) /\ ended \in BOOLEAN
  BY DEF StreamInd, StreamTypeOK, Buffers
<1>2. CASE ended
  <2>1. \/ q = <<>> /\ last = EmptyResult
        \/ q = << <<>> >>
        \/ Len(q) = 2 /\ q[1] # <<>> /\ q[2] = <<>>
    BY <1>2 DEF StreamInd, Shape
  <2> HIDE DEF q
  <2>2. q = << <<>> >> => Len(q) = 1 /\ q[1] = <<>>
    OBVIOUS
  <2>3. (q = <<>> => Len(q) = 0) /\ (Len(q) \in {1, 2} => q # <<>>)
    OBVIOUS
  <2> QED BY <1>2, <2>1, <2>2, <2>3 DEF q
<1>3. CASE ~ended
  <2>1. q = <<>> \/ (Len(q) = 1 /\ q[1] # <<>>)
    BY <1>3 DEF StreamInd, Shape
  <2> HIDE DEF q
  <2>2. (q = <<>> => Len(q) = 0) /\ (Len(q) = 1 => q # <<>>)
    OBVIOUS
  <2> QED BY <1>3, <2>1, <2>2 DEF q
<1> QED BY <1>1, <1>2, <1>3

\* Dropping the zero characters goes through the parts of a string.
LEMMA NotZeroParts ==
  /\ \A s \in Seq(Char) : NotZero(s) \in Seq(Char)
  /\ \A s, t \in Seq(Char) : NotZero(s \o t) = NotZero(s) \o NotZero(t)
  /\ \A z \in Seq(Char \intersect Zero) : NotZero(z) = <<>>
<1>1. \A s \in Seq(Char) : NotZero(s) \in Seq(Char)
  BY SelectedType DEF NotZero
<1>2. \A s, t \in Seq(Char) : NotZero(s \o t) = NotZero(s) \o NotZero(t)
  BY SelectedConcat DEF NotZero
<1>3. ASSUME NEW z \in Seq(Char \intersect Zero)
      PROVE  NotZero(z) = <<>>
  <2>1. (Char \intersect Zero) \intersect (Char \ Zero) = {}
    OBVIOUS
  <2> QED BY <2>1, SelectedNone DEF NotZero
<1> QED BY <1>1, <1>2, <1>3

\* The front of the buffer, what a call takes and what it leaves are strings.
LEMMA FrontParts ==
  ASSUME StreamTypeOK, ~IsEmpty(buffer)
  PROVE  /\ Front(buffer) \in Seq(Char)
         /\ Pop(buffer) \in Buffers(Char, {NoError})
         /\ Content(Pop(buffer)) \in Seq(Char)
         /\ Rest = Front(buffer) \o Content(Pop(buffer))
<1>1. buffer \in Buffers(Char, {NoError})
  BY DEF StreamTypeOK
<1>2. Front(buffer) \in Seq(Char) /\ Pop(buffer) \in Buffers(Char, {NoError})
  BY <1>1, PopType
<1> QED BY <1>1, <1>2, ContentType, ContentPop DEF Rest

\* The segments that may arrive are strings, and none is empty.
LEMMA SegmentType ==
  ASSUME NEW data \in Segment
  PROVE  data \in Seq(Char) /\ data # <<>>
<1>1. PICK n \in 1..MaxSegment : data \in [1..n -> Char]
  BY DEF Segment
<1>2. n \in Nat \ {0}
  BY <1>1, StreamAssumption
<1> QED BY <1>1, <1>2

\* A segment that arrives is appended to what is there.
LEMMA ArriveKeeps ==
  ASSUME StreamInd, NEW data \in Segment, Arrive(data)
  PROVE  StreamInd'
<1>1. data \in Seq(Char) /\ data # <<>>
  BY SegmentType
<1>2. /\ ~ended /\ buffer' = AppendTo(buffer, data) /\ sent' = sent \o data
      /\ UNCHANGED <<strings, ended, got, last>>
      /\ buffer \in Buffers(Char, {NoError}) /\ buffer.queue \in Seq(Seq(Char))
      /\ sent \in Seq(Char) /\ got \in Seq(Char)
  BY DEF Arrive, StreamInd, StreamTypeOK, Buffers
<1>3. StreamTypeOK'
  <2>1. AppendTo(buffer, data) \in Buffers(Char, {NoError})
    BY <1>1, <1>2, AppendToType
  <2>2. sent \o data \in Seq(Char)
    BY <1>1, <1>2, ConcatProperties
  <2> QED BY <1>2, <2>1, <2>2 DEF StreamInd, StreamTypeOK
<1>4. Rest' = Rest \o data /\ Rest \in Seq(Char)
  BY <1>1, <1>2, ContentAppendTo, ContentType DEF Rest
<1> DEFINE q == buffer.queue
<1>5. Shape'
  <2>1. q = <<>> \/ (Len(q) = 1 /\ q[1] # <<>>)
    BY <1>2 DEF StreamInd, Shape
  <2>2. CASE q = <<>>
    <3>1. buffer'.queue = <<data>>
      BY <1>2, <2>2 DEF AppendTo, IsEmpty, Push, Buffers
    <3> QED BY <1>1, <1>2, <3>1 DEF Shape
  <2>3. CASE Len(q) = 1 /\ q[1] # <<>>
    <3> DEFINE y == q[1] \o data
    <3>1. 1 \in 1..Len(q) /\ q # <<>>
      BY <1>2, <2>3
    <3>2. q[1] \in Seq(Char)
      BY <1>2, <3>1
    <3>3. y \in Seq(Char) /\ y # <<>>
      BY <1>1, <3>2, ConcatProperties, ConcatEqualIffEmpty
    <3>4. buffer'.queue = [q EXCEPT ![1] = y]
      BY <1>1, <1>2, <2>3, <3>1 DEF AppendTo, IsEmpty, Buffers
    <3> HIDE DEF y, q
    <3>5. Len(buffer'.queue) = 1 /\ buffer'.queue[1] = y
      BY <1>2, <2>3, <3>1, <3>3, <3>4, ExceptSeq DEF q
    <3> QED BY <1>2, <3>3, <3>5 DEF Shape
  <2> QED BY <2>1, <2>2, <2>3
<1>6. EndIsEnd'
  BY <1>2 DEF StreamInd, EndIsEnd
<1> DEFINE r == Rest
           r2 == Rest'
<1>7. NothingLost'
  <2>1. (got \o r) \o data = got \o (r \o data)
    <3>1. got \in Seq(Char) /\ r \in Seq(Char) /\ data \in Seq(Char)
      BY <1>1, <1>2, <1>4 DEF r
    <3>2. Associative(Char)
      BY ConcatIsAssociative
    <3> HIDE DEF r
    <3> QED BY <3>1, <3>2, Zenon DEF Associative
  <2>2. ~strings => got \o r2 = sent'
    <3> HIDE DEF r, r2
    <3>1. ~strings => got \o r = sent
      BY DEF StreamInd, NothingLost, r
    <3> QED BY <1>2, <1>4, <2>1, <3>1 DEF r, r2
  <2> QED BY <1>2, <2>2 DEF NothingLost
<1>8. OnlyZerosLost'
  <2>1. NotZero(got \o r) = NotZero(sent)
    BY DEF StreamInd, OnlyZerosLost
  <2>2. (got \o r) \o data = got \o (r \o data) /\ got \o r \in Seq(Char)
    <3>1. got \in Seq(Char) /\ r \in Seq(Char) /\ data \in Seq(Char)
      BY <1>1, <1>2, <1>4 DEF r
    <3>2. Associative(Char)
      BY ConcatIsAssociative
    <3> HIDE DEF r
    <3>3. (got \o r) \o data = got \o (r \o data)
      BY <3>1, <3>2, Zenon DEF Associative
    <3>4. got \o r \in Seq(Char)
      BY <3>1, ConcatProperties
    <3> QED BY <3>3, <3>4
  <2>3. NotZero((got \o r) \o data) = NotZero(sent \o data)
    <3>1. NotZero((got \o r) \o data) = NotZero(got \o r) \o NotZero(data)
      <4> DEFINE g == got \o r
      <4> HIDE DEF g
      <4>1. g \in Seq(Char)
        BY <2>2 DEF g
      <4>2. NotZero(g \o data) = NotZero(g) \o NotZero(data)
        BY <1>1, <4>1, NotZeroParts
      <4> QED BY <4>2 DEF g
    <3>2. NotZero(sent \o data) = NotZero(sent) \o NotZero(data)
      BY <1>1, <1>2, NotZeroParts
    <3> QED BY <2>1, <3>1, <3>2
  <2>4. NotZero(got \o r2) = NotZero(sent')
    <3> HIDE DEF r, r2
    <3> QED BY <1>2, <1>4, <2>2, <2>3 DEF r, r2
  <2> QED BY <1>2, <2>4 DEF OnlyZerosLost
<1> QED BY <1>3, <1>5, <1>6, <1>7, <1>8 DEF StreamInd

\* The end gets an element of its own, and adds nothing to the content.
LEMMA EndKeeps ==
  ASSUME StreamInd, End
  PROVE  StreamInd'
<1>1. /\ ~ended /\ ended' = TRUE /\ buffer' = AppendTo(buffer, <<>>)
      /\ UNCHANGED <<strings, sent, got, last>>
      /\ buffer \in Buffers(Char, {NoError}) /\ buffer.queue \in Seq(Seq(Char))
      /\ <<>> \in Seq(Char)
  BY DEF End, StreamInd, StreamTypeOK, Buffers
<1>2. StreamTypeOK'
  <2>1. AppendTo(buffer, <<>>) \in Buffers(Char, {NoError})
    BY <1>1, AppendToType
  <2> QED BY <1>1, <2>1 DEF StreamInd, StreamTypeOK
<1>3. Rest' = Rest
  <2>1. Rest' = Rest \o <<>> /\ Rest \in Seq(Char)
    BY <1>1, ContentAppendTo, ContentType DEF Rest
  <2> DEFINE r == Rest
             r2 == Rest'
  <2> HIDE DEF r, r2
  <2>2. r \o <<>> = r
    BY <2>1, ConcatEmptySeq DEF r
  <2> QED BY <2>1, <2>2 DEF r, r2
<1>4. Shape'
  <2> DEFINE q == buffer.queue
  <2>1. q = <<>> \/ (Len(q) = 1 /\ q[1] # <<>>)
    BY <1>1 DEF StreamInd, Shape
  <2>2. buffer'.queue = Append(q, <<>>)
    BY <1>1 DEF AppendTo, Push, Buffers
  <2>3. CASE q = <<>>
    <3>1. buffer'.queue = << <<>> >>
      BY <2>2, <2>3
    <3> QED BY <1>1, <3>1 DEF Shape
  <2>4. CASE Len(q) = 1 /\ q[1] # <<>>
    <3>1. q \in Seq(Seq(Char)) /\ 1 \in 1..Len(q)
      BY <1>1, <2>4
    <3> HIDE DEF q
    <3>2. Len(buffer'.queue) = 2 /\ buffer'.queue[1] # <<>> /\ buffer'.queue[2] = <<>>
      <4> DEFINE e == <<>>
      <4>1. e \in Seq(Char)
        BY <1>1
      <4> HIDE DEF e
      <4>2. /\ Len(Append(q, e)) = Len(q) + 1 /\ Append(q, e)[1] = q[1]
            /\ Append(q, e)[Len(q) + 1] = e
        BY <3>1, <4>1, AppendProperties
      <4>3. Len(q) + 1 = 2
        BY <2>4
      <4> QED BY <2>2, <2>4, <4>2, <4>3 DEF e
    <3> QED BY <1>1, <3>2 DEF Shape
  <2> QED BY <2>1, <2>3, <2>4
<1>5. EndIsEnd'
  <2>1. ~(~strings /\ last = EmptyResult)
    BY <1>1 DEF StreamInd, EndIsEnd
  <2> QED BY <1>1, <2>1 DEF EndIsEnd
<1> QED BY <1>1, <1>2, <1>3, <1>4, <1>5 DEF StreamInd, NothingLost, OnlyZerosLost

\* What is left of the elements when the first is gone keeps the shape.
LEMMA ShapeOfRest ==
  ASSUME StreamInd, ~IsEmpty(buffer), UNCHANGED ended,
         buffer' = Pop(buffer), Front(buffer) = <<>> => last' = EmptyResult
  PROVE  Shape'
<1> DEFINE q == buffer.queue
<1>1. q \in Seq(Seq(Char)) /\ q # <<>> /\ buffer'.queue = Tail(q) /\ Front(buffer) = q[1]
  BY DEF StreamInd, StreamTypeOK, Buffers, IsEmpty, Pop, Front
<1>2. (Len(q) = 1 => Tail(q) = <<>>) /\ (Len(q) = 2 => Tail(q) = <<q[2]>>)
  BY <1>1, ShortTails
<1>3. CASE ~ended
  <2>1. Len(q) = 1
    BY <1>1, <1>3 DEF StreamInd, Shape
  <2> QED BY <1>1, <1>2, <1>3, <2>1 DEF Shape
<1>4. CASE ended
  <2>1. q = << <<>> >> \/ (Len(q) = 2 /\ q[1] # <<>> /\ q[2] = <<>>)
    BY <1>1, <1>4 DEF StreamInd, Shape
  <2>2. CASE q = << <<>> >>
    <3>1. Len(q) = 1 /\ q[1] = <<>>
      BY <2>2
    <3> QED BY <1>1, <1>2, <1>4, <3>1 DEF Shape
  <2>3. CASE Len(q) = 2 /\ q[1] # <<>> /\ q[2] = <<>>
    BY <1>1, <1>2, <1>4, <2>3 DEF Shape
  <2> QED BY <2>1, <2>2, <2>3
<1> QED BY <1>3, <1>4 DEF StreamInd, StreamTypeOK

\* RecvData takes the first element and loses nothing of it.
LEMMA RecvDataKeeps ==
  ASSUME StreamInd, RecvData
  PROVE  StreamInd'
<1> DEFINE a == Front(buffer)
           r == Content(Pop(buffer))
<1>1. /\ ~IsEmpty(buffer) /\ last' = <<a>> /\ got' = got \o a /\ buffer' = Pop(buffer)
      /\ UNCHANGED <<strings, sent, ended>>
      /\ StreamTypeOK /\ got \in Seq(Char)
  BY DEF RecvData, StreamInd, StreamTypeOK
<1>2. /\ a \in Seq(Char) /\ Pop(buffer) \in Buffers(Char, {NoError})
      /\ r \in Seq(Char) /\ Rest = a \o r /\ Rest' = r
  BY <1>1, FrontParts DEF Rest
<1>3. StreamTypeOK'
  <2>1. got \o a \in Seq(Char)
    <3> HIDE DEF a
    <3> QED BY <1>1, <1>2, ConcatProperties
  <2> QED BY <1>1, <1>2, <2>1 DEF StreamTypeOK
<1>4. Shape'
  <2>1. a = <<>> => last' = EmptyResult
    BY <1>1 DEF EmptyResult
  <2> QED BY <1>1, <2>1, ShapeOfRest
<1>5. EndIsEnd'
  <2> SUFFICES ASSUME ~strings, last' = EmptyResult
               PROVE  ended /\ IsEmpty(Pop(buffer))
    BY <1>1 DEF EndIsEnd
  <2> DEFINE q == buffer.queue
  <2>1. q \in Seq(Seq(Char)) /\ q # <<>> /\ a = q[1] /\ Pop(buffer).queue = Tail(q)
    BY <1>1 DEF StreamTypeOK, Buffers, IsEmpty, Pop, Front
  <2>2. q[1] = <<>>
    BY <1>1, <2>1 DEF EmptyResult
  <2>3. ended /\ q = << <<>> >>
    BY <2>1, <2>2 DEF StreamInd, Shape
  <2>4. Len(q) = 1
    BY <2>3
  <2>5. Tail(q) = <<>>
    BY <2>1, <2>4, ShortTails
  <2> QED BY <2>1, <2>3, <2>5 DEF IsEmpty
<1>6. (got \o a) \o r = got \o (a \o r)
  <2> HIDE DEF a, r
  <2>1. Associative(Char)
    BY ConcatIsAssociative
  <2>2. got \in Seq(Char) /\ a \in Seq(Char) /\ r \in Seq(Char)
    BY <1>1, <1>2
  <2> QED BY <2>1, <2>2, Zenon DEF Associative
<1>7. got' \o Rest' = got \o Rest
  <2> HIDE DEF a, r
  <2> QED BY <1>1, <1>2, <1>6
<1> QED BY <1>1, <1>3, <1>4, <1>5, <1>7 DEF StreamInd, NothingLost, OnlyZerosLost

\* Recv takes the first C string; what it drops besides are zero characters.
LEMMA RecvKeeps ==
  ASSUME StreamInd, Recv
  PROVE  StreamInd'
<1> DEFINE b == Front(buffer)
           c == CStr(b)
           a == AfterCStr(b)
           r == Content(Pop(buffer))
<1>1. /\ strings /\ ~IsEmpty(buffer) /\ last' = <<c>> /\ got' = got \o c
      /\ buffer' = Extract(buffer)
      /\ UNCHANGED <<strings, sent, ended>>
      /\ StreamTypeOK /\ got \in Seq(Char) /\ buffer \in Buffers(Char, {NoError})
  BY DEF Recv, StreamInd, StreamTypeOK
<1>2. b \in Seq(Char) /\ r \in Seq(Char) /\ Rest = b \o r
  BY <1>1, FrontParts
<1>3. c \in Seq(Char) /\ a \in Seq(Char)
  <2> HIDE DEF b
  <2> QED BY <1>2, CStrParts
<1>4. PICK z \in Seq(Char \intersect Zero) : b = c \o (z \o a)
  <2> HIDE DEF b
  <2> QED BY <1>2, CStrParts
<1>5. Extract(buffer) \in Buffers(Char, {NoError}) /\ Rest' = a \o r
  BY <1>1, ExtractParts DEF Rest
<1>6. StreamTypeOK'
  <2>1. got \o c \in Seq(Char)
    <3> HIDE DEF c
    <3> QED BY <1>1, <1>3, ConcatProperties
  <2> HIDE DEF c
  <2> QED BY <1>1, <1>3, <1>5, <2>1 DEF StreamTypeOK
<1>7. Shape'
  <2>1. CASE a = <<>>
    <3>1. Extract(buffer) = Pop(buffer)
      BY <2>1 DEF Extract
    <3>2. b = <<>> => last' = EmptyResult
      <4>1. b = <<>> => c = <<>>
        BY DEF CStr, Zeros
      <4> QED BY <1>1, <4>1 DEF EmptyResult
    <3> QED BY <1>1, <3>1, <3>2, ShapeOfRest
  <2>2. CASE a # <<>>
    <3> DEFINE q == buffer.queue
    <3>1. q \in Seq(Seq(Char)) /\ q # <<>> /\ b = q[1] /\ 1 \in 1..Len(q)
      BY <1>1 DEF Buffers, IsEmpty, Front
    <3>2. b # <<>>
      <4>1. b = <<>> => a = <<>>
        BY DEF AfterCStr, Zeros
      <4> QED BY <2>2, <4>1
    <3>3. buffer'.queue = [q EXCEPT ![1] = a]
      BY <1>1, <2>2 DEF Extract, Buffers
    <3>4. /\ Len(buffer'.queue) = Len(q) /\ buffer'.queue[1] = a
          /\ Len(q) = 2 => buffer'.queue[2] = q[2]
      <4> HIDE DEF a, b, q
      <4> QED BY <1>3, <3>1, <3>3, ExceptSeq
    <3>5. (~ended /\ Len(q) = 1) \/ (ended /\ Len(q) = 2 /\ q[2] = <<>>)
      BY <3>1, <3>2 DEF StreamInd, Shape, StreamTypeOK
    <3> HIDE DEF q, a
    <3> QED BY <1>1, <2>2, <3>4, <3>5 DEF Shape
  <2> QED BY <2>1, <2>2
<1>8. EndIsEnd' /\ NothingLost'
  BY <1>1 DEF EndIsEnd, NothingLost
<1>9. OnlyZerosLost'
  <2>1. z \in Seq(Char)
    <3>1. Char \intersect Zero \subseteq Char
      OBVIOUS
    <3> QED BY <3>1, SeqMonotonic
  <2> HIDE DEF a, b, c, r
  <2> DEFINE zr == a \o r
             za == z \o a
             ng == NotZero(got)
             nc == NotZero(c)
             nr == NotZero(zr)
  <2>2. zr \in Seq(Char) /\ za \in Seq(Char)
    BY <1>2, <1>3, <2>1, ConcatProperties
  <2>3. ng \in Seq(Char) /\ nc \in Seq(Char) /\ nr \in Seq(Char)
    BY <1>1, <1>3, <2>2, NotZeroParts
  <2>4. (c \o za) \o r = c \o (z \o zr)
    <3>0. Associative(Char)
      BY ConcatIsAssociative
    <3>1. (c \o za) \o r = c \o (za \o r)
      <4> HIDE DEF za
      <4>1. c \in Seq(Char) /\ za \in Seq(Char) /\ r \in Seq(Char)
        BY <1>2, <1>3, <2>2
      <4> QED BY <3>0, <4>1, Zenon DEF Associative
    <3>2. (z \o a) \o r = z \o (a \o r)
      <4>1. a \in Seq(Char) /\ r \in Seq(Char)
        BY <1>2, <1>3
      <4> HIDE DEF zr, za
      <4> QED BY <2>1, <3>0, <4>1, Zenon DEF Associative
    <3> QED BY <3>1, <3>2
  <2>5. NotZero(c \o (z \o zr)) = nc \o nr
    <3> HIDE DEF zr
    <3>1. z \o zr \in Seq(Char)
      BY <2>1, <2>2, ConcatProperties
    <3>2. NotZero(z \o zr) = <<>> \o nr
      <4>1. NotZero(z) = <<>>
        BY NotZeroParts, Zenon
      <4>2. NotZero(z \o zr) = NotZero(z) \o NotZero(zr)
        BY <2>1, <2>2, NotZeroParts, Zenon
      <4> QED BY <4>1, <4>2
    <3>3. <<>> \o nr = nr
      <4> HIDE DEF nr
      <4> QED BY <2>3, ConcatEmptySeq
    <3> DEFINE y == z \o zr
    <3> HIDE DEF y
    <3>4. NotZero(c \o y) = nc \o NotZero(y)
      BY <1>3, <3>1, NotZeroParts DEF y
    <3> QED BY <3>2, <3>3, <3>4 DEF y
  <2>6. Rest = c \o (z \o zr) /\ Rest \in Seq(Char)
    <3>1. Rest \in Seq(Char)
      BY <1>1, ContentType DEF Rest
    <3> QED BY <1>2, <1>4, <2>4, <3>1
  <2>7. NotZero(got \o Rest) = ng \o (nc \o nr)
    <3> DEFINE y == Rest
    <3>1. y \in Seq(Char) /\ NotZero(y) = nc \o nr
      BY <2>5, <2>6
    <3> HIDE DEF y, nc, nr
    <3>2. NotZero(got \o y) = ng \o NotZero(y)
      BY <1>1, <3>1, NotZeroParts
    <3> QED BY <3>1, <3>2 DEF y
  <2>8. NotZero((got \o c) \o zr) = (ng \o nc) \o nr
    <3> DEFINE y == got \o c
    <3>1. y \in Seq(Char)
      BY <1>1, <1>3, ConcatProperties
    <3>2. NotZero(y) = ng \o nc
      BY <1>1, <1>3, NotZeroParts
    <3> HIDE DEF y, zr
    <3>3. NotZero(y \o zr) = NotZero(y) \o nr
      BY <2>2, <3>1, NotZeroParts
    <3> QED BY <3>2, <3>3 DEF y
  <2>9. (ng \o nc) \o nr = ng \o (nc \o nr)
    <3> HIDE DEF ng, nc, nr
    <3>1. Associative(Char)
      BY ConcatIsAssociative
    <3> QED BY <2>3, <3>1, Zenon DEF Associative
  <2>10. NotZero(got' \o (Rest')) = NotZero(sent)
    <3>1. NotZero(got \o Rest) = NotZero(sent)
      BY DEF StreamInd, OnlyZerosLost
    <3> HIDE DEF ng, nc, nr
    <3> QED BY <1>1, <1>5, <2>7, <2>8, <2>9, <3>1
  <2> QED BY <1>1, <2>10 DEF OnlyZerosLost
<1> QED BY <1>6, <1>7, <1>8, <1>9 DEF StreamInd

\* The strengthening is an invariant.
THEOREM StreamInductive == StreamSpec => []StreamInd
<1>1. StreamInit => StreamInd
  <2> SUFFICES ASSUME StreamInit PROVE StreamInd
    OBVIOUS
  <2>1. EmptyBuffer \in Buffers(Char, {NoError}) /\ <<>> \in Seq(Char)
    BY DEF EmptyBuffer, Buffers
  <2>2. Rest = <<>> /\ <<>> \o <<>> = <<>>
    BY <2>1, FlattenEmpty, ConcatEmptySeq DEF StreamInit, Rest, Content, EmptyBuffer
  <2>3. StreamTypeOK
    BY <2>1 DEF StreamInit, StreamTypeOK
  <2>4. Shape /\ EndIsEnd
    BY DEF StreamInit, Shape, EndIsEnd, EmptyResult, EmptyBuffer
  <2> QED BY <2>2, <2>3, <2>4 DEF StreamInit, StreamInd, NothingLost, OnlyZerosLost
<1>2. StreamInd /\ [StreamNext]_streamVars => StreamInd'
  <2>1. CASE UNCHANGED streamVars
    BY <2>1 DEF streamVars, StreamInd, StreamTypeOK, Shape, EndIsEnd, NothingLost,
       OnlyZerosLost, Rest
  <2> QED BY <2>1, ArriveKeeps, EndKeeps, RecvKeeps, RecvDataKeeps DEF StreamNext
<1> QED BY <1>1, <1>2, PTL DEF StreamSpec

\* Whatever the segments, and however Recv and RecvData are mixed, only zero
\* characters get lost, and the order is kept.
THEOREM OnlyZerosAreLost == StreamSpec => []OnlyZerosLost
<1>1. StreamInd => OnlyZerosLost
  BY DEF StreamInd
<1> QED BY <1>1, StreamInductive, PTL

\* A script that only calls RecvData gets the stream as it was sent.
THEOREM DataIsWhole == StreamSpec => []NothingLost
<1>1. StreamInd => NothingLost
  BY DEF StreamInd
<1> QED BY <1>1, StreamInductive, PTL

\* The end of a stream is not swallowed by data and not reported before it.
THEOREM EndIsLast == StreamSpec => []EndComesLast
<1>1. StreamInd => EndComesLast
  <2> SUFFICES ASSUME StreamInd PROVE EndComesLast
    OBVIOUS
  <2> DEFINE q == buffer.queue
  <2>1. q \in Seq(Seq(Char)) /\ got \in Seq(Char) /\ ended \in BOOLEAN
        /\ buffer \in Buffers(Char, {NoError})
    BY DEF StreamInd, StreamTypeOK, Buffers
  <2>2. \/ Len(q) = 0 /\ q = <<>> /\ (ended => last = EmptyResult)
        \/ Len(q) = 1 /\ q # <<>> /\ (ended <=> q[1] = <<>>)
        \/ Len(q) = 2 /\ q # <<>> /\ q[1] # <<>> /\ q[2] = <<>> /\ ended
    BY Lengths
  <2>3. /\ \A i \in 1..Len(q) - 1 : q[i] # <<>>
        /\ ended /\ last # EmptyResult => ~IsEmpty(buffer) /\ q[Len(q)] = <<>>
    <3>1. IsEmpty(buffer) <=> q = <<>>
      BY DEF IsEmpty
    <3> HIDE DEF q
    <3>2. CASE Len(q) = 0 /\ q = <<>> /\ (ended => last = EmptyResult)
      BY <3>1, <3>2
    <3>3. CASE Len(q) = 1 /\ q # <<>> /\ (ended <=> q[1] = <<>>)
      <4>1. 1..Len(q) - 1 = {}
        BY <3>3
      <4> QED BY <3>1, <3>3, <4>1
    <3>4. CASE Len(q) = 2 /\ q # <<>> /\ q[1] # <<>> /\ q[2] = <<>> /\ ended
      <4>1. 1..Len(q) - 1 = {1}
        BY <3>4
      <4> QED BY <3>1, <3>4, <4>1
    <3> QED BY <2>2, <3>2, <3>3, <3>4
  <2>4. ~strings /\ last = EmptyResult => ended /\ IsEmpty(buffer) /\ got = sent
    <3>1. IsEmpty(buffer) => got \o Rest = got
      BY <2>1, ContentType, ConcatEmptySeq DEF Rest
    <3> QED BY <3>1 DEF StreamInd, EndIsEnd, NothingLost
  <2> QED BY <2>3, <2>4 DEF EndComesLast
<1> QED BY <1>1, StreamInductive, PTL

\* After a C string Recv leaves no zero character at the front that an empty
\* result, which stands for the end of the stream, could come from.
THEOREM ZerosAreRemoved == StreamSpec => ZerosRemoved
<1>1. ASSUME StreamInd, Recv, Rest' # <<>>, Zeros(Front(buffer)) # {}
      PROVE  Rest'[1] \notin Zero
  <2> DEFINE b == Front(buffer)
             a == AfterCStr(b)
             r == Content(Pop(buffer))
             q == buffer.queue
  <2>1. /\ ~IsEmpty(buffer) /\ buffer' = Extract(buffer) /\ StreamTypeOK
        /\ buffer \in Buffers(Char, {NoError})
    BY <1>1 DEF Recv, StreamInd, StreamTypeOK
  <2>2. b \in Seq(Char) /\ r \in Seq(Char)
    BY <2>1, FrontParts
  <2>3. Rest' = a \o r
    BY <2>1, ExtractParts DEF Rest
  <2>4. a \in Seq(Char) /\ (a # <<>> => a[1] \notin Zero)
    <3> HIDE DEF b
    <3> QED BY <1>1, <2>2, CStrParts DEF b
  <2>5. r = <<>>
    <3>1. q \in Seq(Seq(Char)) /\ q # <<>> /\ Pop(buffer).queue = Tail(q)
      BY <2>1 DEF Buffers, IsEmpty, Pop
    <3>2. Tail(q) = <<>> \/ Tail(q) = << <<>> >>
      <4>1. Len(q) = 1 \/ (Len(q) = 2 /\ q[2] = <<>>)
        BY <1>1, <3>1, Lengths
      <4> QED BY <3>1, <4>1, ShortTails
    <3>3. Seqs!FlattenSeq(<< <<>> >>) = <<>>
      <4>1. <<>> \in Seq(Char) /\ << <<>> >> \in Seq(Seq(Char)) /\ << <<>> >> # <<>>
            /\ Head(<< <<>> >>) = <<>> /\ Tail(<< <<>> >>) = <<>>
        OBVIOUS
      <4>2. Seqs!FlattenSeq(<< <<>> >>) = <<>> \o Seqs!FlattenSeq(<<>>)
        BY <4>1, FlattenFront
      <4> QED BY <4>1, <4>2, FlattenEmpty, ConcatEmptySeq
    <3> QED BY <3>1, <3>2, <3>3, FlattenEmpty DEF Content
  <2>6. a \o r = a
    <3> HIDE DEF a, r
    <3> QED BY <2>4, <2>5, ConcatEmptySeq
  <2> HIDE DEF a, r
  <2> QED BY <1>1, <2>3, <2>4, <2>6
<1>2. StreamInd /\ [StreamNext]_streamVars
        => [Recv /\ Rest' # <<>> => Rest'[1] \notin Zero \/ Zeros(Front(buffer)) = {}]_streamVars
  BY <1>1
<1> QED BY <1>2, StreamInductive, PTL DEF StreamSpec, ZerosRemoved

===============================================================================
