-------------------------------- MODULE Buffer --------------------------------
(***************************************************************************)
(* The receive buffer of a socket (Buffer.h, Buffer.cpp): a queue of       *)
(* strings and the last receive error.  A datagram is one element of its   *)
(* own; the bytes of a stream are appended to the last element, and a      *)
(* stream's end is an empty element.                                       *)
(*                                                                         *)
(* What a string is made of is left open, but for the zero characters,     *)
(* which end a C string.                                                   *)
(***************************************************************************)
EXTENDS Naturals, Sequences

Seqs == INSTANCE SequencesExt

CONSTANT Zero   \* the elements of a string that are zero characters

NoError == "none"

\* Buffer(): nothing queued, error(0).
EmptyBuffer == [queue |-> <<>>, error |-> NoError]

Buffers(Char, Errors) == [queue : Seq(Seq(Char)), error : Errors]

IsEmpty(b) == b.queue = <<>>

Front(b) == Head(b.queue)

Push(b, data) == [b EXCEPT !.queue = Append(@, data)]

Pop(b) == [b EXCEPT !.queue = Tail(@)]

\* Mutants of AppendTo: data put before what is there, and the end of a
\* stream appended like any data.
AppendInFront(b, data) ==
  IF IsEmpty(b) \/ data = <<>>
  THEN Push(b, data)
  ELSE [b EXCEPT !.queue[Len(b.queue)] = data \o @]

AppendEnd(b, data) ==
  IF IsEmpty(b)
  THEN Push(b, data)
  ELSE [b EXCEPT !.queue[Len(b.queue)] = @ \o data]

\* Buffer::append: the end of a stream (no data) always gets an element of
\* its own, so that it can not be confused with the data before it.
AppendTo(b, data) ==
  IF IsEmpty(b) \/ data = <<>>
  THEN Push(b, data)
  ELSE [b EXCEPT !.queue[Len(b.queue)] = @ \o data]

(***************************************************************************)
(* Reading an element as a C string.                                       *)
(***************************************************************************)

\* The positions of zero characters in a string.
Zeros(data) == {i \in 1..Len(data) : data[i] \in Zero}

\* What c_str() shows of a string: everything before the first zero.
CStr(data) ==
  IF Zeros(data) = {}
  THEN data
  ELSE SubSeq(data, 1, (CHOOSE i \in Zeros(data) : \A j \in Zeros(data) : i <= j) - 1)

\* Mutant of AfterCStr: only the terminator is skipped.
AfterTerminator(data) == SubSeq(data, Len(CStr(data)) + 2, Len(data))

\* What is left of a string once its first C string and the zeros that
\* follow it are gone.
AfterCStr(data) ==
  LET past == {i \in Len(CStr(data)) + 1..Len(data) : data[i] \notin Zero}
  IN  IF Zeros(data) = {} \/ past = {}
      THEN <<>>
      ELSE SubSeq(data, CHOOSE i \in past : \A j \in past : i <= j, Len(data))

\* Mutant of Extract: the rest of the element is dropped.
ExtractAll(b) == Pop(b)

\* Buffer::extract, on a buffer that is not empty.
Extract(b) ==
  IF AfterCStr(Front(b)) = <<>>
  THEN Pop(b)
  ELSE [b EXCEPT !.queue[1] = AfterCStr(Front(b))]

(***************************************************************************)
(* For the properties of what passes through a buffer.                     *)
(***************************************************************************)

\* Everything in a buffer, put together.
Content(b) == Seqs!FlattenSeq(b.queue)

\* The elements of a sequence that are in the set S, in their order.  This is
\* SelectSeq, in a form to be reasoned about.
Selected(seq, S) ==
  LET kept[n \in 0..Len(seq)] ==
        IF n = 0 THEN <<>>
        ELSE IF seq[n] \in S THEN Append(kept[n - 1], seq[n]) ELSE kept[n - 1]
  IN  kept[Len(seq)]

===============================================================================
