----------------------------- MODULE BufferStream -----------------------------
(***************************************************************************)
(* A connection seen through its buffer: what the read cycle appends       *)
(* (Pool.cpp:90-95) and what Socket::Recv and Socket::RecvData take out    *)
(* (recv_extract and recv_empty, Socket.cpp:475-520), for every way the    *)
(* network may cut the stream into segments.                               *)
(***************************************************************************)
EXTENDS Buffer

CONSTANTS
  Char,         \* the characters that are sent
  MaxLength,    \* bound: the characters that are sent
  MaxSegment    \* bound: the characters one recv of the read cycle returns

ASSUME StreamAssumption ==
  /\ Zero \subseteq Char
  /\ MaxLength \in Nat
  /\ MaxSegment \in Nat \ {0}

VARIABLES
  strings,  \* whether this script calls Recv as well as RecvData
  buffer,   \* Socket::incoming
  sent,     \* history: the characters the read cycle received
  ended,    \* the read cycle saw the end of the stream
  got,      \* history: the results of RecvData, and of Recv, put together
  last      \* the last result, in a sequence that is empty before the first

streamVars == <<strings, buffer, sent, ended, got, last>>

StreamInit ==
  /\ strings \in BOOLEAN
  /\ buffer = EmptyBuffer
  /\ sent = <<>>
  /\ ended = FALSE
  /\ got = <<>>
  /\ last = <<>>

Segment == UNION {[1..n -> Char] : n \in 1..MaxSegment}

Arrive(data) ==
  /\ ~ended
  /\ Len(sent) + Len(data) <= MaxLength
  /\ buffer' = AppendTo(buffer, data)
  /\ sent' = sent \o data
  /\ UNCHANGED <<strings, ended, got, last>>

End ==
  /\ ~ended
  /\ ended' = TRUE
  /\ buffer' = AppendTo(buffer, <<>>)
  /\ UNCHANGED <<strings, sent, got, last>>

\* recv_extract<const char>: the first C string of the stream.
Recv ==
  /\ strings
  /\ ~IsEmpty(buffer)
  /\ last' = <<CStr(Front(buffer))>>
  /\ got' = got \o CStr(Front(buffer))
  /\ buffer' = Extract(buffer)
  /\ UNCHANGED <<strings, sent, ended>>

\* recv_extract<SockData>: everything in the first element.
RecvData ==
  /\ ~IsEmpty(buffer)
  /\ last' = <<Front(buffer)>>
  /\ got' = got \o Front(buffer)
  /\ buffer' = Pop(buffer)
  /\ UNCHANGED <<strings, sent, ended>>

StreamNext ==
  \/ \E data \in Segment : Arrive(data)
  \/ End
  \/ Recv
  \/ RecvData

StreamSpec == StreamInit /\ [][StreamNext]_streamVars

(***************************************************************************)
(* Properties.                                                             *)
(***************************************************************************)
Rest == Content(buffer)

NotZero(data) == Selected(data, Char \ Zero)

\* What recv_empty takes for the end of the stream.
EmptyResult == << <<>> >>

\* Whatever the segments, and however Recv and RecvData are mixed, only zero
\* characters get lost (Buffer.h:67), and the order is kept.
OnlyZerosLost == NotZero(got \o Rest) = NotZero(sent)

\* RecvData alone loses nothing at all: it "does not have this limitation"
\* (Socket.cpp:568).
NothingLost == ~strings => got \o Rest = sent

\* The end of the stream is neither swallowed by the data before it nor
\* reported before it: it stays at the back of the buffer as an element of
\* its own until nothing else is left (the note at Buffer.h:56), and an
\* empty RecvData is the end, which is when recv_impl closes the socket.
EndComesLast ==
  /\ \A i \in 1..Len(buffer.queue) - 1 : buffer.queue[i] # <<>>
  /\ ended /\ last # EmptyResult => /\ ~IsEmpty(buffer)
                             /\ buffer.queue[Len(buffer.queue)] = <<>>
  /\ ~strings /\ last = EmptyResult => ended /\ IsEmpty(buffer) /\ got = sent

\* Of consecutive zero characters that arrived together Recv leaves none to
\* be taken for the end of the stream ("spurious null-characters are also
\* removed", Buffer.h:67).
ZerosRemoved ==
  [][Recv /\ Rest' # <<>> => Rest'[1] \notin Zero \/ Zeros(Front(buffer)) = {}]_streamVars

===============================================================================
