---------------------------- MODULE Transmission -----------------------------
(***************************************************************************)
(* What sending promises the peer and the script, without the loop of      *)
(* send_impl, the kernel's queue and errno: a call puts one beginning of   *)
(* its message on the text the peer gets, all at once, and succeeds        *)
(* exactly when it is the whole message.                                   *)
(***************************************************************************)
EXTENDS Naturals, Sequences

CONSTANTS
  MaxLen,       \* bound: the length of a message
  MaxMessages   \* bound: the number of messages

VARIABLES
  stream,   \* whether the text is a stream, or consists of datagrams
  text,     \* the beginnings of messages the peer gets, in order
  result    \* what the last call returned: 0 or 1

textVars == <<stream, text, result>>

TransmissionInit ==
  /\ stream \in BOOLEAN
  /\ text = <<>>
  /\ result = 1

\* A call that gets k of a message's length on the text.
Try(number, length, k) ==
  /\ stream \/ k \in {0, length}
  /\ text' = IF k = 0 THEN text
             ELSE Append(text, [number |-> number, length |-> length, upto |-> k])
  /\ result' = IF k = length THEN 1 ELSE 0
  /\ UNCHANGED stream

\* Messages come in their order, and one that was sent is not sent again.
Due(number, length) ==
  text # <<>> =>
    LET last == text[Len(text)] IN
    \/ number > last.number
    \/ number = last.number /\ length = last.length /\ last.upto < length

TransmissionNext ==
  \E number \in 1..MaxMessages, length \in 0..MaxLen : \E k \in 0..length :
    Due(number, length) /\ Try(number, length, k)

TransmissionSpec == TransmissionInit /\ [][TransmissionNext]_textVars

===============================================================================
