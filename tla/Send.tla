--------------------------------- MODULE Send ---------------------------------
(***************************************************************************)
(* Socket::Send, SendData, SendTo and SendDataTo (Socket.cpp:405-471) on   *)
(* one socket: the loop of send_impl and sendto_impl over what the kernel  *)
(* takes, while the peer empties the kernel's queue, and a script that     *)
(* does as it is told: "no error means: try again later" (Socket.h:146).   *)
(*                                                                         *)
(* There is no outgoing buffer: what one call could not send is forgotten, *)
(* and a retry begins with the first byte again.                           *)
(***************************************************************************)
EXTENDS Naturals, Sequences

CONSTANTS
  Room,         \* what the kernel's queue holds, in bytes or datagrams
  MaxLen,       \* bound: the bytes of a message
  MaxMessages,  \* bound: the messages the script sends
  MaxTries      \* bound: how often it tries one

ASSUME SendAssumption ==
  /\ Room \in Nat \ {0} /\ MaxLen \in Nat \ {0}
  /\ {MaxMessages, MaxTries} \subseteq Nat

VARIABLES
  stream,   \* whether the socket is a stream, or sends datagrams
  msg,      \* the message the script sends or sent last: its number,
            \* length, how often it was tried
  sending,  \* whether a call is in progress
  count,    \* what the call has left to send, `count' in send_impl
  result,   \* what the last call returned: 0 or 1
  errno,    \* of the script's thread
  error,    \* Socket::error
  queued,   \* how much of the wire the peer has not taken yet
  wire,     \* history: what the kernel took, a chunk per call of send()
  fault     \* the connection is broken, or an ICMP error waits

sendVars == <<stream, msg, sending, count, result, errno, error, queued, wire, fault>>

NoError == "none"
WouldBlock == "EAGAIN"
Broken == "EPIPE"
Foreign == "ENOMEM"      \* left in errno by the engine or by another socket

SendInit ==
  /\ stream \in BOOLEAN
  /\ msg = [number |-> 0, length |-> 0, tries |-> 0]
  /\ sending = FALSE
  /\ count = 0
  /\ result = 1
  /\ errno = NoError
  /\ error = NoError
  /\ queued = 0
  /\ wire = <<>>
  /\ fault = FALSE

(***************************************************************************)
(* The script.                                                             *)
(***************************************************************************)

\* "If it returns 0 and the error is also 0: try again!"
TryAgain == result = 0 /\ error = NoError

Call(m) ==
  /\ ~sending
  /\ msg' = m
  /\ sending' = TRUE
  /\ count' = m.length
  /\ UNCHANGED <<stream, result, errno, error, queued, wire, fault>>

SendNext(n) ==
  /\ ~TryAgain
  /\ msg.number < MaxMessages
  /\ Call([number |-> msg.number + 1, length |-> n, tries |-> 1])

SendAgain ==
  /\ TryAgain
  /\ msg.tries < MaxTries
  /\ Call([msg EXCEPT !.tries = @ + 1])

\* Any other call of the plugin leaves errno as it likes; Create resets it.
OtherCall(e) ==
  /\ ~sending
  /\ errno' = e
  /\ UNCHANGED <<stream, msg, sending, count, result, error, queued, wire, fault>>

(***************************************************************************)
(* send_impl and sendto_impl.                                              *)
(***************************************************************************)

\* Mutant of Chunk: buf does not move on.
ChunkFromStart(k) ==
  [number |-> msg.number, length |-> msg.length, from |-> 0, upto |-> k]

\* What send() puts on the wire when `count' bytes are left: k of them.
Chunk(k) ==
  LET start == msg.length - count IN
  [number |-> msg.number, length |-> msg.length, from |-> start, upto |-> start + k]

\* A stream takes any part that fits, a datagram goes as a whole.
Fits(k) ==
  IF stream THEN k \in 1..count /\ queued + k <= Room
            ELSE k = count /\ queued < Room

Full == queued >= Room

\* Mutant of SendSome: count is not reduced.
SendSomeAgain(k) ==
  /\ sending /\ count > 0
  /\ ~fault
  /\ Fits(k)
  /\ wire' = Append(wire, Chunk(k))
  /\ queued' = queued + (IF stream THEN k ELSE 1)
  /\ UNCHANGED <<stream, msg, sending, count, result, errno, error, fault>>

SendSome(k) ==
  /\ sending /\ count > 0
  /\ ~fault
  /\ Fits(k)
  /\ wire' = Append(wire, Chunk(k))
  /\ queued' = queued + (IF stream THEN k ELSE 1)
  /\ count' = count - k
  /\ UNCHANGED <<stream, msg, sending, result, errno, error, fault>>

\* Mutant of Return: the error that was there before the call.
ReturnEarlierError(r, e) ==
  /\ result' = r
  /\ errno' = e
  /\ error' = IF errno = WouldBlock THEN NoError ELSE errno
  /\ sending' = FALSE
  /\ count' = 0
  /\ UNCHANGED <<stream, msg, queued, wire>>

\* The end of a call that leaves errno = e: "would block" is not an error.
Return(r, e) ==
  /\ result' = r
  /\ errno' = e
  /\ error' = IF e = WouldBlock THEN NoError ELSE e
  /\ sending' = FALSE
  /\ count' = 0
  /\ UNCHANGED <<stream, msg, queued, wire>>

\* Mutant of SendBlocks: the loop goes on until there is room.
SendWaits ==
  /\ sending /\ count > 0
  /\ ~fault /\ Full
  /\ UNCHANGED sendVars

\* Mutant of SendBlocks: a call that sent a part has succeeded.
SendBlocksPartly ==
  /\ sending /\ count > 0
  /\ ~fault /\ Full
  /\ Return(IF count < msg.length THEN 1 ELSE 0, WouldBlock)
  /\ UNCHANGED fault

SendBlocks ==
  /\ sending /\ count > 0
  /\ ~fault /\ Full
  /\ Return(0, WouldBlock)
  /\ UNCHANGED fault

\* A stream stays broken; a datagram socket reports an error once.
SendFails ==
  /\ sending /\ count > 0
  /\ fault
  /\ Return(0, Broken)
  /\ fault' = stream

\* Success does not touch errno: the error is whatever was left in it.
SendDone ==
  /\ sending /\ count = 0
  /\ Return(1, errno)
  /\ UNCHANGED fault

(***************************************************************************)
(* The peer and the network.                                               *)
(***************************************************************************)

PeerTakes ==
  /\ queued > 0
  /\ queued' = queued - 1
  /\ UNCHANGED <<stream, msg, sending, count, result, errno, error, wire, fault>>

Breaks ==
  /\ ~fault
  /\ fault' = TRUE
  /\ UNCHANGED <<stream, msg, sending, count, result, errno, error, queued, wire>>

Loop == (\E k \in 1..MaxLen : SendSome(k)) \/ SendBlocks \/ SendFails \/ SendDone

SendStep ==
  \/ \E n \in 0..MaxLen : SendNext(n)
  \/ SendAgain
  \/ \E e \in {NoError, WouldBlock, Foreign} : OtherCall(e)
  \/ Loop
  \/ PeerTakes
  \/ Breaks

\* The script runs while it is inside a call; nothing makes the peer read.
SendSpec == SendInit /\ [][SendStep]_sendVars /\ WF_sendVars(Loop)

(***************************************************************************)
(* Properties.                                                             *)
(***************************************************************************)

\* The chunks of w are one message from its first byte to its last.
IsWhole(w, m) ==
  /\ w[1].from = 0
  /\ w[Len(w)].upto = m.length
  /\ \A i \in 1..Len(w) : w[i].number = m.number
  /\ \A i \in 1..(Len(w) - 1) : w[i + 1].from = w[i].upto

\* A Send that returned success has put the whole message on the wire last,
\* in one piece, however many partial sends (Socket.cpp:414-420) and failed
\* tries it took.
SuccessIsWhole ==
  ~sending /\ result = 1 /\ msg.length > 0
    => \E i \in 1..Len(wire) : IsWhole(SubSeq(wire, i, Len(wire)), msg)

\* No byte of a message goes over the wire twice: "try again" asks for the
\* rest of a message and not for a second beginning (README.md:235).
RepeatsNothing ==
  \A i, j \in 1..Len(wire) :
    i < j /\ wire[i].number = wire[j].number => wire[i].upto <= wire[j].from

\* Datagrams have no parts, so a retry repeats nothing: each message is sent
\* at most once, and whole (Socket.cpp:447-454).
DatagramsOnce ==
  ~stream => /\ RepeatsNothing
             /\ \A i \in 1..Len(wire) : IsWhole(<<wire[i]>>, wire[i])

\* A Send does not wait for the peer: the loop ends whether the peer reads
\* or not (Socket.cpp:145, 414).
SendEnds == sending ~> ~sending

===============================================================================
