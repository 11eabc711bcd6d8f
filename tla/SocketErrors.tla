----------------------------- MODULE SocketErrors -----------------------------
(***************************************************************************)
(* The error a script is told, through all the calls it makes on a socket  *)
(* (Socket.cpp:139-622): each stores errno, which only a call of the       *)
(* kernel that failed writes and nothing but Socket.Create clears.  Sending*)
(* is the module Send; the other calls are here, whatever the kernel       *)
(* answers them.  The read cycle has an errno of its own and leaves its    *)
(* errors in the buffer.                                                   *)
(***************************************************************************)
EXTENDS Send, ErrorCodes

Seqs == INSTANCE SequencesExt

VARIABLES
  id,       \* Socket::id: "unmade" before Create, "open" or "INVALID"
  known,    \* which of Socket::local and Socket::remote exist
  answer    \* history: what the kernel answered the last call when that
            \* returned failure, NoError when it did not

sockVars == <<id, known>>
errorVars == <<sendVars, sockVars, answer>>

\* What the kernel may answer to the calls, where the descriptor is good.
Answers ==
  [ Bind     |-> {NoError, "ENOMEM"},
    Listen   |-> {NoError, "ENOMEM"},
    Connect  |-> {NoError, "EINPROGRESS", "EALREADY", "EINTR", "ECONNREFUSED"},
    Accept   |-> {NoError, WouldBlock, "ENOMEM"},
    RecvFrom |-> {NoError, WouldBlock},
    Local    |-> {NoError},
    Remote   |-> {NoError, "ENOTCONN"} ]

\* The answers that ask to call again.
Transient == {WouldBlock, "EINPROGRESS", "EALREADY", "EINTR"}

valid == id = "open"

Answered(call, e) == e \in IF valid THEN Answers[call] ELSE {"EBADF"}

\* errno after a call of the kernel, which writes it only where it fails.
Stored(before, e) == IF e = NoError THEN before ELSE e
After(e) == Stored(errno, e)

ErrorsInit ==
  /\ SendInit
  /\ id = "unmade"
  /\ known = {}
  /\ answer = NoError

\* The end of a call other than Send.
Returns(failure) ==
  /\ id # "unmade" /\ ~sending
  /\ answer' = failure
  /\ UNCHANGED <<stream, msg, sending, count, result, queued, wire, fault>>

(***************************************************************************)
(* The calls.                                                              *)
(***************************************************************************)

\* Bind, Listen and RecvFrom tell what is in errno.
Plain(call, e) ==
  /\ call \in {"Bind", "Listen", "RecvFrom"}
  /\ Answered(call, e)
  /\ errno' = After(e)
  /\ error' = errno'
  /\ Returns(e)
  /\ UNCHANGED sockVars

\* Connect: "returning false but with error == 0 is: try again".
Connect(e) ==
  /\ Answered("Connect", e)
  /\ errno' = After(e)
  /\ error' = IF ALREADY(errno') THEN NoError ELSE errno'
  /\ Returns(e)
  /\ UNCHANGED sockVars

\* Accept: "If it returns nullptr and the error is also 0: try again!"
Accept(e) ==
  /\ Answered("Accept", e)
  /\ errno' = After(e)
  /\ error' = IF WOULD_BLOCK(errno') THEN NoError ELSE errno'
  /\ Returns(e)
  /\ UNCHANGED sockVars

\* Send on a socket without a descriptor.  The loop does not run for an empty
\* message, which is a success then, with whatever was left in errno.
SendInvalid(n) ==
  /\ id = "INVALID" /\ ~sending
  /\ msg.number < MaxMessages
  /\ msg' = [number |-> msg.number + 1, length |-> n, tries |-> 1]
  /\ result' = IF n = 0 THEN 1 ELSE 0
  /\ answer' = IF n = 0 THEN NoError ELSE "EBADF"
  /\ errno' = After(answer')
  /\ error' = IF WOULD_BLOCK(errno') THEN NoError ELSE errno'
  /\ UNCHANGED <<stream, sending, count, queued, wire, fault, sockVars>>

\* The attributes Local and Remote ask the kernel once, and return an address
\* whatever it answers.
GetAddress(which, e) ==
  /\ which \in {"Local", "Remote"} \ known
  /\ Answered(which, e)
  /\ known' = known \union {which}
  /\ errno' = After(e)
  /\ error' = errno'
  /\ Returns(NoError)
  /\ UNCHANGED id

\* recv_impl tells what the read cycle left in the buffer, not errno: an
\* error closes the socket.  Closing no descriptor fails.
RecvNothing(e) ==
  /\ e \in {NoError, "ECONNREFUSED"}
  /\ error' = e
  /\ id' = IF e = NoError THEN id ELSE "INVALID"
  /\ errno' = IF e = NoError \/ valid THEN errno ELSE "EBADF"
  /\ Returns(IF e = NoError THEN WouldBlock ELSE e)
  /\ UNCHANGED known

\* Something was received; the end of a stream closes the socket.
RecvSome(end) ==
  /\ end => stream
  /\ error' = NoError
  /\ id' = IF end THEN "INVALID" ELSE id
  /\ errno' = IF end /\ ~valid THEN "EBADF" ELSE errno
  /\ Returns(NoError)
  /\ UNCHANGED known

\* Close of a stream that select finds readable leaves it to the read cycle;
\* shutdown may have failed.
CloseReturns(e) ==
  /\ stream /\ valid
  /\ e \in {NoError, "ENOTCONN"}
  /\ errno' = After(e)
  /\ Returns(NoError)
  /\ UNCHANGED <<error, sockVars>>

CloseForces(e) ==
  /\ e \in IF ~valid THEN {"EBADF"} ELSE IF stream THEN {NoError, "ENOTCONN"} ELSE {NoError}
  /\ errno' = After(e)
  /\ error' = errno'
  /\ id' = "INVALID"
  /\ Returns(NoError)
  /\ UNCHANGED known

\* Create clears errno before it asks for a descriptor, and makes the
\* descriptor non-blocking once the error is stored, which fails without one.
Create(e) ==
  /\ id = "unmade"
  /\ id' = IF e = NoError THEN "open" ELSE "INVALID"
  /\ error' = Stored(NoError, e)
  /\ errno' = Stored(error', IF e = NoError THEN NoError ELSE "EBADF")
  /\ answer' = e
  /\ UNCHANGED <<stream, msg, sending, count, result, queued, wire, fault, known>>

SendBegins ==
  /\ valid
  /\ (\E n \in 0..MaxLen : SendNext(n)) \/ SendAgain
  /\ answer' = NoError
  /\ UNCHANGED sockVars

\* A step of Send's loop, or its end and what the kernel answered it.
SendGoesOn ==
  /\ Loop
  /\ answer' = IF sending' THEN answer
               ELSE IF result' = 1 THEN NoError
               ELSE IF fault THEN Broken ELSE WouldBlock
  /\ UNCHANGED sockVars

Around ==
  \/ OtherCall(Foreign) /\ answer' = NoError /\ UNCHANGED sockVars
  \/ (PeerTakes \/ Breaks) /\ UNCHANGED <<sockVars, answer>>

ErrorsNext ==
  \/ \E e \in {NoError, "ENOMEM"} : Create(e)
  \/ SendBegins \/ SendGoesOn
  \/ \E n \in 0..MaxLen : SendInvalid(n)
  \/ \E call \in DOMAIN Answers : \E e \in Answers[call] \union {"EBADF"} :
       Plain(call, e) \/ GetAddress(call, e)
  \/ \E e \in Answers.Connect \union {"EBADF"} : Connect(e)
  \/ \E e \in Answers.Accept \union {"EBADF"} : Accept(e)
  \/ \E e \in {NoError, "ECONNREFUSED"} : RecvNothing(e)
  \/ \E end \in BOOLEAN : RecvSome(end)
  \/ \E e \in {NoError, "ENOTCONN", "EBADF"} : CloseReturns(e) \/ CloseForces(e)
  \/ Around

ErrorsSpec == ErrorsInit /\ [][ErrorsNext]_errorVars /\ WF_errorVars(SendGoesOn)

(***************************************************************************)
(* Properties.                                                             *)
(***************************************************************************)

\* What the script is told after a failed call is what the kernel answered
\* that very call, whatever earlier calls, on this socket or elsewhere, left
\* in errno; and it can tell a call to be repeated, by "no error" or "please
\* try again", from one that will not succeed (Socket.cpp:259, 318-321,
\* 345-354, 407-427, 533-535).
FailureIsOwn ==
  answer # NoError =>
    LET told == AGSEnumerateError(error) IN
    /\ answer \in Transient <=> told \in {"NO_ERROR", "PLEASE_TRY_AGAIN"}
    /\ error \in {NoError, answer}

\* The text the peer gets from a socket: the chunks put together, a beginning
\* per try, without those of a call that has not returned.
WithChunk(text, c) ==
  IF c.from = 0
  THEN Append(text, [number |-> c.number, length |-> c.length, upto |-> c.upto])
  ELSE [text EXCEPT ![Len(text)].upto = c.upto]

TextOf(w) ==
  LET text[n \in 0..Len(w)] == IF n = 0 THEN <<>> ELSE WithChunk(text[n - 1], w[n])
  IN text[Len(w)]

Text ==
  LET all == TextOf(wire) IN
  IF sending /\ count < msg.length THEN Seqs!Front(all) ELSE all

Promised == INSTANCE Transmission WITH text <- Text

\* Through partial sends, full queues, broken connections and retries the
\* sockets keep the promise of Transmission: a call puts one beginning of
\* its message on the wire in one piece, and returns success exactly when
\* it is whole (Socket.cpp:410-428).
Promise == Promised!TransmissionSpec

===============================================================================
