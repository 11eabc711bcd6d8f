----------------------------- MODULE ReadService ------------------------------
(***************************************************************************)
(* What the pool promises its clients, without the thread, the lock and    *)
(* the beacon it keeps the promise with: the data that arrives for a       *)
(* registered socket moves to the socket's buffer, in order, until the     *)
(* socket is unregistered, ends or fails; and the service stops running    *)
(* when nothing is registered.  Pool implements it.                        *)
(*                                                                         *)
(* The clients are those of Socket.cpp and test/pool.cpp: only a socket    *)
(* that was bound, connected or accepted is registered, so it has a        *)
(* descriptor then.  It may give it up at any time, registered or not.     *)
(***************************************************************************)
EXTENDS Buffer, Integers, FiniteSets

CONSTANTS
  Sock,       \* the socket objects
  Stream,     \* those of type SOCK_STREAM, the others are datagram sockets
  Fd,         \* the descriptors the kernel can hand out
  NoFd,       \* INVALID_SOCKET
  MaxArrive,  \* bound: the pieces of data that arrive at one descriptor
  MaxEmpty,   \* bound: the empty datagrams that wait for a socket's owner
  NetworkMayFail,  \* whether a connection may be reset, or an ICMP error arrive
  MaxQueue    \* bound: a socket is registered only while its buffer is shorter

ASSUME ServiceAssumption ==
  /\ Stream \subseteq Sock
  /\ NoFd \notin Fd
  /\ MaxArrive \in Nat
  /\ MaxEmpty \in Nat
  /\ NetworkMayFail \in BOOLEAN
  /\ MaxQueue \in Nat

VARIABLES
  sockets,    \* Pool::sockets_
  active,     \* Thread::Data::active: the read cycle runs
  id,         \* Socket::id
  incoming,   \* Socket::incoming
  taken,      \* history: the pieces the client took out of incoming
  file        \* the kernel's side of a descriptor

serviceVars == <<sockets, active, id, incoming, taken, file>>

(***************************************************************************)
(* The kernel.  What waits to be received at a descriptor is a sequence of *)
(* pieces, numbered 1, 2, ... as they arrive, with Eof at the end of a     *)
(* stream the peer closed, Fault where the next recv fails, and Empty for  *)
(* a datagram without data.                                                *)
(***************************************************************************)
Eof == 0
Fault == -1
Empty == -2

Piece == 1..MaxArrive
Errors == {NoError, "EBADF", "ECONNRESET"}
ClosedFile == [open |-> FALSE, rx |-> <<>>, sent |-> 0]
NewFile == [ClosedFile EXCEPT !.open = TRUE]

IsOpen(f) == f \in Fd /\ file[f].open

Readable(f) == IsOpen(f) /\ file[f].rx # <<>>

\* The pieces among what waits at a descriptor.
PiecesOf(rx) == Selected(rx, Piece)

ArriveData(s) ==
  LET f == id[s] IN
  /\ IsOpen(f)
  /\ file[f].sent < MaxArrive
  /\ \A i \in DOMAIN file[f].rx : file[f].rx[i] # Eof
  /\ s \in Stream => \A i \in DOMAIN file[f].rx : file[f].rx[i] # Fault
  /\ file' = [file EXCEPT ![f].rx = Append(@, file[f].sent + 1),
                          ![f].sent = @ + 1]
  /\ UNCHANGED <<sockets, active, id, incoming, taken>>

\* The peer shut its side of a connection down.
ArriveEof(s) ==
  LET f == id[s] IN
  /\ s \in Stream
  /\ IsOpen(f)
  /\ \A i \in DOMAIN file[f].rx : file[f].rx[i] > 0
  /\ file' = [file EXCEPT ![f].rx = Append(@, Eof)]
  /\ UNCHANGED <<sockets, active, id, incoming, taken>>

\* The empty elements between the network and the owner of a datagram socket.
Empties(s) ==
  LET rx == file[id[s]].rx
      queue == incoming[s].queue
  IN  Cardinality({i \in DOMAIN rx : rx[i] = Empty})
        + Cardinality({i \in DOMAIN queue : queue[i] = <<>>})

ArriveEmpty(s) ==
  LET f == id[s] IN
  /\ s \notin Stream
  /\ IsOpen(f)
  /\ Empties(s) < MaxEmpty
  /\ file' = [file EXCEPT ![f].rx = Append(@, Empty)]
  /\ UNCHANGED <<sockets, active, id, incoming, taken>>

\* A connection was reset: the error comes after the data that had arrived,
\* and then nothing does.  An ICMP error at a datagram socket overtakes the
\* datagrams that wait.
ArriveFault(s) ==
  LET f == id[s] IN
  /\ NetworkMayFail
  /\ IsOpen(f)
  /\ \A i \in DOMAIN file[f].rx : file[f].rx[i] \notin {Eof, Fault}
  /\ file' = [file EXCEPT ![f].rx = IF s \in Stream THEN @ \o <<Fault, Eof>>
                                                    ELSE <<Fault>> \o @]
  /\ UNCHANGED <<sockets, active, id, incoming, taken>>

(***************************************************************************)
(* recv on a registered socket and what the read cycle does with the       *)
(* outcome.  It takes any number of waiting pieces of a stream at once,    *)
(* one datagram, reports the end of a stream each time it is asked, and an *)
(* error once.  A socket at its end, or with an error, is unregistered.    *)
(***************************************************************************)
ReceiveData(s) ==
  /\ IsOpen(id[s])
  /\ \E n \in 1..Len(file[id[s]].rx) :
       LET rx == file[id[s]].rx
           data == SubSeq(rx, 1, n)
       IN  /\ \A i \in 1..n : rx[i] > 0
           /\ s \in Stream \/ n = 1
           /\ file' = [file EXCEPT ![id[s]].rx = SubSeq(rx, n + 1, Len(rx))]
           /\ incoming' = [incoming EXCEPT
                ![s] = IF s \in Stream THEN AppendTo(@, data) ELSE Push(@, data)]
  /\ UNCHANGED <<sockets, active, id, taken>>

\* recv returned 0 on a socket that is no stream: an empty datagram, which
\* is data like any other.
ReceiveEmpty(s) ==
  /\ s \notin Stream
  /\ Readable(id[s])
  /\ Head(file[id[s]].rx) = Empty
  /\ file' = [file EXCEPT ![id[s]].rx = Tail(@)]
  /\ incoming' = [incoming EXCEPT ![s] = Push(@, <<>>)]
  /\ UNCHANGED <<sockets, active, id, taken>>

\* Mutant of ReceiveEof: the end is noticed before the data in front of it.
ReceiveEofEarly(s) ==
  /\ Readable(id[s])
  /\ \E i \in DOMAIN file[id[s]].rx : file[id[s]].rx[i] = Eof
  /\ incoming' = [incoming EXCEPT ![s] = AppendTo(@, <<>>)]
  /\ sockets' = sockets \ {s}
  /\ UNCHANGED <<active, id, taken, file>>

ReceiveEof(s) ==
  /\ Readable(id[s])
  /\ Head(file[id[s]].rx) = Eof
  /\ incoming' = [incoming EXCEPT ![s] = AppendTo(@, <<>>)]
  /\ sockets' = sockets \ {s}
  /\ UNCHANGED <<active, id, taken, file>>

\* Mutant of ReceiveError: the socket stays registered.
ReceiveErrorStays(s) ==
  /\ ~IsOpen(id[s]) \/ (Readable(id[s]) /\ Head(file[id[s]].rx) = Fault)
  /\ incoming' = [incoming EXCEPT ![s].error = "ECONNRESET"]
  /\ file' = IF IsOpen(id[s]) THEN [file EXCEPT ![id[s]].rx = Tail(@)] ELSE file
  /\ UNCHANGED <<sockets, active, id, taken>>

ReceiveError(s) ==
  /\ \/ /\ ~IsOpen(id[s])
        /\ incoming' = [incoming EXCEPT ![s].error = "EBADF"]
        /\ UNCHANGED file
     \/ /\ Readable(id[s])
        /\ Head(file[id[s]].rx) = Fault
        /\ incoming' = [incoming EXCEPT ![s].error = "ECONNRESET"]
        /\ file' = [file EXCEPT ![id[s]].rx = Tail(@)]
  /\ sockets' = sockets \ {s}
  /\ UNCHANGED <<active, id, taken>>

Receive(s) == ReceiveData(s) \/ ReceiveEmpty(s) \/ ReceiveEof(s) \/ ReceiveError(s)

(***************************************************************************)
(* The clients.                                                            *)
(***************************************************************************)

\* A new socket object with a descriptor no other object still names.
Open(s, f) ==
  /\ id[s] = NoFd
  /\ s \notin sockets
  /\ ~file[f].open
  /\ \A s2 \in Sock : id[s2] # f
  /\ file' = [file EXCEPT ![f] = NewFile]
  /\ id' = [id EXCEPT ![s] = f]
  /\ incoming' = [incoming EXCEPT ![s] = EmptyBuffer]
  /\ taken' = [taken EXCEPT ![s] = 0]
  /\ UNCHANGED <<sockets, active>>

\* A new socket object that got no descriptor.
OpenFails(s) ==
  /\ id[s] = NoFd
  /\ s \notin sockets
  /\ incoming' = [incoming EXCEPT ![s] = EmptyBuffer]
  /\ taken' = [taken EXCEPT ![s] = 0]
  /\ UNCHANGED <<sockets, active, id, file>>

\* closesocket(sock.id), which test/pool.cpp also calls on a registered
\* socket.
CloseFd(s) ==
  /\ IsOpen(id[s])
  /\ file' = [file EXCEPT ![id[s]] = ClosedFile]
  /\ UNCHANGED <<sockets, active, id, incoming, taken>>

\* sock.id = INVALID_SOCKET
Forget(s) ==
  /\ id[s] # NoFd
  /\ ~IsOpen(id[s])
  /\ id' = [id EXCEPT ![s] = NoFd]
  /\ UNCHANGED <<sockets, active, incoming, taken, file>>

\* Both at once, the way Socket.cpp closes a socket.
Discard(s) ==
  /\ id[s] # NoFd
  /\ file' = IF IsOpen(id[s]) THEN [file EXCEPT ![id[s]] = ClosedFile] ELSE file
  /\ id' = [id EXCEPT ![s] = NoFd]
  /\ UNCHANGED <<sockets, active, incoming, taken>>

\* The client takes the first element out of the buffer.
Take(s) ==
  /\ ~IsEmpty(incoming[s])
  /\ incoming' = [incoming EXCEPT ![s] = Pop(@)]
  /\ taken' = [taken EXCEPT ![s] = @ + Len(Front(incoming[s]))]
  /\ UNCHANGED <<sockets, active, id, file>>

\* Registering a socket makes the service run.
Register(s) ==
  /\ id[s] # NoFd
  /\ Len(incoming[s].queue) < MaxQueue
  /\ sockets' = sockets \union {s}
  /\ active' = TRUE
  /\ UNCHANGED <<id, incoming, taken, file>>

Unregister(S) ==
  /\ sockets' = sockets \ S
  /\ UNCHANGED <<active, id, incoming, taken, file>>

(***************************************************************************)
(* The service.                                                            *)
(***************************************************************************)
Deliver(s) == s \in sockets /\ Receive(s)

Stop ==
  /\ sockets = {}
  /\ active
  /\ active' = FALSE
  /\ UNCHANGED <<sockets, id, incoming, taken, file>>

Environment ==
  \/ \E s \in Sock : ArriveData(s) \/ ArriveEmpty(s) \/ ArriveEof(s) \/ ArriveFault(s)
  \/ \E s \in Sock, f \in Fd : Open(s, f)
  \/ \E s \in Sock : OpenFails(s) \/ CloseFd(s) \/ Forget(s) \/ Discard(s)

ServiceInit ==
  /\ sockets = {}
  /\ active = FALSE
  /\ id = [s \in Sock |-> NoFd]
  /\ incoming = [s \in Sock |-> EmptyBuffer]
  /\ taken = [s \in Sock |-> 0]
  /\ file = [f \in Fd |-> ClosedFile]

ServiceNext ==
  \/ Environment
  \/ \E s \in Sock : Take(s) \/ Register(s) \/ Deliver(s)
  \/ \E S \in SUBSET Sock : Unregister(S)
  \/ Stop

\* What waits at an open descriptor of a registered socket is received, and
\* a service with nothing to do stops.
ServiceFairness ==
  /\ \A s \in Sock : WF_serviceVars(IsOpen(id[s]) /\ Deliver(s))
  /\ WF_serviceVars(Stop)

ServiceSpec == ServiceInit /\ [][ServiceNext]_serviceVars /\ ServiceFairness

===============================================================================
