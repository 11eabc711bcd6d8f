------------------------------- MODULE Sockets --------------------------------
(***************************************************************************)
(* The script's side of the plugin (Socket.cpp): the calls a game script   *)
(* makes on its sockets, one at a time, while the pool's thread runs its   *)
(* read cycle and the kernel delivers.  A call is cut where it takes and   *)
(* leaves the pool's lock, and where it waits.                             *)
(*                                                                         *)
(* Unlike the clients of ReadService these calls keep no discipline of     *)
(* their own: whether they keep the pool's is what the properties ask.     *)
(***************************************************************************)
EXTENDS PoolProps

CONSTANTS
  Udp,     \* the datagram sockets made with the protocol IPPROTO_UDP
  Calls    \* the optional calls the script makes, among AllCalls

\* Recv, RecvData, RecvFrom, a Connect that waits, the same on a socket that
\* is bound or connected already, and a Connect of such a datagram socket.
AllCalls == {"Recv", "RecvData", "RecvFrom", "Sync", "Resync", "Reconnect"}

ASSUME CallsAssumption ==
  /\ Udp \subseteq Sock \ Stream
  /\ Calls \subseteq AllCalls

VARIABLES
  call,       \* what the script's call has still to do
  alive,      \* per socket: whether the object exists
  link,       \* per descriptor: what it is connected to
  blocking,   \* the descriptors in blocking mode
  stuck       \* the descriptor the read cycle waits for inside recv, or NoFd

scriptVars == <<call, alive, link, blocking, stuck>>
allVars == <<vars, scriptVars>>

(***************************************************************************)
(* call.op: "none" no call in progress, "connect" a Connect that waits,    *)
(* "add" before pool->add, "check" before CheckPoolInvariant, "remove"     *)
(* before pool->remove, "close" before closesocket, "delete" before the    *)
(* object is freed, "aborted" after AGSAbort.                              *)
(***************************************************************************)
Ops == {"none", "connect", "add", "check", "remove", "close", "delete", "aborted"}

NoCall == [op |-> "none", sock |-> NoFd, dispose |-> FALSE]
Idle == call.op = "none"
Begin(op, s) == call' = [op |-> op, sock |-> s, dispose |-> FALSE]
Continue(op) == call' = [call EXCEPT !.op = op]
Finish == call' = NoCall

\* The calls of the script need an object.
Called(s) == Idle /\ alive[s]

(***************************************************************************)
(* Making sockets.                                                         *)
(***************************************************************************)

\* What socket() and accept() give a new object.
Make(s, f) ==
  /\ ~alive[s]
  /\ ~file[f].open
  /\ alive' = [alive EXCEPT ![s] = TRUE]
  /\ file' = [file EXCEPT ![f] = NewFile]
  /\ id' = [id EXCEPT ![s] = f]
  /\ incoming' = [incoming EXCEPT ![s] = EmptyBuffer]
  /\ taken' = [taken EXCEPT ![s] = 0]
  /\ UNCHANGED <<sockets, active, cycleVars, blocking, stuck>>

Create(s, f) ==
  /\ Idle
  /\ Make(s, f)
  /\ UNCHANGED <<call, link>>

\* socket() failed: the object has no descriptor.
CreateFails(s) ==
  /\ Idle
  /\ ~alive[s]
  /\ alive' = [alive EXCEPT ![s] = TRUE]
  /\ id' = [id EXCEPT ![s] = NoFd]
  /\ incoming' = [incoming EXCEPT ![s] = EmptyBuffer]
  /\ taken' = [taken EXCEPT ![s] = 0]
  /\ UNCHANGED <<sockets, active, file, cycleVars, call, link, blocking, stuck>>

\* A new object for a connection that waits at a listening socket.
Accept(s, conn, f) ==
  /\ Called(s)
  /\ s \in Stream /\ conn \in Stream
  /\ IsOpen(id[s]) /\ link[id[s]] = "listening"
  /\ Make(conn, f)
  /\ link' = [link EXCEPT ![f] = "linked"]
  /\ Begin("add", conn)

(***************************************************************************)
(* Bind, Listen, Connect.                                                  *)
(***************************************************************************)

\* A bound datagram socket receives, and one made for UDP is registered.
\* Binding a stream changes nothing here.
Bind(s) ==
  /\ Called(s)
  /\ s \notin Stream
  /\ IsOpen(id[s]) /\ link[id[s]] = "none"
  /\ link' = [link EXCEPT ![id[s]] = "linked"]
  /\ IF s \in Udp THEN Begin("add", s) ELSE UNCHANGED call
  /\ UNCHANGED <<vars, alive, blocking, stuck>>

Listen(s) ==
  /\ Called(s)
  /\ s \in Stream
  /\ IsOpen(id[s]) /\ link[id[s]] = "none"
  /\ link' = [link EXCEPT ![id[s]] = "listening"]
  /\ UNCHANGED <<vars, call, alive, blocking, stuck>>

\* A Connect of a socket that is bound or connected already, which a script
\* makes only with the option for it.
Again(s) == IsOpen(id[s]) /\ link[id[s]] = "linked"

MayConnect(s) ==
  /\ Called(s)
  /\ Again(s) /\ s \notin Stream => "Reconnect" \in Calls

\* What connect() can succeed on: any open datagram socket, and a stream that
\* neither listens nor is connected.
Connectable(s) ==
  /\ IsOpen(id[s])
  /\ s \in Stream => link[id[s]] \in {"none", "connecting"}

\* connect() succeeds, and the socket is to be registered.
Connected(s) ==
  /\ Connectable(s)
  /\ link' = [link EXCEPT ![id[s]] = "linked"]
  /\ Begin("add", s)

\* connect() fails, or goes on in the background, which only a stream's does.
NotConnected(s) ==
  \/ UNCHANGED link
  \/ /\ s \in Stream /\ Connectable(s)
     /\ \E l \in {"none", "connecting"} : link' = [link EXCEPT ![id[s]] = l]

\* Connect(addr, true).  The script calls again while a stream is connecting.
ConnectAsync(s) ==
  /\ MayConnect(s)
  /\ Connected(s) \/ (NotConnected(s) /\ UNCHANGED call)
  /\ UNCHANGED <<vars, alive, blocking, stuck>>

\* Connect(addr, false) makes the descriptor, if there is one, blocking for
\* the time connect() takes, whatever state the socket is in.
ConnectSync(s) ==
  /\ "Sync" \in Calls
  /\ MayConnect(s)
  /\ Again(s) => "Resync" \in Calls
  /\ blocking' = blocking \union ({id[s]} \ {NoFd})
  /\ Begin("connect", s)
  /\ UNCHANGED <<vars, alive, link, stuck>>

\* Mutant of ConnectSyncEnds: the descriptor stays blocking.
ConnectSyncStays ==
  LET s == call.sock IN
  /\ call.op = "connect"
  /\ Connected(s) \/ (NotConnected(s) /\ Finish)
  /\ UNCHANGED <<vars, alive, blocking, stuck>>

ConnectSyncEnds ==
  LET s == call.sock IN
  /\ call.op = "connect"
  /\ blocking' = blocking \ {id[s]}
  /\ Connected(s) \/ (NotConnected(s) /\ Finish)
  /\ UNCHANGED <<vars, alive, stuck>>

\* pool->add, once the socket is connected, bound or accepted.
AddSocket ==
  LET s == call.sock IN
  /\ call.op = "add"
  /\ Add(s)
  /\ Continue("check")
  /\ UNCHANGED <<alive, link, blocking, stuck>>

\* CheckPoolInvariant, which ends the game when the pool is broken.
CheckPoolInvariant ==
  /\ call.op = "check"
  /\ ~Locked
  /\ IF PoolOk THEN Finish ELSE Continue("aborted")
  /\ UNCHANGED <<vars, alive, link, blocking, stuck>>

(***************************************************************************)
(* Close and Dispose.                                                      *)
(***************************************************************************)

\* Mutants of Invalidate: the descriptor is closed and not forgotten, or
\* forgotten and not closed.
InvalidateKeeps(s) ==
  LET f == id[s] IN
  /\ file' = IF f \in Fd THEN [file EXCEPT ![f] = ClosedFile] ELSE file
  /\ link' = IF f \in Fd THEN [link EXCEPT ![f] = "none"] ELSE link
  /\ blocking' = blocking \ {f}
  /\ armed' = [t \in Thread |-> armed[t] \ {f}]
  /\ UNCHANGED <<id, guard, pipe, pc, read, signal, todo>>

InvalidateLeaks(s) ==
  /\ id' = [id EXCEPT ![s] = NoFd]
  /\ UNCHANGED <<file, link, blocking, cycleVars>>

\* closesocket(sock->id); sock->id = INVALID_SOCKET;
Invalidate(s) ==
  LET f == id[s] IN
  /\ file' = IF f \in Fd THEN [file EXCEPT ![f] = ClosedFile] ELSE file
  /\ link' = IF f \in Fd THEN [link EXCEPT ![f] = "none"] ELSE link
  /\ blocking' = blocking \ {f}
  /\ armed' = [t \in Thread |-> armed[t] \ {f}]
  /\ id' = [id EXCEPT ![s] = NoFd]
  /\ UNCHANGED <<guard, pipe, pc, read, signal, todo>>

\* Whether select finds a stream readable in the half millisecond Close
\* waits: data, the end of the stream, a connection to accept, or a socket
\* that is not connected at all.
CloseFindsReadable(s) ==
  /\ IsOpen(id[s])
  /\ Readable(id[s]) \/ link[id[s]] # "linked"

\* Then Close leaves the socket to the read cycle.
CloseReturns(s) ==
  /\ Called(s)
  /\ s \in Stream
  /\ CloseFindsReadable(s)
  /\ UNCHANGED allVars

\* Mutant of CloseForces: pool->remove is left out.
CloseRegistered(s) ==
  /\ Called(s)
  /\ s \in Stream => ~(IsOpen(id[s]) /\ Readable(id[s]))
  /\ Begin("close", s)
  /\ UNCHANGED <<vars, alive, link, blocking, stuck>>

CloseForces(s) ==
  /\ Called(s)
  /\ s \in Stream => ~(IsOpen(id[s]) /\ Readable(id[s]))
  /\ Begin("remove", s)
  /\ UNCHANGED <<vars, alive, link, blocking, stuck>>

\* Mutant of Dispose: pool->remove is left out.
DisposeRegistered(s) ==
  /\ Called(s)
  /\ call' = [op |-> IF id[s] # NoFd THEN "close" ELSE "delete",
              sock |-> s, dispose |-> TRUE]
  /\ UNCHANGED <<vars, alive, link, blocking, stuck>>

Dispose(s) ==
  /\ Called(s)
  /\ call' = [op |-> IF id[s] # NoFd THEN "remove" ELSE "delete",
              sock |-> s, dispose |-> TRUE]
  /\ UNCHANGED <<vars, alive, link, blocking, stuck>>

RemoveSocket ==
  /\ call.op = "remove"
  /\ Remove(call.sock)
  /\ Continue("close")
  /\ UNCHANGED <<alive, link, blocking, stuck>>

CloseSocket ==
  /\ call.op = "close"
  /\ Invalidate(call.sock)
  /\ IF call.dispose THEN Continue("delete") ELSE Finish
  /\ UNCHANGED <<sockets, active, incoming, taken, alive, stuck>>

Delete ==
  /\ call.op = "delete"
  /\ alive' = [alive EXCEPT ![call.sock] = FALSE]
  /\ Finish
  /\ UNCHANGED <<vars, link, blocking, stuck>>

(***************************************************************************)
(* Receiving.                                                              *)
(***************************************************************************)

\* recv_impl with nothing in the buffer, after an error: the socket is
\* closed inside the critical section.
RecvError(s) ==
  /\ Called(s)
  /\ ~Locked
  /\ IsEmpty(incoming[s])
  /\ incoming[s].error # NoError
  /\ Invalidate(s)
  /\ UNCHANGED <<sockets, active, incoming, taken, call, alive, stuck>>

\* recv_impl with something in the buffer.  An empty result closes a stream,
\* after the critical section.
RecvResult(s, result, rest) ==
  /\ Called(s)
  /\ ~Locked
  /\ ~IsEmpty(incoming[s])
  /\ incoming' = [incoming EXCEPT ![s] = rest]
  /\ taken' = [taken EXCEPT ![s] = @ + Len(result)]
  /\ IF result = <<>> /\ s \in Stream THEN Begin("close", s) ELSE UNCHANGED call
  /\ UNCHANGED <<sockets, active, id, file, cycleVars, alive, link, blocking, stuck>>

Recv(s) ==
  /\ "Recv" \in Calls
  /\ RecvResult(s, CStr(Front(incoming[s])),
                IF s \in Stream THEN Extract(incoming[s]) ELSE Pop(incoming[s]))

RecvData(s) ==
  /\ "RecvData" \in Calls
  /\ RecvResult(s, Front(incoming[s]), Pop(incoming[s]))

\* recvfrom_impl reads the descriptor itself, without the lock.
RecvFrom(s) ==
  /\ "RecvFrom" \in Calls
  /\ Called(s)
  /\ s \notin Stream
  /\ Readable(id[s])
  /\ file' = [file EXCEPT ![id[s]].rx = Tail(@)]
  /\ UNCHANGED <<sockets, active, id, incoming, taken, cycleVars, scriptVars>>

(***************************************************************************)
(* The read cycle and the kernel.                                          *)
(***************************************************************************)

\* A recv on a descriptor in blocking mode waits when there is nothing,
\* inside the critical section.
Waits(t, s) ==
  /\ id[s] \in read[t] \intersect blocking
  /\ IsOpen(id[s]) /\ ~Readable(id[s])

CycleBlocks(t, s) ==
  /\ pc[t] = "visit"
  /\ s \in todo[t]
  /\ Waits(t, s)
  /\ stuck' = id[s]
  /\ UNCHANGED <<vars, call, alive, link, blocking>>

\* It returns when something arrives.
CycleUnblocks(t) ==
  /\ guard = t
  /\ Readable(stuck)
  /\ stuck' = NoFd
  /\ UNCHANGED <<vars, call, alive, link, blocking>>

CycleVisits(t, s) ==
  /\ ~Waits(t, s)
  /\ Visit(t, s)
  /\ UNCHANGED scriptVars

CycleSteps(t) == Step(t) /\ UNCHANGED scriptVars

ScriptCycle(t) ==
  \/ /\ stuck = NoFd
     /\ CycleSteps(t) \/ \E s \in Sock : CycleVisits(t, s) \/ CycleBlocks(t, s)
  \/ CycleUnblocks(t)

Interrupted(t) == SelectInterrupted(t) /\ UNCHANGED scriptVars

ScriptArrive(s) ==
  /\ IsOpen(id[s]) /\ link[id[s]] = "linked"
  /\ Arrive(s)
  /\ UNCHANGED scriptVars

SocketsInit ==
  /\ PoolInit
  /\ call = NoCall
  /\ alive = [s \in Sock |-> FALSE]
  /\ link = [f \in Fd |-> "none"]
  /\ blocking = {}
  /\ stuck = NoFd

\* What a call has still to do once it began, which nothing but the lock
\* and the network can delay.
Proceed ==
  ConnectSyncEnds \/ AddSocket \/ CheckPoolInvariant \/ RemoveSocket \/ CloseSocket \/ Delete

SocketsNext ==
  \/ \E s \in Sock, f \in Fd : Create(s, f)
  \/ \E s, conn \in Sock, f \in Fd : Accept(s, conn, f)
  \/ \E s \in Sock :
       \/ CreateFails(s) \/ Bind(s) \/ Listen(s) \/ ConnectAsync(s) \/ ConnectSync(s)
       \/ CloseReturns(s) \/ CloseForces(s) \/ Dispose(s)
       \/ RecvError(s) \/ Recv(s) \/ RecvData(s) \/ RecvFrom(s)
       \/ ScriptArrive(s)
  \/ Proceed
  \/ \E t \in Thread : ScriptCycle(t) \/ Interrupted(t)

\* The read cycle's thread runs, and so does the script inside a call, which
\* gets a lock that is free again and again.
SocketsFairness ==
  /\ \A t \in Thread : WF_allVars(ScriptCycle(t))
  /\ SF_allVars(Proceed)

SocketsSpec == SocketsInit /\ [][SocketsNext]_allVars /\ SocketsFairness

(***************************************************************************)
(* Properties.                                                             *)
(***************************************************************************)

\* The descriptor of the sync Connect in progress.
Connecting(f) == call.op = "connect" /\ id[call.sock] = f /\ file[f].open

\* Every variable has its type, and a descriptor is in blocking mode only
\* during a sync Connect of the socket it belongs to (Socket.cpp:311-313).
SocketsTypeOK ==
  /\ call \in [op : Ops, sock : Sock \union {NoFd}, dispose : BOOLEAN]
  /\ alive \in [Sock -> BOOLEAN]
  /\ link \in [Fd -> {"none", "listening", "connecting", "linked"}]
  /\ blocking \subseteq {f \in Fd : Connecting(f)}
  /\ stuck \in Fd \union {NoFd}
  /\ id \in [Sock -> Fd \union {NoFd}]
  /\ sockets \subseteq Sock

\* The script's calls keep the pool sound: CheckPoolInvariant ends the game
\* for no other reason than a thread that could not be created
\* (Socket.cpp:38-43), whatever happens between a call and its check.
AbortsOnlyUnserved == call.op = "aborted" => sockets # {} /\ ~active

\* A thread that could not be created is noticed by the call that needed it:
\* while Invariant I is broken the script gets nothing done but the check
\* that ends the game (Pool.cpp:166, Socket.cpp:40).
FailureIsNoticed == sockets # {} /\ ~active => call.op \in {"check", "aborted"}

\* Invariant II of Pool.cpp:19.
RegisteredAreValid == \A s \in sockets : id[s] # NoFd

\* The read cycle never visits an object the script has disposed of: Dispose
\* takes it out of the pool first, and trusts that a socket without a
\* descriptor is not in it (Socket.cpp:51-57).
RegisteredAreAlive == sockets \subseteq {s \in Sock : alive[s]}

\* A descriptor belongs to one object, an object's descriptor is open, and
\* an open descriptor has an object that can close it: nothing is closed
\* twice, used after it was given to somebody else, or leaked.
Owned ==
  /\ \A s1, s2 \in Sock : s1 # s2 /\ id[s1] = id[s2] => id[s1] = NoFd
  /\ \A s \in Sock : id[s] # NoFd => alive[s]
  /\ \A s \in Sock : call.op # "close" => id[s] \in {NoFd} \union {f \in Fd : file[f].open}
  /\ \A f \in Fd : file[f].open => \E s \in Sock : id[s] = f

\* What Recv and RecvData give the script is what arrived for the object, in
\* order and nothing twice, although descriptors are closed in the middle of
\* a call, by a script that does not wait for the read cycle, and handed out
\* again (Socket.cpp:400-401, 540-541, 556-557).  RecvFrom takes datagrams past the
\* buffer, out of their turn.
GivenInOrder ==
  \A s \in Sock : s \in Stream \/ "RecvFrom" \notin Calls => ReceivesInOrder(s)

\* When an empty result closes a stream, everything that arrived has been
\* given to the script (Socket.cpp:553-559).
NothingCutOff ==
  [][\A s \in Stream :
       (Recv(s) \/ RecvData(s)) /\ call'.op = "close" /\ IsOpen(id[s])
         => taken'[s] = file[id[s]].sent /\ IsEmpty(incoming'[s])]_allVars

\* The calls keep the discipline the pool asks of its clients: whatever the
\* script does is, for the pool, what PoolSpec allows.
KeepsDiscipline == PoolInit /\ [][PoolNext]_vars

\* A call that has only the pool to wait for ends, however often the read
\* cycle takes the lock.
CallsEnd ==
  (call.op \notin {"none", "connect", "aborted"}) ~> (call.op \in {"none", "aborted"})

\* "The entire plugin is nonblocking except for connections in sync mode"
\* (Socket.cpp:145): Close and Dispose end.
CloseEnds == (call.op = "remove") ~> Idle

===============================================================================
