----------------------------- MODULE SocketsProofs -----------------------------
(***************************************************************************)
(* What the script's calls keep, for any sets of sockets, descriptors and  *)
(* threads and for any choice of calls, and what they keep besides as long *)
(* as they keep the pool's discipline.                                     *)
(***************************************************************************)
EXTENDS Sockets, PoolProofs

(***************************************************************************)
(* Whatever the script calls.                                              *)
(***************************************************************************)

\* What Owned rests on: the descriptor of an object is open until the very
\* step that makes the object forget it.
Held ==
  /\ \A s1, s2 \in Sock : s1 # s2 /\ id[s1] = id[s2] => id[s1] = NoFd
  /\ \A s \in Sock : id[s] # NoFd => alive[s] /\ file[id[s]].open
  /\ \A f \in Fd : file[f].open => \E s \in Sock : id[s] = f

\* A call in progress is on a socket, and an object is deleted without a
\* descriptor.
CallOK ==
  /\ call.op # "none" => call.sock \in Sock
  /\ call.op = "delete" => id[call.sock] = NoFd

OwnInd ==
  /\ SocketsTypeOK
  /\ file \in [Fd -> File]
  /\ Held
  /\ CallOK

\* Taking from or adding to what waits at a descriptor changes nothing else.
LEMMA FileRx ==
  ASSUME file \in [Fd -> File], NEW f \in Fd, NEW r \in Seq(Item),
         file' = [file EXCEPT ![f].rx = r]
  PROVE  /\ file' \in [Fd -> File]
         /\ \A h \in Fd : file'[h].open = file[h].open
BY DEF File

\* A read leaves every descriptor as open as it was.
LEMMA ReceiveFile ==
  ASSUME OwnInd, NEW s \in Sock, Receive(s)
  PROVE  /\ file' \in [Fd -> File]
         /\ \A f \in Fd : file'[f].open = file[f].open
         /\ sockets' \subseteq sockets
         /\ UNCHANGED <<active, id, taken>>
<1> DEFINE f == id[s]
<1>1. file \in [Fd -> File] /\ (IsOpen(f) => file[f].rx \in Seq(Item))
  BY DEF OwnInd, File, IsOpen
<1>2. CASE ReceiveData(s)
  <2>1. PICK n \in 1..Len(file[f].rx) :
          /\ \A i \in 1..n : file[f].rx[i] > 0
          /\ file' = [file EXCEPT ![f].rx = SubSeq(file[f].rx, n + 1, Len(file[f].rx))]
    BY <1>2 DEF ReceiveData
  <2>2. f \in Fd /\ SubSeq(file[f].rx, n + 1, Len(file[f].rx)) \in Seq(Item)
    BY <1>1, <1>2, <2>1, Received DEF ReceiveData, IsOpen
  <2>3. /\ file' \in [Fd -> File]
        /\ \A h \in Fd : file'[h].open = file[h].open
    BY <1>1, <2>1, <2>2, FileRx
  <2> QED BY <1>2, <2>3 DEF ReceiveData
<1>3. CASE ReceiveEof(s)
  BY <1>1, <1>3 DEF ReceiveEof
<1>4. ASSUME Readable(f), file' = [file EXCEPT ![f].rx = Tail(@)]
      PROVE  /\ file' \in [Fd -> File]
             /\ \A h \in Fd : file'[h].open = file[h].open
  <2>1. f \in Fd /\ Tail(file[f].rx) \in Seq(Item)
    BY <1>1, <1>4 DEF Readable, IsOpen
  <2>2. file' = [file EXCEPT ![f].rx = Tail(file[f].rx)]
    BY <1>4
  <2> QED BY <1>1, <2>1, <2>2, FileRx
<1>5. CASE ReceiveEmpty(s)
  BY <1>4, <1>5 DEF ReceiveEmpty
<1>6. CASE ReceiveError(s)
  <2>1. CASE UNCHANGED file
    BY <1>1, <1>6, <2>1 DEF ReceiveError
  <2>2. CASE Readable(f) /\ file' = [file EXCEPT ![f].rx = Tail(@)]
    BY <1>4, <1>6, <2>2 DEF ReceiveError
  <2> QED BY <1>6, <2>1, <2>2 DEF ReceiveError
<1> QED BY <1>2, <1>3, <1>5, <1>6 DEF Receive

\* So does what arrives.
LEMMA ArriveFile ==
  ASSUME OwnInd, NEW s \in Sock, Arrive(s)
  PROVE  /\ file' \in [Fd -> File]
         /\ \A f \in Fd : file'[f].open = file[f].open
         /\ UNCHANGED <<sockets, active, id, incoming, taken, cycleVars>>
<1> DEFINE f == id[s]
           rx == file[f].rx
<1>1. f \in Fd /\ file \in [Fd -> File] /\ rx \in Seq(Item)
  BY DEF OwnInd, File, Arrive, ArriveData, ArriveEmpty, ArriveEof, ArriveFault, IsOpen
<1>2. Eof \in Item /\ Empty \in Item /\ <<Fault, Eof>> \in Seq(Item) /\ <<Fault>> \in Seq(Item)
  BY DEF Item
<1>3. CASE ArriveData(s)
  <2>1. file[f].sent + 1 \in 0..MaxArrive /\ file[f].sent + 1 \in Item
    BY <1>1, <1>3, ServiceAssumption DEF ArriveData, File, Piece, Item
  <2>2. Append(rx, file[f].sent + 1) \in Seq(Item)
    BY <1>1, <2>1
  <2> DEFINE new == [file[f] EXCEPT !.rx = Append(rx, file[f].sent + 1), !.sent = @ + 1]
  <2>3. file' = [file EXCEPT ![f] = new]
    BY <1>3 DEF ArriveData
  <2>4. new \in File /\ new.open = file[f].open
    BY <1>1, <2>1, <2>2 DEF File
  <2> HIDE DEF new
  <2>5. file' \in [Fd -> File] /\ \A h \in Fd : file'[h].open = file[h].open
    BY <1>1, <2>3, <2>4
  <2> QED BY <1>3, <2>5 DEF Arrive, ArriveData
<1>4. CASE ArriveEof(s)
  <2>1. Append(rx, Eof) \in Seq(Item)
    BY <1>1, <1>2
  <2>2. file' = [file EXCEPT ![f].rx = Append(rx, Eof)]
    BY <1>4 DEF ArriveEof
  <2>3. /\ file' \in [Fd -> File]
        /\ \A h \in Fd : file'[h].open = file[h].open
    BY <1>1, <2>1, <2>2, FileRx
  <2> QED BY <1>4, <2>3 DEF Arrive, ArriveEof
<1>5. CASE ArriveFault(s)
  <2>1. rx \o <<Fault, Eof>> \in Seq(Item) /\ <<Fault>> \o rx \in Seq(Item)
    BY <1>1, <1>2
  <2>2. \/ file' = [file EXCEPT ![f].rx = rx \o <<Fault, Eof>>]
        \/ file' = [file EXCEPT ![f].rx = <<Fault>> \o rx]
    BY <1>5 DEF ArriveFault
  <2>3. /\ file' \in [Fd -> File]
        /\ \A h \in Fd : file'[h].open = file[h].open
    BY <1>1, <2>1, <2>2, FileRx
  <2> QED BY <1>5, <2>3 DEF Arrive, ArriveFault
<1>6. CASE ArriveEmpty(s)
  <2>1. Append(rx, Empty) \in Seq(Item)
    BY <1>1, <1>2
  <2>2. file' = [file EXCEPT ![f].rx = Append(rx, Empty)]
    BY <1>6 DEF ArriveEmpty
  <2>3. /\ file' \in [Fd -> File]
        /\ \A h \in Fd : file'[h].open = file[h].open
    BY <1>1, <2>1, <2>2, FileRx
  <2> QED BY <1>6, <2>3 DEF Arrive, ArriveEmpty
<1> QED BY <1>3, <1>4, <1>5, <1>6 DEF Arrive

\* Closed and new descriptors are descriptors.
LEMMA FileTypes == ClosedFile \in File /\ NewFile \in File /\ NewFile.open /\ ~ClosedFile.open
<1>1. <<>> \in Seq(Item) /\ 0 \in 0..MaxArrive
  BY ServiceAssumption
<1> QED BY <1>1 DEF ClosedFile, NewFile, File

Calling == [op : Ops, sock : Sock \union {NoFd}, dispose : BOOLEAN]

\* What a call has still to do has its type wherever it is set.
LEMMA CallTypes ==
  /\ NoCall \in Calling
  /\ \A op \in Ops, s \in Sock :
       Begin(op, s) => call' \in Calling /\ call'.op = op /\ call'.sock = s
  /\ \A op \in Ops :
       call \in Calling /\ Continue(op) =>
         /\ call' \in Calling
         /\ call'.op = op /\ call'.sock = call.sock /\ call'.dispose = call.dispose
  /\ Finish => call' \in Calling /\ call'.op = "none"
<1>1. NoCall \in Calling
  BY DEF NoCall, Calling, Ops
<1>2. ASSUME NEW op \in Ops, NEW s \in Sock, Begin(op, s)
      PROVE  call' \in Calling /\ call'.op = op /\ call'.sock = s
  BY <1>2 DEF Begin, Calling
<1>3. ASSUME NEW op \in Ops, call \in Calling, Continue(op)
      PROVE  /\ call' \in Calling
             /\ call'.op = op /\ call'.sock = call.sock /\ call'.dispose = call.dispose
  BY <1>3 DEF Continue, Calling
<1>4. Finish => call'.op = "none"
  BY DEF Finish, NoCall
<1> QED BY <1>1, <1>2, <1>3, <1>4 DEF Finish

\* Where no sync Connect is in progress no descriptor is blocking, and one in
\* progress goes on for the same open descriptor.
LEMMA NoneBlocking ==
  ASSUME OwnInd, call.op # "connect", blocking' \subseteq blocking
  PROVE  blocking' \subseteq {f \in Fd : Connecting(f)'}
BY DEF OwnInd, SocketsTypeOK, Connecting

LEMMA BlockingStays ==
  ASSUME OwnInd, blocking' \subseteq blocking, UNCHANGED <<call, id>>,
         \A f \in Fd : file'[f].open = file[f].open
  PROVE  blocking' \subseteq {f \in Fd : Connecting(f)'}
BY DEF OwnInd, SocketsTypeOK, Connecting

\* A new object keeps them: its descriptor was nobody's.
LEMMA MakeOwns ==
  ASSUME OwnInd, Idle,
         NEW s \in Sock, NEW f \in Fd, Make(s, f),
         \/ UNCHANGED <<call, link>>
         \/ Begin("add", s) /\ link' = [link EXCEPT ![f] = "linked"]
  PROVE  OwnInd'
<1>1. /\ alive' = [alive EXCEPT ![s] = TRUE]
      /\ file' = [file EXCEPT ![f] = NewFile]
      /\ id' = [id EXCEPT ![s] = f]
      /\ UNCHANGED <<sockets, blocking, stuck>>
      /\ ~alive[s] /\ ~file[f].open
  BY DEF Make
<1>2. SocketsTypeOK'
  <2>1. /\ alive' \in [Sock -> BOOLEAN]
        /\ id' \in [Sock -> Fd \union {NoFd}]
    BY <1>1 DEF OwnInd, SocketsTypeOK
  <2>2. call' \in Calling
    BY CallTypes DEF OwnInd, SocketsTypeOK, Calling, Ops
  <2>3. link' \in [Fd -> {"none", "listening", "connecting", "linked"}]
    BY DEF OwnInd, SocketsTypeOK
  <2>4. blocking' \subseteq {h \in Fd : Connecting(h)'}
    BY <1>1, NoneBlocking DEF Idle
  <2> QED BY <1>1, <2>1, <2>2, <2>3, <2>4 DEF OwnInd, SocketsTypeOK, Calling
<1>3. file' \in [Fd -> File]
  BY <1>1, FileTypes DEF OwnInd
<1>4. id[s] = NoFd /\ \A s2 \in Sock : id[s2] # f
  BY <1>1, ServiceAssumption DEF OwnInd, Held
<1>5. Held'
  <2>1. \A s2 \in Sock : id'[s2] = IF s2 = s THEN f ELSE id[s2]
    BY <1>1 DEF OwnInd, SocketsTypeOK
  <2>2. \A h \in Fd : file'[h].open <=> h = f \/ file[h].open
    BY <1>1, FileTypes DEF OwnInd
  <2>3. \A s2 \in Sock : alive'[s2] <=> s2 = s \/ alive[s2]
    BY <1>1 DEF OwnInd, SocketsTypeOK
  <2>4. \A s2 \in Sock : id[s2] \in Fd \union {NoFd}
    BY DEF OwnInd, SocketsTypeOK
  <2>5. \A s1, s2 \in Sock : s1 # s2 /\ id'[s1] = id'[s2] => id'[s1] = NoFd
    BY <1>4, <2>1 DEF OwnInd, Held
  <2>6. \A s2 \in Sock : id'[s2] # NoFd => alive'[s2] /\ file'[id'[s2]].open
    BY <2>1, <2>2, <2>3, <2>4 DEF OwnInd, Held
  <2>7. \A h \in Fd : file'[h].open => \E s2 \in Sock : id'[s2] = h
    BY <1>4, <2>1, <2>2, ServiceAssumption DEF OwnInd, Held
  <2> QED BY <2>5, <2>6, <2>7 DEF Held
<1>6. CallOK'
  BY DEF Idle, Begin, OwnInd, CallOK
<1> QED BY <1>2, <1>3, <1>5, <1>6 DEF OwnInd

\* Closing a descriptor keeps them: the object forgets it in the same step.
LEMMA InvalidateOwns ==
  ASSUME OwnInd, NEW s \in Sock, Invalidate(s), call.op # "connect",
         UNCHANGED <<sockets, alive, stuck>>,
         call' \in [op : Ops, sock : Sock \union {NoFd}, dispose : BOOLEAN],
         call'.op # "none" => call'.sock \in Sock,
         call'.op = "delete" => call'.sock = s
  PROVE  OwnInd'
<1> DEFINE f == id[s]
<1>1. /\ file' = IF f \in Fd THEN [file EXCEPT ![f] = ClosedFile] ELSE file
      /\ id' = [id EXCEPT ![s] = NoFd]
      /\ blocking' \subseteq blocking
  BY DEF Invalidate
<1>2. SocketsTypeOK'
  BY <1>1, NoneBlocking DEF Invalidate, OwnInd, SocketsTypeOK
<1>3. file' \in [Fd -> File]
  BY <1>1, FileTypes DEF OwnInd
<1>4. Held'
  <2>1. \A s2 \in Sock : id'[s2] = IF s2 = s THEN NoFd ELSE id[s2]
    BY <1>1 DEF OwnInd, SocketsTypeOK
  <2>2. \A h \in Fd : file'[h].open <=> h # f /\ file[h].open
    BY <1>1, FileTypes DEF OwnInd
  <2>3. \A s2 \in Sock : id[s2] \in Fd \union {NoFd}
    BY DEF OwnInd, SocketsTypeOK
  <2>4. \A s1, s2 \in Sock : s1 # s2 /\ id'[s1] = id'[s2] => id'[s1] = NoFd
    BY <2>1 DEF OwnInd, Held
  <2>5. \A s2 \in Sock : id'[s2] # NoFd => alive'[s2] /\ file'[id'[s2]].open
    BY <2>1, <2>2, <2>3 DEF OwnInd, Held
  <2>6. \A h \in Fd : file'[h].open => \E s2 \in Sock : id'[s2] = h
    BY <2>1, <2>2, <2>3, ServiceAssumption DEF OwnInd, Held
  <2> QED BY <2>4, <2>5, <2>6 DEF Held
<1>5. CallOK'
  BY <1>1 DEF CallOK, OwnInd, SocketsTypeOK
<1> QED BY <1>2, <1>3, <1>4, <1>5 DEF OwnInd

\* The steps that open and close nothing keep them.
LEMMA OthersOwn ==
  ASSUME OwnInd,
         sockets' \subseteq Sock,
         file' \in [Fd -> File],
         \A f \in Fd : file'[f].open = file[f].open,
         UNCHANGED id,
         SocketsTypeOK',
         \A s \in Sock : id[s] # NoFd => alive'[s],
         CallOK'
  PROVE  OwnInd'
<1>1. \A s \in Sock : id[s] # NoFd => id[s] \in Fd
  BY DEF OwnInd, SocketsTypeOK
<1> QED BY <1>1 DEF OwnInd, Held

\* What a call has still to do keeps them.
LEMMA ProceedOwns ==
  ASSUME OwnInd, Proceed
  PROVE  OwnInd'
<1>1. call \in Calling
  BY DEF OwnInd, SocketsTypeOK, Calling
<1>2. \A op \in Ops : Continue(op) =>
        /\ call' \in Calling
        /\ call'.op = op /\ call'.sock = call.sock /\ call'.dispose = call.dispose
  BY <1>1, CallTypes
<1>3. Finish => call' \in Calling /\ call'.op = "none"
  BY CallTypes
<1>4. CASE ConnectSyncEnds
  <2>1. /\ call.sock \in Sock /\ UNCHANGED <<vars, alive, stuck>>
        /\ call.op = "connect" /\ blocking' = blocking \ {id[call.sock]}
    BY <1>4 DEF ConnectSyncEnds, OwnInd, CallOK
  <2>2. blocking' = {}
    BY <2>1 DEF OwnInd, SocketsTypeOK, Connecting
  <2>3. \/ Begin("add", call.sock)
        \/ Finish
    BY <1>4 DEF ConnectSyncEnds, Connected
  <2>4. /\ call' \in Calling
        /\ (call'.op = "add" /\ call'.sock = call.sock) \/ call'.op = "none"
    BY <2>1, <2>3, CallTypes DEF Ops
  <2>5. link' \in [Fd -> {"none", "listening", "connecting", "linked"}]
    BY <1>4 DEF ConnectSyncEnds, Connected, NotConnected, OwnInd, SocketsTypeOK
  <2>6. CallOK'
    BY <2>1, <2>4 DEF CallOK
  <2>7. SocketsTypeOK'
    BY <2>1, <2>2, <2>4, <2>5 DEF OwnInd, SocketsTypeOK, Calling, vars, serviceVars
  <2> QED BY <2>1, <2>6, <2>7, OthersOwn
        DEF OwnInd, Held, SocketsTypeOK, vars, serviceVars
<1>5. CASE AddSocket \/ RemoveSocket
  <2>1. /\ sockets' \subseteq Sock
        /\ UNCHANGED <<id, file, alive, link, blocking, stuck>>
    BY <1>5 DEF AddSocket, RemoveSocket, Add, Remove, OwnInd, SocketsTypeOK, CallOK
  <2>2. \/ Continue("check")
        \/ Continue("close")
    BY <1>5 DEF AddSocket, RemoveSocket
  <2>3. call.op \notin {"none", "connect"} /\ call' \in Calling /\ call'.op \in {"check", "close"}
        /\ call'.sock = call.sock
    BY <1>2, <1>5, <2>2 DEF AddSocket, RemoveSocket, Ops
  <2>4. SocketsTypeOK' /\ CallOK'
    BY <2>1, <2>3, NoneBlocking DEF OwnInd, SocketsTypeOK, CallOK, Calling
  <2> QED BY <2>1, <2>4, OthersOwn DEF OwnInd, Held
<1>6. CASE CheckPoolInvariant
  <2>1. UNCHANGED <<sockets, id, file, alive, link, blocking, stuck>>
    BY <1>6 DEF CheckPoolInvariant, vars, serviceVars
  <2>2. /\ call' \in Calling
        /\ call'.op \in {"none", "aborted"}
        /\ call'.op = "aborted" => call'.sock \in Sock
    BY <1>2, <1>3, <1>6 DEF CheckPoolInvariant, Ops, OwnInd, CallOK
  <2>3. SocketsTypeOK' /\ CallOK'
    BY <1>6, <2>1, <2>2, NoneBlocking DEF CheckPoolInvariant, OwnInd, SocketsTypeOK, CallOK, Calling
  <2> QED BY <2>1, <2>3, OthersOwn DEF OwnInd, Held, SocketsTypeOK
<1>7. CASE CloseSocket
  <2>1. /\ call.sock \in Sock /\ Invalidate(call.sock)
        /\ UNCHANGED <<sockets, alive, stuck>> /\ call.op # "connect"
    BY <1>7 DEF CloseSocket, OwnInd, CallOK
  <2>2. /\ call' \in Calling
        /\ call'.op # "none" => call'.sock = call.sock
    BY <1>2, <1>3, <1>7 DEF CloseSocket, Ops
  <2> QED BY <2>1, <2>2, InvalidateOwns DEF Calling
<1>8. CASE Delete
  <2>1. /\ call.sock \in Sock /\ id[call.sock] = NoFd
        /\ alive' = [alive EXCEPT ![call.sock] = FALSE]
        /\ UNCHANGED <<sockets, id, file, link, blocking, stuck>>
    BY <1>8 DEF Delete, OwnInd, CallOK, vars, serviceVars
  <2>2. SocketsTypeOK' /\ CallOK'
    BY <1>3, <1>8, <2>1, NoneBlocking DEF Delete, OwnInd, SocketsTypeOK, CallOK, Calling
  <2>3. \A s \in Sock : id[s] # NoFd => alive'[s]
    BY <2>1 DEF OwnInd, Held, SocketsTypeOK
  <2> QED BY <2>1, <2>2, <2>3, OthersOwn DEF OwnInd, Held, SocketsTypeOK
<1> QED BY <1>4, <1>5, <1>6, <1>7, <1>8 DEF Proceed

\* The calls that begin something, or change nothing but the kernel's view of
\* a connection, keep them.
LEMMA BeginOwns ==
  ASSUME OwnInd, NEW s \in Sock,
         \/ Bind(s) \/ Listen(s) \/ ConnectAsync(s) \/ ConnectSync(s)
         \/ CloseReturns(s) \/ CloseForces(s) \/ Dispose(s)
  PROVE  OwnInd'
<1>1. UNCHANGED <<vars, alive, stuck>>
  BY DEF Bind, Listen, ConnectAsync, ConnectSync, CloseReturns, CloseForces, Dispose,
         allVars, scriptVars
<1>2. \/ UNCHANGED call
      \/ \E op \in Ops \ {"delete"} : Begin(op, s)
      \/ Dispose(s)
  BY DEF Bind, Listen, ConnectAsync, Connected, ConnectSync, CloseReturns, CloseForces,
         allVars, scriptVars, Ops
<1>3. /\ call' \in Calling
      /\ \/ UNCHANGED call
         \/ call'.sock = s /\ (call'.op = "delete" => id[s] = NoFd)
  <2>1. CASE UNCHANGED call
    BY <2>1 DEF OwnInd, SocketsTypeOK, Calling
  <2>2. ASSUME NEW op \in Ops \ {"delete"}, Begin(op, s)
        PROVE  call' \in Calling /\ call'.sock = s /\ call'.op # "delete"
    BY <2>2, CallTypes
  <2>3. CASE Dispose(s)
    BY <2>3 DEF Dispose, Calling, Ops
  <2> QED BY <1>2, <2>1, <2>2, <2>3
<1>4. CallOK'
  BY <1>1, <1>3 DEF OwnInd, CallOK, vars, serviceVars
<1>5. link' \in [Fd -> {"none", "listening", "connecting", "linked"}]
  BY DEF Bind, Listen, ConnectAsync, Connected, NotConnected, Connectable, ConnectSync, CloseReturns,
         CloseForces, Dispose, IsOpen, allVars, scriptVars, OwnInd, SocketsTypeOK
<1>6. blocking' \subseteq {f \in Fd : Connecting(f)'}
  <2>1. call.op = "none"
    BY DEF Bind, Listen, ConnectAsync, ConnectSync, MayConnect, CloseReturns, CloseForces, Dispose,
           Called, Idle
  <2>2. CASE ConnectSync(s)
    <3>1. blocking' \subseteq {id[s]} \ {NoFd} /\ Begin("connect", s) /\ UNCHANGED vars
      BY <2>1, <2>2 DEF ConnectSync, OwnInd, SocketsTypeOK, Connecting
    <3>2. call'.op = "connect" /\ call'.sock = s
      BY <3>1, CallTypes DEF Ops
    <3>3. id[s] # NoFd => id[s] \in Fd /\ file[id[s]].open
      BY DEF OwnInd, SocketsTypeOK, Held
    <3> QED BY <3>1, <3>2, <3>3 DEF Connecting, vars, serviceVars
  <2>3. CASE ~ConnectSync(s)
    <3>1. UNCHANGED blocking
      BY <2>3 DEF Bind, Listen, ConnectAsync, CloseReturns, CloseForces, Dispose, allVars, scriptVars
    <3> QED BY <2>1, <3>1, NoneBlocking
  <2> QED BY <2>2, <2>3
<1>7. SocketsTypeOK'
  BY <1>1, <1>3, <1>5, <1>6 DEF OwnInd, SocketsTypeOK, Calling, vars, serviceVars
<1> QED BY <1>1, <1>4, <1>7, OthersOwn
        DEF OwnInd, Held, SocketsTypeOK, vars, serviceVars

\* Receiving keeps them.
LEMMA RecvOwns ==
  ASSUME OwnInd, NEW s \in Sock,
         RecvError(s) \/ Recv(s) \/ RecvData(s) \/ RecvFrom(s)
  PROVE  OwnInd'
<1>1. CASE RecvError(s)
  BY <1>1, InvalidateOwns DEF RecvError, Called, Idle, OwnInd, SocketsTypeOK
<1>2. CASE Recv(s) \/ RecvData(s)
  <2>1. /\ UNCHANGED <<sockets, id, file, alive, link, blocking, stuck>>
        /\ UNCHANGED call \/ Begin("close", s)
        /\ call.op = "none"
    BY <1>2 DEF Recv, RecvData, RecvResult, Called, Idle
  <2>2. /\ call' \in Calling
        /\ UNCHANGED call \/ (call'.op = "close" /\ call'.sock = s)
    BY <2>1, CallTypes DEF Ops, OwnInd, SocketsTypeOK, Calling
  <2>3. SocketsTypeOK' /\ CallOK'
    BY <2>1, <2>2, NoneBlocking DEF OwnInd, SocketsTypeOK, CallOK, Calling
  <2> QED BY <2>1, <2>3, OthersOwn DEF OwnInd, Held, SocketsTypeOK
<1>3. CASE RecvFrom(s)
  <2> DEFINE f == id[s]
  <2>1. /\ f \in Fd /\ Tail(file[f].rx) \in Seq(Item)
        /\ file' = [file EXCEPT ![f].rx = Tail(file[f].rx)]
        /\ UNCHANGED <<sockets, id, call, alive, link, blocking, stuck>>
    <3>1. f \in Fd /\ file[f].rx # <<>>
      BY <1>3 DEF RecvFrom, Readable, IsOpen
    <3>2. file[f].rx \in Seq(Item)
      BY <3>1 DEF OwnInd, File
    <3> QED BY <1>3, <3>1, <3>2 DEF RecvFrom, scriptVars
  <2>2. /\ file' \in [Fd -> File]
        /\ \A h \in Fd : file'[h].open = file[h].open
    BY <2>1, FileRx DEF OwnInd
  <2>3. SocketsTypeOK' /\ CallOK'
    BY <2>1, <2>2, BlockingStays DEF OwnInd, SocketsTypeOK, CallOK
  <2> QED BY <2>1, <2>2, <2>3, OthersOwn DEF OwnInd, Held, SocketsTypeOK
<1> QED BY <1>1, <1>2, <1>3

\* The read cycle, also the one that waits inside recv, and the kernel keep
\* them.
LEMMA CycleOwns ==
  ASSUME OwnInd,
         \/ \E s \in Sock : ScriptArrive(s)
         \/ \E t \in Thread : ScriptCycle(t) \/ Interrupted(t)
  PROVE  OwnInd'
<1>1. ASSUME UNCHANGED scriptVars,
             sockets' \subseteq sockets, UNCHANGED id,
             file' \in [Fd -> File], \A f \in Fd : file'[f].open = file[f].open
      PROVE  OwnInd'
  <2>1. SocketsTypeOK' /\ CallOK'
    BY <1>1, BlockingStays DEF OwnInd, SocketsTypeOK, CallOK, scriptVars
  <2> QED BY <1>1, <2>1, OthersOwn DEF OwnInd, Held, SocketsTypeOK, scriptVars
<1>2. ASSUME NEW s \in Sock, ScriptArrive(s)
      PROVE  OwnInd'
  BY <1>1, <1>2, ArriveFile DEF ScriptArrive
<1>3. ASSUME NEW t \in Thread, CycleSteps(t) \/ Interrupted(t)
      PROVE  OwnInd'
  <2>1. UNCHANGED <<sockets, id, file, scriptVars>>
    BY <1>3 DEF CycleSteps, Interrupted, Step, Watch, SelectFinds, SelectSleeps,
       SelectFails, SelectInterrupted, Enter, Leave, Exit, Return, serviceVars
  <2> QED BY <1>1, <2>1 DEF OwnInd
<1>4. ASSUME NEW t \in Thread, NEW s \in Sock, CycleVisits(t, s)
      PROVE  OwnInd'
  <2>1. CASE Receive(s)
    BY <1>1, <1>4, <2>1, ReceiveFile DEF CycleVisits
  <2>2. CASE UNCHANGED serviceVars
    BY <1>1, <1>4, <2>2 DEF CycleVisits, serviceVars, OwnInd
  <2> QED BY <1>4, <2>1, <2>2 DEF CycleVisits, Visit
<1>5. ASSUME NEW t \in Thread,
             CycleUnblocks(t) \/ \E s \in Sock : CycleBlocks(t, s)
      PROVE  OwnInd'
  <2>1. UNCHANGED <<vars, call, alive, link, blocking>>
    BY <1>5 DEF CycleUnblocks, CycleBlocks
  <2>2. stuck' \in Fd \union {NoFd}
    BY <1>5 DEF CycleUnblocks, CycleBlocks, Waits, OwnInd, SocketsTypeOK
  <2>3. SocketsTypeOK' /\ CallOK'
    BY <2>1, <2>2, BlockingStays DEF OwnInd, SocketsTypeOK, CallOK, vars, serviceVars
  <2> QED BY <2>1, <2>3, OthersOwn DEF OwnInd, Held, SocketsTypeOK, vars, serviceVars
<1> QED BY <1>2, <1>3, <1>4, <1>5 DEF ScriptCycle

\* Every step of the script, the read cycle and the kernel keeps them.
LEMMA OwnNext == OwnInd /\ [SocketsNext]_allVars => OwnInd'
<1> SUFFICES ASSUME OwnInd, [SocketsNext]_allVars PROVE OwnInd'
  OBVIOUS
<1>1. CASE UNCHANGED allVars
  <2>1. SocketsTypeOK' /\ CallOK'
    BY <1>1, BlockingStays DEF OwnInd, SocketsTypeOK, CallOK, allVars, scriptVars, vars, serviceVars
  <2> QED BY <1>1, <2>1, OthersOwn
          DEF OwnInd, Held, SocketsTypeOK, allVars, scriptVars, vars, serviceVars
<1>2. ASSUME NEW s \in Sock, NEW f \in Fd, Create(s, f)
      PROVE  OwnInd'
  BY <1>2, MakeOwns DEF Create
<1>3. ASSUME NEW s \in Sock, NEW conn \in Sock, NEW f \in Fd, Accept(s, conn, f)
      PROVE  OwnInd'
  BY <1>3, MakeOwns DEF Accept, Called
<1>4. ASSUME NEW s \in Sock, CreateFails(s)
      PROVE  OwnInd'
  <2>1. /\ id[s] = NoFd
        /\ id' = [id EXCEPT ![s] = NoFd]
        /\ alive' = [alive EXCEPT ![s] = TRUE]
        /\ UNCHANGED <<sockets, file, call, link, blocking, stuck>>
    BY <1>4 DEF CreateFails, OwnInd, Held
  <2>2. id' = id
    BY <2>1 DEF OwnInd, SocketsTypeOK
  <2>3. SocketsTypeOK' /\ CallOK'
    BY <2>1, <2>2, BlockingStays DEF OwnInd, SocketsTypeOK, CallOK
  <2>4. \A s2 \in Sock : id[s2] # NoFd => alive'[s2]
    BY <2>1 DEF OwnInd, Held, SocketsTypeOK
  <2> QED BY <2>1, <2>2, <2>3, <2>4, OthersOwn DEF OwnInd, Held, SocketsTypeOK
<1>5. ASSUME NEW s \in Sock,
             \/ Bind(s) \/ Listen(s) \/ ConnectAsync(s) \/ ConnectSync(s)
             \/ CloseReturns(s) \/ CloseForces(s) \/ Dispose(s)
      PROVE  OwnInd'
  BY <1>5, BeginOwns
<1>6. ASSUME NEW s \in Sock, RecvError(s) \/ Recv(s) \/ RecvData(s) \/ RecvFrom(s)
      PROVE  OwnInd'
  BY <1>6, RecvOwns
<1> QED BY <1>1, <1>2, <1>3, <1>4, <1>5, <1>6, ProceedOwns, CycleOwns DEF SocketsNext

\* Before the first call there is no object and no open descriptor.
LEMMA OwnInit == SocketsInit => OwnInd
BY FileTypes
   DEF SocketsInit, PoolInit, ServiceInit, OwnInd, SocketsTypeOK, Held, CallOK, NoCall, Ops

\* They are invariants, whatever calls the script makes.
THEOREM ScriptInductive == SocketsSpec => []OwnInd
BY OwnInit, OwnNext, PTL DEF SocketsSpec

\* Descriptors and objects belong to each other, whatever calls the script
\* makes: nothing is closed twice, used after it was given away, or leaked.
THEOREM DescriptorsAreOwned == SocketsSpec => []Owned
<1>1. OwnInd => Owned
  <2> SUFFICES ASSUME OwnInd PROVE Owned
    OBVIOUS
  <2>1. \A s \in Sock : id[s] # NoFd => id[s] \in Fd
    BY DEF OwnInd, SocketsTypeOK
  <2> QED BY <2>1 DEF OwnInd, Held, Owned
<1> QED BY <1>1, ScriptInductive, PTL

\* The variables of the script's side keep their types.
THEOREM ScriptTypeCorrect == SocketsSpec => []SocketsTypeOK
<1>1. OwnInd => SocketsTypeOK
  BY DEF OwnInd
<1> QED BY <1>1, ScriptInductive, PTL

\* The pool is emptied by the read cycle and the script, and is left without
\* a thread only when it is empty or by the add that could not make one.
LEMMA NoticedNext == OwnInd /\ FailureIsNoticed /\ [SocketsNext]_allVars => FailureIsNoticed'
<1> SUFFICES ASSUME OwnInd, FailureIsNoticed, [SocketsNext]_allVars
             PROVE  FailureIsNoticed'
  OBVIOUS
<1>1. call \in Calling
  BY DEF OwnInd, SocketsTypeOK, Calling
<1>2. ASSUME UNCHANGED <<sockets, active>>,
             UNCHANGED call \/ call.op \notin {"check", "aborted"}
      PROVE  FailureIsNoticed'
  BY <1>2 DEF FailureIsNoticed
<1>3. CASE AddSocket
  <2>1. call'.op = "check"
    BY <1>1, <1>3, CallTypes DEF AddSocket, Ops
  <2> QED BY <2>1 DEF FailureIsNoticed
<1>4. CASE CheckPoolInvariant
  <2>1. (UNCHANGED <<sockets, active>> /\ (sockets # {} => active)) \/ call'.op = "aborted"
    BY <1>1, <1>4, CallTypes DEF CheckPoolInvariant, PoolOk, Ops, vars, serviceVars
  <2> QED BY <2>1 DEF FailureIsNoticed
<1>5. CASE RemoveSocket
  BY <1>5 DEF RemoveSocket, Remove, FailureIsNoticed
<1>6. CASE ConnectSyncEnds \/ CloseSocket \/ Delete
  BY <1>2, <1>6 DEF ConnectSyncEnds, CloseSocket, Delete, vars, serviceVars
<1>7. ASSUME NEW s \in Sock,
             \/ \E f \in Fd : Create(s, f) \/ \E conn \in Sock : Accept(s, conn, f)
             \/ CreateFails(s) \/ Bind(s) \/ Listen(s) \/ ConnectAsync(s) \/ ConnectSync(s)
             \/ CloseReturns(s) \/ CloseForces(s) \/ Dispose(s)
             \/ RecvError(s) \/ Recv(s) \/ RecvData(s) \/ RecvFrom(s)
      PROVE  FailureIsNoticed'
  <2>1. call.op = "none"
    BY <1>7 DEF Create, Accept, CreateFails, Bind, Listen, ConnectAsync, ConnectSync,
       CloseReturns, CloseForces, Dispose, RecvError, Recv, RecvData, RecvResult, RecvFrom,
       MayConnect, Called, Idle
  <2>2. UNCHANGED <<sockets, active>>
    BY <1>7 DEF Create, Accept, Make, CreateFails, Bind, Listen, ConnectAsync, ConnectSync,
       CloseReturns, CloseForces, Dispose, RecvError, Recv, RecvData, RecvResult, RecvFrom,
       vars, serviceVars, allVars
  <2> QED BY <1>2, <2>1, <2>2
<1>8. ASSUME NEW s \in Sock, ScriptArrive(s)
      PROVE  FailureIsNoticed'
  BY <1>2, <1>8, ArriveFile DEF ScriptArrive, scriptVars
<1>9. ASSUME NEW t \in Thread, ScriptCycle(t) \/ Interrupted(t)
      PROVE  FailureIsNoticed'
  <2>1. UNCHANGED call
    BY <1>9 DEF ScriptCycle, Interrupted, CycleSteps, CycleVisits, CycleBlocks,
       CycleUnblocks, scriptVars
  <2>2. CASE CycleSteps(t) \/ Interrupted(t)
    <3>1. (sockets = {} /\ sockets' = {}) \/ UNCHANGED <<sockets, active>>
      BY <2>2 DEF CycleSteps, Interrupted, Step, Watch, SelectFinds, SelectSleeps,
         SelectFails, SelectInterrupted, Enter, Leave, Exit, Return, serviceVars
    <3> QED BY <1>2, <2>1, <3>1 DEF FailureIsNoticed
  <2>3. ASSUME NEW s \in Sock, CycleVisits(t, s)
        PROVE  FailureIsNoticed'
    <3>1. sockets' \subseteq sockets /\ UNCHANGED active
      BY <2>3, ReceiveFile DEF CycleVisits, Visit, serviceVars
    <3> QED BY <2>1, <3>1 DEF FailureIsNoticed
  <2>4. CASE UNCHANGED vars
    BY <1>2, <2>1, <2>4 DEF vars, serviceVars
  <2> QED BY <1>9, <2>2, <2>3, <2>4 DEF ScriptCycle, CycleBlocks, CycleUnblocks
<1>10. CASE UNCHANGED allVars
  BY <1>2, <1>10 DEF allVars, scriptVars, vars, serviceVars
<1> QED BY <1>3, <1>4, <1>5, <1>6, <1>7, <1>8, <1>9, <1>10 DEF SocketsNext, Proceed

\* A thread that could not be created is noticed by the call that needed it,
\* whatever the script calls and the read cycle does in between.
THEOREM ThreadFailureIsNoticed == SocketsSpec => []FailureIsNoticed
<1>1. SocketsInit => FailureIsNoticed
  BY DEF SocketsInit, PoolInit, ServiceInit, FailureIsNoticed
<1> QED BY <1>1, ScriptInductive, NoticedNext, PTL DEF SocketsSpec

(***************************************************************************)
(* A script that keeps the pool's discipline without knowing it: it never  *)
(* connects a datagram socket that is bound or connected already, and      *)
(* takes no strings that may begin with a zero character by Recv.  The     *)
(* runs recv_zero and sockets_streams show that both can break it.         *)
(***************************************************************************)
Disciplined ==
  /\ "Reconnect" \notin Calls
  /\ "Recv" \in Calls => Zero \intersect Piece = {}

\* A socket that was not connected, or that is just about to be registered,
\* has received nothing.
Fresh ==
  \A s \in Sock :
    id[s] # NoFd /\ (link[id[s]] # "linked" \/ (call.op = "add" /\ call.sock = s)) =>
      s \notin sockets /\ incoming[s] = EmptyBuffer /\ taken[s] = 0

\* A closed descriptor is not connected, that of a datagram socket that waits
\* to be is not yet, and one whose socket is to be registered is.
LinkOK ==
  /\ \A f \in Fd : ~file[f].open => link[f] = "none"
  /\ call.op = "connect" =>
       call.sock \in Stream \/ id[call.sock] = NoFd \/ link[id[call.sock]] # "linked"
  /\ call.op = "add" => id[call.sock] # NoFd /\ link[id[call.sock]] = "linked"

\* What is about to be closed or deleted is not registered.
Quiet == call.op \in {"close", "delete"} => call.sock \notin sockets

\* No registered socket has received an error or the end of its stream.
Clean ==
  \A s \in sockets :
    /\ incoming[s].error = NoError
    /\ s \in Stream => \A i \in DOMAIN incoming[s].queue : incoming[s].queue[i] # <<>>

Sound == Fresh /\ LinkOK /\ Quiet /\ Clean /\ RegisteredAreValid

SockInd == OwnInd /\ Ind /\ Sound

\* Closing a descriptor that is not registered is for the pool what a client
\* may do, or nothing.
LEMMA InvalidateDiscards ==
  ASSUME SockInd, NEW s \in Sock, s \notin sockets, Invalidate(s),
         UNCHANGED <<sockets, active, incoming, taken>>
  PROVE  PoolDiscard(s) \/ UNCHANGED vars
<1>1. CASE id[s] = NoFd
  <2>1. id' = id /\ file' = file
    BY <1>1, ServiceAssumption DEF Invalidate, SockInd, Ind, TypeOK
  <2>2. armed' = armed
    BY <1>1, ServiceAssumption DEF Invalidate, SockInd, Ind, TypeOK
  <2> QED BY <2>1, <2>2 DEF Invalidate, vars, serviceVars, cycleVars
<1>2. CASE id[s] # NoFd
  <2>1. id[s] \in Fd /\ IsOpen(id[s])
    BY <1>2 DEF SockInd, OwnInd, Held, SocketsTypeOK, IsOpen
  <2> QED BY <1>2, <2>1 DEF Invalidate, PoolDiscard, Usable, Discard
<1> QED BY <1>1, <1>2

\* A new object is for the pool a client's new socket.
LEMMA MakeOpens ==
  ASSUME SockInd, NEW s \in Sock, NEW f \in Fd, Make(s, f)
  PROVE  PoolOpen(s, f)
<1>1. ~alive[s] /\ ~file[f].open
  BY DEF Make
<1>2. id[s] = NoFd /\ \A s2 \in Sock : id[s2] # f
  BY <1>1, ServiceAssumption DEF SockInd, OwnInd, Held
<1>3. s \notin sockets
  BY <1>2 DEF SockInd, Sound, RegisteredAreValid
<1> QED BY <1>1, <1>2, <1>3 DEF Make, PoolOpen, Open

\* In the buffers of a disciplined script the strings have no zero characters
\* where Recv looks for them.
LEMMA RecvTakes ==
  ASSUME Disciplined, SockInd, NEW s \in Sock, Recv(s) \/ RecvData(s)
  PROVE  /\ PoolTake(s)
         /\ RecvResult(s, Front(incoming[s]), Pop(incoming[s]))
<1>1. ~IsEmpty(incoming[s]) /\ incoming[s] \in Buffers(Piece, Errors)
  BY DEF Recv, RecvData, RecvResult, SockInd, Ind, TypeOK
<1>2. Front(incoming[s]) \in Seq(Piece)
  BY <1>1, PopType
<1>3. RecvResult(s, Front(incoming[s]), Pop(incoming[s]))
  <2>1. CASE RecvData(s)
    BY <2>1 DEF RecvData
  <2>2. CASE Recv(s)
    <3>1. /\ CStr(Front(incoming[s])) = Front(incoming[s])
          /\ AfterCStr(Front(incoming[s])) = <<>>
      BY <1>2, <2>2, WithoutZeros DEF Recv, Disciplined
    <3>2. Extract(incoming[s]) = Pop(incoming[s])
      BY <3>1 DEF Extract
    <3> QED BY <2>2, <3>1, <3>2 DEF Recv
  <2> QED BY <2>1, <2>2
<1>4. PoolTake(s)
  <2>1. /\ ~Locked
        /\ incoming' = [incoming EXCEPT ![s] = Pop(incoming[s])]
        /\ taken' = [taken EXCEPT ![s] = @ + Len(Front(incoming[s]))]
        /\ UNCHANGED <<sockets, active, id, file, cycleVars>>
    BY <1>3 DEF RecvResult
  <2> QED BY <1>1, <2>1 DEF PoolTake, Take
<1> QED BY <1>3, <1>4

\* Every step of a disciplined script is for the pool a step of its clients
\* or nothing, but for RecvFrom, which reads a descriptor without the pool.
LEMMA StepDisciplined ==
  ASSUME Disciplined, SockInd, [SocketsNext]_allVars
  PROVE  PoolNext \/ UNCHANGED vars \/ \E s \in Sock : RecvFrom(s)
<1>1. ASSUME NEW s \in Sock, NEW f \in Fd, Make(s, f)
      PROVE  PoolNext
  BY <1>1, MakeOpens DEF PoolNext
<1>2. ASSUME NEW s \in Sock, CreateFails(s)
      PROVE  PoolNext
  <2>1. id[s] = NoFd
    BY <1>2 DEF CreateFails, SockInd, OwnInd, Held
  <2>2. s \notin sockets /\ id' = id
    BY <1>2, <2>1 DEF CreateFails, SockInd, Sound, RegisteredAreValid, Ind, TypeOK
  <2>3. PoolOpenFails(s)
    BY <1>2, <2>1, <2>2 DEF CreateFails, PoolOpenFails, OpenFails
  <2> QED BY <2>3 DEF PoolNext
<1>3. ASSUME NEW s \in Sock,
             \/ Bind(s) \/ Listen(s) \/ ConnectAsync(s) \/ ConnectSync(s)
             \/ CloseReturns(s) \/ CloseForces(s) \/ Dispose(s)
      PROVE  UNCHANGED vars
  BY <1>3 DEF Bind, Listen, ConnectAsync, ConnectSync, CloseReturns, CloseForces, Dispose,
     allVars
<1>4. ASSUME NEW s \in Sock, RecvError(s)
      PROVE  PoolNext \/ UNCHANGED vars
  <2>1. s \notin sockets
    BY <1>4 DEF RecvError, SockInd, Sound, Clean
  <2> QED BY <1>4, <2>1, InvalidateDiscards DEF RecvError, PoolNext
<1>5. ASSUME NEW s \in Sock, Recv(s) \/ RecvData(s)
      PROVE  PoolNext
  BY <1>5, RecvTakes DEF PoolNext
<1>6. ASSUME NEW s \in Sock, ScriptArrive(s)
      PROVE  PoolNext
  BY <1>6 DEF ScriptArrive, PoolNext
<1>7. CASE Proceed
  <2>1. call.op # "none" => call.sock \in Sock
    BY DEF SockInd, OwnInd, CallOK
  <2>2. CASE ConnectSyncEnds \/ CheckPoolInvariant \/ Delete
    BY <2>2 DEF ConnectSyncEnds, CheckPoolInvariant, Delete
  <2>3. CASE AddSocket \/ RemoveSocket
    BY <2>1, <2>3 DEF AddSocket, RemoveSocket, PoolNext
  <2>4. CASE CloseSocket
    <3>1. call.sock \in Sock /\ call.sock \notin sockets
      BY <2>1, <2>4 DEF CloseSocket, SockInd, Sound, Quiet
    <3> QED BY <2>4, <3>1, InvalidateDiscards DEF CloseSocket, PoolNext
  <2> QED BY <1>7, <2>2, <2>3, <2>4 DEF Proceed
<1>8. ASSUME NEW t \in Thread, ScriptCycle(t) \/ Interrupted(t)
      PROVE  PoolNext \/ UNCHANGED vars
  BY <1>8 DEF ScriptCycle, Interrupted, CycleSteps, CycleVisits, CycleBlocks,
     CycleUnblocks, Cycle, PoolNext
<1>9. CASE UNCHANGED allVars
  BY <1>9 DEF allVars
<1> QED BY <1>1, <1>2, <1>3, <1>4, <1>5, <1>6, <1>7, <1>8, <1>9
        DEF SocketsNext, Create, Accept

\* The steps that change nothing of the pool keep what a disciplined script
\* rests on, when they connect no descriptor but one that was not connected,
\* and go on to register its socket.
LEMMA CallSound ==
  ASSUME SockInd, NEW s \in Sock, UNCHANGED vars,
         \A f \in Fd : link'[f] = link[f] \/ (f = id[s] /\ link[f] # "linked"),
         id[s] = NoFd => link' = link,
         call'.op = "add" =>
           call'.sock = s /\ id[s] # NoFd /\ link[id[s]] # "linked" /\ link'[id[s]] = "linked",
         call'.op = "connect" =>
           call'.sock \in Stream \/ id[call'.sock] = NoFd \/ link'[id[call'.sock]] # "linked",
         call'.op \in {"close", "delete"} => call'.sock \notin sockets
  PROVE  Sound'
<1>1. UNCHANGED <<sockets, id, incoming, taken, file>>
  BY DEF vars, serviceVars
<1>2. \A s2 \in Sock : id[s2] # NoFd => id[s2] \in Fd /\ file[id[s2]].open
  BY DEF SockInd, OwnInd, Held, SocketsTypeOK
<1>3. Fresh'
  <2> SUFFICES ASSUME NEW s2 \in Sock, id[s2] # NoFd,
                      link'[id[s2]] # "linked" \/ (call'.op = "add" /\ call'.sock = s2)
               PROVE  link[id[s2]] # "linked"
    BY <1>1 DEF SockInd, Sound, Fresh
  <2>1. CASE s2 = s
    BY <1>2, <2>1
  <2>2. CASE s2 # s
    BY <1>2, <2>2 DEF SockInd, OwnInd, Held
  <2> QED BY <2>1, <2>2
<1>4. \A f \in Fd : ~file[f].open => link'[f] = "none"
  BY <1>2 DEF SockInd, Sound, LinkOK
<1>5. LinkOK' /\ Quiet' /\ Clean' /\ RegisteredAreValid'
  BY <1>1, <1>4 DEF SockInd, Sound, LinkOK, Quiet, Clean, RegisteredAreValid
<1> QED BY <1>3, <1>5 DEF Sound

\* The calls that begin, wait and end keep it.
LEMMA BeginSound ==
  ASSUME Disciplined, SockInd,
         \/ \E s \in Sock : \/ Bind(s) \/ Listen(s) \/ ConnectAsync(s) \/ ConnectSync(s)
                            \/ CloseReturns(s) \/ CloseForces(s) \/ Dispose(s)
         \/ ConnectSyncEnds \/ CheckPoolInvariant \/ Delete
  PROVE  Sound'
<1>1. /\ call \in Calling
      /\ call.op # "none" => call.sock \in Sock
      /\ link \in [Fd -> {"none", "listening", "connecting", "linked"}]
      /\ \A s \in Sock : id[s] # NoFd => id[s] \in Fd
  BY DEF SockInd, OwnInd, CallOK, SocketsTypeOK, Calling
<1>2. \A s \in Sock : IsOpen(id[s]) => id[s] \in Fd /\ id[s] # NoFd
  BY ServiceAssumption DEF IsOpen
<1>3. \A s \in Sock : id[s] = NoFd => s \notin sockets
  BY DEF SockInd, Sound, RegisteredAreValid
<1>4. Finish => call'.op = "none"
  BY CallTypes
<1>5. \A s \in Sock, op \in Ops : Begin(op, s) => call'.op = op /\ call'.sock = s
  BY CallTypes
<1>6. ASSUME NEW s \in Sock, Bind(s)
      PROVE  Sound'
  BY <1>1, <1>2, <1>5, <1>6, CallSound DEF Bind, Called, Idle, Ops
<1>7. ASSUME NEW s \in Sock, Listen(s)
      PROVE  Sound'
  BY <1>1, <1>2, <1>7, CallSound DEF Listen, Called, Idle
<1>connected. ASSUME NEW s \in Sock, UNCHANGED vars, Connected(s),
                     s \notin Stream => link[id[s]] # "linked"
              PROVE  Sound'
  <2>1. id[s] \in Fd /\ id[s] # NoFd /\ link[id[s]] # "linked"
    BY <1>2, <1>connected DEF Connected, Connectable
  <2>2. call'.op = "add" /\ call'.sock = s
    BY <1>5, <1>connected DEF Connected, Ops
  <2> QED BY <1>1, <1>connected, <2>1, <2>2, CallSound DEF Connected
<1>failed. ASSUME NEW s \in Sock, UNCHANGED vars, NotConnected(s), call'.op = "none"
           PROVE  Sound'
  <2>1. CASE UNCHANGED link
    BY <1>failed, <2>1, CallSound
  <2>2. CASE /\ s \in Stream /\ Connectable(s)
             /\ \E l \in {"none", "connecting"} : link' = [link EXCEPT ![id[s]] = l]
    <3>1. id[s] \in Fd /\ id[s] # NoFd /\ link[id[s]] # "linked"
      BY <1>2, <2>2 DEF Connectable
    <3> QED BY <1>1, <1>failed, <2>2, <3>1, CallSound
  <2> QED BY <1>failed, <2>1, <2>2 DEF NotConnected
<1>8. ASSUME NEW s \in Sock, ConnectAsync(s)
      PROVE  Sound'
  <2>1. UNCHANGED vars /\ call.op = "none"
    BY <1>8 DEF ConnectAsync, MayConnect, Called, Idle
  <2>2. CASE Connected(s)
    <3>1. s \notin Stream => link[id[s]] # "linked"
      BY <1>8, <2>2 DEF ConnectAsync, MayConnect, Again, Disciplined, Connected, Connectable
    <3> QED BY <1>connected, <2>1, <2>2, <3>1
  <2>3. CASE NotConnected(s) /\ UNCHANGED call
    BY <1>failed, <2>1, <2>3
  <2> QED BY <1>8, <2>2, <2>3 DEF ConnectAsync
<1>9. ASSUME NEW s \in Sock, ConnectSync(s)
      PROVE  Sound'
  <2>1. UNCHANGED <<vars, link>> /\ call'.op = "connect" /\ call'.sock = s
    BY <1>5, <1>9 DEF ConnectSync, Ops
  <2>2. s \in Stream \/ id[s] = NoFd \/ link[id[s]] # "linked"
    <3>1. id[s] # NoFd => IsOpen(id[s])
      BY <1>1 DEF SockInd, OwnInd, Held, IsOpen
    <3> QED BY <1>9, <3>1 DEF ConnectSync, MayConnect, Again, Disciplined
  <2> QED BY <2>1, <2>2, CallSound
<1>10. ASSUME NEW s \in Sock, CloseReturns(s) \/ CloseForces(s)
       PROVE  Sound'
  <2>1. UNCHANGED <<vars, link>> /\ call'.op \in {"none", "remove"}
    BY <1>5, <1>10 DEF CloseReturns, CloseForces, Called, Idle, Ops, allVars, scriptVars
  <2> QED BY <2>1, CallSound
<1>11. ASSUME NEW s \in Sock, Dispose(s)
       PROVE  Sound'
  <2>1. /\ UNCHANGED <<vars, link>>
        /\ call'.op = "remove" \/ (call'.op = "delete" /\ call'.sock = s /\ id[s] = NoFd)
    BY <1>11 DEF Dispose
  <2> QED BY <1>3, <2>1, CallSound
<1>12. CASE ConnectSyncEnds
  <2> DEFINE s == call.sock
  <2>1. s \in Sock /\ UNCHANGED vars
    BY <1>1, <1>12 DEF ConnectSyncEnds
  <2>2. CASE Connected(s)
    <3>1. s \notin Stream => link[id[s]] # "linked"
      BY <1>2, <1>12, <2>1, <2>2
         DEF ConnectSyncEnds, Connected, Connectable, SockInd, Sound, LinkOK
    <3> QED BY <1>connected, <2>1, <2>2, <3>1
  <2>3. CASE NotConnected(s) /\ Finish
    BY <1>4, <1>failed, <2>1, <2>3
  <2> QED BY <1>12, <2>2, <2>3 DEF ConnectSyncEnds
<1>13. CASE CheckPoolInvariant \/ Delete
  <2>1. /\ call.sock \in Sock /\ UNCHANGED <<vars, link>>
        /\ call'.op \in {"none", "aborted"}
    BY <1>1, <1>4, <1>13, CallTypes DEF CheckPoolInvariant, Delete, Ops
  <2> QED BY <2>1, CallSound
<1> QED BY <1>6, <1>7, <1>8, <1>9, <1>10, <1>11, <1>12, <1>13

\* A new object has received nothing, and its descriptor was nobody's.
LEMMA MakeSound ==
  ASSUME SockInd, Idle,
         \/ \E s \in Sock, f \in Fd :
              /\ Make(s, f)
              /\ \/ UNCHANGED <<call, link>>
                 \/ Begin("add", s) /\ link' = [link EXCEPT ![f] = "linked"]
         \/ \E s \in Sock : CreateFails(s)
  PROVE  Sound'
<1>1. /\ link \in [Fd -> {"none", "listening", "connecting", "linked"}]
      /\ \A s2 \in Sock : id[s2] # NoFd => id[s2] \in Fd
      /\ id \in [Sock -> Fd \union {NoFd}]
      /\ incoming \in [Sock -> Buffers(Piece, Errors)]
      /\ taken \in [Sock -> Nat]
      /\ file \in [Fd -> File]
  BY DEF SockInd, OwnInd, Ind, TypeOK, SocketsTypeOK
<1>2. ASSUME NEW s \in Sock, NEW f \in Fd, Make(s, f),
             \/ UNCHANGED <<call, link>>
             \/ Begin("add", s) /\ link' = [link EXCEPT ![f] = "linked"]
      PROVE  Sound'
  <2>1. /\ id[s] = NoFd /\ s \notin sockets /\ \A s2 \in Sock : id[s2] # f
        /\ UNCHANGED sockets
    BY <1>2, ServiceAssumption DEF Make, SockInd, OwnInd, Held, Sound, RegisteredAreValid
  <2>2. /\ id'[s] = f /\ incoming'[s] = EmptyBuffer /\ taken'[s] = 0
        /\ \A s2 \in Sock : s2 # s =>
             id'[s2] = id[s2] /\ incoming'[s2] = incoming[s2] /\ taken'[s2] = taken[s2]
    BY <1>1, <1>2 DEF Make
  <2>3. \A h \in Fd : /\ h # f => link'[h] = link[h]
                      /\ file'[h].open <=> h = f \/ file[h].open
    BY <1>1, <1>2, FileTypes DEF Make
  <2>4. \/ call'.op = "none"
        \/ call'.op = "add" /\ call'.sock = s /\ link'[f] = "linked"
    BY <1>1, <1>2, CallTypes DEF Idle, Ops
  <2>5. Fresh'
    <3> SUFFICES ASSUME NEW s2 \in Sock, id'[s2] # NoFd, s2 # s,
                        link'[id'[s2]] # "linked"
                 PROVE  s2 \notin sockets' /\ incoming'[s2] = EmptyBuffer /\ taken'[s2] = 0
      BY <2>1, <2>2, <2>4 DEF Fresh
    <3> QED BY <1>1, <2>1, <2>2, <2>3 DEF SockInd, Sound, Fresh
  <2>6. LinkOK'
    BY <2>2, <2>3, <2>4, ServiceAssumption DEF SockInd, Sound, LinkOK
  <2>7. Quiet' /\ Clean' /\ RegisteredAreValid'
    BY <2>1, <2>2, <2>4 DEF SockInd, Sound, Quiet, Clean, RegisteredAreValid, Ind, TypeOK
  <2> QED BY <2>5, <2>6, <2>7 DEF Sound
<1>3. ASSUME NEW s \in Sock, CreateFails(s)
      PROVE  Sound'
  <2>1. /\ id[s] = NoFd /\ s \notin sockets /\ id' = id
        /\ UNCHANGED <<sockets, call, link, file>>
    BY <1>1, <1>3 DEF CreateFails, SockInd, OwnInd, Held, Sound, RegisteredAreValid
  <2>2. \A s2 \in Sock : s2 # s => incoming'[s2] = incoming[s2] /\ taken'[s2] = taken[s2]
    BY <1>1, <1>3 DEF CreateFails
  <2>3. Fresh'
    BY <2>1, <2>2 DEF SockInd, Sound, Fresh
  <2>4. LinkOK' /\ Quiet' /\ RegisteredAreValid'
    BY <2>1 DEF SockInd, Sound, LinkOK, Quiet, RegisteredAreValid
  <2>5. sockets \subseteq Sock
    BY DEF SockInd, OwnInd, SocketsTypeOK
  <2>6. Clean'
    BY <2>1, <2>2, <2>5 DEF SockInd, Sound, Clean
  <2> QED BY <2>3, <2>4, <2>6 DEF Sound
<1> QED BY <1>2, <1>3

\* The calls that register, unregister and close keep it: a descriptor is
\* closed once its socket is not registered.
LEMMA CloseSound ==
  ASSUME SockInd,
         AddSocket \/ RemoveSocket \/ CloseSocket \/ \E s \in Sock : RecvError(s)
  PROVE  Sound'
<1>1. /\ link \in [Fd -> {"none", "listening", "connecting", "linked"}]
      /\ call \in Calling
      /\ call.op # "none" => call.sock \in Sock
      /\ id \in [Sock -> Fd \union {NoFd}]
      /\ file \in [Fd -> File]
      /\ \A op \in Ops : Continue(op) => call'.op = op /\ call'.sock = call.sock
      /\ Finish => call'.op = "none"
  BY CallTypes DEF SockInd, OwnInd, CallOK, SocketsTypeOK, Calling
<1>2. CASE AddSocket
  <2> DEFINE s == call.sock
  <2>1. /\ s \in Sock /\ call.op = "add" /\ call'.op = "check"
        /\ sockets' = sockets \union {s}
        /\ UNCHANGED <<id, incoming, taken, file, link>>
    BY <1>1, <1>2 DEF AddSocket, Add, Ops
  <2>2. id[s] # NoFd /\ link[id[s]] = "linked" /\ incoming[s] = EmptyBuffer
    BY <2>1 DEF SockInd, Sound, LinkOK, Fresh
  <2>3. Fresh'
    <3> SUFFICES ASSUME NEW s2 \in Sock, id[s2] # NoFd, link[id[s2]] # "linked"
                 PROVE  s2 \notin sockets' /\ incoming[s2] = EmptyBuffer /\ taken[s2] = 0
      BY <2>1 DEF Fresh
    <3>1. s2 # s
      BY <2>2
    <3> QED BY <2>1, <3>1 DEF SockInd, Sound, Fresh
  <2>4. Clean'
    BY <2>1, <2>2 DEF SockInd, Sound, Clean, EmptyBuffer
  <2>5. LinkOK' /\ Quiet' /\ RegisteredAreValid'
    BY <2>1, <2>2 DEF SockInd, Sound, LinkOK, Quiet, RegisteredAreValid
  <2> QED BY <2>3, <2>4, <2>5 DEF Sound
<1>3. CASE RemoveSocket
  <2>1. /\ call.sock \in Sock /\ call.op = "remove"
        /\ call'.op = "close" /\ call'.sock = call.sock
        /\ sockets' = sockets \ {call.sock}
        /\ UNCHANGED <<id, incoming, taken, file, link>>
    BY <1>1, <1>3 DEF RemoveSocket, Remove, Ops
  <2> QED BY <2>1 DEF SockInd, Sound, Fresh, LinkOK, Quiet, Clean, RegisteredAreValid
<1>4. ASSUME NEW s \in Sock, s \notin sockets, Invalidate(s),
             UNCHANGED <<sockets, incoming, taken>>,
             call'.op = "none" \/ (call'.op = "delete" /\ call'.sock = s)
      PROVE  Sound'
  <2> DEFINE f == id[s]
  <2>1. /\ id'[s] = NoFd
        /\ \A s2 \in Sock : s2 # s => id'[s2] = id[s2]
        /\ \A h \in Fd : link'[h] = IF h = f THEN "none" ELSE link[h]
        /\ \A h \in Fd : file'[h].open <=> h # f /\ file[h].open
    BY <1>1, <1>4, FileTypes DEF Invalidate
  <2>2. \A s2 \in Sock : s2 # s /\ id[s2] # NoFd => id[s2] \in Fd /\ id[s2] # f
    BY <1>1 DEF SockInd, OwnInd, Held
  <2>3. Fresh'
    BY <1>4, <2>1, <2>2 DEF SockInd, Sound, Fresh
  <2>4. LinkOK'
    BY <1>4, <2>1 DEF SockInd, Sound, LinkOK
  <2>5. Quiet' /\ Clean'
    BY <1>4 DEF SockInd, Sound, Quiet, Clean
  <2>6. RegisteredAreValid'
    <3>1. sockets \subseteq Sock /\ sockets' = sockets
      BY <1>4 DEF SockInd, OwnInd, SocketsTypeOK
    <3> QED BY <1>4, <2>1, <3>1 DEF SockInd, Sound, RegisteredAreValid
  <2> QED BY <2>3, <2>4, <2>5, <2>6 DEF Sound
<1>5. CASE CloseSocket
  <2>1. /\ call.sock \in Sock /\ call.sock \notin sockets
        /\ call'.op = "none" \/ (call'.op = "delete" /\ call'.sock = call.sock)
    BY <1>1, <1>5 DEF CloseSocket, SockInd, Sound, Quiet, Ops
  <2> QED BY <1>4, <1>5, <2>1 DEF CloseSocket
<1>6. ASSUME NEW s \in Sock, RecvError(s)
      PROVE  Sound'
  <2>1. s \notin sockets
    BY <1>6 DEF RecvError, SockInd, Sound, Clean
  <2> QED BY <1>4, <1>6, <2>1 DEF RecvError, Called, Idle
<1> QED BY <1>2, <1>3, <1>5, <1>6

\* What recv took from a stream is not empty, and makes no element empty.
LEMMA DataIsSome ==
  ASSUME TypeOK, NEW s \in Sock, ReceiveData(s)
  PROVE  /\ incoming'[s].error = incoming[s].error
         /\ s \in Stream /\ (\A i \in DOMAIN incoming[s].queue : incoming[s].queue[i] # <<>>)
              => \A i \in DOMAIN incoming'[s].queue : incoming'[s].queue[i] # <<>>
<1> DEFINE f == id[s]
           b == incoming[s]
<1>1. /\ f \in Fd /\ file[f].rx \in Seq(Item)
      /\ incoming \in [Sock -> Buffers(Piece, Errors)]
      /\ b \in Buffers(Piece, Errors)
      /\ b.queue \in Seq(Seq(Piece))
  BY DEF ReceiveData, IsOpen, TypeOK, Item, Buffers
<1>2. PICK n \in 1..Len(file[f].rx) :
        /\ \A i \in 1..n : file[f].rx[i] > 0
        /\ incoming' = [incoming EXCEPT
             ![s] = IF s \in Stream THEN AppendTo(@, SubSeq(file[f].rx, 1, n))
                                    ELSE Push(@, SubSeq(file[f].rx, 1, n))]
  BY DEF ReceiveData
<1> DEFINE data == SubSeq(file[f].rx, 1, n)
<1>3. data \in Seq(Piece) /\ data # <<>>
  <2>1. data \in Seq(Piece)
    BY <1>1, <1>2, Received
  <2>2. Len(data) = n
    BY <1>1
  <2> QED BY <2>1, <2>2
<1> HIDE DEF data
<1>4. incoming'[s] = IF s \in Stream THEN AppendTo(b, data) ELSE Push(b, data)
  BY <1>1, <1>2 DEF data
<1>5. AppendTo(b, data).error = b.error /\ Push(b, data).error = b.error
  BY <1>1 DEF AppendTo, Push, Buffers
<1>6. ASSUME \A i \in DOMAIN b.queue : b.queue[i] # <<>>
      PROVE  \A i \in DOMAIN AppendTo(b, data).queue : AppendTo(b, data).queue[i] # <<>>
  <2>1. CASE IsEmpty(b)
    <3>1. AppendTo(b, data).queue = <<data>>
      BY <1>1, <2>1 DEF AppendTo, Push, IsEmpty, Buffers
    <3> QED BY <1>3, <3>1
  <2>2. CASE ~IsEmpty(b)
    <3> DEFINE k == Len(b.queue)
    <3>1. k \in 1..Len(b.queue)
      BY <1>1, <2>2 DEF IsEmpty
    <3>2. AppendTo(b, data).queue = [b.queue EXCEPT ![k] = @ \o data]
      BY <1>1, <1>3, <2>2 DEF AppendTo, Buffers
    <3>3. b.queue[k] \in Seq(Piece) /\ b.queue[k] \o data # <<>>
      BY <1>1, <1>3, <3>1
    <3> QED BY <1>1, <1>6, <3>1, <3>2, <3>3
  <2> QED BY <2>1, <2>2
<1> QED BY <1>4, <1>5, <1>6

\* What reads and what arrives keeps it: only the buffers of registered
\* sockets get filled, and a socket at its end or with an error is
\* unregistered.
LEMMA ReadSound ==
  ASSUME SockInd, NEW t \in Thread, NEW s \in Sock, CycleVisits(t, s)
  PROVE  Sound'
<1>1. s \in sockets /\ UNCHANGED scriptVars /\ (Receive(s) \/ UNCHANGED serviceVars)
  BY DEF CycleVisits, Visit, SockInd, Ind, PointersValid
<1>2. CASE UNCHANGED serviceVars
  BY <1>1, <1>2 DEF serviceVars, scriptVars, SockInd, Sound, Fresh, LinkOK, Quiet, Clean,
     RegisteredAreValid
<1>3. CASE Receive(s)
  <2>1. /\ \A f \in Fd : file'[f].open = file[f].open
        /\ sockets' \subseteq sockets
        /\ UNCHANGED <<id, taken, call, link>>
    BY <1>1, <1>3, ReceiveFile DEF SockInd, scriptVars
  <2>2. \A s2 \in Sock : s2 # s => incoming'[s2] = incoming[s2]
    BY <1>3 DEF Receive, ReceiveData, ReceiveEmpty, ReceiveEof, ReceiveError, SockInd, Ind, TypeOK
  <2>3. Fresh'
    <3> SUFFICES ASSUME NEW s2 \in Sock, id[s2] # NoFd,
                        link[id[s2]] # "linked" \/ (call.op = "add" /\ call.sock = s2)
                 PROVE  s2 \notin sockets' /\ incoming'[s2] = EmptyBuffer /\ taken[s2] = 0
      BY <2>1 DEF Fresh
    <3>1. s2 \notin sockets /\ incoming[s2] = EmptyBuffer /\ taken[s2] = 0
      BY DEF SockInd, Sound, Fresh
    <3> QED BY <1>1, <2>1, <2>2, <3>1
  <2>4. LinkOK' /\ Quiet' /\ RegisteredAreValid'
    BY <2>1 DEF SockInd, Sound, LinkOK, Quiet, RegisteredAreValid
  <2>5. Clean'
    <3>1. CASE s \notin sockets'
      BY <2>1, <2>2, <3>1 DEF SockInd, Sound, Clean, Ind, TypeOK
    <3>2. CASE s \in sockets'
      <4>1. ReceiveData(s) \/ ReceiveEmpty(s)
        BY <1>3, <3>2 DEF Receive, ReceiveEof, ReceiveError
      <4>empty. ReceiveEmpty(s) => s \notin Stream /\ incoming'[s].error = incoming[s].error
        BY DEF ReceiveEmpty, Push, SockInd, Ind, TypeOK, Buffers
      <4>2. /\ incoming'[s].error = NoError
            /\ s \in Stream =>
                 \A i \in DOMAIN incoming'[s].queue : incoming'[s].queue[i] # <<>>
        BY <1>1, <4>1, <4>empty, DataIsSome DEF SockInd, Sound, Clean, Ind, TypeOK
      <4> QED BY <2>1, <2>2, <4>2 DEF SockInd, Sound, Clean, Ind, TypeOK
    <3> QED BY <3>1, <3>2
  <2> QED BY <2>3, <2>4, <2>5 DEF Sound
<1> QED BY <1>1, <1>2, <1>3

\* Recv and RecvData keep it: a stream they close had ended, and is not
\* registered any more.
LEMMA TakeSound ==
  ASSUME Disciplined, SockInd, NEW s \in Sock, Recv(s) \/ RecvData(s)
  PROVE  Sound'
<1>1. RecvResult(s, Front(incoming[s]), Pop(incoming[s]))
  BY RecvTakes
<1>2. /\ incoming \in [Sock -> Buffers(Piece, Errors)]
      /\ taken \in [Sock -> Nat]
      /\ sockets \subseteq Sock
      /\ incoming[s].queue \in Seq(Seq(Piece)) /\ incoming[s].queue # <<>>
  BY <1>1 DEF RecvResult, IsEmpty, SockInd, Ind, TypeOK, Buffers
<1>3. /\ call.op = "none"
      /\ UNCHANGED <<sockets, id, file, link>>
      /\ incoming'[s].error = incoming[s].error
      /\ incoming'[s].queue = Tail(incoming[s].queue)
      /\ \A s2 \in Sock : s2 # s => incoming'[s2] = incoming[s2] /\ taken'[s2] = taken[s2]
  BY <1>1, <1>2 DEF RecvResult, Called, Idle, Pop, Buffers
<1>4. \/ call'.op = "none"
      \/ call'.op = "close" /\ call'.sock = s /\ s \in Stream /\ Front(incoming[s]) = <<>>
  BY <1>1, <1>3, CallTypes DEF RecvResult, Ops
<1>5. Fresh'
  <2> SUFFICES ASSUME NEW s2 \in Sock, id[s2] # NoFd, link[id[s2]] # "linked"
               PROVE  s2 \notin sockets /\ incoming'[s2] = EmptyBuffer /\ taken'[s2] = 0
    BY <1>3, <1>4 DEF Fresh
  <2>1. incoming[s2] = EmptyBuffer
    BY DEF SockInd, Sound, Fresh
  <2>2. s2 # s
    BY <1>2, <2>1 DEF EmptyBuffer
  <2> QED BY <1>3, <2>2 DEF SockInd, Sound, Fresh
<1>6. LinkOK' /\ RegisteredAreValid'
  BY <1>3, <1>4 DEF SockInd, Sound, LinkOK, RegisteredAreValid
<1>7. Quiet'
  <2>1. 1 \in DOMAIN incoming[s].queue /\ Front(incoming[s]) = incoming[s].queue[1]
    BY <1>2 DEF Front
  <2>2. s \in Stream /\ Front(incoming[s]) = <<>> => s \notin sockets
    BY <2>1 DEF SockInd, Sound, Clean
  <2> QED BY <1>3, <1>4, <2>2 DEF Quiet
<1>8. Clean'
  <2>1. s \in sockets /\ s \in Stream =>
          \A i \in DOMAIN incoming'[s].queue : incoming'[s].queue[i] # <<>>
    <3>1. \A i \in DOMAIN Tail(incoming[s].queue) :
            /\ i + 1 \in DOMAIN incoming[s].queue
            /\ Tail(incoming[s].queue)[i] = incoming[s].queue[i + 1]
      BY <1>2
    <3> QED BY <1>3, <3>1 DEF SockInd, Sound, Clean
  <2>2. Clean /\ sockets' = sockets
    BY <1>3 DEF SockInd, Sound
  <2> SUFFICES ASSUME NEW s2 \in sockets
               PROVE  /\ incoming'[s2].error = NoError
                      /\ s2 \in Stream =>
                           \A i \in DOMAIN incoming'[s2].queue : incoming'[s2].queue[i] # <<>>
    BY <2>2, Zenon DEF Clean
  <2>3. CASE s2 = s
    BY <1>3, <2>1, <2>2, <2>3 DEF Clean
  <2>4. CASE s2 # s
    <3>1. incoming'[s2] = incoming[s2]
      BY <1>2, <1>3, <2>4
    <3> QED BY <2>2, <3>1 DEF Clean
  <2> QED BY <2>3, <2>4
<1> QED BY <1>5, <1>6, <1>7, <1>8 DEF Sound

\* RecvFrom takes from a descriptor what is the pool's to read, and changes
\* nothing the pool rests on.
LEMMA RecvFromKeeps ==
  ASSUME SockInd, NEW s \in Sock, RecvFrom(s)
  PROVE  Ind' /\ Sound'
<1> DEFINE f == id[s]
<1>1. f \in Fd /\ file \in [Fd -> File] /\ file[f].rx \in Seq(Item) /\ file[f].rx # <<>>
  BY DEF RecvFrom, Readable, IsOpen, SockInd, OwnInd, File
<1>2. Tail(file[f].rx) \in Seq(Item) /\ file' = [file EXCEPT ![f].rx = Tail(file[f].rx)]
  BY <1>1 DEF RecvFrom
<1>3. file' \in [Fd -> File] /\ \A h \in Fd : file'[h].open = file[h].open
  BY <1>1, <1>2, FileRx
<1>4. UNCHANGED <<sockets, active, id, incoming, taken, cycleVars, scriptVars>>
  BY DEF RecvFrom
<1>5. \A h : IsOpen(h)' <=> IsOpen(h)
  BY <1>3 DEF IsOpen
<1>6. TypeOK'
  BY <1>3, <1>4 DEF SockInd, Ind, TypeOK, cycleVars, File, Item
<1>7. NoLostWakeup'
  BY <1>4, <1>5 DEF SockInd, Ind, NoLostWakeup, cycleVars
<1>8. OneLoop' /\ PointersValid' /\ Guarded'
  BY <1>4 DEF SockInd, Ind, OneLoop, Looping, PointersValid, Guarded, cycleVars
<1>9. Sound'
  BY <1>3, <1>4 DEF SockInd, Sound, Fresh, LinkOK, Quiet, Clean, RegisteredAreValid, scriptVars
<1> QED BY <1>6, <1>7, <1>8, <1>9 DEF Ind

\* Every step of a disciplined script keeps what it rests on.
LEMMA SockNext == Disciplined /\ SockInd /\ [SocketsNext]_allVars => SockInd'
<1> SUFFICES ASSUME Disciplined, SockInd, [SocketsNext]_allVars
             PROVE  SockInd'
  OBVIOUS
<1>1. OwnInd'
  BY OwnNext DEF SockInd
<1>2. Ind'
  BY StepDisciplined, IndNext, RecvFromKeeps DEF SockInd
<1>3. ASSUME sockets' = sockets, UNCHANGED <<id, incoming, taken, call, link>>,
             \A f \in Fd : file'[f].open = file[f].open
      PROVE  Sound'
  BY <1>3 DEF SockInd, Sound, Fresh, LinkOK, Quiet, Clean, RegisteredAreValid
<1>4. ASSUME NEW s \in Sock, NEW f \in Fd, Create(s, f)
      PROVE  Sound'
  BY <1>4, MakeSound DEF Create
<1>5. ASSUME NEW s \in Sock, NEW conn \in Sock, NEW f \in Fd, Accept(s, conn, f)
      PROVE  Sound'
  BY <1>5, MakeSound DEF Accept, Called
<1>6. ASSUME NEW s \in Sock, CreateFails(s)
      PROVE  Sound'
  BY <1>6, MakeSound DEF CreateFails
<1>7. ASSUME NEW s \in Sock,
             \/ Bind(s) \/ Listen(s) \/ ConnectAsync(s) \/ ConnectSync(s)
             \/ CloseReturns(s) \/ CloseForces(s) \/ Dispose(s)
      PROVE  Sound'
  BY <1>7, BeginSound
<1>8. ASSUME NEW s \in Sock, RecvError(s) \/ Recv(s) \/ RecvData(s) \/ RecvFrom(s)
      PROVE  Sound'
  BY <1>8, CloseSound, TakeSound, RecvFromKeeps
<1>9. ASSUME Proceed
      PROVE  Sound'
  BY <1>9, BeginSound, CloseSound DEF Proceed
<1>10. ASSUME NEW s \in Sock, ScriptArrive(s)
       PROVE  Sound'
  BY <1>3, <1>10, ArriveFile DEF ScriptArrive, scriptVars, SockInd
<1>11. ASSUME NEW t \in Thread, ScriptCycle(t) \/ Interrupted(t)
       PROVE  Sound'
  <2>1. CASE CycleSteps(t) \/ Interrupted(t)
    BY <1>3, <2>1 DEF CycleSteps, Interrupted, Step, Watch, SelectFinds, SelectSleeps,
       SelectFails, SelectInterrupted, Enter, Leave, Exit, Return, serviceVars, scriptVars
  <2>2. ASSUME NEW s \in Sock, CycleVisits(t, s)
        PROVE  Sound'
    BY <2>2, ReadSound
  <2>3. CASE UNCHANGED <<vars, call, link>>
    BY <1>3, <2>3 DEF vars, serviceVars
  <2> QED BY <1>11, <2>1, <2>2, <2>3 DEF ScriptCycle, CycleBlocks, CycleUnblocks
<1>12. ASSUME UNCHANGED allVars
       PROVE  Sound'
  BY <1>3, <1>12 DEF allVars, scriptVars, vars, serviceVars
<1>13. Sound'
  BY <1>4, <1>5, <1>6, <1>7, <1>8, <1>9, <1>10, <1>11, <1>12 DEF SocketsNext
<1> QED BY <1>1, <1>2, <1>13 DEF SockInd

\* It holds before the first call.
LEMMA SockInit == SocketsInit => SockInd
<1> SUFFICES ASSUME SocketsInit PROVE SockInd
  OBVIOUS
<1>1. OwnInd /\ Ind
  BY OwnInit, IndInit DEF SocketsInit
<1>2. /\ sockets = {} /\ call.op = "none"
      /\ id = [s \in Sock |-> NoFd] /\ link = [f \in Fd |-> "none"]
  BY DEF SocketsInit, PoolInit, ServiceInit, NoCall
<1>3. Sound
  BY <1>2 DEF Sound, Fresh, LinkOK, Quiet, Clean, RegisteredAreValid
<1> QED BY <1>1, <1>3 DEF SockInd

\* A disciplined script keeps the pool's invariants, and what they rest on.
THEOREM DisciplineInductive ==
  ASSUME Disciplined
  PROVE  SocketsSpec => []SockInd
<1>1. SockInd /\ [SocketsNext]_allVars => SockInd'
  BY SockNext
<1> QED BY <1>1, SockInit, PTL DEF SocketsSpec

\* What the pool promises its own clients holds of the plugin as such a script
\* uses it: one read cycle, no lost wake-up, no pointer to a socket that was
\* removed (Pool.cpp:17-19, 43-76, 104-118).
THEOREM DisciplinedPoolIsSafe ==
  ASSUME Disciplined
  PROVE  SocketsSpec => [](OneLoop /\ NoLostWakeup /\ PointersValid)
<1>1. SockInd => OneLoop /\ NoLostWakeup /\ PointersValid
  BY DEF SockInd, Ind
<1> QED BY <1>1, DisciplineInductive, PTL

\* Invariant II of Pool.cpp:19, for the script of a game instead of the
\* clients of PoolSpec.
THEOREM DisciplinedAreValid ==
  ASSUME Disciplined
  PROVE  SocketsSpec => []RegisteredAreValid
<1>1. SockInd => RegisteredAreValid
  BY DEF SockInd, Sound
<1> QED BY <1>1, DisciplineInductive, PTL

\* The read cycle never visits an object a disciplined script disposed of.
THEOREM DisciplinedAreAlive ==
  ASSUME Disciplined
  PROVE  SocketsSpec => []RegisteredAreAlive
<1>1. SockInd => RegisteredAreAlive
  BY DEF SockInd, OwnInd, Held, Sound, RegisteredAreValid, RegisteredAreAlive, SocketsTypeOK, Ind
<1> QED BY <1>1, DisciplineInductive, PTL

\* After an abort the script does nothing more, and with no thread nobody
\* else changes the pool.
LEMMA AbortsNext ==
  ASSUME Disciplined, SockInd, AbortsOnlyUnserved, [SocketsNext]_allVars
  PROVE  AbortsOnlyUnserved'
<1>1. call \in Calling
  BY DEF SockInd, OwnInd, SocketsTypeOK, Calling
<1>2. CASE call.op = "aborted"
  <2>1. sockets # {} /\ ~active
    BY <1>2 DEF AbortsOnlyUnserved
  <2>2. \A t \in Thread : pc[t] = "idle"
    BY <2>1 DEF SockInd, Ind, OneLoop, Looping, Guarded
  <2>3. UNCHANGED <<sockets, active>>
    <3>1. \A t \in Thread : ~Enter(t) /\ ~Exit(t) /\ \A s \in Sock : ~Visit(t, s)
      BY <2>2 DEF Enter, Exit, Visit, Goto
    <3>2. ~Proceed /\ ~Idle
      BY <1>2 DEF Proceed, ConnectSyncEnds, AddSocket, CheckPoolInvariant, RemoveSocket,
         CloseSocket, Delete, Idle
    <3>3. ASSUME NEW t \in Thread, ScriptCycle(t) \/ Interrupted(t)
          PROVE  UNCHANGED <<sockets, active>>
      BY <3>1, <3>3 DEF ScriptCycle, CycleSteps, CycleVisits, CycleBlocks, CycleUnblocks,
         Interrupted, Step, Watch, SelectFinds, SelectSleeps, SelectFails,
         SelectInterrupted, Leave, Return, serviceVars, vars
    <3>4. ASSUME NEW s \in Sock, ScriptArrive(s)
          PROVE  UNCHANGED <<sockets, active>>
      BY <3>4, ArriveFile DEF ScriptArrive, SockInd
    <3>5. CASE UNCHANGED allVars
      BY <3>5 DEF allVars, vars, serviceVars
    <3>6. CASE SocketsNext
      BY <3>2, <3>3, <3>4, <3>6 DEF SocketsNext, Create, Accept, CreateFails, Bind, Listen,
         ConnectAsync, ConnectSync, CloseReturns, CloseForces, Dispose, RecvError, Recv,
         RecvData, RecvResult, RecvFrom, MayConnect, Called
    <3> QED BY <3>5, <3>6
  <2> QED BY <2>1, <2>3 DEF AbortsOnlyUnserved
<1>3. CASE call.op # "aborted"
  <2>1. CASE CheckPoolInvariant
    <3>1. UNCHANGED <<sockets, active>> /\ (PoolOk \/ (sockets # {} /\ ~active))
      BY <2>1 DEF CheckPoolInvariant, PoolOk, vars, serviceVars, SockInd, Sound,
         RegisteredAreValid
    <3>2. PoolOk => call'.op = "none"
      BY <2>1, CallTypes DEF CheckPoolInvariant
    <3> QED BY <3>1, <3>2 DEF AbortsOnlyUnserved
  <2>2. CASE ~CheckPoolInvariant
    <3>1. UNCHANGED call => call'.op # "aborted"
      BY <1>3
    <3>2. Finish => call'.op # "aborted"
      BY CallTypes
    <3>3. \A s \in Sock, op \in Ops \ {"aborted"} : Begin(op, s) => call'.op # "aborted"
      BY CallTypes
    <3>4. \A op \in Ops \ {"aborted"} : Continue(op) => call'.op # "aborted"
      BY <1>1, CallTypes
    <3>5. call.op # "none" => call.sock \in Sock
      BY DEF SockInd, OwnInd, CallOK
    <3>6. CASE Proceed
      BY <2>2, <3>2, <3>3, <3>4, <3>5, <3>6 DEF Proceed, ConnectSyncEnds, Connected,
         AddSocket, RemoveSocket, CloseSocket, Delete, Ops, AbortsOnlyUnserved
    <3>7. ASSUME NEW s \in Sock, NEW op \in Ops \ {"aborted"}, Begin(op, s)
          PROVE  AbortsOnlyUnserved'
      BY <3>3, <3>7 DEF AbortsOnlyUnserved
    <3>8. CASE UNCHANGED call
      BY <3>1, <3>8 DEF AbortsOnlyUnserved
    <3>9. ASSUME NEW s \in Sock, Dispose(s)
          PROVE  AbortsOnlyUnserved'
      BY <3>9 DEF Dispose, AbortsOnlyUnserved
    <3>10. ASSUME NEW s \in Sock,
                  \/ \E f \in Fd : Create(s, f) \/ \E conn \in Sock : Accept(s, conn, f)
                  \/ CreateFails(s) \/ Bind(s) \/ Listen(s) \/ ConnectAsync(s)
                  \/ ConnectSync(s) \/ CloseReturns(s) \/ CloseForces(s)
                  \/ RecvError(s) \/ Recv(s) \/ RecvData(s) \/ RecvFrom(s)
                  \/ ScriptArrive(s)
           PROVE  \/ UNCHANGED call
                  \/ \E s2 \in Sock, op \in Ops \ {"aborted"} : Begin(op, s2)
      BY <3>10 DEF Create, Accept, CreateFails, Bind, Listen, ConnectAsync, Connected,
         MayConnect, Called, ConnectSync, CloseReturns, CloseForces, RecvError, Recv, RecvData, RecvResult,
         RecvFrom, ScriptArrive, Ops, scriptVars, allVars
    <3>11. ASSUME NEW t \in Thread, ScriptCycle(t) \/ Interrupted(t)
           PROVE  UNCHANGED call
      BY <3>11 DEF ScriptCycle, CycleSteps, CycleVisits, CycleBlocks, CycleUnblocks,
         Interrupted, scriptVars
    <3>12. UNCHANGED allVars => UNCHANGED call
      BY DEF allVars, scriptVars
    <3> QED BY <3>6, <3>7, <3>8, <3>9, <3>10, <3>11, <3>12 DEF SocketsNext
  <2> QED BY <2>1, <2>2
<1> QED BY <1>2, <1>3

\* The check of the pool ends the game of a disciplined script for no other
\* reason than a thread that could not be created.
THEOREM AbortsAreDeserved ==
  ASSUME Disciplined
  PROVE  SocketsSpec => []AbortsOnlyUnserved
<1>1. SocketsInit => AbortsOnlyUnserved
  BY DEF SocketsInit, NoCall, AbortsOnlyUnserved
<1>2. SockInd /\ AbortsOnlyUnserved /\ [SocketsNext]_allVars => AbortsOnlyUnserved'
  BY AbortsNext
<1> QED BY <1>1, <1>2, DisciplineInductive, PTL DEF SocketsSpec

\* Whatever a disciplined script does is, for the pool, what its clients may
\* do, when nobody reads a descriptor besides the pool: what PoolProofs
\* proves of the pool's clients is true of the script.
THEOREM ScriptKeepsDiscipline ==
  ASSUME Disciplined, "RecvFrom" \notin Calls
  PROVE  SocketsSpec => KeepsDiscipline
<1>1. SocketsInit => PoolInit
  BY DEF SocketsInit
<1>2. SockInd /\ [SocketsNext]_allVars => [PoolNext]_vars
  BY StepDisciplined DEF RecvFrom
<1> QED BY <1>1, <1>2, DisciplineInductive, PTL DEF SocketsSpec, KeepsDiscipline

(***************************************************************************)
(* What a disciplined script may rely on when threads can be made.         *)
(***************************************************************************)
LEMMA ScriptServedInductive ==
  ASSUME Disciplined, ~CreateMayFail
  PROVE  SocketsSpec => []InvariantI
<1>1. SocketsInit => InvariantI
  BY DEF SocketsInit, PoolInit, ServiceInit, InvariantI
<1>2. SockInd /\ InvariantI /\ [SocketsNext]_allVars => InvariantI'
  <2> SUFFICES ASSUME SockInd, InvariantI, [SocketsNext]_allVars
               PROVE  InvariantI'
    OBVIOUS
  <2>1. PoolNext \/ UNCHANGED vars \/ \E s \in Sock : RecvFrom(s)
    BY StepDisciplined
  <2>2. CASE PoolNext \/ UNCHANGED vars
    <3>1. [PoolNext]_vars
      BY <2>2
    <3> QED BY <3>1, ServedNext DEF SockInd
  <2>3. CASE \E s \in Sock : RecvFrom(s)
    BY <2>3 DEF RecvFrom, InvariantI
  <2> QED BY <2>1, <2>2, <2>3
<1> QED BY <1>1, <1>2, DisciplineInductive, PTL DEF SocketsSpec

\* CheckPoolInvariant never ends the game of such a script (Socket.cpp:38-43),
\* whatever the read cycle does between a call and its check.
THEOREM GameGoesOn ==
  ASSUME Disciplined, ~CreateMayFail
  PROVE  SocketsSpec => [](call.op # "aborted")
<1>1. InvariantI /\ AbortsOnlyUnserved => call.op # "aborted"
  BY DEF InvariantI, AbortsOnlyUnserved
<1> QED BY <1>1, ScriptServedInductive, AbortsAreDeserved, PTL

\* The whole of it, script, pool, thread and beacon, is the read service, as
\* far as safety goes.
THEOREM ScriptUsesService ==
  ASSUME Disciplined, ~CreateMayFail, "RecvFrom" \notin Calls
  PROVE  SocketsSpec => ServiceSafety
<1>1. SocketsInit => ServiceInit
  BY DEF SocketsInit, PoolInit
<1>2. SockInd /\ InvariantI /\ [SocketsNext]_allVars => [ServiceNext]_serviceVars
  <2> SUFFICES ASSUME SockInd, InvariantI, [SocketsNext]_allVars
               PROVE  [ServiceNext]_serviceVars
    OBVIOUS
  <2>1. [PoolNext]_vars
    BY StepDisciplined DEF RecvFrom
  <2> QED BY <2>1, StepServes DEF SockInd
<1> QED BY <1>1, <1>2, DisciplineInductive, ScriptServedInductive, PTL DEF SocketsSpec, ServiceSafety

(***************************************************************************)
(* The order in which the script is given what arrived.                    *)
(***************************************************************************)

\* The sockets nobody but the pool receives for.
Given == {s \in Sock : s \in Stream \/ "RecvFrom" \notin Calls}

\* RecvFrom is about datagrams and leaves the descriptors of streams alone.
LEMMA RecvFromOrder ==
  ASSUME SockInd, OrderInd(Given), NEW s \in Sock, RecvFrom(s)
  PROVE  OrderInd(Given)'
<1>1. /\ id[s] \in Fd /\ s \notin Given
      /\ UNCHANGED <<id, incoming, taken>>
  BY DEF RecvFrom, Readable, IsOpen, Given
<1>2. \A f \in Fd : f # id[s] => file'[f] = file[f]
  BY DEF RecvFrom, SockInd, OwnInd
<1>3. Given \in SUBSET Sock /\ TypeOK
  BY DEF Given, SockInd, Ind
<1> QED BY <1>1, <1>2, <1>3, OthersInOrder

\* Every step of a disciplined script keeps the order.
LEMMA GivenNext ==
  ASSUME Disciplined, SockInd, OrderInd(Given), [SocketsNext]_allVars
  PROVE  OrderInd(Given)'
<1>1. PoolNext \/ UNCHANGED vars \/ \E s \in Sock : RecvFrom(s)
  BY StepDisciplined
<1>2. Given \in SUBSET Sock /\ TypeOK
  BY DEF Given, SockInd, Ind
<1>3. CASE PoolNext \/ UNCHANGED vars
  <2>1. [PoolNext]_vars
    BY <1>3
  <2> QED BY <1>2, <2>1, OrderNext
<1> QED BY <1>1, <1>3, RecvFromOrder

\* What Recv and RecvData give a disciplined script is what arrived, in order
\* and nothing twice, for any number of sockets, descriptors and pieces.
THEOREM ScriptIsGivenInOrder ==
  ASSUME Disciplined
  PROVE  SocketsSpec => []GivenInOrder
<1>1. SocketsInit => OrderInd(Given)
  <2> SUFFICES ASSUME SocketsInit PROVE OrderInd(Given)
    OBVIOUS
  <2>1. OrderInd(Sock)
    BY OrderInit DEF SocketsInit
  <2> QED BY <2>1 DEF OrderInd, Given
<1>2. SockInd /\ OrderInd(Given) /\ [SocketsNext]_allVars => OrderInd(Given)'
  BY GivenNext
<1>3. SockInd /\ OrderInd(Given) => GivenInOrder
  <2> SUFFICES ASSUME SockInd, OrderInd(Given), NEW s \in Sock, s \in Stream \/ "RecvFrom" \notin Calls
               PROVE  ReceivesInOrder(s)
    BY DEF GivenInOrder
  <2>1. TypeOK /\ Ordered(s)
    BY DEF SockInd, Ind, OrderInd, Given
  <2> QED BY <2>1, OrderedIsInOrder
<1> QED BY <1>1, <1>2, <1>3, DisciplineInductive, PTL DEF SocketsSpec

(***************************************************************************)
(* What a stream received is accounted for: the pieces the script took,    *)
(* those in the buffer and the n in front of what waits at the descriptor  *)
(* are all that was sent.  Behind these waits at most the end of the       *)
(* stream, or an error and the end; and once the end is in the buffer      *)
(* there is nothing in front of it at the descriptor.                      *)
(***************************************************************************)
Pending(rx, n) ==
  /\ \A i \in 1..n : rx[i] > 0
  /\ \/ Len(rx) = n
     \/ Len(rx) = n + 1 /\ rx[n + 1] = Eof
     \/ Len(rx) = n + 2 /\ rx[n + 1] = Fault /\ rx[n + 2] = Eof

Queued(q) == IF q = <<>> THEN 0 ELSE Len(q[1])

Accounted(q, rx, tk, sent) ==
  /\ \/ q = <<>>
     \/ Len(q) = 1
     \/ Len(q) = 2 /\ q[1] # <<>> /\ q[2] = <<>>
  /\ (\E i \in DOMAIN q : q[i] = <<>>) => rx = <<Eof>>
  /\ \E n \in 0..Len(rx) : Pending(rx, n) /\ tk + Queued(q) + n = sent

AllAccounted ==
  \A s \in Stream :
    id[s] # NoFd =>
      Accounted(incoming[s].queue, file[id[s]].rx, taken[s], file[id[s]].sent)

\* What recv takes from a stream moves to the buffer.
LEMMA AccountData ==
  ASSUME NEW b \in Buffers(Piece, Errors), NEW rx \in Seq(Item), NEW tk \in Nat,
         NEW sent \in Nat, Accounted(b.queue, rx, tk, sent),
         NEW m \in 1..Len(rx), \A i \in 1..m : rx[i] > 0
  PROVE  Accounted(AppendTo(b, SubSeq(rx, 1, m)).queue, SubSeq(rx, m + 1, Len(rx)), tk, sent)
<1> DEFINE q == b.queue
           data == SubSeq(rx, 1, m)
           rest == SubSeq(rx, m + 1, Len(rx))
<1>1. q \in Seq(Seq(Piece))
  BY DEF Buffers
<1>2. data \in Seq(Piece) /\ Len(data) = m /\ data # <<>>
  <2>1. data \in Seq(Piece)
    BY Received
  <2>2. Len(data) = m
    OBVIOUS
  <2> QED BY <2>1, <2>2
<1>3. /\ Len(rest) = Len(rx) - m
      /\ \A i \in 1..Len(rest) : rest[i] = rx[i + m]
  OBVIOUS
<1>4. \A i \in DOMAIN q : q[i] # <<>>
  <2>1. rx[1] > 0 /\ <<Eof>>[1] = 0
    BY DEF Eof
  <2> QED BY <2>1 DEF Accounted
<1>5. q = <<>> \/ Len(q) = 1
  BY <1>1, <1>4 DEF Accounted
<1>6. PICK n \in 0..Len(rx) : Pending(rx, n) /\ tk + Queued(q) + n = sent
  BY DEF Accounted
<1>7. m <= n
  BY <1>6 DEF Pending, Eof, Fault
<1> HIDE DEF data, rest
<1>8. PICK x \in Seq(Piece) :
        AppendTo(b, data).queue = <<x>> /\ x # <<>> /\ Len(x) = Queued(q) + m
  <2>1. CASE q = <<>>
    <3>1. AppendTo(b, data).queue = <<data>>
      BY <1>1, <2>1 DEF AppendTo, Push, IsEmpty, Buffers
    <3> QED BY <1>2, <2>1, <3>1 DEF Queued
  <2>2. CASE Len(q) = 1
    <3>1. q # <<>> /\ q[1] \in Seq(Piece) /\ q = <<q[1]>>
      BY <1>1, <2>2
    <3>2. AppendTo(b, data).queue = [q EXCEPT ![1] = @ \o data]
      BY <1>1, <1>2, <2>2, <3>1 DEF AppendTo, IsEmpty, Buffers
    <3>3. [q EXCEPT ![1] = @ \o data] = <<q[1] \o data>>
      <4> DEFINE y == q[1] \o data
                 r == [q EXCEPT ![1] = y]
      <4>1. y \in Seq(Piece) /\ 1 \in 1..Len(q)
        BY <1>2, <2>2, <3>1, ConcatProperties
      <4> HIDE DEF y
      <4>2. r \in Seq(Seq(Piece)) /\ Len(r) = 1 /\ r[1] = y
        BY <1>1, <2>2, <4>1, ExceptSeq
      <4> HIDE DEF r
      <4>3. r = <<y>>
        BY <4>1, <4>2
      <4> QED BY <4>3 DEF r, y
    <3>4. /\ q[1] \o data \in Seq(Piece)
          /\ Len(q[1] \o data) = Len(q[1]) + m
      BY <1>2, <3>1, ConcatProperties
    <3>5. q[1] \o data # <<>>
      BY <1>2, <3>1, <3>4
    <3> QED BY <3>1, <3>2, <3>3, <3>4, <3>5 DEF Queued
  <2> QED BY <1>5, <2>1, <2>2
<1>9. Pending(rest, n - m) /\ n - m \in 0..Len(rest)
  <2>1. ASSUME NEW i \in 1..(n - m)
        PROVE  rest[i] > 0
    <3>1. i \in 1..Len(rest) /\ i + m \in 1..n
      BY <1>3, <1>7
    <3> QED BY <1>3, <1>6, <3>1 DEF Pending
  <2>2. Len(rx) = n + 1 => rest[n - m + 1] = rx[n + 1]
    BY <1>3, <1>6, <1>7
  <2>3. Len(rx) = n + 2 => rest[n - m + 1] = rx[n + 1] /\ rest[n - m + 2] = rx[n + 2]
    BY <1>3, <1>6, <1>7
  <2> QED BY <1>3, <1>6, <1>7, <2>1, <2>2, <2>3 DEF Pending
<1>10. Queued(q) \in Nat
  BY <1>1, <1>5 DEF Queued
<1>11. tk + Queued(<<x>>) + (n - m) = sent
  <2>1. Queued(<<x>>) = Queued(q) + m
    BY <1>8 DEF Queued
  <2>2. tk + Queued(q) + n = sent
    BY <1>6
  <2> QED BY <1>10, <2>1, <2>2
<1>12. Accounted(<<x>>, rest, tk, sent)
  <2>1. Len(<<x>>) = 1 /\ ~ \E i \in DOMAIN <<x>> : <<x>>[i] = <<>>
    BY <1>8
  <2> DEFINE y == <<x>>
             k == n - m
  <2>2. k \in 0..Len(rest) /\ Pending(rest, k) /\ tk + Queued(y) + k = sent
    BY <1>9, <1>11
  <2> HIDE DEF y, k
  <2> QED BY <2>1, <2>2 DEF Accounted, y
<1> QED BY <1>8, <1>12, Zenon DEF data, rest

\* The end of a stream goes behind what is in the buffer, when the buffer
\* holds no end yet.
LEMMA AccountEof ==
  ASSUME NEW b \in Buffers(Piece, Errors), NEW rx \in Seq(Item), NEW tk \in Nat,
         NEW sent \in Nat, Accounted(b.queue, rx, tk, sent),
         rx # <<>>, Head(rx) = Eof, \A i \in DOMAIN b.queue : b.queue[i] # <<>>
  PROVE  Accounted(AppendTo(b, <<>>).queue, rx, tk, sent)
<1> DEFINE q == b.queue
           r == AppendTo(b, <<>>).queue
<1>1. q \in Seq(Seq(Piece)) /\ rx[1] = Eof
  BY DEF Buffers
<1>2. r = Append(q, <<>>)
  BY DEF AppendTo, Push, Buffers
<1>3. PICK n \in 0..Len(rx) : Pending(rx, n) /\ tk + Queued(q) + n = sent
  BY DEF Accounted
<1>4. n = 0 /\ Len(rx) = 1
  <2>1. n = 0
    BY <1>1, <1>3 DEF Pending, Eof
  <2> QED BY <1>1, <1>3, <2>1 DEF Pending, Eof, Fault
<1>5. rx = <<Eof>>
  BY <1>1, <1>4
<1>6. q = <<>> \/ Len(q) = 1
  BY <1>1 DEF Accounted
<1>7. \/ Len(r) = 1
      \/ Len(r) = 2 /\ r[1] # <<>> /\ r[2] = <<>>
  <2>1. Len(r) = Len(q) + 1 /\ r[Len(q) + 1] = <<>>
    BY <1>1, <1>2
  <2>2. CASE Len(q) = 1
    <3>1. r[1] = q[1]
      <4> HIDE DEF q, r
      <4> QED BY <1>1, <1>2, <2>2, AppendProperties
    <3>2. 1 \in DOMAIN q
      BY <1>1, <2>2
    <3> QED BY <2>1, <2>2, <3>1, <3>2
  <2>3. CASE q = <<>>
    BY <2>1, <2>3
  <2> QED BY <1>6, <2>2, <2>3
<1>8. Queued(r) = Queued(q)
  <2> HIDE DEF r
  <2>1. r # <<>> /\ Len(r) = Len(q) + 1
    BY <1>1, <1>2, AppendProperties
  <2>2. CASE q = <<>>
    <3>1. r = << <<>> >>
      BY <1>2, <2>2
    <3> QED BY <2>2, <3>1 DEF Queued
  <2>3. CASE Len(q) = 1
    <3>1. q # <<>> /\ r[1] = q[1]
      BY <1>1, <1>2, <2>3, AppendProperties
    <3> QED BY <2>1, <3>1 DEF Queued
  <2> QED BY <1>6, <2>2, <2>3
<1> QED BY <1>3, <1>5, <1>7, <1>8 DEF Accounted

\* The first element of a buffer moves to what was taken; when it is empty
\* there is nothing else left anywhere.
LEMMA AccountTaken ==
  ASSUME NEW b \in Buffers(Piece, Errors), NEW rx \in Seq(Item), NEW tk \in Nat,
         NEW sent \in Nat, Accounted(b.queue, rx, tk, sent), ~IsEmpty(b)
  PROVE  /\ Accounted(Pop(b).queue, rx, tk + Len(Front(b)), sent)
         /\ Front(b) = <<>> => IsEmpty(Pop(b)) /\ tk + Len(Front(b)) = sent
<1> DEFINE q == b.queue
<1>1. q \in Seq(Seq(Piece)) /\ q # <<>> /\ Pop(b).queue = Tail(q) /\ Front(b) = q[1]
  BY DEF Buffers, IsEmpty, Pop, Front
<1>2. q[1] \in Seq(Piece) /\ Len(q[1]) \in Nat
  BY <1>1
<1>3. \/ Len(q) = 1 /\ Tail(q) = <<>>
      \/ Len(q) = 2 /\ q[1] # <<>> /\ Tail(q) = <<<<>>>> /\ q[2] = <<>>
  <2>1. /\ Len(q) = 1 => Tail(q) = <<>>
        /\ Len(q) = 2 => Tail(q) = <<q[2]>>
    BY <1>1, ShortTails
  <2> QED BY <1>1, <2>1 DEF Accounted
<1>4. PICK n \in 0..Len(rx) : Pending(rx, n) /\ tk + Queued(q) + n = sent
  BY DEF Accounted
<1>5. Queued(q) = Len(q[1]) /\ Queued(Tail(q)) = 0
  BY <1>1, <1>3 DEF Queued
<1>6. (\E i \in DOMAIN Tail(q) : Tail(q)[i] = <<>>) => rx = <<Eof>>
  <2>1. CASE Len(q) = 1
    BY <1>1, <1>3, <2>1
  <2>2. CASE Len(q) = 2 /\ q[2] = <<>>
    BY <1>1, <2>2 DEF Accounted
  <2> QED BY <1>3, <2>1, <2>2
<1>7. Accounted(Tail(q), rx, tk + Len(q[1]), sent)
  <2> DEFINE t == Tail(q)
             l == Len(q[1])
  <2>1. t = <<>> \/ Len(t) = 1
    BY <1>3
  <2>2. (tk + l) + Queued(t) + n = sent
    BY <1>2, <1>4, <1>5
  <2>3. (\E i \in DOMAIN t : t[i] = <<>>) => rx = <<Eof>>
    BY <1>6
  <2> HIDE DEF t, l
  <2>4. Accounted(t, rx, tk + l, sent)
    BY <1>4, <2>1, <2>2, <2>3 DEF Accounted
  <2> QED BY <2>4 DEF t, l
<1>8. ASSUME q[1] = <<>>
      PROVE  Tail(q) = <<>> /\ tk + Len(q[1]) = sent
  <2>1. rx = <<Eof>>
    BY <1>1, <1>8 DEF Accounted
  <2>2. n = 0
    BY <1>4, <2>1 DEF Pending, Eof
  <2> QED BY <1>3, <1>4, <1>5, <1>8, <2>2
<1> QED BY <1>1, <1>7, <1>8 DEF IsEmpty

\* An error is taken from the front of what waits and leaves the end there.
LEMMA AccountFault ==
  ASSUME NEW b \in Buffers(Piece, Errors), NEW rx \in Seq(Item), NEW tk \in Nat,
         NEW sent \in Nat, Accounted(b.queue, rx, tk, sent),
         rx # <<>>, Head(rx) = Fault
  PROVE  Accounted(b.queue, Tail(rx), tk, sent)
<1>1. rx[1] = Fault
  OBVIOUS
<1>2. PICK n \in 0..Len(rx) : Pending(rx, n) /\ tk + Queued(b.queue) + n = sent
  BY DEF Accounted
<1>3. n = 0
  BY <1>1, <1>2 DEF Pending, Fault
<1>4. Len(rx) = 2 /\ rx[2] = Eof
  BY <1>1, <1>2, <1>3 DEF Pending, Eof, Fault
<1>5. Tail(rx) = <<Eof>>
  BY <1>4, ShortTails
<1>6. Pending(<<Eof>>, 0) /\ 0 \in 0..Len(<<Eof>>)
  BY DEF Pending
<1> QED BY <1>2, <1>3, <1>5, <1>6 DEF Accounted

\* What arrives goes behind what waits, and nothing comes behind an end.
LEMMA PendingArrived ==
  ASSUME NEW rx \in Seq(Item), NEW n \in 0..Len(rx), Pending(rx, n)
  PROVE  /\ (\A i \in DOMAIN rx : rx[i] # Eof /\ rx[i] # Fault) =>
              \A x \in Nat \ {0} :
                Pending(Append(rx, x), n + 1) /\ n + 1 \in 0..Len(Append(rx, x))
         /\ (\A i \in DOMAIN rx : rx[i] > 0) =>
              /\ Pending(Append(rx, Eof), n) /\ n \in 0..Len(Append(rx, Eof))
              /\ Pending(rx \o <<Fault, Eof>>, n) /\ n \in 0..Len(rx \o <<Fault, Eof>>)
<1>1. ASSUME \A i \in DOMAIN rx : rx[i] # Eof /\ rx[i] # Fault, NEW x \in Nat \ {0}
      PROVE  Pending(Append(rx, x), n + 1) /\ n + 1 \in 0..Len(Append(rx, x))
  <2>1. Len(rx) = n
    BY <1>1 DEF Pending
  <2>2. /\ Len(Append(rx, x)) = n + 1 /\ Append(rx, x)[n + 1] = x
        /\ \A i \in 1..n : Append(rx, x)[i] = rx[i]
    BY <2>1
  <2> QED BY <2>2 DEF Pending
<1>2. ASSUME \A i \in DOMAIN rx : rx[i] > 0
      PROVE  /\ Pending(Append(rx, Eof), n) /\ n \in 0..Len(Append(rx, Eof))
             /\ Pending(rx \o <<Fault, Eof>>, n) /\ n \in 0..Len(rx \o <<Fault, Eof>>)
  <2>1. Len(rx) = n
    BY <1>2 DEF Pending, Eof, Fault
  <2>2. /\ Len(Append(rx, Eof)) = n + 1 /\ Append(rx, Eof)[n + 1] = Eof
        /\ \A i \in 1..n : Append(rx, Eof)[i] = rx[i]
    BY <2>1
  <2> DEFINE r == rx \o <<Fault, Eof>>
  <2>3. /\ Len(r) = n + 2 /\ r[n + 1] = Fault /\ r[n + 2] = Eof
        /\ \A i \in 1..n : r[i] = rx[i]
    BY <2>1
  <2> HIDE DEF r
  <2>4. Pending(r, n) /\ n \in 0..Len(r)
    BY <2>3 DEF Pending
  <2> QED BY <2>2, <2>4 DEF Pending, r
<1> QED BY <1>1, <1>2

\* What arrives at the descriptor of a stream is accounted for.
LEMMA AccountArrives ==
  ASSUME SockInd, NEW s \in Stream, id[s] # NoFd, Arrive(s),
         Accounted(incoming[s].queue, file[id[s]].rx, taken[s], file[id[s]].sent)
  PROVE  Accounted(incoming[s].queue, file'[id[s]].rx, taken[s], file'[id[s]].sent)
<1> DEFINE f == id[s]
           q == incoming[s].queue
           rx == file[f].rx
           sent == file[f].sent
           tk == taken[s]
<1>1. /\ f \in Fd /\ file \in [Fd -> File] /\ rx \in Seq(Item) /\ sent \in Nat
      /\ tk \in Nat /\ q \in Seq(Seq(Piece))
  BY ServiceAssumption DEF SockInd, OwnInd, SocketsTypeOK, Ind, TypeOK, File, Buffers
<1>2. PICK n \in 0..Len(rx) : Pending(rx, n) /\ tk + Queued(q) + n = sent
  BY DEF Accounted
<1>3. Queued(q) \in Nat
  BY <1>1 DEF Queued, Accounted
<1>4. (\E i \in DOMAIN q : q[i] = <<>>) => rx[1] = 0 /\ 1 \in DOMAIN rx
  BY DEF Accounted, Eof
<1>5. CASE ArriveData(s)
  <2>1. /\ file'[f].rx = Append(rx, sent + 1) /\ file'[f].sent = sent + 1
        /\ \A i \in DOMAIN rx : rx[i] # Eof /\ rx[i] # Fault
    BY <1>1, <1>5 DEF ArriveData, File
  <2>2. ~ \E i \in DOMAIN q : q[i] = <<>>
    BY <1>4, <2>1 DEF Eof
  <2>3. Pending(Append(rx, sent + 1), n + 1) /\ n + 1 \in 0..Len(Append(rx, sent + 1))
    <3>1. sent + 1 \in Nat \ {0}
      BY <1>1
    <3> HIDE DEF rx, sent
    <3> QED BY <1>1, <1>2, <2>1, <3>1, PendingArrived
  <2>4. tk + Queued(q) + (n + 1) = sent + 1
    BY <1>1, <1>2, <1>3
  <2> HIDE DEF q, rx, sent, tk
  <2>5. Accounted(q, Append(rx, sent + 1), tk, sent + 1)
    BY <2>2, <2>3, <2>4 DEF Accounted, q, rx, sent, tk
  <2> QED BY <2>1, <2>5 DEF q, tk
<1>6. CASE ArriveEof(s) \/ ArriveFault(s)
  <2>1. /\ \/ file'[f].rx = Append(rx, Eof)
           \/ file'[f].rx = rx \o <<Fault, Eof>>
        /\ file'[f].sent = sent
        /\ \A i \in DOMAIN rx : rx[i] > 0
    <3>1. CASE ArriveEof(s)
      <4>1. /\ file'[f].rx = Append(rx, Eof) /\ file'[f].sent = sent
            /\ \A i \in DOMAIN rx : rx[i] > 0
        BY <1>1, <3>1 DEF ArriveEof, File
      <4> QED BY <4>1
    <3>2. CASE ArriveFault(s)
      <4>1. file'[f].rx = rx \o <<Fault, Eof>> /\ file'[f].sent = sent
        BY <1>1, <3>2 DEF ArriveFault, File
      <4>2. \A i \in DOMAIN rx : rx[i] > 0
        <5>1. \A i \in DOMAIN rx : rx[i] # Eof /\ rx[i] # Fault
          BY <3>2 DEF ArriveFault
        <5> HIDE DEF rx
        <5> QED BY <1>1, <1>2, <5>1 DEF Pending
      <4> QED BY <4>1, <4>2
    <3> QED BY <1>6, <3>1, <3>2
  <2>2. ~ \E i \in DOMAIN q : q[i] = <<>>
    <3> HIDE DEF q, rx
    <3>1. 1 \in DOMAIN rx => rx[1] # 0
      BY <2>1
    <3> QED BY <1>4, <3>1
  <2>3. Pending(file'[f].rx, n) /\ n \in 0..Len(file'[f].rx)
    BY <1>1, <1>2, <2>1, PendingArrived
  <2> QED BY <1>2, <2>1, <2>2, <2>3 DEF Accounted
<1> QED BY <1>5, <1>6 DEF Arrive, ArriveEmpty

\* A visit of the read cycle to a stream is.
LEMMA AccountReceive ==
  ASSUME SockInd, NEW s \in Stream, s \in sockets, Receive(s),
         Accounted(incoming[s].queue, file[id[s]].rx, taken[s], file[id[s]].sent)
  PROVE  Accounted(incoming'[s].queue, file'[id[s]].rx, taken[s], file'[id[s]].sent)
<1> DEFINE f == id[s]
           b == incoming[s]
           rx == file[f].rx
           sent == file[f].sent
<1>1. /\ s \in Sock /\ f \in Fd /\ IsOpen(f)
      /\ file \in [Fd -> File] /\ rx \in Seq(Item) /\ sent \in Nat
      /\ taken[s] \in Nat /\ b \in Buffers(Piece, Errors)
      /\ incoming \in [Sock -> Buffers(Piece, Errors)]
  BY ServiceAssumption DEF SockInd, OwnInd, Held, SocketsTypeOK, Sound, RegisteredAreValid, Ind, TypeOK,
     File, IsOpen
<1>2. CASE ReceiveData(s)
  <2>1. PICK n \in 1..Len(rx) :
          /\ \A i \in 1..n : rx[i] > 0
          /\ file' = [file EXCEPT ![f].rx = SubSeq(rx, n + 1, Len(rx))]
          /\ incoming' = [incoming EXCEPT
               ![s] = IF s \in Stream THEN AppendTo(@, SubSeq(rx, 1, n))
                                      ELSE Push(@, SubSeq(rx, 1, n))]
    BY <1>2 DEF ReceiveData
  <2>2. /\ file'[f].rx = SubSeq(rx, n + 1, Len(rx)) /\ file'[f].sent = sent
        /\ incoming'[s] = AppendTo(b, SubSeq(rx, 1, n))
    BY <1>1, <2>1 DEF File
  <2> HIDE DEF b, rx, sent
  <2>3. Accounted(AppendTo(b, SubSeq(rx, 1, n)).queue, SubSeq(rx, n + 1, Len(rx)),
                  taken[s], sent)
    BY <1>1, <2>1, AccountData DEF b, rx, sent
  <2> QED BY <2>2, <2>3
<1>3. CASE ReceiveEof(s)
  <2>1. /\ rx # <<>> /\ Head(rx) = Eof /\ file' = file
        /\ incoming'[s] = AppendTo(b, <<>>)
    BY <1>1, <1>3 DEF ReceiveEof, Readable
  <2>2. \A i \in DOMAIN b.queue : b.queue[i] # <<>>
    BY DEF SockInd, Sound, Clean
  <2>3. Accounted(AppendTo(b, <<>>).queue, rx, taken[s], sent)
    BY <1>1, <2>1, <2>2, AccountEof
  <2> QED BY <2>1, <2>3
<1>4. CASE ReceiveError(s)
  <2>1. /\ rx # <<>> /\ Head(rx) = Fault
        /\ file' = [file EXCEPT ![f].rx = Tail(rx)]
        /\ incoming'[s].queue = b.queue
    BY <1>1, <1>4 DEF ReceiveError, Readable, Buffers
  <2>2. file'[f].rx = Tail(rx) /\ file'[f].sent = sent
    BY <1>1, <2>1 DEF File
  <2>3. Accounted(b.queue, Tail(rx), taken[s], sent)
    BY <1>1, <2>1, AccountFault
  <2> QED BY <2>1, <2>2, <2>3
<1> QED BY <1>2, <1>3, <1>4 DEF Receive, ReceiveEmpty

\* Only what happens to a stream or its descriptor changes what is accounted
\* for, for nobody else has its descriptor.
LEMMA AccountOthers ==
  ASSUME SockInd, AllAccounted, NEW s \in Sock,
         \A s2 \in Stream : s2 # s /\ id'[s2] # NoFd =>
           /\ id'[s2] = id[s2] /\ incoming'[s2] = incoming[s2] /\ taken'[s2] = taken[s2]
           /\ file'[id[s2]] = file[id[s2]],
         s \in Stream /\ id'[s] # NoFd =>
           Accounted(incoming'[s].queue, file'[id'[s]].rx, taken'[s], file'[id'[s]].sent)
  PROVE  AllAccounted'
<1> SUFFICES ASSUME NEW s2 \in Stream, id'[s2] # NoFd, s2 # s
             PROVE  Accounted(incoming'[s2].queue, file'[id'[s2]].rx, taken'[s2],
                              file'[id'[s2]].sent)
  BY DEF AllAccounted
<1> QED BY DEF AllAccounted

\* Every step of a disciplined script keeps the account.
LEMMA AccountNext ==
  ASSUME Disciplined, SockInd, AllAccounted, [SocketsNext]_allVars
  PROVE  AllAccounted'
<1>1. /\ id \in [Sock -> Fd \union {NoFd}]
      /\ incoming \in [Sock -> Buffers(Piece, Errors)]
      /\ taken \in [Sock -> Nat]
      /\ file \in [Fd -> File]
      /\ Stream \subseteq Sock
      /\ \A s1, s2 \in Sock : s1 # s2 /\ id[s1] = id[s2] => id[s1] = NoFd
  BY ServiceAssumption DEF SockInd, OwnInd, Held, SocketsTypeOK, Ind, TypeOK
<1>2. ASSUME UNCHANGED <<id, incoming, taken, file>>
      PROVE  AllAccounted'
  BY <1>2 DEF AllAccounted
<1>3. ASSUME NEW s \in Sock, NEW f \in Fd, Make(s, f)
      PROVE  AllAccounted'
  <2>1. \A s2 \in Sock : id[s2] # f
    BY <1>3, ServiceAssumption DEF Make, SockInd, OwnInd, Held
  <2>2. \A s2 \in Stream : s2 # s /\ id'[s2] # NoFd =>
          /\ id'[s2] = id[s2] /\ incoming'[s2] = incoming[s2] /\ taken'[s2] = taken[s2]
          /\ file'[id[s2]] = file[id[s2]]
    BY <1>1, <1>3, <2>1 DEF Make
  <2>3. /\ id'[s] = f /\ incoming'[s].queue = <<>> /\ taken'[s] = 0
        /\ file'[f].rx = <<>> /\ file'[f].sent = 0
    BY <1>1, <1>3 DEF Make, EmptyBuffer, NewFile, ClosedFile
  <2>4. Accounted(<<>>, <<>>, 0, 0)
    <3>1. Pending(<<>>, 0) /\ 0 \in 0..Len(<<>>) /\ 0 + Queued(<<>>) + 0 = 0
      BY DEF Pending, Queued
    <3> QED BY <3>1 DEF Accounted
  <2> QED BY <2>2, <2>3, <2>4, AccountOthers
<1>4. ASSUME NEW s \in Sock, CreateFails(s)
      PROVE  AllAccounted'
  <2>1. \A s2 \in Stream : s2 # s /\ id'[s2] # NoFd =>
          /\ id'[s2] = id[s2] /\ incoming'[s2] = incoming[s2] /\ taken'[s2] = taken[s2]
          /\ file'[id[s2]] = file[id[s2]]
    BY <1>1, <1>4 DEF CreateFails
  <2>2. id'[s] = NoFd
    BY <1>1, <1>4 DEF CreateFails
  <2> QED BY <2>1, <2>2, AccountOthers
<1>5. ASSUME NEW s \in Sock, Invalidate(s), UNCHANGED <<incoming, taken>>
      PROVE  AllAccounted'
  <2>1. \A s2 \in Stream : s2 # s /\ id'[s2] # NoFd =>
          /\ id'[s2] = id[s2] /\ incoming'[s2] = incoming[s2] /\ taken'[s2] = taken[s2]
          /\ file'[id[s2]] = file[id[s2]]
    BY <1>1, <1>5 DEF Invalidate
  <2>2. id'[s] = NoFd
    BY <1>1, <1>5 DEF Invalidate
  <2> QED BY <2>1, <2>2, AccountOthers
<1>6. ASSUME NEW s \in Sock, Recv(s) \/ RecvData(s)
      PROVE  AllAccounted'
  <2>1. RecvResult(s, Front(incoming[s]), Pop(incoming[s]))
    BY <1>6, RecvTakes
  <2>2. /\ incoming'[s] = Pop(incoming[s])
        /\ taken'[s] = taken[s] + Len(Front(incoming[s]))
        /\ UNCHANGED <<id, file>> /\ ~IsEmpty(incoming[s])
    BY <1>1, <2>1 DEF RecvResult
  <2>3. \A s2 \in Sock : s2 # s => incoming'[s2] = incoming[s2] /\ taken'[s2] = taken[s2]
    BY <1>1, <2>1 DEF RecvResult
  <2>4. ASSUME s \in Stream, id[s] # NoFd
        PROVE  Accounted(incoming'[s].queue, file[id[s]].rx, taken'[s], file[id[s]].sent)
    <3>1. file[id[s]].rx \in Seq(Item) /\ file[id[s]].sent \in Nat
      BY <1>1, <2>4, ServiceAssumption DEF File
    <3>2. Accounted(incoming[s].queue, file[id[s]].rx, taken[s], file[id[s]].sent)
      BY <2>4 DEF AllAccounted
    <3> QED BY <1>1, <2>2, <3>1, <3>2, AccountTaken
  <2> QED BY <1>1, <2>2, <2>3, <2>4, AccountOthers
<1>7. ASSUME NEW s \in Sock, RecvFrom(s)
      PROVE  AllAccounted'
  <2>1. s \notin Stream /\ UNCHANGED <<id, incoming, taken>>
        /\ \A f \in Fd : f # id[s] => file'[f] = file[f]
    BY <1>1, <1>7 DEF RecvFrom
  <2>2. \A s2 \in Stream : id[s2] # NoFd => file'[id[s2]] = file[id[s2]]
    BY <1>1, <2>1
  <2> QED BY <2>1, <2>2 DEF AllAccounted
<1>8. ASSUME NEW s \in Sock, ScriptArrive(s)
      PROVE  AllAccounted'
  <2>1. Arrive(s) /\ UNCHANGED <<id, incoming, taken>> /\ id[s] # NoFd
    BY <1>8, ArriveFile, ServiceAssumption DEF ScriptArrive, IsOpen, SockInd
  <2>2. \A f \in Fd : f # id[s] => file'[f] = file[f]
    BY <1>1, <2>1 DEF Arrive, ArriveData, ArriveEmpty, ArriveEof, ArriveFault
  <2>3. \A s2 \in Stream : s2 # s /\ id[s2] # NoFd => file'[id[s2]] = file[id[s2]]
    BY <1>1, <2>2
  <2>4. s \in Stream =>
          Accounted(incoming[s].queue, file'[id[s]].rx, taken[s], file'[id[s]].sent)
    BY <2>1, AccountArrives DEF AllAccounted
  <2> QED BY <2>1, <2>3, <2>4, AccountOthers
<1>9. ASSUME NEW t \in Thread, NEW s \in Sock, Visit(t, s)
      PROVE  AllAccounted'
  <2>1. CASE UNCHANGED serviceVars
    BY <1>2, <2>1 DEF serviceVars
  <2>2. CASE Receive(s)
    <3>1. s \in sockets /\ id[s] # NoFd /\ UNCHANGED <<id, taken>>
      BY <1>9, <2>2, ReceiveFile DEF Visit, SockInd, Ind, PointersValid, Sound,
         RegisteredAreValid
    <3>2. \A f \in Fd : f # id[s] => file'[f] = file[f]
      BY <1>1, <2>2 DEF Receive, ReceiveData, ReceiveEmpty, ReceiveEof, ReceiveError
    <3>3. \A s2 \in Stream : s2 # s /\ id[s2] # NoFd => file'[id[s2]] = file[id[s2]]
      BY <1>1, <3>2
    <3>4. \A s2 \in Sock : s2 # s => incoming'[s2] = incoming[s2]
      BY <1>1, <2>2 DEF Receive, ReceiveData, ReceiveEmpty, ReceiveEof, ReceiveError
    <3>5. s \in Stream =>
            Accounted(incoming'[s].queue, file'[id[s]].rx, taken[s], file'[id[s]].sent)
      BY <2>2, <3>1, AccountReceive DEF AllAccounted
    <3> QED BY <1>1, <3>1, <3>3, <3>4, <3>5, AccountOthers
  <2> QED BY <1>9, <2>1, <2>2 DEF Visit
<1>10. ASSUME NEW t \in Thread, ScriptCycle(t) \/ Interrupted(t)
       PROVE  AllAccounted'
  BY <1>2, <1>9, <1>10 DEF ScriptCycle, CycleSteps, CycleVisits, CycleBlocks, CycleUnblocks,
     Interrupted, Step, Watch, SelectFinds, SelectSleeps, SelectFails, SelectInterrupted,
     Enter, Leave, Exit, Return, serviceVars, vars
<1>11. ASSUME CloseSocket \/ \E s \in Sock : RecvError(s)
       PROVE  AllAccounted'
  <2>1. CASE CloseSocket
    <3>1. call.sock \in Sock
      BY <2>1 DEF CloseSocket, SockInd, OwnInd, CallOK
    <3> QED BY <1>5, <2>1, <3>1 DEF CloseSocket
  <2>2. ASSUME NEW s \in Sock, RecvError(s)
        PROVE  AllAccounted'
    BY <1>5, <2>2 DEF RecvError
  <2> QED BY <1>11, <2>1, <2>2
<1>12. ASSUME NEW s \in Sock,
              \/ Bind(s) \/ Listen(s) \/ ConnectAsync(s) \/ ConnectSync(s)
              \/ CloseReturns(s) \/ CloseForces(s) \/ Dispose(s)
       PROVE  AllAccounted'
  BY <1>2, <1>12 DEF Bind, Listen, ConnectAsync, ConnectSync, CloseReturns, CloseForces,
     Dispose, vars, serviceVars, allVars
<1>13. ASSUME Proceed \/ UNCHANGED allVars, ~CloseSocket
       PROVE  AllAccounted'
  BY <1>2, <1>13 DEF Proceed, ConnectSyncEnds, AddSocket, Add, CheckPoolInvariant,
     RemoveSocket, Remove, Delete, vars, serviceVars, allVars
<1> QED BY <1>3, <1>4, <1>6, <1>7, <1>8, <1>10, <1>11, <1>12, <1>13
        DEF SocketsNext, Create, Accept

\* A disciplined script loses nothing of a stream, wherever its pieces are.
THEOREM StreamsAreAccounted ==
  ASSUME Disciplined
  PROVE  SocketsSpec => []AllAccounted
<1>1. SocketsInit => AllAccounted
  BY ServiceAssumption DEF SocketsInit, PoolInit, ServiceInit, AllAccounted
<1>2. SockInd /\ AllAccounted /\ [SocketsNext]_allVars => AllAccounted'
  BY AccountNext
<1> QED BY <1>1, <1>2, DisciplineInductive, PTL DEF SocketsSpec

\* When an empty result closes a stream, the script has everything that
\* arrived for it.
THEOREM NothingIsCutOff ==
  ASSUME Disciplined
  PROVE  SocketsSpec => NothingCutOff
<1> DEFINE Whole ==
      \A s \in Stream :
        (Recv(s) \/ RecvData(s)) /\ call'.op = "close" /\ IsOpen(id[s])
          => taken'[s] = file[id[s]].sent /\ IsEmpty(incoming'[s])
<1>1. ASSUME SockInd, AllAccounted
      PROVE  Whole
  <2> SUFFICES ASSUME NEW s \in Stream, Recv(s) \/ RecvData(s),
                      call'.op = "close", IsOpen(id[s])
               PROVE  taken'[s] = file[id[s]].sent /\ IsEmpty(incoming'[s])
    OBVIOUS
  <2>1. s \in Sock
    BY ServiceAssumption
  <2>2. RecvResult(s, Front(incoming[s]), Pop(incoming[s]))
    BY <1>1, <2>1, RecvTakes
  <2>3. /\ ~IsEmpty(incoming[s]) /\ Front(incoming[s]) = <<>>
        /\ incoming'[s] = Pop(incoming[s])
        /\ taken'[s] = taken[s] + Len(Front(incoming[s]))
    BY <1>1, <2>1, <2>2 DEF RecvResult, Called, Idle, SockInd, Ind, TypeOK
  <2>4. /\ incoming[s] \in Buffers(Piece, Errors) /\ taken[s] \in Nat
        /\ file[id[s]].rx \in Seq(Item) /\ file[id[s]].sent \in Nat
        /\ id[s] # NoFd
    BY <1>1, <2>1, ServiceAssumption DEF SockInd, OwnInd, Ind, TypeOK, IsOpen, File
  <2>5. Accounted(incoming[s].queue, file[id[s]].rx, taken[s], file[id[s]].sent)
    BY <1>1, <2>4 DEF AllAccounted
  <2> QED BY <2>3, <2>4, <2>5, AccountTaken
<1>2. SocketsSpec => [](SockInd /\ AllAccounted)
  BY DisciplineInductive, StreamsAreAccounted, PTL
<1>3. SockInd /\ AllAccounted => [Whole]_allVars
  BY <1>1
<1> HIDE DEF Whole
<1>4. SocketsSpec => [][Whole]_allVars
  BY <1>2, <1>3, PTL
<1> QED BY <1>4 DEF Whole, NothingCutOff

================================================================================
