------------------------------ MODULE PoolProps -------------------------------
(***************************************************************************)
(* The properties of the pool.                                             *)
(***************************************************************************)
EXTENDS Pool

\* Where a thread is inside the event loop.
Looping(t) == pc[t] \notin {"idle", "exit"}

\* Every variable has its type.
TypeOK ==
  /\ sockets \subseteq Sock
  /\ active \in BOOLEAN
  /\ id \in [Sock -> Fd \union {NoFd}]
  /\ incoming \in [Sock -> Buffers(Piece, Errors)]
  /\ taken \in [Sock -> Nat]
  /\ file \in [Fd -> [open : BOOLEAN, rx : Seq(Piece \union {Empty, Eof, Fault}), sent : 0..MaxArrive]]
  /\ guard \in Thread \union {NoThread}
  /\ pipe \in 0..PipeCap
  /\ pc \in [Thread -> Location]
  /\ read \in [Thread -> SUBSET (Fd \union {NoFd})]
  /\ signal \in [Thread -> BOOLEAN]
  /\ armed \in [Thread -> SUBSET Fd]
  /\ todo \in [Thread -> SUBSET Sock]

(***************************************************************************)
(* Safety.                                                                 *)
(***************************************************************************)

\* At most one thread runs the read cycle, and Thread::active tells whether
\* one does, although a thread ends by itself (Pool.cpp:109-117) and add
\* starts the next one without looking at whether the last is gone.
OneLoop ==
  /\ \A t1, t2 \in Thread : pc[t1] # "idle" /\ pc[t2] # "idle" => t1 = t2
  /\ active <=> \E t \in Thread : Looping(t)

\* Invariant I of Pool.cpp:18, what Pool::operator bool tests first: a
\* registered socket always has a thread to read it.
InvariantI == sockets # {} => active

\* The read cycle never sleeps through what it must see: when its select can
\* only be ended by its descriptors, these are the open ones of all the
\* registered sockets; and with nothing registered it has been signalled.
NoLostWakeup ==
  \A t \in Thread :
    pipe = 0 =>
      /\ pc[t] \in {"select", "asleep"} =>
           \A s \in sockets : id[s] # NoFd => id[s] \in read[t]
      /\ pc[t] = "asleep" =>
           \A s \in sockets : IsOpen(id[s]) => id[s] \in armed[t]
      /\ pc[t] \in {"top", "select", "asleep"} => sockets # {}

\* Once remove or clear returned, the read cycle holds no pointer to the
\* socket any more: AGSSocket::Dispose frees it next (Socket.cpp:54-71).
PointersValid ==
  \A t \in Thread :
    /\ todo[t] \subseteq sockets
    /\ todo[t] # {} => guard = t

\* What a socket received is what arrived at its descriptor, in order and
\* without a gap: the pieces taken, those in the buffer and those still in
\* the kernel.
ReceivesInOrder(s) ==
  LET rest == Content(incoming[s])
                \o (IF IsOpen(id[s]) THEN PiecesOf(file[id[s]].rx) ELSE <<>>)
  IN  /\ rest = [i \in 1..Len(rest) |-> taken[s] + i]
      /\ IsOpen(id[s]) => taken[s] + Len(rest) = file[id[s]].sent

\* This holds of every socket, whatever was registered, closed and reopened
\* in between.
InOrder == \A s \in Sock : ReceivesInOrder(s)

(***************************************************************************)
(* Liveness.                                                               *)
(***************************************************************************)

\* The pool is the service of ReadService: what waits at an open descriptor
\* of a registered socket is received although select sleeps on an older
\* set of descriptors, and the thread of an empty pool shuts itself down
\* (test/pool.cpp, "should shut itself down eventually").
Service == ServiceSpec

\* A socket closed while it is registered is found and thrown out once the
\* read cycle is signalled, by its read error (test/pool.cpp, "pool read
\* errors"; Pool.cpp:54), unless its descriptor is forgotten before: select
\* is not asked about that any more.
CloseIsNoticed ==
  \A s \in Sock :
    (s \in sockets /\ id[s] # NoFd /\ ~IsOpen(id[s]) /\ pipe > 0)
      ~> (s \notin sockets \/ id[s] = NoFd)

===============================================================================
