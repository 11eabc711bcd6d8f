------------------------------ MODULE PoolProofs ------------------------------
(***************************************************************************)
(* The pool's type invariant, its safety invariants and its implementation *)
(* of the read service, for any sets of sockets, descriptors and threads;  *)
(* and what is left of it when it is destroyed.                            *)
(***************************************************************************)
EXTENDS PoolLifetime, BufferProofs

Item == Piece \union {Empty, Eof, Fault}

\* What recv takes from a descriptor are pieces, what it leaves are items.
LEMMA Received ==
  ASSUME NEW rx \in Seq(Item), NEW n \in 1..Len(rx),
         \A i \in 1..n : rx[i] > 0
  PROVE  /\ SubSeq(rx, 1, n) \in Seq(Piece)
         /\ SubSeq(rx, n + 1, Len(rx)) \in Seq(Item)
<1>1. \A i \in 1..n : rx[i] \in Piece
  <2> TAKE i \in 1..n
  <2>1. rx[i] \in Item /\ rx[i] > 0
    OBVIOUS
  <2> QED BY <2>1 DEF Item, Empty, Eof, Fault
<1>2. SubSeq(rx, 1, n) = [i \in 1..n |-> rx[i]]
  OBVIOUS
<1>3. SubSeq(rx, 1, n) \in Seq(Piece)
  BY <1>1, <1>2
<1>4. SubSeq(rx, n + 1, Len(rx)) \in Seq(Item)
  OBVIOUS
<1> QED BY <1>3, <1>4

File == [open : BOOLEAN, rx : Seq(Item), sent : 0..MaxArrive]

\* What the read cycle does with the outcome of recv keeps the types of the
\* buffers, of the kernel's side and of the registered sockets.
LEMMA ReceiveType ==
  ASSUME TypeOK, NEW s \in Sock, Receive(s)
  PROVE  /\ sockets' \subseteq Sock
         /\ incoming' \in [Sock -> Buffers(Piece, Errors)]
         /\ file' \in [Fd -> File]
<1> DEFINE f == id[s]
<1>1. /\ file \in [Fd -> File]
      /\ incoming \in [Sock -> Buffers(Piece, Errors)]
      /\ incoming[s] \in Buffers(Piece, Errors)
      /\ sockets \subseteq Sock
      /\ IsOpen(f) => f \in Fd /\ file[f].rx \in Seq(Item)
  BY DEF TypeOK, Item, File, IsOpen
<1> HIDE DEF f
<1>2. CASE ReceiveData(s)
  <2> USE DEF f
  <2>1. PICK n \in 1..Len(file[f].rx) :
          /\ \A i \in 1..n : file[f].rx[i] > 0
          /\ file' = [file EXCEPT ![f].rx = SubSeq(file[f].rx, n + 1, Len(file[f].rx))]
          /\ incoming' = [incoming EXCEPT
               ![s] = IF s \in Stream THEN AppendTo(@, SubSeq(file[f].rx, 1, n))
                                      ELSE Push(@, SubSeq(file[f].rx, 1, n))]
    BY <1>2 DEF ReceiveData
  <2>2. /\ SubSeq(file[f].rx, 1, n) \in Seq(Piece)
        /\ SubSeq(file[f].rx, n + 1, Len(file[f].rx)) \in Seq(Item)
        /\ f \in Fd
    BY <1>1, <1>2, <2>1, Received DEF ReceiveData
  <2>3. file' \in [Fd -> File]
    BY <1>1, <2>1, <2>2 DEF File
  <2>4. /\ AppendTo(incoming[s], SubSeq(file[f].rx, 1, n)) \in Buffers(Piece, Errors)
        /\ Push(incoming[s], SubSeq(file[f].rx, 1, n)) \in Buffers(Piece, Errors)
    BY <1>1, <2>2, AppendToType, PushType
  <2>5. incoming' \in [Sock -> Buffers(Piece, Errors)]
    BY <1>1, <2>1, <2>4
  <2> QED BY <1>1, <1>2, <2>3, <2>5 DEF ReceiveData
<1>3. CASE ReceiveEof(s)
  <2>1. <<>> \in Seq(Piece)
    OBVIOUS
  <2>2. AppendTo(incoming[s], <<>>) \in Buffers(Piece, Errors)
    BY <1>1, <2>1, AppendToType
  <2> QED BY <1>1, <1>3, <2>2 DEF ReceiveEof
<1>4. CASE ReceiveEmpty(s)
  <2>1. f \in Fd /\ file[f].rx \in Seq(Item) /\ file[f].rx # <<>>
    BY <1>1, <1>4 DEF ReceiveEmpty, Readable, f
  <2>2. Tail(file[f].rx) \in Seq(Item)
    BY <2>1
  <2>3. file' \in [Fd -> File]
    BY <1>1, <1>4, <2>1, <2>2 DEF ReceiveEmpty, File, f
  <2>4. Push(incoming[s], <<>>) \in Buffers(Piece, Errors)
    <3>1. <<>> \in Seq(Piece)
      OBVIOUS
    <3> QED BY <1>1, <3>1, PushType
  <2> QED BY <1>1, <1>4, <2>3, <2>4 DEF ReceiveEmpty
<1>5. CASE ReceiveError(s)
  <2>1. \A e \in Errors : [incoming[s] EXCEPT !.error = e] \in Buffers(Piece, Errors)
    BY <1>1 DEF Buffers
  <2>2. incoming' \in [Sock -> Buffers(Piece, Errors)]
    BY <1>1, <1>5, <2>1 DEF ReceiveError, Errors
  <2>3. CASE UNCHANGED file
    BY <1>1, <1>5, <2>2, <2>3 DEF ReceiveError
  <2>4. CASE /\ IsOpen(f) /\ file[f].rx # <<>>
             /\ file' = [file EXCEPT ![f].rx = Tail(@)]
    <3>1. Tail(file[f].rx) \in Seq(Item)
      BY <1>1, <2>4
    <3>2. file' \in [Fd -> File]
      BY <1>1, <2>4, <3>1 DEF File
    <3> QED BY <1>1, <1>5, <2>2, <3>2 DEF ReceiveError
  <2> QED BY <1>5, <2>3, <2>4 DEF ReceiveError, Readable, f
<1> QED BY <1>2, <1>3, <1>4, <1>5 DEF Receive

\* What arrives keeps the type of the kernel's side.
LEMMA ArriveType ==
  ASSUME TypeOK, NEW s \in Sock, Arrive(s)
  PROVE  TypeOK'
<1> DEFINE f == id[s]
           rx == file[f].rx
<1>1. /\ f \in Fd
      /\ file \in [Fd -> File]
      /\ rx \in Seq(Item)
  BY DEF TypeOK, Item, File, Arrive, ArriveData, ArriveEmpty, ArriveEof, ArriveFault, IsOpen
<1>2. file' \in [Fd -> File]
  <2>1. CASE ArriveData(s)
    <3>1. file[f].sent + 1 \in 0..MaxArrive /\ file[f].sent + 1 \in Piece
      BY <1>1, <2>1, ServiceAssumption DEF ArriveData, File, Piece
    <3>2. Append(rx, file[f].sent + 1) \in Seq(Item)
      BY <1>1, <3>1 DEF Item
    <3> QED BY <1>1, <2>1, <3>1, <3>2 DEF ArriveData, File
  <2>2. CASE ArriveEof(s)
    <3>1. Append(rx, Eof) \in Seq(Item)
      BY <1>1 DEF Item
    <3> QED BY <1>1, <2>2, <3>1 DEF ArriveEof, File
  <2>3. CASE ArriveFault(s)
    <3>1. <<Fault, Eof>> \in Seq(Item) /\ <<Fault>> \in Seq(Item)
      BY DEF Item
    <3>2. rx \o <<Fault, Eof>> \in Seq(Item) /\ <<Fault>> \o rx \in Seq(Item)
      BY <1>1, <3>1
    <3> QED BY <1>1, <2>3, <3>2 DEF ArriveFault, File
  <2>4. CASE ArriveEmpty(s)
    <3>1. Append(rx, Empty) \in Seq(Item)
      BY <1>1 DEF Item
    <3> QED BY <1>1, <2>4, <3>1 DEF ArriveEmpty, File
  <2> QED BY <2>1, <2>2, <2>3, <2>4 DEF Arrive
<1>3. UNCHANGED <<sockets, active, id, incoming, taken, cycleVars>>
  BY DEF Arrive, ArriveData, ArriveEmpty, ArriveEof, ArriveFault
<1> QED BY <1>2, <1>3 DEF TypeOK, cycleVars, File, Item

\* What the clients and the kernel do around the pool keeps every type.
LEMMA ClientType ==
  ASSUME TypeOK, NEW s \in Sock,
         \/ \E f \in Fd : PoolOpen(s, f)
         \/ PoolOpenFails(s) \/ PoolCloseFd(s) \/ PoolForget(s) \/ PoolDiscard(s)
         \/ PoolTake(s)
  PROVE  TypeOK'
<1>1. ClosedFile \in File /\ NewFile \in File
  <2>1. <<>> \in Seq(Item) /\ 0 \in 0..MaxArrive
    BY ServiceAssumption
  <2> QED BY <2>1 DEF ClosedFile, NewFile, File
<1>2. EmptyBuffer \in Buffers(Piece, Errors)
  BY DEF EmptyBuffer, Buffers, Errors
<1>3. ASSUME NEW f \in Fd, PoolOpen(s, f)
      PROVE  TypeOK'
  BY <1>1, <1>2, <1>3 DEF PoolOpen, Open, TypeOK, cycleVars, File, Item
<1>4. CASE PoolCloseFd(s)
  <2>1. /\ file' = [file EXCEPT ![id[s]] = ClosedFile]
        /\ armed' = [t \in Thread |-> armed[t] \ {id[s]}]
        /\ UNCHANGED <<sockets, active, id, incoming, taken>>
        /\ UNCHANGED <<guard, pipe, pc, read, signal, todo>>
    BY <1>4 DEF PoolCloseFd, CloseFd
  <2>2. file' \in [Fd -> File]
    BY <1>1, <2>1 DEF TypeOK, File, Item
  <2>3. armed' \in [Thread -> SUBSET Fd]
    BY <2>1 DEF TypeOK
  <2> QED BY <2>1, <2>2, <2>3 DEF TypeOK, File, Item
<1>5. CASE PoolOpenFails(s) \/ PoolForget(s)
  <2>1. CASE PoolOpenFails(s)
    BY <1>2, <2>1 DEF PoolOpenFails, OpenFails, TypeOK, cycleVars
  <2>2. CASE PoolForget(s)
    BY <2>2 DEF PoolForget, Forget, TypeOK, cycleVars
  <2> QED BY <1>5, <2>1, <2>2
<1>6. CASE PoolDiscard(s)
  <2>1. /\ armed' = [t \in Thread |-> armed[t] \ {id[s]}]
        /\ id' = [id EXCEPT ![s] = NoFd]
        /\ file' = file \/ file' = [file EXCEPT ![id[s]] = ClosedFile]
        /\ UNCHANGED <<sockets, active, incoming, taken>>
        /\ UNCHANGED <<guard, pipe, pc, read, signal, todo>>
    BY <1>6 DEF PoolDiscard, Discard
  <2>2. file' \in [Fd -> File]
    BY <1>1, <2>1 DEF TypeOK, File, Item
  <2>3. armed' \in [Thread -> SUBSET Fd] /\ id' \in [Sock -> Fd \union {NoFd}]
    BY <2>1 DEF TypeOK
  <2> QED BY <2>1, <2>2, <2>3 DEF TypeOK, File, Item
<1>7. CASE PoolTake(s)
  <2>1. /\ incoming[s] \in Buffers(Piece, Errors)
        /\ ~IsEmpty(incoming[s])
    BY <1>7 DEF PoolTake, Take, TypeOK
  <2>2. /\ Pop(incoming[s]) \in Buffers(Piece, Errors)
        /\ Len(Front(incoming[s])) \in Nat
    BY <2>1, PopType
  <2>3. /\ incoming' = [incoming EXCEPT ![s] = Pop(@)]
        /\ taken' = [taken EXCEPT ![s] = @ + Len(Front(incoming[s]))]
        /\ UNCHANGED <<sockets, active, id, file, cycleVars>>
    BY <1>7 DEF PoolTake, Take
  <2>4. /\ incoming' \in [Sock -> Buffers(Piece, Errors)]
        /\ taken' \in [Sock -> Nat]
    BY <2>2, <2>3 DEF TypeOK
  <2> QED BY <2>3, <2>4 DEF TypeOK, cycleVars
<1> QED BY <1>3, <1>4, <1>5, <1>6, <1>7

\* A signal leaves no more in the pipe than it holds.
LEMMA SignalType ==
  ASSUME pipe \in 0..PipeCap, SignalBeacon
  PROVE  pipe' \in 0..PipeCap /\ pipe' > 0
BY PoolAssumption DEF SignalBeacon

\* The pool's operations keep every type.
LEMMA OperationType ==
  ASSUME TypeOK,
         \/ \E s \in Sock : Add(s) \/ Remove(s)
         \/ Clear
  PROVE  TypeOK'
<1>1. pipe' \in 0..PipeCap
  BY SignalType DEF TypeOK, Add, Remove, Clear
<1>2. ASSUME NEW s \in Sock, Add(s)
      PROVE  TypeOK'
  <2>1. active' \in BOOLEAN /\ pc' \in [Thread -> Location]
    BY <1>2 DEF Add, StartThread, TypeOK, Location
  <2> QED BY <1>1, <1>2, <2>1 DEF Add, TypeOK
<1>3. ASSUME NEW s \in Sock, Remove(s)
      PROVE  TypeOK'
  BY <1>1, <1>3 DEF Remove, TypeOK
<1>4. CASE Clear
  BY <1>1, <1>4 DEF Clear, TypeOK
<1> QED BY <1>2, <1>3, <1>4

\* The read cycle keeps every type, when what it has yet to visit is registered.
LEMMA CycleType ==
  ASSUME TypeOK, PointersValid, NEW t \in Thread,
         Cycle(t) \/ SelectInterrupted(t)
  PROVE  TypeOK'
<1>1. CASE Watch(t)
  <2>1. {id[s] : s \in sockets} \subseteq Fd \union {NoFd}
    BY DEF TypeOK
  <2> QED BY <1>1, <2>1 DEF Watch, Goto, TypeOK, Location, serviceVars
<1>2. CASE SelectFinds(t)
  BY <1>2 DEF SelectFinds, Ready, Readable, IsOpen, TypeOK, Location, serviceVars
<1>3. CASE SelectSleeps(t)
  BY <1>3 DEF SelectSleeps, Watched, Goto, TypeOK, Location, serviceVars
<1>4. CASE SelectFails(t) \/ SelectInterrupted(t)
  BY <1>4 DEF SelectFails, SelectInterrupted, Goto, TypeOK, Location, serviceVars
<1>5. CASE Enter(t)
  BY <1>5, PoolAssumption DEF Enter, Goto, TypeOK, Location, serviceVars
<1>6. ASSUME NEW s \in Sock, Visit(t, s)
      PROVE  TypeOK'
  <2>1. todo' \in [Thread -> SUBSET Sock]
    BY <1>6 DEF Visit, TypeOK
  <2>2. CASE UNCHANGED serviceVars
    BY <1>6, <2>1, <2>2 DEF Visit, TypeOK, serviceVars
  <2>3. CASE Receive(s)
    <3>1. /\ sockets' \subseteq Sock
          /\ incoming' \in [Sock -> Buffers(Piece, Errors)]
          /\ file' \in [Fd -> File]
      BY <2>3, ReceiveType
    <3>2. UNCHANGED <<active, id, taken>>
      BY <2>3 DEF Receive, ReceiveData, ReceiveEmpty, ReceiveEof, ReceiveError
    <3> QED BY <1>6, <2>1, <3>1, <3>2 DEF Visit, TypeOK, File, Item
  <2> QED BY <1>6, <2>2, <2>3 DEF Visit
<1>7. CASE Leave(t) \/ Exit(t) \/ Return(t)
  BY <1>7 DEF Leave, Exit, Return, Goto, TypeOK, Location, serviceVars
<1> QED BY <1>1, <1>2, <1>3, <1>4, <1>5, <1>6, <1>7 DEF Cycle, Step

(***************************************************************************)
(* The inductive invariant.  Guarded is what the safety properties need    *)
(* besides one another: the lock is held exactly in the second critical    *)
(* section and until the return after thread_.exit().                      *)
(***************************************************************************)
Guarded ==
  \A t \in Thread :
    /\ pc[t] \in {"visit", "exit"} <=> guard = t
    /\ pc[t] = "exit" => sockets = {}

Ind ==
  /\ TypeOK
  /\ OneLoop
  /\ NoLostWakeup
  /\ PointersValid
  /\ Guarded

\* The strengthening holds before the first call: nothing is registered and
\* no thread runs.
LEMMA IndInit == PoolInit => Ind
<1> SUFFICES ASSUME PoolInit PROVE Ind
  OBVIOUS
<1>1. TypeOK
  <2>1. EmptyBuffer \in Buffers(Piece, Errors)
    BY DEF EmptyBuffer, Buffers, Errors
  <2>2. <<>> \in Seq(Item) /\ 0 \in 0..MaxArrive
    BY ServiceAssumption
  <2>3. ClosedFile \in File
    BY <2>2 DEF ClosedFile, File
  <2>4. /\ incoming \in [Sock -> Buffers(Piece, Errors)]
        /\ file \in [Fd -> File]
    BY <2>1, <2>3 DEF PoolInit, ServiceInit
  <2>5. pipe \in 0..PipeCap
    BY PoolAssumption DEF PoolInit
  <2> QED BY <2>4, <2>5 DEF PoolInit, ServiceInit, TypeOK, Location, File, Item
<1>2. OneLoop
  BY DEF PoolInit, ServiceInit, OneLoop, Looping
<1>3. PointersValid /\ Guarded
  BY PoolAssumption DEF PoolInit, ServiceInit, PointersValid, Guarded
<1>4. NoLostWakeup
  BY DEF PoolInit, NoLostWakeup
<1> QED BY <1>1, <1>2, <1>3, <1>4 DEF Ind

\* With the lock free no thread is in the second critical section.
LEMMA Unlocked ==
  ASSUME Ind, ~Locked
  PROVE  \A t \in Thread : pc[t] \notin {"visit", "exit"} /\ todo[t] = {}
BY PoolAssumption DEF Ind, Guarded, PointersValid, Locked

\* Pool::add keeps the strengthening, whether it starts the thread, signals
\* it, or signals one that is about to end.
LEMMA AddKeeps ==
  ASSUME Ind, NEW s \in Sock, Add(s)
  PROVE  Ind'
<1>1. ~Locked
  BY DEF Add
<1>2. TypeOK'
  BY OperationType DEF Ind
<1>3. CASE sockets # {} \/ active
  <2>1. pipe' >= pipe
    BY <1>1, PoolAssumption DEF Add, SignalBeacon, Ind, TypeOK
  <2>2. sockets # {} => pipe' > 0
    BY SignalType DEF Add, Ind, TypeOK
  <2>3. UNCHANGED <<active, pc, id, file, guard, read, armed, todo>>
    BY <1>3 DEF Add, StartThread
  <2>4. sockets \subseteq sockets' /\ s \in sockets'
    BY DEF Add
  <2>5. OneLoop' /\ PointersValid'
    BY <2>3, <2>4 DEF Ind, OneLoop, Looping, PointersValid
  <2>6. Guarded'
    BY <1>1, <2>3, Unlocked DEF Ind, Guarded
  <2>7. NoLostWakeup'
    <3>1. CASE sockets # {}
      BY <1>2, <2>2, <3>1 DEF NoLostWakeup
    <3>2. CASE sockets = {}
      \* The sleeping thread of an emptied pool has been signalled.
      <4>1. \A t \in Thread : pipe = 0 => pc[t] \notin {"top", "select", "asleep"}
        BY <3>2 DEF Ind, NoLostWakeup
      <4>2. \A t \in Thread : pipe' = 0 => pc[t] \notin {"top", "select", "asleep"}
        BY <2>1, <4>1 DEF Ind, TypeOK
      <4> QED BY <2>3, <4>2 DEF NoLostWakeup
    <3> QED BY <3>1, <3>2
  <2> QED BY <1>2, <2>5, <2>6, <2>7 DEF Ind
<1>4. CASE sockets = {} /\ ~active
  <2>1. UNCHANGED <<id, file, guard, read, armed, todo>> /\ sockets' = {s}
    BY <1>4 DEF Add
  <2>2. \A t \in Thread : pc[t] = "idle" /\ todo[t] = {}
    BY <1>1, <1>4, Unlocked DEF Ind, OneLoop, Looping
  <2>3. \/ UNCHANGED <<active, pc>>
        \/ /\ active'
           /\ \E t \in Thread : pc' = [pc EXCEPT ![t] = "top"]
    BY <1>4 DEF Add, StartThread
  <2>4. \A t \in Thread : pc'[t] \in {"idle", "top"}
    BY <2>2, <2>3 DEF Ind, TypeOK
  <2>5. OneLoop'
    BY <2>2, <2>3 DEF Ind, OneLoop, Looping, TypeOK
  <2>6. PointersValid'
    BY <2>1, <2>2 DEF PointersValid
  <2>7. Guarded'
    BY <1>1, <2>1, <2>4, PoolAssumption DEF Guarded, Locked
  <2>8. NoLostWakeup'
    BY <2>1, <2>4 DEF NoLostWakeup
  <2> QED BY <1>2, <2>5, <2>6, <2>7, <2>8 DEF Ind
<1> QED BY <1>3, <1>4

\* Pool::remove and Pool::clear keep it: they wait for the lock, and signal.
LEMMA RemoveKeeps ==
  ASSUME Ind, (\E s \in Sock : Remove(s)) \/ Clear
  PROVE  Ind'
<1>1. /\ ~Locked
      /\ sockets' \subseteq sockets
      /\ UNCHANGED <<active, id, file, guard, pc, read, armed, todo>>
  BY DEF Remove, Clear
<1>2. TypeOK'
  BY OperationType DEF Ind
<1>3. (sockets' = sockets /\ pipe' = pipe) \/ pipe' > 0
  <2>1. CASE SignalBeacon
    BY <2>1, SignalType DEF Ind, TypeOK
  <2>2. ASSUME NEW s \in Sock, Remove(s), s \notin sockets
        PROVE  sockets' = sockets /\ pipe' = pipe
    BY <2>2 DEF Remove
  <2> QED BY <2>1, <2>2 DEF Remove, Clear
<1>4. OneLoop'
  BY <1>1 DEF Ind, OneLoop, Looping
<1>5. PointersValid' /\ Guarded'
  BY <1>1, Unlocked, PoolAssumption DEF Ind, PointersValid, Guarded, Locked
<1>6. NoLostWakeup'
  <2>1. CASE sockets' = sockets /\ pipe' = pipe
    BY <1>1, <2>1 DEF Ind, NoLostWakeup, IsOpen
  <2>2. CASE pipe' > 0
    BY <1>2, <2>2 DEF NoLostWakeup, TypeOK
  <2> QED BY <1>3, <2>1, <2>2
<1> QED BY <1>2, <1>4, <1>5, <1>6 DEF Ind

\* What happens around the pool keeps it: descriptors made, closed and made
\* again, data that arrives and data that is taken.
LEMMA ClientKeeps ==
  ASSUME Ind, NEW s \in Sock,
         \/ \E f \in Fd : PoolOpen(s, f)
         \/ PoolOpenFails(s) \/ PoolCloseFd(s) \/ PoolForget(s) \/ PoolDiscard(s)
         \/ PoolTake(s)
         \/ Arrive(s)
  PROVE  Ind'
<1>1. TypeOK'
  BY ClientType, ArriveType DEF Ind
<1>2. /\ UNCHANGED <<sockets, active, guard, pipe, pc, read, todo>>
      /\ \A s2 \in sockets : id'[s2] \in {id[s2], NoFd}
  <2>1. CASE PoolOpenFails(s)
    BY <2>1 DEF PoolOpenFails, OpenFails, cycleVars
  <2>2. CASE Arrive(s)
    <3>1. UNCHANGED <<sockets, active, id, cycleVars>>
      BY <2>2 DEF Arrive, ArriveData, ArriveEmpty, ArriveEof, ArriveFault
    <3> QED BY <3>1 DEF cycleVars
  <2>3. CASE \E f \in Fd : PoolOpen(s, f)
    BY <2>3 DEF PoolOpen, Open, cycleVars, Ind, TypeOK
  <2>4. CASE PoolCloseFd(s) \/ PoolForget(s) \/ PoolDiscard(s) \/ PoolTake(s)
    BY <2>4 DEF PoolCloseFd, CloseFd, PoolForget, Forget, PoolDiscard, Discard,
       PoolTake, Take, cycleVars, Ind, TypeOK
  <2> QED BY <2>1, <2>2, <2>3, <2>4
<1>3. OneLoop' /\ PointersValid' /\ Guarded'
  BY <1>2 DEF Ind, OneLoop, Looping, PointersValid, Guarded
<1>4. \A t \in Thread, s2 \in sockets :
        /\ IsOpen(id[s2]) => id[s2] \in armed[t]
        /\ IsOpen(id[s2])'
        => id'[s2] \in armed'[t]
  <2> SUFFICES ASSUME NEW t \in Thread, NEW s2 \in sockets,
                      IsOpen(id[s2]) => id[s2] \in armed[t],
                      IsOpen(id[s2])'
               PROVE  id'[s2] \in armed'[t]
    OBVIOUS
  <2>0. id'[s2] = id[s2]
    BY <1>2, ServiceAssumption DEF IsOpen
  <2>1. ASSUME NEW f \in Fd, PoolOpen(s, f)
        PROVE  id'[s2] \in armed'[t]
    BY <1>2, <2>0, <2>1 DEF PoolOpen, Open, IsOpen, cycleVars, Ind, TypeOK
  <2>2. CASE PoolCloseFd(s)
    BY <1>2, <2>0, <2>2 DEF PoolCloseFd, CloseFd, IsOpen, ClosedFile, Ind, TypeOK
  <2>3. CASE PoolDiscard(s)
    BY <1>2, <2>0, <2>3, ServiceAssumption
       DEF PoolDiscard, Discard, IsOpen, ClosedFile, Ind, TypeOK
  <2>4. CASE PoolOpenFails(s) \/ PoolForget(s) \/ PoolTake(s)
    BY <1>2, <2>0, <2>4 DEF PoolOpenFails, OpenFails, PoolForget, Forget,
         PoolTake, Take, IsOpen, cycleVars
  <2>5. CASE Arrive(s)
    <3>1. UNCHANGED <<id, armed>>
      BY <2>5 DEF Arrive, ArriveData, ArriveEmpty, ArriveEof, ArriveFault, cycleVars
    <3>2. file \in [Fd -> File]
      BY DEF Ind, TypeOK, File, Item
    <3>3. \A f \in Fd : file'[f].open = file[f].open
      <4>1. CASE ArriveData(s)
        BY <3>2, <4>1 DEF ArriveData, File
      <4>2. CASE ArriveEof(s)
        BY <3>2, <4>2 DEF ArriveEof, File
      <4>3. CASE ArriveFault(s)
        BY <3>2, <4>3 DEF ArriveFault, File
      <4>4. CASE ArriveEmpty(s)
        BY <3>2, <4>4 DEF ArriveEmpty, File
      <4> QED BY <2>5, <4>1, <4>2, <4>3, <4>4 DEF Arrive
    <3>4. IsOpen(id[s2])
      BY <2>0, <3>1, <3>3 DEF IsOpen
    <3> QED BY <2>0, <3>1, <3>4
  <2> QED BY <2>1, <2>2, <2>3, <2>4, <2>5
<1>5. NoLostWakeup'
  BY <1>2, <1>4 DEF Ind, NoLostWakeup
<1> QED BY <1>1, <1>3, <1>5 DEF Ind

\* The steps of a thread outside the critical sections, and into them.
LEMMA SelectKeeps ==
  ASSUME Ind, NEW t \in Thread,
         \/ Watch(t) \/ SelectFinds(t) \/ SelectSleeps(t) \/ SelectFails(t)
         \/ SelectInterrupted(t)
  PROVE  Ind'
<1>1. TypeOK'
  BY CycleType DEF Ind, Cycle, Step
<1>2. /\ UNCHANGED <<serviceVars, guard, pipe, todo>>
      /\ pc[t] \in {"top", "select", "asleep"}
      /\ \A u \in Thread : u # t => pc'[u] = pc[u] /\ pc[u] = "idle"
      /\ pc'[t] \in {"select", "asleep", "woken"}
  BY DEF Watch, SelectFinds, SelectSleeps, SelectFails, SelectInterrupted, Goto,
         Ind, OneLoop, TypeOK
<1>3. OneLoop' /\ PointersValid' /\ Guarded'
  BY <1>2 DEF Ind, OneLoop, Looping, PointersValid, Guarded, serviceVars
<1>4. NoLostWakeup'
  <2>1. CASE Watch(t)
    <3>1. /\ pc'[t] = "select"
          /\ read'[t] = {id[s] : s \in sockets}
      BY <2>1 DEF Watch, Goto, Ind, TypeOK
    <3>2. pipe = 0 => sockets # {}
      BY <1>2 DEF Ind, NoLostWakeup
    <3> QED BY <1>2, <3>1, <3>2 DEF NoLostWakeup, serviceVars
  <2>2. CASE SelectSleeps(t)
    <3>1. /\ pc[t] = "select" /\ pc'[t] = "asleep"
          /\ read' = read
          /\ armed'[t] = Watched(t)
      BY <2>2 DEF SelectSleeps, Goto, Ind, TypeOK
    <3>2. pipe = 0 => sockets # {} /\ \A s \in sockets : id[s] # NoFd => id[s] \in read[t]
      BY <3>1 DEF Ind, NoLostWakeup
    <3>3. \A s \in sockets : IsOpen(id[s]) => id[s] # NoFd
      BY ServiceAssumption DEF IsOpen
    <3> QED BY <1>2, <3>1, <3>2, <3>3 DEF NoLostWakeup, Watched, IsOpen, serviceVars
  <2>3. CASE SelectFinds(t) \/ SelectFails(t) \/ SelectInterrupted(t)
    <3>1. pc'[t] = "woken"
      BY <2>3 DEF SelectFinds, SelectFails, SelectInterrupted, Goto, Ind, TypeOK
    <3> QED BY <1>2, <3>1 DEF NoLostWakeup
  <2> QED BY <2>1, <2>2, <2>3
<1> QED BY <1>1, <1>3, <1>4 DEF Ind

\* The start of the second critical section keeps it: whoever drains the
\* beacon goes on to look at every registered socket.
LEMMA EnterKeeps ==
  ASSUME Ind, NEW t \in Thread, Enter(t)
  PROVE  Ind'
<1>1. TypeOK'
  BY CycleType DEF Ind, Cycle, Step
<1>2. /\ UNCHANGED serviceVars
      /\ pc[t] = "woken" /\ pc'[t] = "visit" /\ guard' = t
      /\ todo'[t] = sockets
      /\ \A u \in Thread : u # t =>
           pc'[u] = pc[u] /\ pc[u] = "idle" /\ todo'[u] = todo[u] /\ todo[u] = {}
  BY Unlocked DEF Enter, Goto, Ind, OneLoop, TypeOK
<1>3. OneLoop' /\ PointersValid' /\ Guarded'
  BY <1>2 DEF Ind, OneLoop, Looping, PointersValid, Guarded, serviceVars
<1>4. NoLostWakeup'
  BY <1>2 DEF NoLostWakeup
<1> QED BY <1>1, <1>3, <1>4 DEF Ind

\* The visit to a socket keeps it: only the socket visited is unregistered.
LEMMA VisitKeeps ==
  ASSUME Ind, NEW t \in Thread, NEW s \in Sock, Visit(t, s)
  PROVE  Ind'
<1>1. TypeOK'
  BY CycleType DEF Ind, Cycle, Step
<1>2. /\ UNCHANGED <<active, id, guard, pc>>
      /\ sockets \ {s} \subseteq sockets' /\ sockets' \subseteq sockets
      /\ todo'[t] = todo[t] \ {s}
      /\ \A u \in Thread : u # t => todo'[u] = todo[u]
  BY DEF Visit, Receive, ReceiveData, ReceiveEmpty, ReceiveEof, ReceiveError, serviceVars, Ind, TypeOK
<1>3. pc[t] = "visit" /\ guard = t
  BY DEF Visit, Ind, Guarded
<1>4. \A u \in Thread : u # t => pc[u] = "idle" /\ todo[u] = {}
  BY <1>3 DEF Ind, OneLoop, PointersValid
<1>5. OneLoop'
  BY <1>2 DEF Ind, OneLoop, Looping
<1>6. PointersValid' /\ Guarded'
  BY <1>2, <1>3, <1>4 DEF Ind, PointersValid, Guarded
<1>7. NoLostWakeup'
  BY <1>2, <1>3, <1>4 DEF NoLostWakeup
<1> QED BY <1>1, <1>5, <1>6, <1>7 DEF Ind

\* The end of the second critical section keeps it: the thread that exits
\* says so before it drops the lock.
LEMMA LeaveKeeps ==
  ASSUME Ind, NEW t \in Thread, Leave(t) \/ Exit(t) \/ Return(t)
  PROVE  Ind'
<1>1. TypeOK'
  BY CycleType DEF Ind, Cycle, Step
<1>2. /\ UNCHANGED <<sockets, id, todo>>
      /\ pc[t] \in {"visit", "exit"} /\ guard = t /\ todo[t] = {}
      /\ \A u \in Thread : u # t => pc'[u] = pc[u] /\ pc[u] = "idle" /\ todo[u] = {}
  BY DEF Leave, Exit, Return, Goto, serviceVars, Ind, TypeOK, OneLoop, Guarded, PointersValid
<1>3. \/ /\ pc'[t] = "top" /\ guard' = NoThread /\ sockets # {}
         /\ pc[t] = "visit" /\ active' = active
      \/ /\ pc'[t] = "exit" /\ guard' = guard /\ sockets = {}
         /\ active' = FALSE
      \/ /\ pc'[t] = "idle" /\ guard' = NoThread
         /\ pc[t] = "exit" /\ active' = active
  BY DEF Leave, Exit, Return, Goto, serviceVars, Ind, TypeOK
<1>4. OneLoop'
  <2>1. \A u \in Thread : u # t => pc[u] = "idle" /\ pc'[u] = "idle"
    BY <1>2
  <2>2. active <=> Looping(t)
    BY <2>1 DEF Ind, OneLoop, Looping
  <2>3. active' <=> Looping(t)'
    BY <1>3, <2>2 DEF Looping
  <2>4. active' <=> \E u \in Thread : Looping(u)'
    BY <2>1, <2>3 DEF Looping
  <2> QED BY <2>1, <2>4 DEF OneLoop
<1>5. PointersValid' /\ Guarded'
  BY <1>2, <1>3, PoolAssumption DEF Ind, PointersValid, Guarded
<1>6. NoLostWakeup'
  BY <1>2, <1>3 DEF NoLostWakeup
<1> QED BY <1>1, <1>4, <1>5, <1>6 DEF Ind

\* Every step of the pool keeps the strengthening.
LEMMA IndNext == Ind /\ [PoolNext]_vars => Ind'
<1> SUFFICES ASSUME Ind, [PoolNext]_vars PROVE Ind'
  OBVIOUS
<1>1. CASE UNCHANGED vars
  BY <1>1 DEF vars, cycleVars, serviceVars, Ind, TypeOK, OneLoop, Looping,
              NoLostWakeup, IsOpen, PointersValid, Guarded
<1>2. ASSUME NEW s \in Sock, Add(s) \/ Remove(s)
      PROVE  Ind'
  BY <1>2, AddKeeps, RemoveKeeps
<1>3. CASE Clear
  BY <1>3, RemoveKeeps
<1>4. ASSUME NEW t \in Thread, Cycle(t) \/ SelectInterrupted(t)
      PROVE  Ind'
  BY <1>4, SelectKeeps, EnterKeeps, VisitKeeps, LeaveKeeps DEF Cycle, Step
<1>5. ASSUME NEW s \in Sock, NEW f \in Fd, PoolOpen(s, f)
      PROVE  Ind'
  BY <1>5, ClientKeeps
<1>6. ASSUME NEW s \in Sock,
             \/ PoolOpenFails(s) \/ PoolCloseFd(s) \/ PoolForget(s) \/ PoolDiscard(s)
             \/ PoolTake(s) \/ Arrive(s)
      PROVE  Ind'
  BY <1>6, ClientKeeps
<1> QED BY <1>1, <1>2, <1>3, <1>4, <1>5, <1>6 DEF PoolNext

(***************************************************************************)
(* The theorems.                                                           *)
(***************************************************************************)

\* The strengthening is an invariant, by the two facts above.
THEOREM Inductive == PoolSpec => []Ind
BY IndInit, IndNext, PTL DEF PoolSpec

\* Every variable of the pool keeps its type.
THEOREM TypeCorrect == PoolSpec => []TypeOK
<1>1. Ind => TypeOK
  BY DEF Ind
<1> QED BY <1>1, Inductive, PTL

\* However many threads were started and ended, at most one runs the read
\* cycle, and Thread::active tells whether one does.
THEOREM OneReadCycle == PoolSpec => []OneLoop
<1>1. Ind => OneLoop
  BY DEF Ind
<1> QED BY <1>1, Inductive, PTL

\* No registration, closing or signal is slept through.
THEOREM WakeupsAreNotLost == PoolSpec => []NoLostWakeup
<1>1. Ind => NoLostWakeup
  BY DEF Ind
<1> QED BY <1>1, Inductive, PTL

\* Once a socket is unregistered the read cycle has no pointer to it.
THEOREM NoDanglingPointers == PoolSpec => []PointersValid
<1>1. Ind => PointersValid
  BY DEF Ind
<1> QED BY <1>1, Inductive, PTL

\* No step leaves a registered socket without a thread, when pthread_create
\* does not fail.  Exit is the one that could: the lock it holds keeps the
\* empty set of sockets empty until active is false.
LEMMA ServedNext ==
  ASSUME ~CreateMayFail, Ind, InvariantI, [PoolNext]_vars
  PROVE  InvariantI'
<1>1. ASSUME NEW s \in Sock, Add(s)
      PROVE  InvariantI'
  BY <1>1 DEF Add, StartThread, InvariantI
<1>2. ASSUME NEW t \in Thread, Cycle(t) \/ SelectInterrupted(t)
      PROVE  InvariantI'
  <2>1. CASE Exit(t)
    BY <2>1 DEF Exit, InvariantI
  <2>2. ASSUME NEW s \in Sock, Visit(t, s)
        PROVE  InvariantI'
    BY <2>2 DEF Visit, Receive, ReceiveData, ReceiveEmpty, ReceiveEof, ReceiveError, serviceVars,
       InvariantI
  <2>3. CASE UNCHANGED serviceVars
    BY <2>3 DEF serviceVars, InvariantI
  <2> QED BY <1>2, <2>1, <2>2, <2>3 DEF Cycle, Step, Watch, SelectFinds, SelectSleeps,
       SelectFails, SelectInterrupted, Enter, Leave, Return
<1>3. CASE (\E s \in Sock : Remove(s)) \/ Clear
  BY <1>3 DEF Remove, Clear, InvariantI
<1>4. CASE UNCHANGED <<sockets, active>>
  BY <1>4 DEF InvariantI
<1> QED BY <1>1, <1>2, <1>3, <1>4 DEF PoolNext, PoolOpen, Open, PoolOpenFails, OpenFails,
     PoolCloseFd, CloseFd,
     PoolForget, Forget, PoolDiscard, Discard,
       PoolTake, Take, Arrive, ArriveData, ArriveEmpty, ArriveEof, ArriveFault,
     vars, serviceVars

\* Invariant I: with a pthread_create that does not fail, a registered
\* socket has a thread.
THEOREM RegisteredAreServed ==
  ASSUME ~CreateMayFail
  PROVE  PoolSpec => []InvariantI
<1>1. PoolInit => InvariantI
  BY DEF PoolInit, ServiceInit, InvariantI
<1>2. Ind /\ InvariantI /\ [PoolNext]_vars => InvariantI'
  BY ServedNext
<1> QED BY <1>1, <1>2, Inductive, PTL DEF PoolSpec

(***************************************************************************)
(* The pool implements the read service: every step of the pool is a step  *)
(* of the service or leaves what the service shows unchanged.              *)
(***************************************************************************)
ServiceSafety == ServiceInit /\ [][ServiceNext]_serviceVars

\* A step of the pool is a step of the service or shows nothing of it: add is
\* Register, remove and clear are Unregister, a visit is Deliver, thread_.exit
\* is Stop.
LEMMA StepServes ==
  ASSUME ~CreateMayFail, Ind, InvariantI, [PoolNext]_vars
  PROVE  [ServiceNext]_serviceVars
<1>1. ASSUME NEW s \in Sock, Add(s)
      PROVE  Register(s)
  <2>1. active'
    BY <1>1 DEF Add, StartThread, InvariantI, Ind, TypeOK
  <2> QED BY <1>1, <2>1 DEF Add, Register, Ind, TypeOK
<1>2. ASSUME NEW s \in Sock, Remove(s)
      PROVE  Unregister({s})
  BY <1>2 DEF Remove, Unregister
<1>3. CASE Clear
  <2>1. Unregister(Sock)
    BY <1>3 DEF Clear, Unregister, Ind, TypeOK
  <2> QED BY <2>1 DEF ServiceNext
<1>4. ASSUME NEW t \in Thread, NEW s \in Sock, Visit(t, s)
      PROVE  Deliver(s) \/ UNCHANGED serviceVars
  BY <1>4 DEF Visit, Deliver, Ind, PointersValid
<1>5. ASSUME NEW t \in Thread, Exit(t)
      PROVE  Stop
  <2>1. active
    BY <1>5 DEF Exit, Goto, Ind, OneLoop, Looping
  <2> QED BY <1>5, <2>1 DEF Exit, Stop
<1>6. ASSUME NEW t \in Thread, Cycle(t) \/ SelectInterrupted(t)
      PROVE  \/ \E s \in Sock : Deliver(s)
             \/ Stop
             \/ UNCHANGED serviceVars
  BY <1>4, <1>5, <1>6 DEF Cycle, Step, Watch, SelectFinds, SelectSleeps, SelectFails,
     SelectInterrupted, Enter, Leave, Return
<1>7. ASSUME NEW s \in Sock,
             \/ \E f \in Fd : PoolOpen(s, f)
             \/ PoolOpenFails(s) \/ PoolCloseFd(s) \/ PoolForget(s) \/ PoolDiscard(s)
             \/ PoolTake(s) \/ Arrive(s)
      PROVE  Environment \/ Take(s)
  BY <1>7 DEF PoolOpen, PoolOpenFails, PoolCloseFd, PoolForget, PoolDiscard, PoolTake,
     Arrive, Environment
<1>8. CASE UNCHANGED vars
  BY <1>8 DEF vars
<1>9. ASSUME NEW s \in Sock, Remove(s)
      PROVE  ServiceNext
  BY <1>2, <1>9 DEF ServiceNext
<1> QED BY <1>1, <1>3, <1>6, <1>7, <1>8, <1>9 DEF PoolNext, ServiceNext

\* Refinement: the pool, with its lock, thread and beacon, is the service
\* that receives for registered sockets, as far as safety goes.
THEOREM PoolImplementsService ==
  ASSUME ~CreateMayFail
  PROVE  PoolSpec => ServiceSafety
<1>1. PoolInit => ServiceInit
  BY DEF PoolInit
<1>2. Ind /\ InvariantI /\ [PoolNext]_vars => [ServiceNext]_serviceVars
  BY StepServes
<1> QED BY <1>1, <1>2, Inductive, RegisteredAreServed, PTL DEF PoolSpec, ServiceSafety

(***************************************************************************)
(* What arrives is delivered in order, whatever the clients do, and        *)
(* whether threads can be made or not.                                     *)
(***************************************************************************)

\* A sequence that goes on counting from n.
Numbered(q, n) == \A i \in 1..Len(q) : q[i] = n + i

\* What is left of such a sequence without its beginning, and its beginning.
LEMMA NumberedParts ==
  ASSUME NEW a \in Seq(Nat), NEW b \in Seq(Nat), NEW n \in Nat, Numbered(a \o b, n)
  PROVE  Numbered(a, n) /\ Numbered(b, n + Len(a))
<1>1. /\ Len(a \o b) = Len(a) + Len(b) /\ Len(a) \in Nat /\ Len(b) \in Nat
      /\ \A i \in 1..Len(a) + Len(b) :
           (a \o b)[i] = IF i <= Len(a) THEN a[i] ELSE b[i - Len(a)]
  BY ConcatProperties
<1>2. \A i \in 1..Len(a) + Len(b) :
        (IF i <= Len(a) THEN a[i] ELSE b[i - Len(a)]) = n + i
  BY <1>1 DEF Numbered
<1>3. ASSUME NEW i \in 1..Len(a)
      PROVE  a[i] = n + i
  <2>1. i \in 1..Len(a) + Len(b) /\ i <= Len(a)
    BY <1>1
  <2> QED BY <1>2, <2>1
<1>4. ASSUME NEW i \in 1..Len(b)
      PROVE  b[i] = (n + Len(a)) + i
  <2>1. Len(a) + i \in 1..Len(a) + Len(b) /\ ~(Len(a) + i <= Len(a)) /\ (Len(a) + i) - Len(a) = i
    BY <1>1
  <2>2. b[i] = n + (Len(a) + i)
    BY <1>2, <2>1
  <2> QED BY <1>1, <2>2
<1> QED BY <1>3, <1>4 DEF Numbered

\* And with one more.
LEMMA NumberedMore ==
  ASSUME NEW a \in Seq(Nat), NEW n \in Nat, NEW x \in Nat, Numbered(a, n),
         x = n + Len(a) + 1
  PROVE  Numbered(Append(a, x), n)
<1>1. /\ Len(Append(a, x)) = Len(a) + 1 /\ Len(a) \in Nat
      /\ \A i \in 1..Len(a) : Append(a, x)[i] = a[i]
      /\ Append(a, x)[Len(a) + 1] = x
  BY AppendProperties
<1> QED BY <1>1 DEF Numbered

\* What waits for a socket in the kernel, and all it has still to hand out.
Waiting(s) == IF IsOpen(id[s]) THEN PiecesOf(file[id[s]].rx) ELSE <<>>
Undelivered(s) == Content(incoming[s]) \o Waiting(s)

Ordered(s) ==
  /\ Numbered(Undelivered(s), taken[s])
  /\ IsOpen(id[s]) => taken[s] + Len(Undelivered(s)) = file[id[s]].sent

\* No two sockets name the same descriptor, so that what arrives for one is
\* not received for another.
Apart == \A s1, s2 \in Sock : id[s1] = id[s2] /\ id[s1] # NoFd => s1 = s2

OrderInd(S) == Apart /\ \A s \in S : Ordered(s)

\* What is in the buffer of a socket and in the kernel are pieces.
LEMMA PiecesType ==
  ASSUME TypeOK, NEW s \in Sock
  PROVE  /\ Content(incoming[s]) \in Seq(Piece)
         /\ Waiting(s) \in Seq(Piece)
         /\ Undelivered(s) \in Seq(Piece)
         /\ Undelivered(s) \in Seq(Nat)
         /\ taken[s] \in Nat
<1>1. Content(incoming[s]) \in Seq(Piece) /\ taken[s] \in Nat
  BY ContentType DEF TypeOK
<1>2. \A rx \in Seq(Item) : PiecesOf(rx) \in Seq(Piece)
  BY SelectedMembers DEF PiecesOf
<1>3. Waiting(s) \in Seq(Piece)
  BY <1>2 DEF TypeOK, Waiting, IsOpen, Item
<1>4. Undelivered(s) \in Seq(Piece)
  BY <1>1, <1>3 DEF Undelivered
<1>5. Undelivered(s) \in Seq(Nat)
  <2>1. Piece \subseteq Nat
    BY ServiceAssumption DEF Piece
  <2> QED BY <1>4, <2>1, SeqMonotonic
<1> QED BY <1>1, <1>3, <1>4, <1>5

\* Where nothing happens to a socket, its pieces stay in order.
LEMMA ElsewhereInOrder ==
  ASSUME NEW s \in Sock, Ordered(s),
         id'[s] = id[s], incoming'[s] = incoming[s], taken'[s] = taken[s],
         id[s] \in Fd => file'[id[s]] = file[id[s]]
  PROVE  Ordered(s)'
<1>1. IsOpen(id[s])' <=> IsOpen(id[s])
  BY DEF IsOpen
<1>2. IsOpen(id[s]) => file'[id'[s]] = file[id[s]]
  BY DEF IsOpen
<1>3. Waiting(s)' = Waiting(s)
  BY <1>1, <1>2 DEF Waiting
<1>4. Undelivered(s)' = Undelivered(s)
  BY <1>3 DEF Undelivered
<1> QED BY <1>1, <1>2, <1>4 DEF Ordered

\* What one socket does leaves the others alone.
LEMMA OthersInOrder ==
  ASSUME TypeOK, NEW S \in SUBSET Sock, OrderInd(S), NEW s \in Sock, s \in S => Ordered(s)',
         id' = id, \A u \in Sock \ {s} : incoming'[u] = incoming[u] /\ taken'[u] = taken[u],
         \A f \in Fd : f # id[s] => file'[f] = file[f]
  PROVE  OrderInd(S)'
<1>1. ASSUME NEW u \in S \ {s}
      PROVE  Ordered(u)'
  <2>1. id[u] \in Fd => id[u] # id[s]
    BY ServiceAssumption DEF OrderInd, Apart
  <2>2. Ordered(u)
    BY DEF OrderInd
  <2> QED BY <2>1, <2>2, ElsewhereInOrder
<1> QED BY <1>1 DEF OrderInd, Apart

\* What is not a piece leaves no gap where it was.
LEMMA NotAPiece ==
  ASSUME NEW rx \in Seq(Item), rx # <<>>, Head(rx) \in {Empty, Fault}
  PROVE  PiecesOf(Tail(rx)) = PiecesOf(rx)
<1> DEFINE x == Head(rx)
           r == Tail(rx)
<1>1. /\ r \in Seq(Item) /\ <<x>> \in Seq(Item) /\ <<x>> \in Seq({x})
      /\ rx = <<x>> \o r
  BY DEF Item
<1>2. x \notin Piece
  BY ServiceAssumption DEF Empty, Fault, Piece
<1> HIDE DEF x, r
<1>3. Selected(<<x>> \o r, Piece) = Selected(<<x>>, Piece) \o Selected(r, Piece)
  BY <1>1, SelectedConcat
<1>4. Selected(<<x>>, Piece) = <<>>
  BY <1>2, SelectedOne
<1>5. Selected(r, Piece) \in Seq(Piece)
  BY <1>1, SelectedMembers
<1>6. <<>> \o Selected(r, Piece) = Selected(r, Piece)
  BY <1>5, ConcatEmptySeq
<1>7. PiecesOf(r) = PiecesOf(rx)
  BY <1>1, <1>3, <1>4, <1>6 DEF PiecesOf
<1> QED BY <1>7 DEF r

\* A recv of the read cycle moves pieces, without reordering them, or moves
\* what is not a piece.
LEMMA ReceiveInOrder ==
  ASSUME TypeOK, NEW S \in SUBSET Sock, OrderInd(S), NEW s \in Sock, Receive(s)
  PROVE  OrderInd(S)'
<1> DEFINE f == id[s]
           rx == file[f].rx
           b == incoming[s]
<1>1. /\ b \in Buffers(Piece, Errors)
      /\ incoming \in [Sock -> Buffers(Piece, Errors)]
      /\ file \in [Fd -> File]
  BY DEF TypeOK, File, Item
<1>2. f \in Fd => rx \in Seq(Item)
  BY <1>1 DEF File
<1>3. UNCHANGED <<id, taken>>
  BY DEF Receive, ReceiveData, ReceiveEmpty, ReceiveEof, ReceiveError
<1>buffers. \A u \in Sock \ {s} : incoming'[u] = incoming[u]
  BY <1>1 DEF Receive, ReceiveData, ReceiveEmpty, ReceiveEof, ReceiveError
<1>files. \A g \in Fd : g # f => file'[g] = file[g]
  BY <1>1 DEF Receive, ReceiveData, ReceiveEmpty, ReceiveEof, ReceiveError
<1>4. SUFFICES ASSUME Ordered(s) PROVE Ordered(s)'
  <2>1. s \in S => Ordered(s)
    BY DEF OrderInd
  <2> QED BY <2>1, <1>3, <1>buffers, <1>files, OthersInOrder
<1>5. ASSUME Content(incoming'[s]) \o (Waiting(s)') = Undelivered(s),
             IsOpen(id[s])' <=> IsOpen(id[s]),
             IsOpen(id[s]) => file'[f].sent = file[f].sent
      PROVE  Ordered(s)'
  <2>1. Undelivered(s)' = Undelivered(s)
    BY <1>5 DEF Undelivered
  <2> QED BY <1>1, <1>3, <1>4, <1>5, <2>1 DEF Ordered
<1> DEFINE c == Content(b)
           w == PiecesOf(rx)
<1>skipped. ASSUME Readable(f), Head(rx) \in {Empty, Fault},
                   file' = [file EXCEPT ![f].rx = Tail(@)],
                   Content(incoming'[s]) = c
            PROVE  Ordered(s)'
  <2>1. IsOpen(f) /\ f \in Fd /\ rx \in Seq(Item) /\ rx # <<>>
    BY <1>2, <1>skipped DEF Readable, IsOpen
  <2>2. PiecesOf(Tail(rx)) = PiecesOf(rx)
    BY <1>skipped, <2>1, NotAPiece
  <2>3. file'[f].rx = Tail(rx) /\ file'[f].open = file[f].open /\ file'[f].sent = file[f].sent
    BY <1>1, <1>skipped, <2>1 DEF File
  <2>4. IsOpen(id[s])' /\ Waiting(s)' = PiecesOf(Tail(rx))
    BY <1>3, <2>1, <2>3 DEF IsOpen, Waiting, PiecesOf
  <2>5. Waiting(s)' = Waiting(s)
    BY <2>1, <2>2, <2>4 DEF Waiting
  <2> QED BY <1>5, <1>skipped, <2>1, <2>3, <2>4, <2>5 DEF Undelivered
<1>6. CASE ReceiveData(s)
  <2>1. PICK n \in 1..Len(rx) :
          /\ \A i \in 1..n : rx[i] > 0
          /\ file' = [file EXCEPT ![f].rx = SubSeq(rx, n + 1, Len(rx))]
          /\ incoming' = [incoming EXCEPT
               ![s] = IF s \in Stream THEN AppendTo(@, SubSeq(rx, 1, n))
                                      ELSE Push(@, SubSeq(rx, 1, n))]
    BY <1>6 DEF ReceiveData
  <2> DEFINE d == SubSeq(rx, 1, n)
             r == SubSeq(rx, n + 1, Len(rx))
  <2>2. IsOpen(f) /\ f \in Fd /\ rx \in Seq(Item)
    BY <1>2, <1>6 DEF ReceiveData, IsOpen
  <2>3. d \in Seq(Piece) /\ r \in Seq(Item)
    BY <2>1, <2>2, Received
  <2>4. d \in Seq(Item) /\ rx = d \o r
    <3>1. Len(rx) \in Nat /\ 1 \in 1..Len(rx) + 1 /\ n \in 0..Len(rx) /\ Len(rx) \in n..Len(rx)
      BY <2>1, <2>2
    <3>2. SubSeq(rx, 1, n) \o SubSeq(rx, n + 1, Len(rx)) = SubSeq(rx, 1, Len(rx))
      BY <2>2, <3>1, ConcatAdjacentSubSeq
    <3>3. SubSeq(rx, 1, Len(rx)) = rx
      BY <2>2, SubSeqFull
    <3>4. d \in Seq(Item)
      <4> HIDE DEF d
      <4> QED BY <2>3 DEF Item
    <3> QED BY <3>2, <3>3, <3>4
  <2>5. w = d \o PiecesOf(r)
    <3> HIDE DEF d, r
    <3>1. Selected(d \o r, Piece) = Selected(d, Piece) \o Selected(r, Piece)
      BY <2>3, <2>4, SelectedConcat
    <3>2. Selected(d, Piece) = d
      BY <2>3, SelectedAll
    <3> QED BY <2>4, <3>1, <3>2 DEF PiecesOf
  <2>6. Content(incoming'[s]) = c \o d
    <3>1. incoming'[s] = IF s \in Stream THEN AppendTo(b, d) ELSE Push(b, d)
      BY <1>1, <2>1
    <3> HIDE DEF d, b
    <3> QED BY <1>1, <2>3, <3>1, ContentAppendTo, ContentPush
  <2>7. file'[f].rx = r /\ file'[f].open = file[f].open /\ file'[f].sent = file[f].sent
    BY <1>1, <2>1, <2>2 DEF File
  <2>8. IsOpen(id[s])' /\ Waiting(s)' = PiecesOf(r)
    BY <1>3, <2>2, <2>7 DEF IsOpen, Waiting, PiecesOf
  <2>9. c \in Seq(Piece) /\ PiecesOf(r) \in Seq(Piece)
    BY <1>1, <2>3, ContentType, SelectedMembers DEF PiecesOf
  <2>10. (c \o d) \o PiecesOf(r) = c \o (d \o PiecesOf(r))
    <3> DEFINE p == PiecesOf(r)
    <3>1. c \in Seq(Piece) /\ d \in Seq(Piece) /\ p \in Seq(Piece)
      BY <2>3, <2>9
    <3>2. Associative(Piece)
      BY ConcatIsAssociative
    <3> HIDE DEF c, d, p
    <3>3. (c \o d) \o p = c \o (d \o p)
      BY <3>1, <3>2, Zenon DEF Associative
    <3> QED BY <3>3 DEF p
  <2>11. Undelivered(s) = c \o w
    BY <2>2 DEF Undelivered, Waiting
  <2>12. Content(incoming'[s]) \o (Waiting(s)') = Undelivered(s)
    <3> HIDE DEF c, d, w, r
    <3> QED BY <2>5, <2>6, <2>8, <2>10, <2>11
  <2> QED BY <1>5, <2>2, <2>7, <2>8, <2>12
<1>7. CASE ReceiveEof(s)
  <2>1. incoming'[s] = AppendTo(b, <<>>) /\ UNCHANGED file
    BY <1>1, <1>7 DEF ReceiveEof
  <2>2. <<>> \in Seq(Piece) /\ c \in Seq(Piece)
    BY <1>1, ContentType
  <2>3. Content(incoming'[s]) = c
    <3>1. Content(AppendTo(b, <<>>)) = c \o <<>>
      BY <1>1, <2>2, ContentAppendTo
    <3>2. c \o <<>> = c
      BY <2>2, ConcatEmptySeq
    <3> QED BY <2>1, <3>1, <3>2
  <2>4. Waiting(s)' = Waiting(s) /\ (IsOpen(id[s])' <=> IsOpen(id[s]))
    BY <1>3, <2>1 DEF Waiting, IsOpen
  <2> QED BY <1>5, <2>1, <2>3, <2>4 DEF Undelivered
<1>8. CASE ReceiveError(s)
  <2>1. Content(incoming'[s]) = c
    <3>1. incoming'[s].queue = b.queue
      BY <1>1, <1>8 DEF ReceiveError, Buffers
    <3> QED BY <3>1 DEF Content
  <2>2. CASE UNCHANGED file
    <3>1. Waiting(s)' = Waiting(s) /\ (IsOpen(id[s])' <=> IsOpen(id[s]))
      BY <1>3, <2>2 DEF Waiting, IsOpen
    <3> QED BY <1>5, <2>1, <2>2, <3>1 DEF Undelivered
  <2>3. CASE /\ Readable(f)
             /\ Head(rx) = Fault
             /\ file' = [file EXCEPT ![f].rx = Tail(@)]
    BY <1>skipped, <2>1, <2>3
  <2> QED BY <1>8, <2>2, <2>3 DEF ReceiveError
<1>9. CASE ReceiveEmpty(s)
  <2>1. incoming'[s] = Push(b, <<>>)
    BY <1>1, <1>9 DEF ReceiveEmpty
  <2>2. <<>> \in Seq(Piece) /\ c \in Seq(Piece)
    BY <1>1, ContentType
  <2>3. Content(incoming'[s]) = c
    <3>1. Content(Push(b, <<>>)) = c \o <<>>
      BY <1>1, <2>2, ContentPush
    <3>2. c \o <<>> = c
      BY <2>2, ConcatEmptySeq
    <3> QED BY <2>1, <3>1, <3>2
  <2> QED BY <1>9, <1>skipped, <2>3 DEF ReceiveEmpty
<1> QED BY <1>6, <1>7, <1>8, <1>9 DEF Receive

\* What arrives comes last, and is counted; the end of a stream and an error
\* are no pieces, wherever they are put.
LEMMA ArriveInOrder ==
  ASSUME TypeOK, NEW S \in SUBSET Sock, OrderInd(S), NEW s \in Sock, Arrive(s)
  PROVE  OrderInd(S)'
<1> DEFINE f == id[s]
           rx == file[f].rx
           c == Content(incoming[s])
           w == PiecesOf(rx)
<1>1. /\ f \in Fd /\ IsOpen(f) /\ rx \in Seq(Item)
      /\ file \in [Fd -> File] /\ file[f].sent \in Nat
  <2>1. f \in Fd /\ IsOpen(f)
    BY DEF TypeOK, Arrive, ArriveData, ArriveEmpty, ArriveEof, ArriveFault, IsOpen
  <2>2. file \in [Fd -> File] /\ file[f] \in File
    <3> HIDE DEF f
    <3>1. file \in [Fd -> File]
      BY DEF TypeOK, File, Item
    <3> QED BY <2>1, <3>1
  <2> HIDE DEF f
  <2>3. file[f].rx \in Seq(Item) /\ file[f].sent \in Nat
    BY <2>2 DEF File
  <2> QED BY <2>1, <2>2, <2>3
<1>2. UNCHANGED <<id, incoming, taken>>
  BY DEF Arrive, ArriveData, ArriveEmpty, ArriveEof, ArriveFault
<1>3. SUFFICES ASSUME Ordered(s) PROVE Ordered(s)'
  BY <1>1, <1>2, OthersInOrder DEF Arrive, ArriveData, ArriveEmpty, ArriveEof, ArriveFault, TypeOK, OrderInd
<1>4. /\ c \in Seq(Piece) /\ w \in Seq(Piece) /\ Undelivered(s) = c \o w
      /\ Undelivered(s) \in Seq(Nat) /\ taken[s] \in Nat
  BY <1>1, PiecesType DEF Undelivered, Waiting
<1>5. CASE ArriveData(s)
  <2> DEFINE x == file[f].sent + 1
  <2>1. x \in Piece /\ x \in Item /\ x \in Nat
    BY <1>1, <1>5, ServiceAssumption DEF ArriveData, Piece, Item
  <2>2. file'[f].rx = Append(rx, x) /\ file'[f].open = file[f].open /\ file'[f].sent = x
    BY <1>1, <1>5 DEF ArriveData, File
  <2>3. PiecesOf(Append(rx, x)) = Append(w, x)
    <3> HIDE DEF x
    <3> QED BY <1>1, <2>1, SelectedAppend DEF PiecesOf
  <2>4. IsOpen(id[s])' /\ Waiting(s)' = Append(w, x)
    BY <1>1, <1>2, <2>2, <2>3 DEF IsOpen, Waiting, PiecesOf
  <2>5. Undelivered(s)' = Append(Undelivered(s), x)
    <3> HIDE DEF c, w, x
    <3>1. <<x>> \in Seq(Piece) /\ c \o w \in Seq(Piece)
      BY <1>4, <2>1
    <3>2. Append(w, x) = w \o <<x>> /\ Append(c \o w, x) = (c \o w) \o <<x>>
      BY <1>4, <2>1, <3>1, AppendIsConcat
    <3>3. (c \o w) \o <<x>> = c \o (w \o <<x>>)
      <4> DEFINE y == <<x>>
      <4>1. c \in Seq(Piece) /\ w \in Seq(Piece) /\ y \in Seq(Piece)
        BY <1>4, <3>1
      <4>2. Associative(Piece)
        BY ConcatIsAssociative
      <4> HIDE DEF y
      <4>3. (c \o w) \o y = c \o (w \o y)
        BY <4>1, <4>2, Zenon DEF Associative
      <4> QED BY <4>3 DEF y
    <3>4. Undelivered(s)' = c \o Append(w, x)
      BY <1>2, <2>4 DEF Undelivered, c
    <3> QED BY <1>4, <3>2, <3>3, <3>4
  <2> DEFINE u == Undelivered(s)
             v == Undelivered(s)'
  <2>6. Numbered(u, taken[s]) /\ taken[s] + Len(u) = file[f].sent /\ Len(u) \in Nat
    BY <1>1, <1>3, <1>4 DEF Ordered
  <2>7. Numbered(Append(u, x), taken[s])
    <3>1. x = taken[s] + Len(u) + 1
      BY <1>4, <2>6
    <3> HIDE DEF u, x
    <3> QED BY <1>4, <2>1, <2>6, <3>1, NumberedMore DEF u
  <2>8. taken[s] + Len(Append(u, x)) = x
    <3>1. Len(Append(u, x)) = Len(u) + 1
      <4> HIDE DEF x
      <4> QED BY <1>4, <2>1, AppendProperties
    <3> QED BY <1>4, <2>6, <3>1
  <2>9. Numbered(v, taken'[s]) /\ taken'[s] + Len(v) = file'[id'[s]].sent
    <3> HIDE DEF u, v, x
    <3>1. v = Append(u, x)
      BY <2>5 DEF u, v
    <3> QED BY <1>2, <2>2, <2>7, <2>8, <3>1
  <2> QED BY <2>9 DEF Ordered
<1>6. ASSUME /\ PiecesOf(file'[f].rx) = w
             /\ file'[f].open = file[f].open
             /\ file'[f].sent = file[f].sent
      PROVE  Ordered(s)'
  <2>1. IsOpen(id[s])' /\ Waiting(s)' = w
    BY <1>1, <1>2, <1>6 DEF IsOpen, Waiting, PiecesOf
  <2>2. Undelivered(s)' = Undelivered(s)
    BY <1>2, <1>4, <2>1 DEF Undelivered
  <2> QED BY <1>1, <1>2, <1>3, <1>6, <2>2 DEF Ordered
<1>7. /\ Eof \notin Piece /\ Fault \notin Piece /\ Empty \notin Piece
      /\ <<>> \in Seq(Piece)
  BY ServiceAssumption DEF Eof, Fault, Empty, Piece
<1>8. CASE ArriveEof(s)
  <2>1. file'[f].rx = Append(rx, Eof) /\ file'[f].open = file[f].open /\ file'[f].sent = file[f].sent
    BY <1>1, <1>8 DEF ArriveEof, File
  <2>2. PiecesOf(Append(rx, Eof)) = w
    <3>1. Eof \in Item
      BY DEF Item
    <3> QED BY <1>1, <1>7, <3>1, SelectedAppend DEF PiecesOf
  <2> QED BY <1>6, <2>1, <2>2
<1>9. CASE ArriveFault(s)
  <2> DEFINE e == <<Fault>>
             z == <<Fault, Eof>>
  <2>1. /\ file'[f].rx = IF s \in Stream THEN rx \o z ELSE e \o rx
        /\ file'[f].open = file[f].open /\ file'[f].sent = file[f].sent
    BY <1>1, <1>9 DEF ArriveFault, File
  <2>2. /\ e \in Seq(Item) /\ e \in Seq({Fault, Eof})
        /\ z \in Seq(Item) /\ z \in Seq({Fault, Eof})
    BY DEF Item
  <2> HIDE DEF e, z
  <2>3. Selected(e, Piece) = <<>> /\ Selected(z, Piece) = <<>>
    <3>1. {Fault, Eof} \intersect Piece = {}
      BY <1>7
    <3> QED BY <2>2, <3>1, SelectedNone
  <2>4. w \o <<>> = w /\ <<>> \o w = w
    BY <1>4, ConcatEmptySeq
  <2>5. PiecesOf(rx \o z) = w /\ PiecesOf(e \o rx) = w
    <3>1. rx \in Seq(Item)
      BY <1>1
    <3> HIDE DEF rx
    <3>2. /\ Selected(rx \o z, Piece) = Selected(rx, Piece) \o Selected(z, Piece)
          /\ Selected(e \o rx, Piece) = Selected(e, Piece) \o Selected(rx, Piece)
      <4> DEFINE I == Item
                 P == Piece
      <4>1. e \in Seq(I) /\ z \in Seq(I) /\ rx \in Seq(I)
        BY <2>2, <3>1
      <4> HIDE DEF I, P
      <4>2. Selected(rx \o z, P) = Selected(rx, P) \o Selected(z, P)
        BY <4>1, SelectedConcat
      <4>3. Selected(e \o rx, P) = Selected(e, P) \o Selected(rx, P)
        BY <4>1, SelectedConcat
      <4> QED BY <4>2, <4>3, Zenon DEF P
    <3> QED BY <2>3, <2>4, <3>2 DEF PiecesOf
  <2> QED BY <1>6, <2>1, <2>5
<1>10. CASE ArriveEmpty(s)
  <2>1. /\ file'[f].rx = Append(rx, Empty)
        /\ file'[f].open = file[f].open /\ file'[f].sent = file[f].sent
    BY <1>1, <1>10 DEF ArriveEmpty, File
  <2>2. PiecesOf(Append(rx, Empty)) = w
    <3>1. Empty \in Item
      BY DEF Item
    <3> QED BY <1>1, <1>7, <3>1, SelectedAppend DEF PiecesOf
  <2> QED BY <1>6, <2>1, <2>2
<1> QED BY <1>5, <1>8, <1>9, <1>10 DEF Arrive

\* A socket without a descriptor, or with one that is closed, keeps what is
\* in its buffer.
LEMMA ClosedInOrder ==
  ASSUME TypeOK, NEW s \in Sock, Ordered(s), ~IsOpen(id[s])',
         incoming'[s] = incoming[s], taken'[s] = taken[s]
  PROVE  Ordered(s)'
<1> DEFINE c == Content(incoming[s])
<1>1. /\ c \in Seq(Piece) /\ Waiting(s) \in Seq(Piece)
      /\ c \in Seq(Nat) /\ Waiting(s) \in Seq(Nat) /\ taken[s] \in Nat
  <2>1. c \in Seq(Piece) /\ Waiting(s) \in Seq(Piece) /\ taken[s] \in Nat
    BY PiecesType
  <2>2. Piece \subseteq Nat
    BY ServiceAssumption DEF Piece
  <2> HIDE DEF c
  <2>3. c \in Seq(Nat) /\ Waiting(s) \in Seq(Nat)
    BY <2>1, <2>2, SeqMonotonic
  <2> QED BY <2>1, <2>3
<1>2. Numbered(c, taken[s])
  <2>1. Numbered(c \o Waiting(s), taken[s])
    BY DEF Ordered, Undelivered
  <2> HIDE DEF c
  <2> QED BY <1>1, <2>1, NumberedParts
<1>3. Undelivered(s)' = c
  <2>1. c \o <<>> = c
    BY <1>1, ConcatEmptySeq
  <2> QED BY <2>1 DEF Undelivered, Waiting
<1> QED BY <1>2, <1>3 DEF Ordered

\* What the clients do keeps every socket's pieces in order.
LEMMA ClientInOrder ==
  ASSUME TypeOK, NEW S \in SUBSET Sock, OrderInd(S), NEW s \in Sock,
         \/ \E f \in Fd : PoolOpen(s, f)
         \/ PoolOpenFails(s) \/ PoolCloseFd(s) \/ PoolForget(s) \/ PoolDiscard(s)
         \/ PoolTake(s)
  PROVE  OrderInd(S)'
<1>1. /\ id \in [Sock -> Fd \union {NoFd}] /\ taken \in [Sock -> Nat]
      /\ file \in [Fd -> File] /\ incoming \in [Sock -> Buffers(Piece, Errors)]
      /\ incoming[s] \in Buffers(Piece, Errors)
  BY DEF TypeOK, File, Item
<1>2. Content(EmptyBuffer) = <<>> /\ PiecesOf(<<>>) = <<>> /\ <<>> \o <<>> = <<>>
  <2>1. <<>> \in Seq({})
    OBVIOUS
  <2> QED BY <2>1, FlattenEmpty, SelectedEmpty, ConcatEmptySeq DEF Content, EmptyBuffer, PiecesOf
<1>3. ASSUME NEW u \in S \ {s},
             id'[u] = id[u], incoming'[u] = incoming[u], taken'[u] = taken[u],
             id[u] \in Fd => file'[id[u]] = file[id[u]]
      PROVE  Ordered(u)'
  <2>1. Ordered(u)
    BY DEF OrderInd
  <2> QED BY <1>3, <2>1, ElsewhereInOrder
<1>4. ASSUME NEW f \in Fd, PoolOpen(s, f)
      PROVE  OrderInd(S)'
  <2>1. /\ id' = [id EXCEPT ![s] = f] /\ file' = [file EXCEPT ![f] = NewFile]
        /\ incoming' = [incoming EXCEPT ![s] = EmptyBuffer] /\ taken' = [taken EXCEPT ![s] = 0]
        /\ \A u \in Sock : id[u] # f
    BY <1>4 DEF PoolOpen, Open
  <2>2. \A u \in S \ {s} : Ordered(u)'
    BY <1>1, <1>3, <2>1
  <2>3. /\ id'[s] = f /\ file'[f].rx = <<>> /\ file'[f].sent = 0
        /\ Content(incoming'[s]) = <<>> /\ taken'[s] = 0
    BY <1>1, <1>2, <2>1 DEF NewFile, ClosedFile
  <2>4. Undelivered(s)' = <<>>
    BY <1>2, <2>3 DEF Undelivered, Waiting, PiecesOf
  <2>5. Ordered(s)'
    BY <2>3, <2>4 DEF Ordered, Numbered
  <2>6. Apart'
    BY <1>1, <2>1 DEF OrderInd, Apart
  <2> QED BY <2>2, <2>5, <2>6 DEF OrderInd
<1>5. CASE PoolOpenFails(s)
  <2>1. /\ id[s] = NoFd /\ UNCHANGED <<id, file>>
        /\ incoming' = [incoming EXCEPT ![s] = EmptyBuffer] /\ taken' = [taken EXCEPT ![s] = 0]
    BY <1>5 DEF PoolOpenFails, OpenFails
  <2>2. \A u \in S \ {s} : Ordered(u)'
    BY <1>1, <1>3, <2>1
  <2>3. ~IsOpen(id[s])' /\ Content(incoming'[s]) = <<>> /\ taken'[s] = 0
    BY <1>1, <1>2, <2>1, ServiceAssumption DEF IsOpen
  <2>4. Undelivered(s)' = <<>>
    BY <1>2, <2>3 DEF Undelivered, Waiting
  <2>5. Ordered(s)'
    BY <2>3, <2>4 DEF Ordered, Numbered
  <2> QED BY <2>1, <2>2, <2>5 DEF OrderInd, Apart
<1>6. CASE PoolCloseFd(s) \/ PoolForget(s) \/ PoolDiscard(s)
  <2>1. /\ id[s] # NoFd /\ id[s] \in Fd
        /\ UNCHANGED <<incoming, taken>>
        /\ \A u \in Sock \ {s} : id'[u] = id[u]
        /\ id'[s] = id[s] \/ id'[s] = NoFd
        /\ \A g \in Fd : g # id[s] => file'[g] = file[g]
    BY <1>1, <1>6, ServiceAssumption DEF PoolCloseFd, CloseFd, IsOpen, PoolForget, Forget, PoolDiscard, Discard
  <2>2. ~IsOpen(id[s])'
    BY <1>1, <1>6, <2>1, ServiceAssumption DEF PoolCloseFd, CloseFd, IsOpen, PoolForget, Forget, PoolDiscard,
       Discard, ClosedFile
  <2>3. ASSUME NEW u \in S \ {s}
        PROVE  Ordered(u)'
    <3>1. id[u] \in Fd => id[u] # id[s]
      BY ServiceAssumption DEF OrderInd, Apart
    <3> QED BY <1>3, <2>1, <3>1
  <2>4. s \in S => Ordered(s)'
    BY <1>1, <2>1, <2>2, ClosedInOrder DEF OrderInd
  <2>5. Apart'
    BY <2>1 DEF OrderInd, Apart
  <2> QED BY <2>3, <2>4, <2>5 DEF OrderInd
<1>7. CASE PoolTake(s)
  <2> DEFINE b == incoming[s]
             w == Waiting(s)
             a == Front(b)
             r == Content(Pop(b))
  <2>1. /\ ~IsEmpty(b) /\ UNCHANGED <<id, file>>
        /\ incoming' = [incoming EXCEPT ![s] = Pop(b)]
        /\ taken' = [taken EXCEPT ![s] = taken[s] + Len(a)]
    BY <1>7 DEF PoolTake, Take
  <2>2. \A u \in S \ {s} : Ordered(u)'
    BY <1>1, <1>3, <2>1
  <2>3. a \in Seq(Piece) /\ r \in Seq(Piece) /\ w \in Seq(Piece) /\ Content(b) = a \o r
    <3>1. Pop(b) \in Buffers(Piece, Errors) /\ a \in Seq(Piece)
      BY <1>1, <2>1, PopType
    <3> QED BY <1>1, <2>1, <3>1, ContentPop, ContentType, PiecesType
  <2>4. Undelivered(s) = a \o (r \o w)
    <3> HIDE DEF a, r, w
    <3>1. (a \o r) \o w = a \o (r \o w)
      <4>1. Associative(Piece)
        BY ConcatIsAssociative
      <4> QED BY <2>3, <4>1, Zenon DEF Associative
    <3> QED BY <2>3, <3>1 DEF Undelivered, w
  <2>5. Undelivered(s)' = r \o w
    <3>1. Waiting(s)' = w
      BY <2>1 DEF Waiting, IsOpen
    <3> QED BY <1>1, <2>1, <3>1 DEF Undelivered
  <2> DEFINE q == r \o w
             n == taken[s]
  <2>6. SUFFICES ASSUME Ordered(s) PROVE Ordered(s)'
    BY <2>1, <2>2 DEF OrderInd, Apart
  <2>7. /\ a \in Seq(Nat) /\ q \in Seq(Nat) /\ n \in Nat
        /\ Numbered(a \o q, n)
        /\ Len(a \o q) = Len(a) + Len(q) /\ Len(a) \in Nat /\ Len(q) \in Nat
    <3>1. Piece \subseteq Nat
      BY ServiceAssumption DEF Piece
    <3>2. q \in Seq(Piece)
      <4> HIDE DEF r, w
      <4> QED BY <2>3, ConcatProperties
    <3> HIDE DEF a, q, r, w
    <3>3. a \in Seq(Nat) /\ q \in Seq(Nat)
      BY <2>3, <3>1, <3>2, SeqMonotonic
    <3>4. Numbered(a \o q, n)
      BY <1>1, <2>4, <2>6 DEF Ordered, q
    <3> QED BY <1>1, <3>3, <3>4, ConcatProperties
  <2>8. Numbered(q, n + Len(a))
    <3> HIDE DEF a, q, n
    <3> QED BY <2>7, NumberedParts
  <2>9. taken'[s] = n + Len(a)
    BY <1>1, <2>1
  <2>10. IsOpen(id[s])' => (n + Len(a)) + Len(q) = file'[id'[s]].sent
    <3>1. IsOpen(id[s])' => n + Len(a \o q) = file'[id'[s]].sent
      <4>1. Undelivered(s) = a \o q
        BY <2>4
      <4> HIDE DEF a, q
      <4> QED BY <1>1, <2>1, <2>6, <4>1 DEF Ordered, IsOpen
    <3> HIDE DEF a, q, n
    <3> QED BY <2>7, <3>1
  <2>11. Ordered(s)'
    <3> HIDE DEF a, n
    <3> QED BY <2>5, <2>8, <2>9, <2>10 DEF Ordered
  <2> QED BY <2>11
<1> QED BY <1>4, <1>5, <1>6, <1>7

\* The pool keeps the order in every step.
LEMMA OrderNext ==
  ASSUME TypeOK, NEW S \in SUBSET Sock, OrderInd(S), [PoolNext]_vars
  PROVE  OrderInd(S)'
<1>1. ASSUME UNCHANGED <<id, incoming, taken, file>>
      PROVE  OrderInd(S)'
  <2>1. \A s \in S : Ordered(s)'
    BY <1>1, ElsewhereInOrder DEF OrderInd
  <2> QED BY <1>1, <2>1 DEF OrderInd, Apart
<1>2. ASSUME NEW t \in Thread, Cycle(t) \/ SelectInterrupted(t)
      PROVE  OrderInd(S)'
  <2>1. ASSUME NEW s \in Sock, Visit(t, s)
        PROVE  OrderInd(S)'
    BY <1>1, <2>1, ReceiveInOrder DEF Visit, serviceVars
  <2> QED BY <1>1, <1>2, <2>1 DEF Cycle, Step, Watch, SelectFinds, SelectSleeps, SelectFails,
       SelectInterrupted, Enter, Leave, Exit, Return, serviceVars
<1>3. ASSUME NEW s \in Sock, Add(s) \/ Remove(s) \/ Clear
      PROVE  OrderInd(S)'
  BY <1>1, <1>3 DEF Add, Remove, Clear
<1>4. CASE Clear
  BY <1>1, <1>4 DEF Clear
<1>5. CASE UNCHANGED vars
  BY <1>1, <1>5 DEF vars, serviceVars
<1> QED BY <1>2, <1>3, <1>4, <1>5, ArriveInOrder, ClientInOrder DEF PoolNext

\* At first nothing is there to be out of order.
LEMMA OrderInit ==
  ASSUME PoolInit
  PROVE  OrderInd(Sock)
<1>1. ASSUME NEW s \in Sock
      PROVE  Ordered(s)
  <2>1. ~IsOpen(id[s]) /\ incoming[s] = EmptyBuffer /\ taken[s] = 0
    BY ServiceAssumption DEF PoolInit, ServiceInit, IsOpen
  <2>2. Content(EmptyBuffer) = <<>> /\ <<>> \o <<>> = <<>>
    <3>1. <<>> \in Seq({})
      OBVIOUS
    <3> QED BY <3>1, FlattenEmpty, ConcatEmptySeq DEF Content, EmptyBuffer
  <2>3. Undelivered(s) = <<>>
    BY <2>1, <2>2 DEF Undelivered, Waiting
  <2> QED BY <2>1, <2>3 DEF Ordered, Numbered
<1>2. Apart
  BY DEF PoolInit, ServiceInit, Apart
<1> QED BY <1>1, <1>2 DEF OrderInd

\* The order of the pieces of a socket, as the properties state it.
LEMMA OrderedIsInOrder ==
  ASSUME TypeOK, NEW s \in Sock, Ordered(s)
  PROVE  ReceivesInOrder(s)
<1> DEFINE rest == Undelivered(s)
<1>1. rest \in Seq(Nat) /\ taken[s] \in Nat
  BY PiecesType
<1>2. Numbered(rest, taken[s]) /\ (IsOpen(id[s]) => taken[s] + Len(rest) = file[id[s]].sent)
  BY DEF Ordered
<1> HIDE DEF rest
<1>3. rest = [i \in 1..Len(rest) |-> taken[s] + i]
  BY <1>1, <1>2 DEF Numbered
<1> QED BY <1>2, <1>3 DEF rest, Undelivered, Waiting, ReceivesInOrder

\* Whatever is registered, closed and reopened in between, and whenever the
\* thread runs, a socket receives what arrived at its descriptor in order
\* and without a gap.
THEOREM DeliveryIsInOrder == PoolSpec => []InOrder
<1>1. PoolInit => OrderInd(Sock)
  BY OrderInit
<1>2. Ind /\ OrderInd(Sock) /\ [PoolNext]_vars => OrderInd(Sock)'
  BY OrderNext DEF Ind
<1>3. Ind /\ OrderInd(Sock) => InOrder
  BY OrderedIsInOrder DEF OrderInd, Ind, InOrder
<1> QED BY <1>1, <1>2, <1>3, Inductive, PTL DEF PoolSpec

(***************************************************************************)
(* The lifetime.  Terminate stops the read cycle as it should: what was    *)
(* shown of the pool holds as long as it lives, and once ~Thread is done   *)
(* nothing happens any more.                                               *)
(***************************************************************************)
\* The pool's invariant, the two properties of its end, and that ~Thread
\* cancels nothing before it is done.
LifeInd ==
  /\ Ind
  /\ StopsNicely
  /\ LoopIsOver
  /\ cancelled # NoThread => phase = "gone"

LEMMA LifeInit == LifetimeInit => LifeInd
BY IndInit DEF LifetimeInit, LifeInd, StopsNicely, LoopIsOver

\* The pool within its lifetime is the pool.
LEMMA LivesAsPool == LifetimeNext => [PoolNext]_vars
<1>1. InUse => PoolNext
  BY DEF InUse, Client, PoolNext
<1>2. GoesOn => PoolNext
  BY DEF GoesOn, PoolNext
<1>3. Terminate \/ JoinEnds \/ (\E t \in Thread : JoinTimesOut(t)) => UNCHANGED vars
  BY DEF Terminate, JoinEnds, JoinTimesOut, vars, serviceVars, cycleVars
<1> QED BY <1>1, <1>2, <1>3 DEF LifetimeNext

\* A thread in the event loop of an empty pool is on its way out: it cannot
\* be the one ~Thread waits for in vain.
LEMMA EmptiedIsNotOverdue ==
  ASSUME Ind, NEW t \in Thread, Overdue(t)
  PROVE  sockets # {}
BY DEF Overdue, Ind, NoLostWakeup

LEMMA LifeNext == LifeInd /\ [LifetimeNext]_lifetimeVars => LifeInd'
<1> SUFFICES ASSUME LifeInd, [LifetimeNext]_lifetimeVars PROVE LifeInd'
  OBVIOUS
<1>1. Ind'
  <2>1. [PoolNext]_vars
    BY LivesAsPool DEF lifetimeVars
  <2> QED BY <2>1, IndNext DEF LifeInd
<1>2. CASE InUse \/ GoesOn
  BY <1>1, <1>2 DEF InUse, GoesOn, lifeVars, LifeInd, StopsNicely, LoopIsOver
<1>3. CASE Terminate
  <2>1. ~active => \A t \in Thread : ~Looping(t)
    BY DEF LifeInd, Ind, OneLoop
  <2>2. pc' = pc /\ cancelled' = NoThread
    BY <1>3 DEF Terminate, vars, cycleVars, LifeInd
  <2>3. LoopIsOver'
    BY <1>3, <2>1, <2>2 DEF Terminate, LoopIsOver, Looping
  <2> QED BY <1>1, <2>2, <2>3 DEF LifeInd, StopsNicely
<1>4. CASE JoinEnds
  <2>1. /\ pc' = pc /\ sockets' = sockets /\ cancelled' = cancelled
        /\ phase' = "gone"
    BY <1>4 DEF JoinEnds, vars, cycleVars, serviceVars
  <2>2. \A t \in Thread : ~Looping(t)'
    BY <1>4, <2>1 DEF JoinEnds, Running, Looping
  <2> QED BY <1>1, <2>1, <2>2 DEF LifeInd, StopsNicely, LoopIsOver
<1>5. ASSUME NEW t \in Thread, JoinTimesOut(t)
      PROVE  LifeInd'
  <2>1. sockets # {}
    BY <1>5, EmptiedIsNotOverdue DEF JoinTimesOut, LifeInd
  <2>2. /\ sockets' = sockets /\ cancelled' = t /\ phase' = "gone"
        /\ t # NoThread
    BY <1>5, PoolAssumption DEF JoinTimesOut, vars, serviceVars
  <2> QED BY <1>1, <2>1, <2>2 DEF LifeInd, StopsNicely, LoopIsOver
<1>6. CASE UNCHANGED lifetimeVars
  BY <1>1, <1>6 DEF lifetimeVars, lifeVars, vars, serviceVars, cycleVars, LifeInd,
     StopsNicely, LoopIsOver, Looping
<1> QED BY <1>2, <1>3, <1>4, <1>5, <1>6 DEF LifetimeNext

THEOREM LifeInductive == LifetimeSpec => []LifeInd
BY LifeInit, LifeNext, PTL DEF LifetimeSpec

\* Wherever Terminate meets the read cycle, ~Thread kills only a thread that
\* still has sockets to read (Socket.cpp:30).
THEOREM EmptiedIsNotKilled == LifetimeSpec => []StopsNicely
<1>1. LifeInd => StopsNicely
  BY DEF LifeInd
<1> QED BY <1>1, LifeInductive, PTL

\* When the lock, the beacon and the set of sockets are destroyed no thread
\* that was not cancelled is in the event loop (Pool.h:38).
THEOREM DestroyedAfterTheLoop == LifetimeSpec => []LoopIsOver
<1>1. LifeInd => LoopIsOver
  BY DEF LifeInd
<1> QED BY <1>1, LifeInductive, PTL

===============================================================================
