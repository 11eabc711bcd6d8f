--------------------------------- MODULE Pool ---------------------------------
(***************************************************************************)
(* The socket pool (Pool.h, Pool.cpp) with the thread that runs its read   *)
(* cycle, the lock and the beacon (Mutex, Thread and Beacon of API.h and   *)
(* API.cpp, in their POSIX form: a non-blocking pipe).                     *)
(*                                                                         *)
(* The cycle is cut where other threads can get in between: before the     *)
(* first critical section, before select, inside select, before the second *)
(* critical section, and between the visits to two sockets of the second   *)
(* one, when what needs no lock can still happen.                          *)
(***************************************************************************)
EXTENDS ReadService

CONSTANTS
  Thread,         \* the threads pthread_create can make
  NoThread,       \* nobody
  PipeCap,        \* bound: the signals the beacon's pipe holds
  CreateMayFail   \* whether pthread_create may fail

ASSUME PoolAssumption ==
  /\ NoThread \notin Thread
  /\ PipeCap \in Nat \ {0}
  /\ CreateMayFail \in BOOLEAN

VARIABLES
  guard,    \* the thread that holds guard_, or NoThread
  pipe,     \* the bytes in the beacon's pipe
  pc,       \* per thread: where it is in run()
  read,     \* per thread: the descriptors in its fd_set, the beacon aside
  signal,   \* per thread: whether the beacon is in its fd_set
  armed,    \* per thread: the descriptors its sleeping select is called back by
  todo      \* per thread: the sockets its iterator has still to visit

cycleVars == <<guard, pipe, pc, read, signal, armed, todo>>
vars == <<serviceVars, cycleVars>>

(***************************************************************************)
(* pc: "idle" no such thread, "top" before the fd_set is built, "select"   *)
(* before the call, "asleep" in it, "woken" after it, "visit" in the second*)
(* critical section, "exit" after thread_.exit() with the lock still held. *)
(***************************************************************************)
Location == {"idle", "top", "select", "asleep", "woken", "visit", "exit"}

\* A client's call takes and drops the lock in one step.
Locked == guard # NoThread

\* Beacon::signal writes one byte; a full pipe stays full.
SignalBeacon == pipe' = IF pipe < PipeCap THEN pipe + 1 ELSE pipe

\* Mutant of StartThread: a thread is made whether or not one is active.
StartAnother ==
  /\ active' = TRUE
  /\ \E t \in Thread : pc[t] = "idle" /\ pc' = [pc EXCEPT ![t] = "top"]

\* Thread::start, which does nothing when the thread is active.
StartThread ==
  \/ active /\ UNCHANGED <<active, pc>>
  \/ /\ ~active
     /\ active' = TRUE
     /\ \E t \in Thread : pc[t] = "idle" /\ pc' = [pc EXCEPT ![t] = "top"]
  \/ /\ ~active
     /\ CreateMayFail
     /\ UNCHANGED <<active, pc>>

\* Mutants of Add: the size of the pool tested before the insertion, and a
\* running thread not signalled.
AddTestsFirst(s) ==
  /\ id[s] # NoFd
  /\ Len(incoming[s].queue) < MaxQueue
  /\ ~Locked
  /\ sockets' = sockets \union {s}
  /\ IF s \notin sockets /\ Cardinality(sockets) = 1
     THEN StartThread /\ UNCHANGED pipe
     ELSE SignalBeacon /\ UNCHANGED <<active, pc>>
  /\ UNCHANGED <<id, incoming, taken, file, guard, read, signal, armed, todo>>

AddUnsignalled(s) ==
  /\ id[s] # NoFd
  /\ Len(incoming[s].queue) < MaxQueue
  /\ ~Locked
  /\ sockets' = sockets \union {s}
  /\ StartThread
  /\ UNCHANGED <<id, incoming, taken, file, guard, pipe, read, signal, armed, todo>>

Add(s) ==
  /\ id[s] # NoFd
  /\ Len(incoming[s].queue) < MaxQueue
  /\ ~Locked
  /\ sockets' = sockets \union {s}
  /\ IF s \notin sockets /\ sockets = {}
     THEN StartThread /\ UNCHANGED pipe
     ELSE SignalBeacon /\ UNCHANGED <<active, pc>>
  /\ UNCHANGED <<id, incoming, taken, file, guard, read, signal, armed, todo>>

\* Mutants of Remove: the beacon not signalled, the lock not taken.
RemoveUnsignalled(s) ==
  /\ ~Locked
  /\ sockets' = sockets \ {s}
  /\ UNCHANGED <<active, id, incoming, taken, file, cycleVars>>

RemoveUnlocked(s) ==
  /\ sockets' = sockets \ {s}
  /\ IF s \in sockets THEN SignalBeacon ELSE UNCHANGED pipe
  /\ UNCHANGED <<active, id, incoming, taken, file>>
  /\ UNCHANGED <<guard, pc, read, signal, armed, todo>>

Remove(s) ==
  /\ ~Locked
  /\ sockets' = sockets \ {s}
  /\ IF s \in sockets THEN SignalBeacon ELSE UNCHANGED pipe
  /\ UNCHANGED <<active, id, incoming, taken, file>>
  /\ UNCHANGED <<guard, pc, read, signal, armed, todo>>

Clear ==
  /\ ~Locked
  /\ sockets' = {}
  /\ SignalBeacon
  /\ UNCHANGED <<active, id, incoming, taken, file>>
  /\ UNCHANGED <<guard, pc, read, signal, armed, todo>>

\* Mutant of PoolOk: Invariant I not tested.
PoolOkUnserved == \A s \in sockets : id[s] # NoFd

\* Pool::operator bool
PoolOk ==
  /\ sockets # {} => active
  /\ \A s \in sockets : id[s] # NoFd

(***************************************************************************)
(* Pool::run.                                                              *)
(***************************************************************************)
Goto(t, from, to) ==
  /\ pc[t] = from
  /\ pc' = [pc EXCEPT ![t] = to]

\* The first critical section builds the fd_set.
Watch(t) ==
  /\ Goto(t, "top", "select")
  /\ ~Locked
  /\ read' = [read EXCEPT ![t] = {id[s] : s \in sockets}]
  /\ signal' = [signal EXCEPT ![t] = TRUE]
  /\ UNCHANGED <<serviceVars, guard, pipe, armed, todo>>

\* The descriptors select is asked about.  FD_SET with INVALID_SOCKET is
\* undefined: it sets a bit that select may or may not look at.
Watched(t) == read[t] \ {NoFd}

\* What select finds ready among the descriptors in the fd_set.
Ready(t) == {f \in read[t] : Readable(f)}

SelectFinds(t) ==
  /\ \/ pc[t] = "select" /\ \A f \in Watched(t) : IsOpen(f)
     \/ pc[t] = "asleep" /\ (pipe > 0 \/ \E f \in armed[t] : Readable(f))
  /\ pipe > 0 \/ Ready(t) # {}
  /\ pc' = [pc EXCEPT ![t] = "woken"]
  /\ read' = [read EXCEPT ![t] = Ready(t)]
  /\ signal' = [signal EXCEPT ![t] = pipe > 0]
  /\ armed' = [armed EXCEPT ![t] = {}]
  /\ UNCHANGED <<serviceVars, guard, pipe, todo>>

SelectSleeps(t) ==
  /\ Goto(t, "select", "asleep")
  /\ \A f \in Watched(t) : IsOpen(f) /\ ~Readable(f)
  /\ pipe = 0
  /\ armed' = [armed EXCEPT ![t] = Watched(t)]
  /\ UNCHANGED <<serviceVars, guard, pipe, read, signal, todo>>

\* Mutant of SelectFails: a failed select is taken for one that found nothing.
SelectFailsEmpty(t) ==
  /\ Goto(t, "select", "woken")
  /\ \E f \in read[t] : ~IsOpen(f)
  /\ read' = [read EXCEPT ![t] = {}]
  /\ signal' = [signal EXCEPT ![t] = FALSE]
  /\ UNCHANGED <<serviceVars, guard, pipe, armed, todo>>

\* EBADF: a watched socket was closed before the call.  A select that fails
\* leaves the fd_set as it was: everything looks ready.
SelectFails(t) ==
  /\ Goto(t, "select", "woken")
  /\ \E f \in read[t] : ~IsOpen(f)
  /\ UNCHANGED <<serviceVars, guard, pipe, read, signal, armed, todo>>

\* EINTR: a signal handler ran.
SelectInterrupted(t) ==
  /\ pc[t] \in {"select", "asleep"}
  /\ pc' = [pc EXCEPT ![t] = "woken"]
  /\ armed' = [armed EXCEPT ![t] = {}]
  /\ UNCHANGED <<serviceVars, guard, pipe, read, signal, todo>>

\* The second critical section starts by draining the beacon.
Enter(t) ==
  /\ Goto(t, "woken", "visit")
  /\ ~Locked
  /\ guard' = t
  /\ pipe' = IF signal[t] THEN 0 ELSE pipe
  /\ todo' = [todo EXCEPT ![t] = sockets]
  /\ UNCHANGED <<serviceVars, read, signal, armed>>

\* Mutant of Visit: a recv that would block is taken for an error.
VisitNotBlocking(t, s) ==
  /\ pc[t] = "visit"
  /\ s \in todo[t]
  /\ todo' = [todo EXCEPT ![t] = @ \ {s}]
  /\ \/ id[s] \in read[t] /\ Receive(s)
     \/ /\ id[s] \in read[t] /\ IsOpen(id[s]) /\ ~Readable(id[s])
        /\ incoming' = [incoming EXCEPT ![s].error = "EAGAIN"]
        /\ sockets' = sockets \ {s}
        /\ UNCHANGED <<active, id, taken, file>>
     \/ id[s] \notin read[t] /\ UNCHANGED serviceVars
  /\ UNCHANGED <<guard, pipe, pc, read, signal, armed>>

\* The visit to a socket: it is read when its descriptor is in the fd_set.
Visit(t, s) ==
  /\ pc[t] = "visit"
  /\ s \in todo[t]
  /\ todo' = [todo EXCEPT ![t] = @ \ {s}]
  /\ IF id[s] \in read[t] /\ (Readable(id[s]) \/ ~IsOpen(id[s]))
     THEN Receive(s)
     ELSE UNCHANGED serviceVars   \* not in the fd_set, or it would block
  /\ UNCHANGED <<guard, pipe, pc, read, signal, armed>>

\* The lock is dropped and the next round clears the fd_set.
Leave(t) ==
  /\ Goto(t, "visit", "top")
  /\ todo[t] = {}
  /\ sockets # {}
  /\ guard' = NoThread
  /\ read' = [read EXCEPT ![t] = {}]
  /\ signal' = [signal EXCEPT ![t] = FALSE]
  /\ UNCHANGED <<serviceVars, pipe, armed, todo>>

\* thread_.exit(), still inside the second critical section.
Exit(t) ==
  /\ Goto(t, "visit", "exit")
  /\ todo[t] = {}
  /\ sockets = {}
  /\ active' = FALSE
  /\ UNCHANGED <<sockets, id, incoming, taken, file>>
  /\ UNCHANGED <<guard, pipe, read, signal, armed, todo>>

\* The return drops the lock, then the thread is gone.
Return(t) ==
  /\ Goto(t, "exit", "idle")
  /\ guard' = NoThread
  /\ read' = [read EXCEPT ![t] = {}]
  /\ signal' = [signal EXCEPT ![t] = FALSE]
  /\ UNCHANGED <<serviceVars, pipe, armed, todo>>

\* The steps a thread takes by itself.
Step(t) ==
  \/ Watch(t) \/ SelectFinds(t) \/ SelectSleeps(t) \/ SelectFails(t)
  \/ Enter(t) \/ Leave(t) \/ Exit(t) \/ Return(t)

Cycle(t) == Step(t) \/ \E s \in Sock : Visit(t, s)

(***************************************************************************)
(* What happens around the pool.  Closing a descriptor takes it out of the *)
(* sleep of a select that waits for it, and does not end that sleep.       *)
(***************************************************************************)
PoolOpen(s, f) == Open(s, f) /\ UNCHANGED cycleVars

PoolOpenFails(s) == OpenFails(s) /\ UNCHANGED cycleVars

PoolCloseFd(s) ==
  /\ CloseFd(s)
  /\ armed' = [t \in Thread |-> armed[t] \ {id[s]}]
  /\ UNCHANGED <<guard, pipe, pc, read, signal, todo>>

\* The lock is needed to use what the pool uses of a registered socket, its
\* id and its buffer (Pool.h:29).
Usable(s) == s \in sockets => ~Locked

PoolForget(s) == Usable(s) /\ Forget(s) /\ UNCHANGED cycleVars

PoolDiscard(s) ==
  /\ Usable(s)
  /\ Discard(s)
  /\ armed' = [t \in Thread |-> armed[t] \ {id[s]}]
  /\ UNCHANGED <<guard, pipe, pc, read, signal, todo>>

PoolTake(s) == ~Locked /\ Take(s) /\ UNCHANGED cycleVars

Arrive(s) ==
  /\ ArriveData(s) \/ ArriveEmpty(s) \/ ArriveEof(s) \/ ArriveFault(s)
  /\ UNCHANGED cycleVars

PoolInit ==
  /\ ServiceInit
  /\ guard = NoThread
  /\ pipe = 0
  /\ pc = [t \in Thread |-> "idle"]
  /\ read = [t \in Thread |-> {}]
  /\ signal = [t \in Thread |-> FALSE]
  /\ armed = [t \in Thread |-> {}]
  /\ todo = [t \in Thread |-> {}]

PoolNext ==
  \/ \E s \in Sock : Add(s) \/ Remove(s)
  \/ Clear
  \/ \E t \in Thread : Cycle(t) \/ SelectInterrupted(t)
  \/ \E s \in Sock, f \in Fd : PoolOpen(s, f)
  \/ \E s \in Sock : PoolOpenFails(s) \/ PoolCloseFd(s) \/ PoolForget(s) \/ PoolDiscard(s)
  \/ \E s \in Sock : PoolTake(s) \/ Arrive(s)

\* A thread that can run does.
PoolFairness == \A t \in Thread : WF_vars(Cycle(t))

PoolSpec == PoolInit /\ [][PoolNext]_vars /\ PoolFairness

===============================================================================
