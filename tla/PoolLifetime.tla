----------------------------- MODULE PoolLifetime -----------------------------
(***************************************************************************)
(* The pool from AGS_EngineStartup to AGS_EngineShutdown: Initialize makes *)
(* it, Terminate deletes it.  Its members are destroyed in the reverse of  *)
(* the order Pool.h declares them in, so the thread goes first: ~Thread    *)
(* waits for it two seconds and cancels it then, in the build that has     *)
(* pthread_timedjoin_np.  The beacon, the lock and the set of sockets      *)
(* follow without another wait.                                            *)
(*                                                                         *)
(* The model ends where they are gone: what a thread that is left over     *)
(* does with them is undefined.                                            *)
(***************************************************************************)
EXTENDS PoolProps

VARIABLES
  phase,      \* "up", "join" while ~Thread waits, "gone" once it is deleted
  cancelled   \* the thread ~Thread gave up waiting for, or NoThread

lifeVars == <<phase, cancelled>>
lifetimeVars == <<vars, lifeVars>>

LifetimeInit ==
  /\ PoolInit
  /\ phase = "up"
  /\ cancelled = NoThread

\* The engine calls the plugin from one thread: no client calls the pool
\* once Terminate was called.
Client ==
  \/ \E s \in Sock : Add(s) \/ Remove(s)
  \/ Clear
  \/ \E s \in Sock, f \in Fd : PoolOpen(s, f)
  \/ \E s \in Sock :
       PoolOpenFails(s) \/ PoolCloseFd(s) \/ PoolForget(s) \/ PoolDiscard(s) \/ PoolTake(s)

InUse ==
  /\ phase = "up"
  /\ Client
  /\ UNCHANGED lifeVars

\* The thread and the network go on until the pool is gone.
GoesOn ==
  /\ phase # "gone"
  /\ \/ \E t \in Thread : Cycle(t) \/ SelectInterrupted(t)
     \/ \E s \in Sock : Arrive(s)
  /\ UNCHANGED lifeVars

\* Mutant of Terminate: ~Thread that does not wait.
TerminateAtOnce ==
  /\ phase = "up"
  /\ phase' = "gone"
  /\ UNCHANGED <<vars, cancelled>>

\* delete pool, up to the join.  An inactive thread is not waited for.
Terminate ==
  /\ phase = "up"
  /\ phase' = IF active THEN "join" ELSE "gone"
  /\ UNCHANGED <<vars, cancelled>>

\* The thread Thread::Data::thread stands for: the last one made.
Running(t) == pc[t] # "idle"

JoinEnds ==
  /\ phase = "join"
  /\ \A t \in Thread : ~Running(t)
  /\ phase' = "gone"
  /\ UNCHANGED <<vars, cancelled>>

\* A thread that is not gone after two seconds: they are long enough for one
\* that can run and has no sockets to read.
Overdue(t) ==
  /\ Running(t)
  /\ \/ sockets # {}
     \/ /\ pc[t] = "asleep"
        /\ pipe = 0
        /\ \A f \in armed[t] : ~Readable(f)

JoinTimesOut(t) ==
  /\ phase = "join"
  /\ Overdue(t)
  /\ cancelled' = t
  /\ phase' = "gone"
  /\ UNCHANGED vars

LifetimeNext ==
  \/ InUse
  \/ GoesOn
  \/ Terminate
  \/ JoinEnds
  \/ \E t \in Thread : JoinTimesOut(t)

LifetimeSpec == LifetimeInit /\ [][LifetimeNext]_lifetimeVars

(***************************************************************************)
(* Properties.                                                             *)
(***************************************************************************)

\* "The pool is or soon will be empty thus the read loop stops" (Socket.cpp
\* :30): only a read cycle that still has sockets to read is killed, one
\* that was emptied before or during the wait ends by itself, wherever in its
\* cycle Terminate met it.
StopsNicely == cancelled # NoThread => sockets # {}

\* Where ~Thread did not have to cancel it, no thread is left in the event
\* loop when the pool is destroyed: none goes back to its lock, its beacon or
\* its sockets (Pool.h:38, the order of the members).
LoopIsOver ==
  phase = "gone" /\ cancelled = NoThread => \A t \in Thread : ~Looping(t)

\* "Waits for the thread to finish and cleans up after" (API.h:234): the
\* pool is destroyed after the last thread that was not cancelled is gone.
FinishedFirst ==
  phase = "gone" /\ cancelled = NoThread => \A t \in Thread : pc[t] = "idle"

===============================================================================
