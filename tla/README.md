# A TLA+ model of AGSsock

AGSsock is a plugin that gives game scripts of Adventure Game Studio BSD
sockets.  Scripts run on one thread and must not wait, so the plugin reads
the registered sockets on a thread of its own, the read cycle of a *pool*, and
leaves what it read in a buffer per socket.  This directory holds TLA+ modules
of that machinery, the TLC configurations that check them, and proofs that
TLAPS checks.  Paths are relative to the repository.

## 1. The system

| component | code | state | operations | talks to |
|---|---|---|---|---|
| Receive buffer | `src/Buffer.h`, `src/Buffer.cpp` | queue of strings, last error | push, append, pop, front, extract | filled by the read cycle, emptied by the script, under the pool's lock |
| Pool | `src/Pool.h`, `src/Pool.cpp` | set of registered sockets | add, remove, clear, `operator bool`, `run` | owns the lock, the beacon and the thread |
| Thread, Mutex, Beacon | `src/API.h`, `src/API.cpp` | `active`, a mutex, a non-blocking pipe | start, stop, active, exit; lock; signal, reset | used by the pool |
| Socket interface | `src/Socket.h`, `src/Socket.cpp` | id, error, addresses, incoming buffer | Create, Bind, Listen, Connect, Accept, Close, Send*, Recv*, Dispose, Serialize | called by the script; calls the pool and the kernel |
| Sending | `src/Socket.cpp:405-471` | none: "no outgoing buffer" | send_impl, sendto_impl | the kernel |
| Managed objects | `Dispose`, `Serialize`, `Unserialize` of the three classes | reference counts and keys, in the engine | hold, release, restore | the engine |
| Addresses, data | `src/SockAddr.*`, `src/SockData.*` | one address, one byte string | conversions | the resolver |
| Error codes | `src/API.cpp:41-123` | none | `AGSEnumerateError` | |
| Plugin entry | `src/agsplugin.cpp`, `Initialize`, `Terminate` | the pool pointer | startup, shutdown | the engine |

The tests of `test/` drive the pool directly (`test/pool.cpp`) and the socket
interface through a mock engine (`test/socket.cpp`, `test/agsmock`).

What is hard here:

- **Two threads, one lock.**  The read cycle holds the lock while it builds its
  `fd_set` and again while it reads; between the two it sleeps in `select` on a
  set that grows old.  Everything the script does can happen in that gap.
- **A wake-up byte.**  add and remove write one byte into a pipe.  A lost or
  superfluous byte decides whether a new socket is ever read and whether the
  thread of an empty pool ever ends.
- **A thread that ends by itself** when the pool is empty, and is started again
  by the first add.  Two Invariants are written at the top of `Pool.cpp` and
  checked at run time; breaking one ends the game.
- **Descriptors are reused.**  The kernel hands out a closed number again; the
  `fd_set` does not know.
- **Shutdown.**  The pool is deleted at any moment of the read cycle: it waits
  for a thread it takes for running, two seconds, and cancels it.
- **errno** is one variable for all calls on the script's thread, and is stored
  after every call, successful or not.
- **References.**  Sockets hold addresses; the engine counts, disposes, saves, and
  restores in an order the plugin does not choose.
- **Failures**: a socket closed locally makes `select` fail; `recv` reports an
  error or the end; a thread may not start.
- **Ends of streams** are told to the script as an empty result, which a zero
  character looks like.

What makes each component correct:

- buffer: order is kept, nothing but zero characters gets lost, the end of a
  stream is neither swallowed nor early;
- pool: its two Invariants, at most one read cycle, no lost wake-up, no pointer
  to a socket that was removed, everything that arrives is delivered;
- socket interface: it keeps the pool's discipline ("lock the pool when using
  id...", `Pool.h:29`), owns each descriptor once, cuts no stream off, never
  aborts the game, and does not wait;
- sending: a retried send repeats nothing; error values belong to the call;
  a failure can be told from "try again";
- lifetime: the read cycle of an emptied pool ends by itself, and nothing of it is
  left when the pool is destroyed;
- managed objects: no reference dangles, what is held is released once;
- addresses: a text means what it says and what is read can be set again.

## 2. The modules

| module | models | lines up with |
|---|---|---|
| `Buffer` | the operations of the buffer, as operators on `[queue, error]` | one operator per method; C strings by the position of zeros |
| `BufferStream` | one connection through its buffer, for every segmentation | `Arrive`, `End`: `Pool.cpp:87-103`; `Recv`, `RecvData`: `recv_extract` |
| `ReadService` | abstract: what the pool promises, with no thread, lock or beacon | `Register`, `Unregister`, `Deliver`, `Stop` |
| `Pool` | the pool with its thread, lock and beacon, and the kernel's `select` | see below |
| `PoolProps` | the pool's properties | |
| `PoolLifetime` | the pool from `Initialize` to `Terminate` and `~Thread` | `Terminate`, `JoinEnds`, `JoinTimesOut`: `API.cpp:188-222` |
| `MCPool` | `PoolLifetime` for TLC, with symmetry of threads and descriptors | |
| `Sockets` | the script's calls, interleaved with the read cycle of `Pool` | one action per call, cut where it takes the lock |
| `MCSockets` | `Sockets` for TLC, with symmetry of descriptors | |
| `Send` | one socket that sends, the kernel's queue, the peer, and a script that tries again | the loop of `send_impl` and `sendto_impl` |
| `Transmission` | abstract: what sending promises, with no queue and no loop | `Try`: a call of Send |
| `ErrorCodes` | the table of `AGSEnumerateError` | `API.cpp:63-123` |
| `SocketErrors` | errno and `Socket::error` through all calls on a socket, with `Send` | one action per call and answer of the kernel |
| `Addresses`, `MCAddresses` | `SockAddr` and its texts | one operator per function of `SockAddr.cpp` |
| `ManagedObjects` | references between script, sockets and addresses; saved games | `GetLocal`, `Drop`, `Serialize`, `Unserialize` |
| `SequenceFacts` | induction and recursion over numbers and sequences, for the proofs | |
| `BufferProofs`, `StreamProofs` | theorems about `Buffer` and `BufferStream` | |
| `PoolProofs` | theorems about `Pool` and `PoolLifetime` | |
| `SocketsProofs` | theorems about `Sockets` | |
| `ErrorsProofs` | theorems about `Send` and `SocketErrors` | |
| `AddressesProofs` | theorems about `Addresses` | |
| `ManagedProofs` | theorems about `ManagedObjects` | |

`Sockets` extends `PoolProps`, which extends `Pool`, then `ReadService` and `Buffer`.
`Sockets` uses the pool's own actions (`Add`, `Remove`, `Visit`, the steps of
the read cycle), and property `KeepsDiscipline` closes the circle: every
behaviour of `Sockets` is one of `Pool`, so what is checked and proved of `Pool`
holds of the plugin as scripts use it, as long as that property does.

**Buffer.**  A string is a sequence; only whether an element is a zero
character (`Zero`) matters to the code.  `AppendTo` is `Buffer::append`,
`Extract` is `Buffer::extract` together with the C string in front.

**Pool.**  `sockets`, `guard`, `pipe`, `active` are `sockets_`, `guard_`, the
bytes in the beacon and `Thread::Data::active`.  `read` and `signal` are the
local `fd_set`, `todo` is the loop's iterator, `pc` the place in `run()`:

| place | step | code |
|---|---|---|
| `top` | `Watch` builds the set, under the lock | 32-50 |
| `select` | `SelectFinds`, `SelectSleeps`, `SelectFails`, `SelectInterrupted` | 53 |
| `asleep` | `SelectFinds`, `SelectInterrupted` | 53 |
| `woken` | `Enter` takes the lock and drains the beacon | 57-66 |
| `visit` | `Visit`, once per registered socket, then `Leave` or `Exit` | 68-117 |
| `exit` | `Return` drops the lock | 115-116 |

A client's add, remove or clear takes and drops the lock in one step.
The order of visits is arbitrary, as in an `unordered_set`.  What arrives at a
descriptor is numbered 1, 2, ..., so order and loss are visible.  A `recv` on a
stream takes any number of waiting pieces.

The kernel (`file`, `ArriveData`, `ArriveEof`, `ArriveFault`, `Readable`) is not
part of the repository; it is modelled from how the code uses it.  A closed
descriptor leaves a sleeping `select` asleep and makes the next one fail with
`EBADF`, and a failed or interrupted `select` leaves the `fd_set` as it was.
An `fd_set` given `INVALID_SOCKET` is undefined behaviour; `select` may ignore
it or fail.  A datagram without data (`Empty`) is data: `recv` returns 0 for it, and the
read cycle queues an empty string.

**ReadService** has the clients of the pool too, those of `Socket.cpp` and `test/pool.cpp`: only
a socket with a descriptor is registered.  Its descriptor may be closed, or given up
(id = INVALID_SOCKET), at any time, registered or not, and is handed out again once no object
names it.  What a client owes the pool is what `Pool.h:29` asks: the lock, to touch the id or the
buffer of a registered socket (`Usable`).  Invariant II is therefore none of the pool's own
properties, but one of its users (`RegisteredAreValid` in `Sockets`).

**Sockets.**  `call` is what the script's call has left to do.  A call is cut
at the lock and where it waits; `closesocket` with the assignment to `id` after
it is one step.  Calls that only some scripts make are chosen by the constant
`Calls`: `Recv`, `RecvData`, `RecvFrom`, `Sync` (a Connect that waits),
`Resync` (the same on a socket that is bound or connected already) and
`Reconnect` (a Connect, of either kind, of such a datagram socket).
A sync Connect takes any socket, whatever its state, makes its descriptor blocking if it has one,
and may fail; `NotConnected` is all that a failed or unfinished `connect()` does.
`blocking` is the set of descriptors a sync Connect made blocking;
`stuck` is the one on which the read cycle waits inside `recv`, with the lock.
`Udp` are the datagram sockets made with the protocol IPPROTO_UDP, which Bind asks for before it
registers one; others are only bound.

**PoolLifetime** adds `phase` and `cancelled` to the pool.  The clients are the
pool's own until `Terminate`; then the read cycle and the network go on while
`~Thread` waits.  An inactive thread is not waited for.  The wait times out only for a
thread that cannot end in two seconds: one that sleeps with nothing to wake it,
or one that has sockets to read.  The model ends when the members are destroyed.

**Send** stands alone: sending touches neither the pool nor the buffer.  A call
is its loop, one step per `send()`, and one step that leaves it with the result
and the error; between the steps the peer may take from the kernel's queue.
`wire` is what the kernel took, a chunk per `send()`.  A stream takes any part
that fits, a datagram socket all or nothing.  `errno` belongs to the script's
thread and other calls leave theirs in it (`OtherCall`).  The script begins a new
message, or tries the last one again when the call returned 0 without an error,
as `Socket.h:146` tells it.

**SocketErrors** extends `Send` with the other calls a script makes on the same
socket.  What the kernel may answer to a call is the table `Answers`; `errno`
changes only when it answers with a failure, and `error` as the call stores it.  Create
clears errno first, and then makes a descriptor non-blocking that may not be there.  Send without a
descriptor fails, unless the message is empty: its loop does not run then, and the call succeeds.
`answer` remembers what the kernel said of the last call.  The read cycle has an errno
of its own and hands its error over in the buffer (`RecvNothing`).

**Transmission** is what a script and its peer may rely on: a call puts one
beginning of a message on the wire and succeeds exactly when that is all of it.
`Promise` shows that `SocketErrors` implements it, mapping the chunks the kernel took to one
beginning per call.

**Addresses.**  A text is a sequence of words and of the characters `:` and `/`.
The operators cut it as `set_Address` does, and put it together as
`get_Address` does.  The resolver is a parameter: `Hosts` and `Services` are the
texts `getaddrinfo` knows and what it finds for them, `Names` and `Digits` how
`getnameinfo` and `%d` write a port.  `HostsAssumption` and `ServicesAssumption` ask that it
agrees with itself: a text means one address of a family, an address has a text, and both texts
of a port are found again.  `TextAssumption` says what a script makes texts of: parts
without separators, but for IPv6 literals, which have two colons at least.  `AF_UNSPEC` is a
family of its own (`Create(0)`) that is resolved in all others.  Raw data (`CreateFromData`) makes
any object at all, with a family that need not be one (`OTHER`).  An empty node
may or may not be resolved: resolvers differ.  `MCAddresses` has the tables for TLC: a name
that stands for an IPv4 and an IPv6 address, literals, a service with a name, one
without, and one whose name begins with a digit.

**ManagedObjects.**  An object is its key, which the engine reuses.  `refs` is
the engine's count, `held` the script's share; the mock engine of `test/agsmock` counts in
the same way.  A restore disposes of everything and unserializes the saved objects one by
one in any order.

## 3. What the runs check

| run | instance | checks | result |
|---|---|---|---|
| `pool_safety` | tcp, udp; 2 descriptors; 2 threads; 2 pieces; Terminate at any time | `TypeOK`, `OneLoop`, `InvariantI`, `NoLostWakeup`, `PointersValid`, `InOrder`, `StopsNicely`, `LoopIsOver` | hold |
| `pool_liveness` | the same without Terminate, 1 thread, 1 piece | `Service` (refines `ReadService` with its fairness), `CloseIsNoticed` | hold |
| `sockets_safety` | tcp, udp; 2 pieces; `Recv`, `RecvData`, `Sync`, `Resync`; no zeros; threads may not start | `AbortsOnlyUnserved`, `FailureIsNoticed`, `RegisteredAreAlive`, `GivenInOrder`, `Owned`, `KeepsDiscipline`, `NothingCutOff` | hold |
| `sockets_streams` | server, connection, datagrams; `RecvData`, `RecvFrom`, `Sync`, `Reconnect`; ends and empty datagrams, no data, no resets | `SocketsTypeOK`, `Owned`, `CallsEnd` | hold |
| `buffer_streams` | 3 characters, length 5, segments of 3 | `OnlyZerosLost`, `NothingLost`, `EndComesLast`, `ZerosRemoved` | hold |
| `send` | 2 messages of up to 2 bytes, a queue of 1, 2 tries; stream or datagrams; all other calls | `SuccessIsWhole`, `DatagramsOnce`, `FailureIsOwn`, `Promise` (refines `Transmission`), `SendEnds` | hold |
| `addresses` | 8 hosts, 4 services, 6 ports, 5 families, any raw data | `ReadsBack`, `MeansWhatItSays` | hold |
| `managed_objects` | 2 sockets, 2 addresses, 2 references each | `ManagedTypeOK`, `NoDangling`, `CountsExact` | hold |
| `recv_zero` | tcp, udp; `Recv`; zeros | `RegisteredAreValid` | violated |
| `blocked_reader` | tcp, udp; `Sync`, `Resync`; no data | `CloseEnds` | violated |
| `send_repeats` | 1 message, 2 tries | `RepeatsNothing` | violated |
| `shutdown_race` | as `pool_safety`, no data | `FinishedFirst` | violated |

**Bounds.**  `MaxArrive`: pieces per descriptor; two show order and loss, in `pool_safety` and `sockets_safety`; one is
enough where only presence matters; and none for `sockets_streams`, where the end
of a stream and an empty datagram make a socket readable just as well and no property
looks at the data.  `MaxEmpty`: the empty datagrams between the network and the owner of a
socket; one in `sockets_streams`, which is where what is no data is received, and none
elsewhere.  `NetworkMayFail`: connections are reset and ICMP errors arrive in all runs but
`sockets_streams`, which has the third socket instead; an error after a `Reconnect` is
note 2.  `MaxQueue`: a socket is registered only
while its buffer is shorter; without it a stream at its end could be added
again and again, an end queued each time.  In `Sockets` it is 5, more than
a behaviour of these instances queues.  `PipeCap`: one byte, so that the full
pipe happens; the proofs have any capacity.  Two sockets and two descriptors
let one socket get the number the other gave up; two threads let a
new one overlap an old one (they do not: `OneLoop`).  The buffer runs cut every
string of five characters over {zero, a, b} in every way into segments of
up to three, so a terminator falls at the start, inside and at the end of one.  In `send` a message of two bytes
does not fit into the queue of one (`Room`), so it is sent in parts, blocks in the middle
and gets through when the peer reads meanwhile; two tries (`MaxTries`) let a
success follow a failure, and a second message (`MaxMessages`) finds the errno
and the queue the first one left.  In `managed_objects` (`MaxHeld`) two references let the script
keep one object in two variables, and two sockets let one get an address with the key of an
address the other has lost; three addresses with one socket, and with two sockets and one
reference, were checked once and show nothing else.  `addresses` sets
every text of its parts on every object.

**Deadlock** is checked everywhere but where the system really stops: a stream
that was sent, ended and received (`buffer_streams`), a pool that is gone
(`pool_safety`, `shutdown_race`), and a game that was aborted, for want of a thread
(`sockets_safety`) or because of finding 1 (`recv_zero`).

**Fairness.**  `PoolFairness` is weak fairness of the steps of each thread, which
the operating system's scheduler gives; not of interrupts, and not of the
network or the clients.  It is enough for `Service` since only the lock can stop
a thread and the clients drop it in the step that took it.
`SocketsFairness` adds strong fairness for what a call of the script has left to
do once it began: the lock is free again and again while the read cycle loops,
and a mutex does not starve a waiter for ever; a sync Connect ends.
It does not ask the script to make calls.  `ReadService` is fair to delivery and
to stopping.  `SendSpec` and `ErrorsSpec` are fair to the loop of a call only: the peer may
never read.  The other specifications state no fairness and no liveness.

**Findings.**

1. *Invalid and registered* (`recv_zero`).  On an empty
   string recv_impl closes the descriptor and sets the id to INVALID_SOCKET
   although the read cycle has seen no end: Invariant II of `Pool.cpp:19` is
   broken.  "The read loop itself will remove it" (`Socket.cpp:558`) assumes that
   the loop wakes up; nothing signals it.  The next call that checks
   the pool ends the game.
2. *Blocked reader* (`blocked_reader`).  A sync Connect makes the descriptor
blocking, in whatever state the socket is (`Socket.cpp:311`).  On a stream that is connected already
`connect()` fails at once; but a read cycle that was interrupted, or that holds an old `fd_set`, may
call `recv` on it in between, with the lock held, and wait for the peer.  The Connect
has returned, and the Close or Dispose of any socket that comes next waits for the lock: "the entire
plugin is nonblocking except for connections in sync mode" (`Socket.cpp:145`) fails for them.  With
`Reconnect` a datagram socket that is registered does the same, and its Connect waits in `pool->add`
as well.  `CallsEnd` in `sockets_streams` shows that nothing else makes a call wait: there the sockets
a script connects synchronously are not registered.
3. *Repeated beginnings* (`send_repeats`).  A partial send that would block on
   the rest makes `send_impl` return 0 without an error, which `Socket.cpp:408` and
   `README.md:235` call "try again".  How much went out is forgotten; the retry
   sends it a second time, and the peer of a stream cannot tell.  Datagrams have no
   parts and do not suffer (`DatagramsOnce`).
4. *Not waited for* (`shutdown_race`).  `API.h:234` says that `~Thread` waits for
   the thread to finish.  It asks `active()`, which `thread_.exit()` has made false
   while the thread still holds the pool's lock.  Then the lock is
   destroyed held, and unlocked afterwards.  `LoopIsOver` shows that this is all:
   such a thread only has its lock to drop.

Notes, which no run states as a property of its own:

1. *False end by segmentation.*  `Socket.cpp:566` and `Buffer.h:67` describe when
   a leading zero is taken for the end of a stream.  It also happens to strings that are not
   empty: the peer sends `AB\0`, the read cycle receives `AB`, the script takes it, and `\0`
   arrives next as an element of its own.  This is a way into finding 1.
2. *Stale buffer error.*  `Buffer::error` is set by the read cycle and never
   reset.  A datagram socket connected again after an error, or connected after it was bound, is
   registered with it; Recv on the empty buffer closes it and leaves it registered: finding 1 again, without a
   zero (`RecvError` after `Reconnect`).
3. *errno after success.*  `README.md:186` calls the error value the last one observed from
   this socket.  After a success it is whatever errno held, also from elsewhere
   (`SendDone`, `Plain`), except after Create, which clears it: it can be relied on after a failure,
   which is what `FailureIsOwn` says.
4. *IPv6 ports.*  `get_Address` writes `host:service` for ports without a name,
   which `set_Address` does not look for in IPv6 texts: the text of such an address
   cannot be set again.  `ReadsBack` says so.
5. *Saved addresses.*  `Socket.cpp:107-113` suspects a leak: `CountsExact` says what it is, one
   reference too many for each address restored after its socket, and the socket
   has lost the address.

## 4. What is proved

Every theorem is for any values of the constants: any sets of sockets, descriptors and
threads, any length of streams, messages, buffers and queues, any number of saved games.
The assumptions are the named ones of the modules (`ServiceAssumption`, `PoolAssumption`,
`SendAssumption`, `ManagedAssumption` and so on), which say what kinds of values the
constants are (those of `Addresses` also that the resolver agrees with itself), and where a theorem states it, one of

- `~CreateMayFail`: `pthread_create` does not fail.  Invariant I is false otherwise;
- `Disciplined`: the script never connects a datagram socket that is bound or connected
  already, which rules out the first Connect after a Bind too, and takes no strings by Recv that
  hold zeros.  `recv_zero` shows what a zero does, note 2 what such a Connect does.

| theorem | states | assumes |
|---|---|---|
| `TypeCorrect`, `OneReadCycle`, `WakeupsAreNotLost`, `NoDanglingPointers` | `TypeOK`, `OneLoop`, `NoLostWakeup`, `PointersValid` | |
| `RegisteredAreServed` | `InvariantI` | `~CreateMayFail` |
| `PoolImplementsService` | the pool refines `ReadService`, safety part | `~CreateMayFail` |
| `DeliveryIsInOrder` | `InOrder` | |
| `EmptiedIsNotKilled`, `DestroyedAfterTheLoop` | `StopsNicely`, `LoopIsOver` | |
| `OnlyZerosAreLost`, `DataIsWhole`, `EndIsLast`, `ZerosAreRemoved` | all of `buffer_streams` | |
| `AddressReadsBack`, `AddressMeansWhatItSays` | all of `addresses` | |
| `DescriptorsAreOwned`, `ScriptTypeCorrect`, `ThreadFailureIsNoticed` | `Owned`, `SocketsTypeOK`, `FailureIsNoticed` | |
| `DisciplinedAreValid`, `DisciplinedAreAlive`, `AbortsAreDeserved`, `NothingIsCutOff` | `RegisteredAreValid`, `RegisteredAreAlive`, `AbortsOnlyUnserved`, `NothingCutOff` | `Disciplined` |
| `ScriptIsGivenInOrder` | `GivenInOrder` | `Disciplined` |
| `GameGoesOn` | no call ends in `aborted` | `Disciplined`, `~CreateMayFail` |
| `DisciplinedPoolIsSafe` | `OneLoop`, `NoLostWakeup`, `PointersValid`, for scripts | `Disciplined` |
| `ScriptKeepsDiscipline` | `KeepsDiscipline`: `Sockets` refines `Pool` | `Disciplined`, no RecvFrom |
| `ScriptUsesService` | `Sockets` refines `ReadService`, safety part | `Disciplined`, no RecvFrom, `~CreateMayFail` |
| `SuccessIsAlwaysWhole`, `DatagramsAreSentOnce`, `FailuresAreOwn` | the safety of `send` | |
| `PromiseIsKept` | `SocketErrors` refines `Transmission` | |
| `CountsAreExact`, `NothingDangles`, `ManagedTypeCorrect` | all of `managed_objects` | |

**The pool.**  The inductive invariant `Ind` is the conjunction of the first four properties and
`Guarded`: the lock is held exactly at `visit` and `exit`, and a thread at `exit`
leaves an empty pool.  None is inductive alone.  That an add that starts no
thread is still seen (`NoLostWakeup`) needs `OneLoop`, to know that an active flag
means a looping thread; `OneLoop` needs `Guarded`, since only the lock keeps an
add out between the test for an empty pool and `active = false`; and
`PointersValid` says that what the read cycle visits is still registered.  `AddKeeps` is
the heart: the pool was emptied (so a signal is in the pipe, by `NoLostWakeup`)
and filled again before the thread looked.

**Order.**  `InOrder` speaks of the buffer of a socket; `OrderInd` adds what waits in the
kernel.  What a socket has still to hand out, its buffer's content followed by the pieces at
its descriptor, is `taken + 1`, `taken + 2`, ... up to what was sent; and no two sockets
name one descriptor (`Apart`), else a piece of one could be received for the other.  Reception
moves the border between the two parts and changes nothing else, for which the proof needs
what the buffer's operators do to its content (`BufferProofs`).  `OrderInd(S)` says so of the
sockets of a set `S`: all of them under the pool's clients, but only the streams under a script that
takes datagrams past the buffer by RecvFrom (`Given` in `SocketsProofs`).  The calls that close a
descriptor leave what waits there to nobody, and a new descriptor starts from 1 again, for which
`OwnInd` supplies that no other object has it.

**The lifetime.**  A step of the living pool is a step of `Pool` (`LivesAsPool`), so `Ind`
goes on to hold; a thread whose wait timed out although the pool was emptied would be asleep with
no signal, which `NoLostWakeup` excludes; and an inactive pool has no thread in its loop, by
`OneLoop`.  `LifeInd` adds that nothing is cancelled before `~Thread` is done.

**The stream.**  `StreamInd` has the shape of the buffer: at most one string, without an end
behind it but the empty one.  All the strings a reader was given, then the buffer, then what
has yet to arrive are the stream, but for zeros when Recv is used.

**The script.**  What the script owns, `OwnInd`, is inductive whatever it calls: a
descriptor has one object or is about to be closed.  `SockInd` is for a `Disciplined` script.  It is
`OwnInd`, `Ind` of the pool, and `Sound`, Invariant II with what it rests on: a socket not yet
registered has an empty buffer (`Fresh`), which a Connect of a bound or connected datagram socket
breaks; what is to be registered has a descriptor (`LinkOK`); a registered one has neither an
end nor an error in it (`Clean`), so that Recv has no cause to close it, which a zero breaks;
and what a call is about to close or delete is not registered (`Quiet`).
`StepDisciplined` is the link to the pool: each step of the script is one of the pool's
clients, `RecvFrom` excepted, which reads a descriptor behind the pool's back.
`NothingCutOff` needs to know where the pieces of a stream are: `AllAccounted` says that those given
out, those in the buffer and those in the kernel are all that were sent, and that the end is behind
them.

`GameGoesOn` and `ScriptUsesService` need Invariant I for the script (`ServedNext`), which
fails when no thread can be created.

**Addresses.**  `AddrInd` is that an object is one of the resolver's or fresh (`Sound`), which
makes `get_Address` find a text for it, and the two properties of how it was set.  The work is in
what `find` and `rfind` return for a text put together from parts: the first `://` is the
scheme's, as no part holds a slash, and the last colon is the port's, as no port holds one.
Without a port the last colon is one of the host, or there is none; for IPv4 a host with colons
resolves to nothing, cut or whole, as the part in front still holds a colon
(`TextAssumption`); for `AF_UNSPEC` it may mean another host, which is why
`MeansWhatItSays` excepts it.  The rest is that the resolver is a function.

**Sending.**  `SendInd`: the wire ends with what the call has sent so far, or with the whole
message after a success (`PartInd`); a datagram that is to be sent or tried again is not on the wire
(`DatagramInd`); and the message of the call may still follow the text the peer has, where the
last beginning is the call's own or an unfinished one of an earlier try (`TextInd`).  The
last is what makes every end of a call a step of `Transmission`; its other steps are stutters.
`Text` is a recursion over the wire, and `TextAppend` is the one fact about it the
proof needs.  `FairInd` is the invariant of the errors: what a script is told is
the answer of the kernel, or none when that is a transient one; and a socket not made yet has
failed in nothing.

**References.**  Between restores `Exact` holds: a socket counts for what the script
holds of it, an address for one more exactly when a socket or a past restore holds it, and no
two sockets share one.  So does a saved game.  Within a restore, `Restored`: what has been unserialized is as it was saved,
except the addresses that came back after their socket, which are the orphans; nobody
refers to what is still missing.  At the last object, `RestoredIsExact` gives `Exact` back.

**Induction over data.**  The library's induction theorems take operators as parameters and
cannot be instantiated.  `SequenceFacts` states them for sets and functions instead
(`Induction`, `Recursion`, `SequenceInduction`), proved from the well-foundedness of the natural
numbers, so that recursive definitions can be reasoned about.

**Only model-checked** is all liveness: the fairness part of `Service`, `CloseIsNoticed`,
`CallsEnd` and `SendEnds`, which is out of the prover's reach.  Every safety property of every passing
run is a theorem.  Of a script that is not `Disciplined` the proofs say only what `OwnInd` does.

## 5. Not modelled

`SIGPIPE`; the bytes of data objects and of saved records; `Tag`, `GetOption`,
`SetOption`; the family of the addresses `Local` and `Remote` create
(`Socket.cpp:225`); what a thread that is left over does after the pool was
destroyed; threads that ended and are never joined; `Thread::stop` (nothing calls
it); the lifetime in builds without `pthread_timedjoin_np`, where `~Thread` cancels at once; the
Windows code paths, the engine, the editor and the tests.  `nfds` and `FD_SETSIZE` are left out:
descriptors have no number.  The size of the receive buffer, 65536 bytes, is not
modelled: a stream may be read in any portions, and a datagram is one piece.

## 6. Plan

What is left, most important first:

1. `ScriptKeepsDiscipline` with RecvFrom, which needs an action of the pool's clients that
   receives without it.
2. `Sockets` within `PoolLifetime`: what the engine disposes of before it shuts
   the plugin down.
3. Data objects: the bytes behind `GetData` and `CreateFromData`.
