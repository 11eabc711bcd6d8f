---------------------------- MODULE ManagedObjects ----------------------------
(***************************************************************************)
(* The objects the plugin hands to the engine, which counts the references *)
(* to them and disposes of those without any: sockets, and the addresses a *)
(* script creates or reads from a socket.  SockData objects are like the   *)
(* addresses no socket refers to.                                          *)
(*                                                                         *)
(* An object is named by its key, which the engine may use again after it  *)
(* disposed of the object.  The engine is external: it counts, saves and   *)
(* restores keys and counts, and unserializes in an order of its own.      *)
(***************************************************************************)
EXTENDS Naturals

CONSTANTS
  Sock, Addr,   \* the keys there are for each
  Null,
  MaxHeld       \* bounds the references a script has to one object

ASSUME ManagedAssumption ==
  /\ Sock \intersect Addr = {}
  /\ Null \notin Sock \union Addr
  /\ MaxHeld \in Nat \ {0}

VARIABLES
  refs,      \* the engine's counts; 0: there is no such object
  held,      \* how many of them are the script's
  local,     \* Socket::local
  remote,    \* Socket::remote
  saved,     \* the saved game: all of the above, with orphans
  todo,      \* the objects a restore has yet to unserialize
  orphans    \* history: addresses restored after the socket that holds them

objects == <<refs, held, local, remote, orphans>>
managedVars == <<objects, saved, todo>>

Obj == Sock \union Addr

Nothing ==
  [refs   |-> [o \in Obj |-> 0],     held    |-> [o \in Obj |-> 0],
   local  |-> [s \in Sock |-> Null], remote  |-> [s \in Sock |-> Null],
   orphans |-> {}]

ManagedInit ==
  /\ refs = Nothing.refs /\ held = Nothing.held
  /\ local = Nothing.local /\ remote = Nothing.remote
  /\ orphans = {}
  /\ saved = Nothing
  /\ todo = {}

\* Scripts run between restores.
Scripts == todo = {}

(***************************************************************************)
(* References.                                                             *)
(***************************************************************************)

\* AGS_RELEASE: the engine passes over what it does not know.
Release(counts, a) ==
  IF a = Null \/ counts[a] = 0 THEN counts ELSE [counts EXCEPT ![a] = @ - 1]

\* Mutant of Disposed: the remote address is kept.
DisposedLocalOnly(counts, s) == Release(counts, local[s])

\* AGSSocket::Dispose releases both addresses, of which the engine disposes
\* in turn when nothing else refers to them.
Disposed(counts, s) == Release(Release(counts, local[s]), remote[s])

\* Create, CreateFromString, CreateFromData, Accept, Recv, GetData and so on:
\* AGS_OBJECT, and the script has the reference that is returned.
Create(o) ==
  /\ Scripts /\ refs[o] = 0
  /\ refs' = [refs EXCEPT ![o] = 1]
  /\ held' = [held EXCEPT ![o] = 1]
  /\ UNCHANGED <<local, remote, orphans, saved, todo>>

\* One more variable of the script refers to o.
Refer(o) ==
  /\ held[o] < MaxHeld
  /\ held' = [held EXCEPT ![o] = @ + 1]
  /\ refs' = [refs EXCEPT ![o] = @ + 1]

Copy(o) ==
  /\ Scripts /\ held[o] > 0
  /\ Refer(o)
  /\ UNCHANGED <<local, remote, orphans, saved, todo>>

\* Mutant of GetLocal: an address is held again each time it is read.
GetLocalHeldAgain(s, a) ==
  /\ Scripts /\ held[s] > 0
  /\ (local[s] = Null /\ refs[a] = 0) \/ (local[s] = a /\ held[a] < MaxHeld)
  /\ local' = [local EXCEPT ![s] = a]
  /\ refs' = [refs EXCEPT ![a] = @ + 2]
  /\ held' = [held EXCEPT ![a] = @ + 1]
  /\ UNCHANGED <<remote, orphans, saved, todo>>

\* get_Local: the address is created when it is first read, and held.
GetLocal(s, a) ==
  /\ Scripts /\ held[s] > 0
  /\ \/ /\ local[s] = Null /\ refs[a] = 0
        /\ local' = [local EXCEPT ![s] = a]
        /\ refs' = [refs EXCEPT ![a] = 2]
        /\ held' = [held EXCEPT ![a] = 1]
     \/ local[s] = a /\ Refer(a) /\ UNCHANGED local
  /\ UNCHANGED <<remote, orphans, saved, todo>>

\* get_Remote
GetRemote(s, a) ==
  /\ Scripts /\ held[s] > 0
  /\ \/ /\ remote[s] = Null /\ refs[a] = 0
        /\ remote' = [remote EXCEPT ![s] = a]
        /\ refs' = [refs EXCEPT ![a] = 2]
        /\ held' = [held EXCEPT ![a] = 1]
     \/ remote[s] = a /\ Refer(a) /\ UNCHANGED remote
  /\ UNCHANGED <<local, orphans, saved, todo>>

\* A variable of the script no longer refers to o; the last reference to a
\* socket is always the script's.
Drop(o) ==
  /\ Scripts /\ held[o] > 0
  /\ held' = [held EXCEPT ![o] = @ - 1]
  /\ LET counts == [refs EXCEPT ![o] = @ - 1] IN
     IF o \in Sock /\ counts[o] = 0
     THEN /\ refs' = Disposed(counts, o)
          /\ local' = [local EXCEPT ![o] = Null]
          /\ remote' = [remote EXCEPT ![o] = Null]
     ELSE refs' = counts /\ UNCHANGED <<local, remote>>
  /\ UNCHANGED <<orphans, saved, todo>>

(***************************************************************************)
(* Saved games.                                                            *)
(***************************************************************************)

\* AGSSocket::Serialize keeps the keys of the addresses.
Serialize ==
  /\ Scripts
  /\ saved' = [refs |-> refs, held |-> held, local |-> local, remote |-> remote,
               orphans |-> orphans]
  /\ UNCHANGED <<objects, todo>>

\* The engine forces the disposal of all there is and starts over.
Restore ==
  /\ Scripts /\ saved # Nothing
  /\ refs' = Nothing.refs /\ held' = Nothing.held
  /\ local' = Nothing.local /\ remote' = Nothing.remote
  /\ orphans' = saved.orphans
  /\ todo' = {o \in Obj : saved.refs[o] > 0}
  /\ UNCHANGED saved

\* Mutant of FromKey: it is not looked up.
FromKeyUnseen(key) == key

\* AGS_FROM_KEY: null when the object is not there yet.
FromKey(key) == IF key = Null \/ refs[key] = 0 THEN Null ELSE key

\* AGSSocket::Unserialize, AGSSockAddr::Unserialize: AGS_RESTORE brings the
\* count back.  What a socket does not find it will not release.
Unserialize(o) ==
  /\ o \in todo
  /\ todo' = todo \ {o}
  /\ refs' = [refs EXCEPT ![o] = saved.refs[o]]
  /\ held' = [held EXCEPT ![o] = saved.held[o]]
  /\ IF o \in Sock
     THEN /\ local' = [local EXCEPT ![o] = FromKey(saved.local[o])]
          /\ remote' = [remote EXCEPT ![o] = FromKey(saved.remote[o])]
          /\ orphans' = orphans \union ({saved.local[o], saved.remote[o]} \intersect todo)
     ELSE UNCHANGED <<local, remote, orphans>>
  /\ UNCHANGED saved

ManagedNext ==
  \/ \E o \in Obj : Create(o) \/ Copy(o) \/ Drop(o) \/ Unserialize(o)
  \/ \E s \in Sock, a \in Addr : GetLocal(s, a) \/ GetRemote(s, a)
  \/ Serialize
  \/ Restore

ManagedSpec == ManagedInit /\ [][ManagedNext]_managedVars

(***************************************************************************)
(* Properties.                                                             *)
(***************************************************************************)

\* However often the members Local and Remote are read, saved and restored,
\* a socket adds no more than one reference to an address and none to another
\* socket (Socket.cpp:223-226).
ManagedTypeOK ==
  /\ \A s \in Sock : refs[s] \in 0..MaxHeld
  /\ \A a \in Addr : refs[a] \in 0..(MaxHeld + 1)
  /\ \A s \in Sock : local[s] \in Addr \union {Null} /\ remote[s] \in Addr \union {Null}
  /\ orphans \subseteq Addr

Holders(a) == {s \in Sock : a \in {local[s], remote[s]}}

\* Neither a script nor a socket ever refers to an object that was disposed
\* of, or, within a restore, to one that is not there yet
\* (Socket.cpp:59-69, 129-132).
NoDangling ==
  /\ \A o \in Obj : held[o] > 0 => refs[o] > 0
  /\ \A s \in Sock : \A a \in {local[s], remote[s]} : a # Null => refs[s] > 0 /\ refs[a] > 0

\* The engine counts the references there are, so that each object goes with
\* its last one.  Only the addresses a restore brought back after their socket
\* have a reference too many, one each, and are never disposed of
\* (Socket.cpp:107-113).
CountsExact ==
  Scripts =>
    /\ \A s \in Sock : refs[s] = held[s]
    /\ \A a \in Addr :
         /\ Holders(a) = {} => refs[a] = held[a] + (IF a \in orphans THEN 1 ELSE 0)
         /\ Holders(a) # {} => refs[a] = held[a] + 1 /\ a \notin orphans

===============================================================================
