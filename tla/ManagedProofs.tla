---------------------------- MODULE ManagedProofs ----------------------------
(***************************************************************************)
(* The references to the managed objects are counted exactly, through any  *)
(* number of saved and restored games, for any keys.                       *)
(***************************************************************************)
EXTENDS ManagedObjects, Integers, TLAPS

(***************************************************************************)
(* The inductive invariant.  What scripts see is exact, and so is a saved  *)
(* game; while a game is restored, what has been unserialized is as it was *)
(* saved, but for the addresses that came back after their socket.         *)
(***************************************************************************)

\* A socket holds the address a, in a game with these members.
IsHeld(a, l, m) == \E s \in Sock : l[s] = a \/ m[s] = a

\* The counts r, the script's references h, the members Local and Remote l
\* and m, and the orphans x of a game fit together.
Exact(r, h, l, m, x) ==
  /\ r \in [Obj -> Nat] /\ h \in [Obj -> 0..MaxHeld]
  /\ l \in [Sock -> Addr \union {Null}] /\ m \in [Sock -> Addr \union {Null}]
  /\ x \subseteq Addr
  /\ \A s \in Sock : r[s] = h[s] /\ (l[s] # Null \/ m[s] # Null => r[s] > 0)
  /\ \A s1, s2 \in Sock :
       /\ l[s1] # Null => l[s1] # m[s2] /\ (l[s1] = l[s2] => s1 = s2)
       /\ m[s1] # Null /\ m[s1] = m[s2] => s1 = s2
  /\ \A a \in Addr :
       /\ ~(IsHeld(a, l, m) /\ a \in x)
       /\ r[a] = IF IsHeld(a, l, m) \/ a \in x THEN h[a] + 1 ELSE h[a]

SavedExact == Exact(saved.refs, saved.held, saved.local, saved.remote, saved.orphans)

\* How far a restore has come.
Restored ==
  /\ refs = [o \in Obj |-> IF o \in todo THEN 0 ELSE saved.refs[o]]
  /\ held = [o \in Obj |-> IF o \in todo THEN 0 ELSE saved.held[o]]
  /\ local = [s \in Sock |-> IF s \in todo \/ saved.local[s] \in orphans
                             THEN Null ELSE saved.local[s]]
  /\ remote = [s \in Sock |-> IF s \in todo \/ saved.remote[s] \in orphans
                              THEN Null ELSE saved.remote[s]]
  /\ orphans \subseteq Addr
  /\ saved.orphans \subseteq orphans
  /\ \A a \in orphans \ saved.orphans : IsHeld(a, saved.local, saved.remote)
  /\ \A s \in todo \intersect Sock :
       saved.local[s] \notin orphans /\ saved.remote[s] \notin orphans
  /\ \A s \in Sock : local[s] \notin todo /\ remote[s] \notin todo

ManagedInd ==
  /\ SavedExact
  /\ todo \subseteq {o \in Obj : saved.refs[o] > 0}
  /\ IF Scripts THEN Exact(refs, held, local, remote, orphans) ELSE Restored

ExactNow == Exact(refs, held, local, remote, orphans)

\* The keys: no socket is an address.
LEMMA Keys ==
  /\ \A s \in Sock : s \in Obj /\ s \notin Addr
  /\ \A a \in Addr : a \in Obj /\ a \notin Sock /\ a # Null
  /\ Null \notin Obj
  /\ MaxHeld \in Nat /\ MaxHeld > 0
  BY ManagedAssumption DEF Obj

\* A saved game that has been unserialized to the last object fits together:
\* an address came back after its socket exactly when it is an orphan now.
LEMMA RestoredIsExact ==
  SavedExact /\ Restored /\ todo = {} => ExactNow
<1> SUFFICES ASSUME SavedExact, Restored, todo = {}
             PROVE  ExactNow
  OBVIOUS
<1>1. refs = saved.refs /\ held = saved.held
  BY DEF SavedExact, Exact, Restored
<1>2. /\ local \in [Sock -> Addr \union {Null}] /\ remote \in [Sock -> Addr \union {Null}]
      /\ \A s \in Sock :
           /\ local[s] = IF saved.local[s] \in orphans THEN Null ELSE saved.local[s]
           /\ remote[s] = IF saved.remote[s] \in orphans THEN Null ELSE saved.remote[s]
  BY DEF SavedExact, Exact, Restored
<1>3. \A s \in Sock : refs[s] = held[s] /\ (local[s] # Null \/ remote[s] # Null => refs[s] > 0)
  BY <1>1, <1>2 DEF SavedExact, Exact
<1>4. \A s1, s2 \in Sock :
        /\ local[s1] # Null => local[s1] # remote[s2] /\ (local[s1] = local[s2] => s1 = s2)
        /\ remote[s1] # Null /\ remote[s1] = remote[s2] => s1 = s2
  BY <1>2 DEF SavedExact, Exact
<1>5. ASSUME NEW a \in Addr
      PROVE  /\ ~(IsHeld(a, local, remote) /\ a \in orphans)
             /\ (IsHeld(a, local, remote) \/ a \in orphans)
                  <=> (IsHeld(a, saved.local, saved.remote) \/ a \in saved.orphans)
  BY <1>2, Keys DEF IsHeld, Restored
<1>6. /\ refs \in [Obj -> Nat] /\ held \in [Obj -> 0..MaxHeld] /\ orphans \subseteq Addr
      /\ \A a \in Addr :
           refs[a] = IF IsHeld(a, saved.local, saved.remote) \/ a \in saved.orphans
                     THEN held[a] + 1 ELSE held[a]
  BY <1>1 DEF SavedExact, Exact, Restored
<1> QED
  BY <1>2, <1>3, <1>4, <1>5, <1>6 DEF ExactNow, Exact

LEMMA RestoredIsExactNext ==
  (SavedExact /\ Restored /\ todo = {} => ExactNow)'
  BY RestoredIsExact, PTL

LEMMA NothingIsExact ==
  Exact(Nothing.refs, Nothing.held, Nothing.local, Nothing.remote, Nothing.orphans)
  BY Keys DEF Exact, Nothing, IsHeld

LEMMA ManagedInitInd == ManagedInit => ManagedInd
  BY NothingIsExact DEF ManagedInit, ManagedInd, SavedExact, Scripts, Nothing

(***************************************************************************)
(* The steps of a script.                                                  *)
(***************************************************************************)

\* An object that is not there is nobody's.
LEMMA Unused ==
  ASSUME ExactNow, NEW o \in Obj, refs[o] = 0
  PROVE  /\ held[o] = 0 /\ o \notin orphans
         /\ \A s \in Sock : local[s] # o /\ remote[s] # o
<1>1. CASE o \in Sock
  BY <1>1, Keys DEF ExactNow, Exact
<1>2. CASE o \in Addr
  <2>1. held[o] \in Nat /\ refs[o] = IF IsHeld(o, local, remote) \/ o \in orphans
                                     THEN held[o] + 1 ELSE held[o]
    BY <1>2, Keys DEF ExactNow, Exact
  <2> QED
    BY <2>1 DEF IsHeld
<1> QED
  BY <1>1, <1>2 DEF Obj

LEMMA CreateKeeps ==
  ASSUME ExactNow, NEW o \in Obj, Create(o)
  PROVE  ExactNow'
<1>1. refs[o] = 0 /\ held[o] = 0 /\ o \notin orphans
  BY Unused DEF Create
<1>2. /\ refs' = [refs EXCEPT ![o] = 1] /\ held' = [held EXCEPT ![o] = 1]
      /\ local' = local /\ remote' = remote /\ orphans' = orphans
  BY DEF Create
<1>3. refs' \in [Obj -> Nat] /\ held' \in [Obj -> 0..MaxHeld]
  BY <1>2, Keys DEF ExactNow, Exact
<1>4. \A s \in Sock : refs'[s] = held'[s] /\ (local'[s] # Null \/ remote'[s] # Null => refs'[s] > 0)
  BY <1>2, Keys DEF ExactNow, Exact
<1>5. ASSUME NEW a \in Addr
      PROVE  refs'[a] = IF IsHeld(a, local, remote) \/ a \in orphans
                        THEN held'[a] + 1 ELSE held'[a]
  <2>1. CASE a = o
    BY <1>1, <1>2, <2>1, Unused, Keys DEF ExactNow, Exact, IsHeld
  <2>2. CASE a # o
    BY <1>2, <2>2, Keys DEF ExactNow, Exact
  <2> QED
    BY <2>1, <2>2
<1> QED
  BY <1>2, <1>3, <1>4, <1>5 DEF ExactNow, Exact

\* One more reference of the script's, counted.
LEMMA ReferKeeps ==
  ASSUME ExactNow, NEW o \in Obj, Refer(o), UNCHANGED <<local, remote, orphans>>
  PROVE  ExactNow'
<1>1. /\ refs' = [refs EXCEPT ![o] = refs[o] + 1] /\ held' = [held EXCEPT ![o] = held[o] + 1]
      /\ held[o] < MaxHeld
      /\ local' = local /\ remote' = remote /\ orphans' = orphans
  BY DEF Refer
<1>2. refs \in [Obj -> Nat] /\ held \in [Obj -> 0..MaxHeld]
  BY DEF ExactNow, Exact
<1>3. refs' \in [Obj -> Nat] /\ held' \in [Obj -> 0..MaxHeld]
  BY <1>1, <1>2, Keys
<1>4. \A s \in Sock : refs'[s] = held'[s] /\ (local'[s] # Null \/ remote'[s] # Null => refs'[s] > 0)
  BY <1>1, <1>2, Keys DEF ExactNow, Exact
<1>5. \A a \in Addr :
        refs'[a] = IF IsHeld(a, local, remote) \/ a \in orphans THEN held'[a] + 1 ELSE held'[a]
  BY <1>1, <1>2, Keys DEF ExactNow, Exact
<1> QED
  BY <1>1, <1>3, <1>4, <1>5 DEF ExactNow, Exact

\* An address that is made for a socket counts both references to it; l and
\* m are the member it is made for and the other one.
LEMMA MadeFor ==
  ASSUME ExactNow, NEW s \in Sock, NEW a \in Addr,
         held[s] > 0, refs[a] = 0,
         refs' = [refs EXCEPT ![a] = 2], held' = [held EXCEPT ![a] = 1], orphans' = orphans,
         \/ local[s] = Null /\ local' = [local EXCEPT ![s] = a] /\ remote' = remote
         \/ remote[s] = Null /\ remote' = [remote EXCEPT ![s] = a] /\ local' = local
  PROVE  ExactNow'
<1>1. /\ held[a] = 0 /\ a \notin orphans
      /\ \A t \in Sock : local[t] # a /\ remote[t] # a
  BY Unused, Keys
<1>2. /\ local \in [Sock -> Addr \union {Null}] /\ remote \in [Sock -> Addr \union {Null}]
      /\ refs \in [Obj -> Nat] /\ held \in [Obj -> 0..MaxHeld]
  BY DEF ExactNow, Exact
<1>3. /\ local' \in [Sock -> Addr \union {Null}] /\ remote' \in [Sock -> Addr \union {Null}]
      /\ refs' \in [Obj -> Nat] /\ held' \in [Obj -> 0..MaxHeld]
  BY <1>2, Keys
<1>4. \A t \in Sock : t # s => local'[t] = local[t] /\ remote'[t] = remote[t]
  BY <1>2
<1>5. \/ local'[s] = a /\ remote'[s] = remote[s] /\ local[s] = Null
      \/ remote'[s] = a /\ local'[s] = local[s] /\ remote[s] = Null
  BY <1>2
<1>6. \A t \in Sock : refs'[t] = held'[t] /\ (local'[t] # Null \/ remote'[t] # Null => refs'[t] > 0)
  <2>1. \A t \in Sock : refs'[t] = refs[t] /\ held'[t] = held[t]
    BY <1>2, Keys
  <2> QED
    BY <1>4, <2>1 DEF ExactNow, Exact
<1>7. \A t, u \in Sock :
        /\ local'[t] # Null => local'[t] # remote'[u] /\ (local'[t] = local'[u] => t = u)
        /\ remote'[t] # Null /\ remote'[t] = remote'[u] => t = u
  <2>1. \A t, u \in Sock :
          /\ local[t] # Null => local[t] # remote[u] /\ (local[t] = local[u] => t = u)
          /\ remote[t] # Null /\ remote[t] = remote[u] => t = u
    BY DEF ExactNow, Exact
  <2> QED
    BY <1>1, <1>4, <1>5, <2>1, Keys
<1>8. ASSUME NEW b \in Addr
      PROVE  /\ ~(IsHeld(b, local', remote') /\ b \in orphans)
             /\ refs'[b] = IF IsHeld(b, local', remote') \/ b \in orphans
                           THEN held'[b] + 1 ELSE held'[b]
  <2>1. CASE b = a
    <3>1. IsHeld(b, local', remote')
      BY <1>5, <2>1 DEF IsHeld
    <3> QED
      BY <1>1, <1>2, <2>1, <3>1, Keys
  <2>2. CASE b # a
    <3>1. IsHeld(b, local', remote') <=> IsHeld(b, local, remote)
      BY <1>4, <1>5, <2>2, Keys DEF IsHeld
    <3>2. refs'[b] = refs[b] /\ held'[b] = held[b]
      BY <1>2, <2>2, Keys
    <3> QED
      BY <3>1, <3>2 DEF ExactNow, Exact
  <2> QED
    BY <2>1, <2>2
<1> QED
  BY <1>3, <1>6, <1>7, <1>8 DEF ExactNow, Exact

LEMMA GetLocalKeeps ==
  ASSUME ExactNow, NEW s \in Sock, NEW a \in Addr, GetLocal(s, a)
  PROVE  ExactNow'
<1>1. CASE local[s] = Null /\ refs[a] = 0 /\ local' = [local EXCEPT ![s] = a]
           /\ refs' = [refs EXCEPT ![a] = 2] /\ held' = [held EXCEPT ![a] = 1]
  BY <1>1, MadeFor DEF GetLocal
<1>2. CASE Refer(a) /\ UNCHANGED local
  BY <1>2, ReferKeeps, Keys DEF GetLocal
<1> QED
  BY <1>1, <1>2 DEF GetLocal

LEMMA GetRemoteKeeps ==
  ASSUME ExactNow, NEW s \in Sock, NEW a \in Addr, GetRemote(s, a)
  PROVE  ExactNow'
<1>1. CASE remote[s] = Null /\ refs[a] = 0 /\ remote' = [remote EXCEPT ![s] = a]
           /\ refs' = [refs EXCEPT ![a] = 2] /\ held' = [held EXCEPT ![a] = 1]
  BY <1>1, MadeFor DEF GetRemote
<1>2. CASE Refer(a) /\ UNCHANGED remote
  BY <1>2, ReferKeeps, Keys DEF GetRemote
<1> QED
  BY <1>1, <1>2 DEF GetRemote

(***************************************************************************)
(* The disposal of a socket.                                               *)
(***************************************************************************)

\* A release takes one from the count of an address that has one, and
\* nothing from any other.
LEMMA ReleaseOne ==
  ASSUME NEW r \in [Obj -> Nat], NEW k \in Addr \union {Null}, k # Null => r[k] > 0
  PROVE  /\ Release(r, k) \in [Obj -> Nat]
         /\ \A o \in Obj : Release(r, k)[o] = IF o = k THEN r[o] - 1 ELSE r[o]
<1>1. CASE k = Null
  BY <1>1, Keys DEF Release
<1>2. CASE k # Null
  <2>1. Release(r, k) = [r EXCEPT ![k] = r[k] - 1] /\ k \in Obj
    BY <1>2, Keys DEF Release
  <2> QED
    BY <1>2, <2>1
<1> QED
  BY <1>1, <1>2

\* Dispose: the addresses the socket held lose the reference it had.
LEMMA DisposedReleases ==
  ASSUME NEW r \in [Obj -> Nat], NEW s \in Sock,
         local[s] \in Addr \union {Null}, remote[s] \in Addr \union {Null},
         local[s] # Null => r[local[s]] > 0 /\ local[s] # remote[s],
         remote[s] # Null => r[remote[s]] > 0
  PROVE  /\ Disposed(r, s) \in [Obj -> Nat]
         /\ \A o \in Obj :
              Disposed(r, s)[o] = IF o = local[s] \/ o = remote[s] THEN r[o] - 1 ELSE r[o]
<1> DEFINE q == Release(r, local[s])
<1>1. q \in [Obj -> Nat] /\ \A o \in Obj : q[o] = IF o = local[s] THEN r[o] - 1 ELSE r[o]
  BY ReleaseOne
<1>2. remote[s] # Null => q[remote[s]] > 0
  BY <1>1, Keys
<1>3. Disposed(r, s) = Release(q, remote[s])
  BY DEF Disposed
<1> HIDE DEF q
<1>4. /\ Release(q, remote[s]) \in [Obj -> Nat]
      /\ \A o \in Obj : Release(q, remote[s])[o] = IF o = remote[s] THEN q[o] - 1 ELSE q[o]
  BY <1>1, <1>2, ReleaseOne
<1> QED
  BY <1>1, <1>3, <1>4, Keys

\* The address of a socket is counted.
LEMMA AddressCounted ==
  ASSUME ExactNow, NEW s \in Sock
  PROVE  /\ local[s] \in Addr \union {Null} /\ remote[s] \in Addr \union {Null}
         /\ local[s] # Null => refs[local[s]] = held[local[s]] + 1
                               /\ local[s] # remote[s] /\ local[s] \notin orphans
         /\ remote[s] # Null => refs[remote[s]] = held[remote[s]] + 1
                                /\ remote[s] \notin orphans
<1>1. local[s] \in Addr \union {Null} /\ remote[s] \in Addr \union {Null}
  BY DEF ExactNow, Exact
<1>2. local[s] # Null => IsHeld(local[s], local, remote)
  BY DEF IsHeld
<1>3. remote[s] # Null => IsHeld(remote[s], local, remote)
  BY DEF IsHeld
<1> QED
  BY <1>1, <1>2, <1>3 DEF ExactNow, Exact

LEMMA DropKeeps ==
  ASSUME ExactNow, NEW o \in Obj, Drop(o)
  PROVE  ExactNow'
<1> DEFINE counts == [refs EXCEPT ![o] = refs[o] - 1]
<1>1. /\ refs \in [Obj -> Nat] /\ held \in [Obj -> 0..MaxHeld]
      /\ held[o] > 0 /\ held' = [held EXCEPT ![o] = held[o] - 1] /\ orphans' = orphans
      /\ orphans \subseteq Addr
  BY DEF ExactNow, Exact, Drop
<1>2. refs[o] >= held[o] /\ refs[o] > 0
  <2>1. CASE o \in Sock
    BY <1>1, <2>1 DEF ExactNow, Exact
  <2>2. CASE o \in Addr
    BY <1>1, <2>2, Keys DEF ExactNow, Exact
  <2> QED
    BY <2>1, <2>2 DEF Obj
<1>3. counts \in [Obj -> Nat] /\ held' \in [Obj -> 0..MaxHeld]
  BY <1>1, <1>2, Keys
<1>4. CASE o \in Sock /\ counts[o] = 0
  <2>1. /\ refs' = Disposed(counts, o)
        /\ local' = [local EXCEPT ![o] = Null] /\ remote' = [remote EXCEPT ![o] = Null]
    BY <1>4 DEF Drop
  <2>2. /\ local \in [Sock -> Addr \union {Null}] /\ remote \in [Sock -> Addr \union {Null}]
    BY DEF ExactNow, Exact
  <2>3. /\ local' \in [Sock -> Addr \union {Null}] /\ remote' \in [Sock -> Addr \union {Null}]
        /\ local'[o] = Null /\ remote'[o] = Null
        /\ \A t \in Sock : t # o => local'[t] = local[t] /\ remote'[t] = remote[t]
    BY <1>4, <2>1, <2>2
  <2>4. \A a \in Addr : counts[a] = refs[a] /\ held'[a] = held[a]
    BY <1>1, <1>4, Keys
  <2>5. /\ local[o] \in Addr \union {Null} /\ remote[o] \in Addr \union {Null}
        /\ local[o] # Null => counts[local[o]] > 0 /\ local[o] # remote[o]
        /\ remote[o] # Null => counts[remote[o]] > 0
    BY <1>1, <1>4, <2>4, AddressCounted, Keys
  <2> HIDE DEF counts
  <2>6. /\ refs' \in [Obj -> Nat]
        /\ \A p \in Obj :
             refs'[p] = IF p = local[o] \/ p = remote[o] THEN counts[p] - 1 ELSE counts[p]
    BY <1>3, <1>4, <2>1, <2>5, DisposedReleases
  <2>7. \A t \in Sock : refs'[t] = held'[t] /\ (local'[t] # Null \/ remote'[t] # Null => refs'[t] > 0)
    <3>1. \A t \in Sock : refs'[t] = counts[t]
      BY <2>5, <2>6, Keys
    <3>2. \A t \in Sock : counts[t] = held'[t] /\ (t # o => counts[t] = refs[t])
      BY <1>1, <1>4, Keys DEF counts, ExactNow, Exact
    <3> QED
      BY <2>3, <3>1, <3>2 DEF ExactNow, Exact
  <2>8. \A t, u \in Sock :
          /\ local'[t] # Null => local'[t] # remote'[u] /\ (local'[t] = local'[u] => t = u)
          /\ remote'[t] # Null /\ remote'[t] = remote'[u] => t = u
    BY <2>3 DEF ExactNow, Exact
  <2>9. ASSUME NEW a \in Addr
        PROVE  /\ ~(IsHeld(a, local', remote') /\ a \in orphans)
               /\ refs'[a] = IF IsHeld(a, local', remote') \/ a \in orphans
                             THEN held'[a] + 1 ELSE held'[a]
    <3>0. a \in Obj /\ a # Null /\ refs[a] \in Nat /\ held[a] \in Nat
      BY <1>1, Keys
    <3>1. CASE a = local[o] \/ a = remote[o]
      <4>1. refs[a] = held[a] + 1 /\ a \notin orphans
        BY <1>4, <3>0, <3>1, AddressCounted
      <4>2. ~IsHeld(a, local', remote')
        BY <1>4, <2>3, <3>0, <3>1 DEF ExactNow, Exact, IsHeld
      <4> QED
        BY <2>4, <2>6, <3>0, <3>1, <4>1, <4>2
    <3>2. CASE a # local[o] /\ a # remote[o]
      <4>1. IsHeld(a, local', remote') <=> IsHeld(a, local, remote)
        BY <2>3, <3>0, <3>2 DEF IsHeld
      <4>2. refs'[a] = refs[a] /\ held'[a] = held[a]
        BY <2>4, <2>6, <3>0, <3>2
      <4> QED
        BY <4>1, <4>2 DEF ExactNow, Exact
    <3> QED
      BY <3>1, <3>2
  <2> QED
    BY <1>1, <1>3, <2>3, <2>6, <2>7, <2>8, <2>9 DEF ExactNow, Exact
<1>5. CASE ~(o \in Sock /\ counts[o] = 0)
  <2>1. refs' = counts /\ local' = local /\ remote' = remote
    BY <1>5 DEF Drop
  <2>2. \A t \in Sock : refs'[t] = held'[t] /\ (local'[t] # Null \/ remote'[t] # Null => refs'[t] > 0)
    <3> SUFFICES ASSUME NEW t \in Sock
                 PROVE  refs'[t] = held'[t]
                        /\ (local'[t] # Null \/ remote'[t] # Null => refs'[t] > 0)
      OBVIOUS
    <3>1. /\ refs[t] = held[t] /\ (local[t] # Null \/ remote[t] # Null => refs[t] > 0)
          /\ t \in Obj /\ refs[t] \in Nat
      BY <1>1, Keys DEF ExactNow, Exact
    <3>2. CASE t = o
      BY <1>1, <1>3, <1>5, <2>1, <3>1, <3>2
    <3>3. CASE t # o
      BY <1>1, <2>1, <3>1, <3>3
    <3> QED
      BY <3>2, <3>3
  <2>3. \A a \in Addr :
          refs'[a] = IF IsHeld(a, local, remote) \/ a \in orphans THEN held'[a] + 1 ELSE held'[a]
    <3> SUFFICES ASSUME NEW a \in Addr
                 PROVE  refs'[a] = IF IsHeld(a, local, remote) \/ a \in orphans
                                   THEN held'[a] + 1 ELSE held'[a]
      OBVIOUS
    <3>1. /\ refs[a] = IF IsHeld(a, local, remote) \/ a \in orphans THEN held[a] + 1 ELSE held[a]
          /\ a \in Obj /\ held[a] \in Nat
      BY <1>1, Keys DEF ExactNow, Exact
    <3> QED
      BY <1>1, <2>1, <3>1
  <2> QED
    BY <1>1, <1>3, <2>1, <2>2, <2>3 DEF ExactNow, Exact
<1> QED
  BY <1>4, <1>5

(***************************************************************************)
(* Saved games.                                                            *)
(***************************************************************************)

LEMMA RestoreKeeps ==
  ASSUME SavedExact, Restore
  PROVE  Restored'
<1>1. /\ saved' = saved
      /\ \A o \in Obj : saved.refs[o] \in Nat /\ saved.held[o] \in Nat
      /\ todo' = {o \in Obj : saved.refs[o] > 0}
      /\ orphans' = saved.orphans /\ saved.orphans \subseteq Addr
  BY DEF Restore, SavedExact, Exact
<1>2. \A o \in Obj : o \notin todo' => saved.refs[o] = 0 /\ saved.held[o] = 0
  <2> SUFFICES ASSUME NEW o \in Obj, o \notin todo'
               PROVE  saved.refs[o] = 0 /\ saved.held[o] = 0
    OBVIOUS
  <2>1. saved.refs[o] = 0 /\ saved.held[o] \in Nat
    BY <1>1
  <2>2. CASE o \in Sock
    BY <2>1, <2>2 DEF SavedExact, Exact
  <2>3. CASE o \in Addr
    BY <2>1, <2>3 DEF SavedExact, Exact
  <2> QED
    BY <2>1, <2>2, <2>3 DEF Obj
<1>3. \A s \in Sock : s \notin todo' => saved.local[s] = Null /\ saved.remote[s] = Null
  BY <1>2, Keys DEF SavedExact, Exact
<1>4. \A s \in Sock : saved.local[s] \notin saved.orphans /\ saved.remote[s] \notin saved.orphans
  BY <1>1 DEF SavedExact, Exact, IsHeld
<1>5. /\ refs' = [o \in Obj |-> 0] /\ held' = [o \in Obj |-> 0]
      /\ local' = [s \in Sock |-> Null] /\ remote' = [s \in Sock |-> Null]
  BY DEF Restore, Nothing
<1>6. /\ refs' = [o \in Obj |-> IF o \in todo' THEN 0 ELSE saved.refs[o]]
      /\ held' = [o \in Obj |-> IF o \in todo' THEN 0 ELSE saved.held[o]]
  BY <1>2, <1>5
<1>7. /\ local' = [s \in Sock |-> IF s \in todo' \/ saved.local[s] \in orphans'
                                  THEN Null ELSE saved.local[s]]
      /\ remote' = [s \in Sock |-> IF s \in todo' \/ saved.remote[s] \in orphans'
                                   THEN Null ELSE saved.remote[s]]
  BY <1>3, <1>5
<1>8. \A s \in Sock : local'[s] \notin todo' /\ remote'[s] \notin todo'
  BY <1>1, <1>5, Keys
<1> QED
  BY <1>1, <1>4, <1>6, <1>7, <1>8 DEF Restored

\* What a socket finds of an address it saved.
LEMMA Found ==
  ASSUME SavedExact, Restored, todo \subseteq Obj,
         NEW s \in todo, s \in Sock, NEW a \in {saved.local[s], saved.remote[s]}
  PROVE  /\ FromKey(a) = IF a \in todo THEN Null ELSE a
         /\ a \in Addr \union {Null} /\ a \notin orphans
         /\ a \in todo => a \in Addr
<1>1. a \in Addr \union {Null} /\ a \notin orphans
  BY DEF SavedExact, Exact, Restored
<1>2. CASE a = Null
  BY <1>1, <1>2, Keys DEF FromKey
<1>3. CASE a # Null
  <2>1. a \in Addr /\ a \in Obj /\ IsHeld(a, saved.local, saved.remote)
    BY <1>1, <1>3, Keys DEF IsHeld
  <2>2. saved.refs[a] = saved.held[a] + 1 /\ saved.held[a] \in Nat
    BY <2>1, Keys DEF SavedExact, Exact
  <2>3. refs[a] = IF a \in todo THEN 0 ELSE saved.refs[a]
    BY <2>1 DEF Restored
  <2> QED
    BY <1>1, <1>3, <2>1, <2>2, <2>3 DEF FromKey
<1> QED
  BY <1>2, <1>3

LEMMA UnserializeKeeps ==
  ASSUME SavedExact, Restored, todo \subseteq {o \in Obj : saved.refs[o] > 0},
         NEW o \in Obj, Unserialize(o)
  PROVE  Restored'
<1>1. /\ o \in todo /\ todo' = todo \ {o} /\ saved' = saved /\ todo \subseteq Obj
      /\ refs' = [refs EXCEPT ![o] = saved.refs[o]]
      /\ held' = [held EXCEPT ![o] = saved.held[o]]
  BY DEF Unserialize
<1>2. /\ refs' = [p \in Obj |-> IF p \in todo' THEN 0 ELSE saved'.refs[p]]
      /\ held' = [p \in Obj |-> IF p \in todo' THEN 0 ELSE saved'.held[p]]
  BY <1>1 DEF Restored
<1>3. CASE o \in Sock
  <2> DEFINE new == {saved.local[o], saved.remote[o]} \intersect todo
  <2>1. /\ local' = [local EXCEPT ![o] = FromKey(saved.local[o])]
        /\ remote' = [remote EXCEPT ![o] = FromKey(saved.remote[o])]
        /\ orphans' = orphans \union new
    BY <1>3 DEF Unserialize
  <2>2. /\ FromKey(saved.local[o]) = IF saved.local[o] \in orphans' THEN Null ELSE saved.local[o]
        /\ FromKey(saved.remote[o]) = IF saved.remote[o] \in orphans' THEN Null ELSE saved.remote[o]
        /\ FromKey(saved.local[o]) \notin todo /\ FromKey(saved.remote[o]) \notin todo
        /\ new \subseteq Addr
    BY <1>1, <1>3, <2>1, Found, Keys
  <2>3. \A s \in Sock : s # o => saved.local[s] \notin new /\ saved.remote[s] \notin new
    BY <1>1, <1>3, Keys DEF SavedExact, Exact
  <2>4. \A a \in new : IsHeld(a, saved.local, saved.remote)
    BY <1>3 DEF IsHeld
  <2> HIDE DEF new
  <2>5. /\ local = [s \in Sock |-> IF s \in todo \/ saved.local[s] \in orphans
                                   THEN Null ELSE saved.local[s]]
        /\ remote = [s \in Sock |-> IF s \in todo \/ saved.remote[s] \in orphans
                                    THEN Null ELSE saved.remote[s]]
    BY DEF Restored
  <2>6. /\ local' = [s \in Sock |-> IF s \in todo' \/ saved'.local[s] \in orphans'
                                    THEN Null ELSE saved'.local[s]]
        /\ remote' = [s \in Sock |-> IF s \in todo' \/ saved'.remote[s] \in orphans'
                                     THEN Null ELSE saved'.remote[s]]
    BY <1>1, <1>3, <2>1, <2>2, <2>3, <2>5
  <2>7. \A s \in Sock : local'[s] \notin todo' /\ remote'[s] \notin todo'
    <3>1. \A s \in Sock : local[s] \notin todo /\ remote[s] \notin todo
      BY DEF Restored
    <3> QED
      BY <1>1, <1>3, <2>1, <2>2, <2>5, <3>1
  <2>8. \A s \in todo' \intersect Sock :
          saved.local[s] \notin orphans' /\ saved.remote[s] \notin orphans'
    BY <1>1, <2>1, <2>3 DEF Restored
  <2>9. /\ orphans' \subseteq Addr /\ saved.orphans \subseteq orphans'
        /\ \A a \in orphans' \ saved.orphans : IsHeld(a, saved.local, saved.remote)
    BY <2>1, <2>2, <2>4 DEF Restored
  <2>10. \A a \in orphans' \ saved'.orphans : IsHeld(a, saved.local, saved.remote)'
    BY <1>1, <2>9 DEF IsHeld
  <2>11. saved'.orphans \subseteq orphans' /\ orphans' \subseteq Addr
    BY <1>1, <2>9
  <2>12. \A s \in todo' \intersect Sock :
           saved'.local[s] \notin orphans' /\ saved'.remote[s] \notin orphans'
    BY <1>1, <2>8
  <2> QED
    BY <1>2, <2>6, <2>7, <2>10, <2>11, <2>12 DEF Restored
<1>4. CASE o \notin Sock
  <2>1. local' = local /\ remote' = remote /\ orphans' = orphans
    BY <1>4 DEF Unserialize
  <2>2. /\ local' = [s \in Sock |-> IF s \in todo' \/ saved'.local[s] \in orphans'
                                    THEN Null ELSE saved'.local[s]]
        /\ remote' = [s \in Sock |-> IF s \in todo' \/ saved'.remote[s] \in orphans'
                                     THEN Null ELSE saved'.remote[s]]
    BY <1>1, <1>4, <2>1 DEF Restored
  <2>3. \A a \in orphans' \ saved'.orphans : IsHeld(a, saved.local, saved.remote)'
    BY <1>1, <2>1 DEF Restored, IsHeld
  <2>4. /\ saved'.orphans \subseteq orphans' /\ orphans' \subseteq Addr
        /\ \A s \in todo' \intersect Sock :
             saved'.local[s] \notin orphans' /\ saved'.remote[s] \notin orphans'
        /\ \A s \in Sock : local'[s] \notin todo' /\ remote'[s] \notin todo'
    BY <1>1, <2>1 DEF Restored
  <2> QED
    BY <1>2, <2>2, <2>3, <2>4 DEF Restored
<1> QED
  BY <1>3, <1>4

(***************************************************************************)
(* The theorems.                                                           *)
(***************************************************************************)

LEMMA ManagedStep == ManagedInd /\ [ManagedNext]_managedVars => ManagedInd'
<1> SUFFICES ASSUME ManagedInd, [ManagedNext]_managedVars
             PROVE  ManagedInd'
  OBVIOUS
<1> DEFINE Kept == saved' = saved /\ todo' = todo
<1>1. ASSUME Scripts, ExactNow', Kept PROVE ManagedInd'
  BY <1>1 DEF ManagedInd, Scripts, SavedExact, ExactNow
<1>2. ASSUME Restored', saved' = saved, todo' \subseteq {o \in Obj : saved.refs[o] > 0}
      PROVE  ManagedInd'
  <2>1. SavedExact'
    BY <1>2 DEF ManagedInd, SavedExact
  <2>2. todo' = {} => ExactNow'
    BY <1>2, <2>1, RestoredIsExactNext
  <2> QED
    BY <1>2, <2>1, <2>2 DEF ManagedInd, Scripts, ExactNow
<1>3. Scripts => ExactNow
  BY DEF ManagedInd, ExactNow
<1>4. ASSUME NEW o \in Obj, Create(o) PROVE ManagedInd'
  BY <1>1, <1>3, <1>4, CreateKeeps DEF Create
<1>5. ASSUME NEW o \in Obj, Copy(o) PROVE ManagedInd'
  BY <1>1, <1>3, <1>5, ReferKeeps DEF Copy
<1>6. ASSUME NEW o \in Obj, Drop(o) PROVE ManagedInd'
  BY <1>1, <1>3, <1>6, DropKeeps DEF Drop
<1>7. ASSUME NEW s \in Sock, NEW a \in Addr, GetLocal(s, a) PROVE ManagedInd'
  BY <1>1, <1>3, <1>7, GetLocalKeeps DEF GetLocal
<1>8. ASSUME NEW s \in Sock, NEW a \in Addr, GetRemote(s, a) PROVE ManagedInd'
  BY <1>1, <1>3, <1>8, GetRemoteKeeps DEF GetRemote
<1>9. ASSUME NEW o \in Obj, Unserialize(o) PROVE ManagedInd'
  <2>1. ~Scripts /\ todo' \subseteq todo /\ saved' = saved
    BY <1>9 DEF Unserialize, Scripts
  <2>2. Restored'
    BY <1>9, <2>1, UnserializeKeeps DEF ManagedInd
  <2> QED
    BY <1>2, <2>1, <2>2 DEF ManagedInd
<1>10. CASE Serialize
  <2>1. Scripts /\ ExactNow' /\ todo' = todo
    BY <1>3, <1>10 DEF Serialize, objects, ExactNow
  <2>2. SavedExact'
    BY <1>3, <1>10 DEF Serialize, SavedExact, ExactNow
  <2> QED
    BY <2>1, <2>2 DEF ManagedInd, Scripts, ExactNow
<1>11. CASE Restore
  <2>1. Restored'
    BY <1>11, RestoreKeeps DEF ManagedInd
  <2> QED
    BY <1>2, <1>11, <2>1 DEF Restore
<1>12. CASE UNCHANGED managedVars
  BY <1>12 DEF managedVars, objects, ManagedInd, Scripts, SavedExact, Restored
<1> QED
  BY <1>4, <1>5, <1>6, <1>7, <1>8, <1>9, <1>10, <1>11, <1>12 DEF ManagedNext

\* The invariant holds of every state, for any keys.
THEOREM ManagedInductive == ManagedSpec => []ManagedInd
  BY ManagedInitInd, ManagedStep, PTL DEF ManagedSpec

\* Through any number of saved and restored games the engine's counts are the
\* references there are, but for the orphans', which have one more
\* (Socket.cpp:107-113).
THEOREM CountsAreExact == ManagedSpec => []CountsExact
<1>1. ManagedInd => CountsExact
  <2> SUFFICES ASSUME ManagedInd, Scripts PROVE CountsExact
    BY DEF CountsExact
  <2>1. ExactNow
    BY DEF ManagedInd, ExactNow
  <2>2. \A a \in Addr : Holders(a) = {} <=> ~IsHeld(a, local, remote)
    BY DEF Holders, IsHeld
  <2> QED
    BY <2>1, <2>2, Keys DEF CountsExact, ExactNow, Exact
<1> QED
  BY <1>1, ManagedInductive, PTL

\* Neither a script nor a socket refers to an object that is not there, not
\* even in the middle of a restore (Socket.cpp:59-69, 129-132).
THEOREM NothingDangles == ManagedSpec => []NoDangling
<1>1. ManagedInd => NoDangling
  <2> SUFFICES ASSUME ManagedInd PROVE NoDangling
    OBVIOUS
  <2>1. CASE Scripts
    <3>1. ExactNow
      BY <2>1 DEF ManagedInd, ExactNow
    <3>2. \A o \in Obj : held[o] > 0 => refs[o] > 0
      BY <3>1, Keys DEF ExactNow, Exact, Obj
    <3>3. \A s \in Sock : local[s] # Null \/ remote[s] # Null => refs[s] > 0
      BY <3>1 DEF ExactNow, Exact
    <3>4. ASSUME NEW s \in Sock, NEW a \in {local[s], remote[s]}, a # Null PROVE refs[a] > 0
      BY <3>1, <3>4, AddressCounted, Keys DEF ExactNow, Exact
    <3> QED
      BY <3>2, <3>3, <3>4 DEF NoDangling
  <2>2. CASE ~Scripts
    <3>1. SavedExact /\ Restored
      BY <2>2 DEF ManagedInd
    <3>2. \A o \in Obj : saved.held[o] > 0 => saved.refs[o] > 0
      BY <3>1, Keys DEF SavedExact, Exact, Obj
    <3>3. \A o \in Obj : held[o] > 0 => refs[o] > 0
      BY <3>1, <3>2 DEF Restored
    <3>4. ASSUME NEW s \in Sock, NEW a \in {local[s], remote[s]}, a # Null
          PROVE  refs[s] > 0 /\ refs[a] > 0
      <4>1. s \notin todo /\ a \in {saved.local[s], saved.remote[s]} /\ a \notin todo
        BY <3>1, <3>4 DEF Restored
      <4>2. a \in Addr /\ saved.refs[s] > 0
        BY <3>1, <3>4, <4>1 DEF SavedExact, Exact
      <4>3. IsHeld(a, saved.local, saved.remote)
        BY <4>1 DEF IsHeld
      <4>4. saved.refs[a] > 0
        BY <3>1, <4>2, <4>3, Keys DEF SavedExact, Exact
      <4> QED
        BY <3>1, <4>1, <4>2, <4>4, Keys DEF Restored
    <3> QED
      BY <3>3, <3>4 DEF NoDangling
  <2> QED
    BY <2>1, <2>2
<1> QED
  BY <1>1, ManagedInductive, PTL

\* A socket adds one reference to an address and none to another socket.
THEOREM ManagedTypeCorrect == ManagedSpec => []ManagedTypeOK
<1>1. ASSUME NEW r, NEW h, NEW l, NEW m, NEW x, Exact(r, h, l, m, x)
      PROVE  /\ \A s \in Sock : r[s] \in 0..MaxHeld
             /\ \A a \in Addr : r[a] \in 0..(MaxHeld + 1)
  <2>1. \A o \in Obj : h[o] \in 0..MaxHeld
    BY <1>1 DEF Exact
  <2>2. \A s \in Sock : r[s] = h[s]
    BY <1>1 DEF Exact
  <2>3. \A a \in Addr : r[a] = h[a] + 1 \/ r[a] = h[a]
    BY <1>1 DEF Exact
  <2> QED
    BY <2>1, <2>2, <2>3, Keys
<1>2. ManagedInd => ManagedTypeOK
  <2> SUFFICES ASSUME ManagedInd PROVE ManagedTypeOK
    OBVIOUS
  <2>1. CASE Scripts
    <3>1. Exact(refs, held, local, remote, orphans)
      BY <2>1 DEF ManagedInd
    <3>2. /\ \A s \in Sock : local[s] \in Addr \union {Null} /\ remote[s] \in Addr \union {Null}
          /\ orphans \subseteq Addr
      BY <3>1 DEF Exact
    <3> QED
      BY <1>1, <3>1, <3>2 DEF ManagedTypeOK
  <2>2. CASE ~Scripts
    <3>1. Exact(saved.refs, saved.held, saved.local, saved.remote, saved.orphans) /\ Restored
      BY <2>2 DEF ManagedInd, SavedExact
    <3>2. /\ \A s \in Sock : saved.refs[s] \in 0..MaxHeld
          /\ \A a \in Addr : saved.refs[a] \in 0..(MaxHeld + 1)
      BY <1>1, <3>1
    <3>3. \A o \in Obj : refs[o] \in {0, saved.refs[o]}
      BY <3>1 DEF Restored
    <3>4. /\ \A s \in Sock : local[s] \in {Null, saved.local[s]} /\ remote[s] \in {Null, saved.remote[s]}
          /\ orphans \subseteq Addr
      BY <3>1 DEF Restored
    <3>5. \A s \in Sock : saved.local[s] \in Addr \union {Null} /\ saved.remote[s] \in Addr \union {Null}
      BY <3>1 DEF Exact
    <3> QED
      BY <3>2, <3>3, <3>4, <3>5, Keys DEF ManagedTypeOK
  <2> QED
    BY <2>1, <2>2
<1> QED
  BY <1>2, ManagedInductive, PTL

===============================================================================
