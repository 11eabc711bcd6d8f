---------------------------- MODULE AddressesProofs ---------------------------
(***************************************************************************)
(* A text an address is set from means what it says and what an address is *)
(* read as can be set again, for every resolver that agrees with itself.   *)
(***************************************************************************)
EXTENDS Addresses, SequenceFacts

(***************************************************************************)
(* Where separators are.                                                   *)
(***************************************************************************)

\* Two texts one after the other.
LEMMA Joined ==
  ASSUME NEW u \in Seq(Words), NEW v \in Seq(Words)
  PROVE  /\ u \o v \in Seq(Words) /\ Len(u \o v) = Len(u) + Len(v)
         /\ \A i \in 1..Len(u) : (u \o v)[i] = u[i]
         /\ \A i \in 1..Len(v) : (u \o v)[Len(u) + i] = v[i]
<1>1. /\ u \o v \in Seq(Words) /\ Len(u \o v) = Len(u) + Len(v)
      /\ \A i \in 1..Len(u) + Len(v) : (u \o v)[i] = IF i <= Len(u) THEN u[i] ELSE v[i - Len(u)]
  BY ConcatProperties
<1>2. Len(u) \in Nat /\ Len(v) \in Nat
  OBVIOUS
<1> DEFINE w == u \o v
<1> HIDE DEF w
<1>3. /\ \A i \in 1..Len(u) : w[i] = u[i]
      /\ \A i \in 1..Len(v) : w[Len(u) + i] = v[i]
  BY <1>1, <1>2 DEF w
<1> QED BY <1>1, <1>3 DEF w

\* What two texts lack they lack together.
LEMMA JoinedLacks ==
  ASSUME NEW u \in Seq(Words), NEW v \in Seq(Words), NEW c, Lacks(u, c), Lacks(v, c)
  PROVE  u \o v \in Seq(Words) /\ Lacks(u \o v, c)
<1> DEFINE w == u \o v
<1>1. /\ w \in Seq(Words) /\ Len(w) = Len(u) + Len(v)
      /\ \A i \in 1..Len(u) + Len(v) : w[i] = IF i <= Len(u) THEN u[i] ELSE v[i - Len(u)]
  BY ConcatProperties
<1> HIDE DEF w
<1>2. ASSUME NEW i \in DOMAIN w
      PROVE  w[i] # c
  <2>1. i \in 1..Len(u) + Len(v) /\ w[i] = IF i <= Len(u) THEN u[i] ELSE v[i - Len(u)]
    BY <1>1
  <2>2. i <= Len(u) => i \in DOMAIN u
    BY <2>1
  <2>3. ~(i <= Len(u)) => i - Len(u) \in DOMAIN v
    BY <2>1
  <2> QED BY <2>1, <2>2, <2>3 DEF Lacks
<1> QED BY <1>1, <1>2 DEF w, Lacks

\* A text without slashes has no scheme.
LEMMA NoScheme ==
  ASSUME NEW text \in Seq(Words), Lacks(text, "/"), NEW service
  PROVE  CutScheme(text) = [service |-> <<>>, node |-> text]
<1>1. Separator[2] = "/" /\ Len(Separator) = 3
  BY DEF Separator
<1>2. ASSUME NEW i \in Occurrences(text, Separator)
      PROVE  FALSE
  <2>1. i \in 1..(Len(text) - 3 + 1) /\ SubSeq(text, i, i + 3 - 1) = Separator
    BY <1>1 DEF Occurrences
  <2>2. i \in Nat /\ i + 1 \in 1..Len(text) /\ i >= 1 /\ i + 2 <= Len(text)
    BY <2>1
  <2>3. SubSeq(text, i, i + 2)[2] = text[i + 1]
    BY <2>2
  <2> QED BY <1>1, <2>1, <2>2, <2>3 DEF Lacks
<1> QED BY <1>2 DEF CutScheme

\* A scheme without colons ends at the first separator.
LEMMA FirstScheme ==
  ASSUME NEW s \in Seq(Words), Lacks(s, ":"), NEW rest \in Seq(Words)
  PROVE  CutScheme(s \o Separator \o rest) = [service |-> s, node |-> rest]
<1> DEFINE T == (s \o Separator) \o rest
           k == Len(s) + 1
<1>1. /\ Separator \in Seq(Words) /\ Len(Separator) = 3
      /\ Separator[1] = ":" /\ Separator[2] = "/" /\ Separator[3] = "/"
  <2>1. ":" \in Words /\ "/" \in Words
    BY WordsAssumption
  <2>2. Separator \in Seq(Words)
    BY <2>1 DEF Separator
  <2>3. /\ Len(Separator) = 3
        /\ Separator[1] = ":" /\ Separator[2] = "/" /\ Separator[3] = "/"
    BY DEF Separator
  <2> QED BY <2>2, <2>3
<1> DEFINE u == s \o Separator
<1>2. /\ u \in Seq(Words) /\ Len(u) = Len(s) + 3
      /\ \A i \in 1..Len(s) : u[i] = s[i]
      /\ \A i \in 1..3 : u[Len(s) + i] = Separator[i]
  <2>1. /\ u \in Seq(Words) /\ Len(u) = Len(s) + Len(Separator)
        /\ \A i \in 1..Len(s) : u[i] = s[i]
        /\ \A i \in 1..Len(Separator) : u[Len(s) + i] = Separator[i]
    BY <1>1, Joined
  <2> QED BY <1>1, <2>1
<1> HIDE DEF u
<1>3. /\ T \in Seq(Words) /\ Len(T) = Len(s) + 3 + Len(rest)
      /\ \A i \in 1..Len(s) : T[i] = s[i]
      /\ \A i \in 1..3 : T[Len(s) + i] = Separator[i]
      /\ \A i \in 1..Len(rest) : T[Len(s) + 3 + i] = rest[i]
  <2>1. /\ T \in Seq(Words) /\ Len(T) = Len(u) + Len(rest)
        /\ \A i \in 1..Len(u) : T[i] = u[i]
        /\ \A i \in 1..Len(rest) : T[Len(u) + i] = rest[i]
    BY <1>2, Joined DEF u
  <2> HIDE DEF T
  <2>2. \A i \in 1..Len(s) : T[i] = s[i]
    BY <1>2, <2>1
  <2>3. ASSUME NEW i \in 1..3 PROVE T[Len(s) + i] = Separator[i]
    <3>1. Len(s) + i \in 1..Len(u)
      BY <1>2
    <3> QED BY <1>2, <2>1, <3>1
  <2> QED BY <1>2, <2>1, <2>2, <2>3
<1> HIDE DEF T
<1>4. k \in Nat /\ k >= 1 /\ k + 2 <= Len(T)
  BY <1>3
<1>5. k \in Occurrences(T, Separator)
  <2> DEFINE v == SubSeq(T, k, k + 2)
  <2>1. v \in Seq(Words) /\ Len(v) = 3 /\ \A i \in 1..3 : v[i] = T[k + i - 1]
    BY <1>3, <1>4
  <2> HIDE DEF v
  <2>2. ASSUME NEW i \in 1..3 PROVE v[i] = Separator[i]
    <3>1. k + i - 1 = Len(s) + i
      OBVIOUS
    <3> QED BY <1>3, <2>1, <3>1
  <2>3. v = Separator
    BY <1>1, <2>1, <2>2, SeqEqual
  <2> QED BY <1>1, <1>4, <2>3 DEF Occurrences, v
<1>6. ASSUME NEW j \in Occurrences(T, Separator)
      PROVE  k <= j
  <2>1. j \in 1..(Len(T) - 3 + 1) /\ SubSeq(T, j, j + 3 - 1) = Separator
    BY <1>1 DEF Occurrences
  <2>2. SubSeq(T, j, j + 2)[1] = T[j]
    BY <1>3, <2>1
  <2>3. T[j] = ":"
    BY <1>1, <2>1, <2>2
  <2>4. j \notin 1..Len(s)
    BY <1>3, <2>3 DEF Lacks
  <2> QED BY <2>1, <2>4
<1>7. Find(T, Separator) = k
  <2> DEFINE O == Occurrences(T, Separator)
  <2>1. O \subseteq Int
    BY DEF Occurrences
  <2> HIDE DEF O
  <2>2. \A i \in O : (\A j \in O : i <= j) => i = k
    BY <1>4, <1>5, <1>6, <2>1 DEF O
  <2>3. k \in O /\ \A j \in O : k <= j
    BY <1>5, <1>6 DEF O
  <2> DEFINE x == CHOOSE i \in O : \A j \in O : i <= j
  <2>4. x \in O /\ \A j \in O : x <= j
    BY <2>3
  <2> HIDE DEF x, k
  <2>5. x = k
    BY <2>2, <2>4
  <2> QED BY <2>5 DEF Find, O, x
<1>8. SubSeq(T, 1, k - 1) = s
  <2> DEFINE v == SubSeq(T, 1, k - 1)
  <2>1. v \in Seq(Words) /\ Len(v) = Len(s) /\ \A i \in 1..Len(s) : v[i] = T[i]
    BY <1>3, <1>4
  <2> HIDE DEF v
  <2>2. v = s
    BY <1>3, <2>1, SeqEqual
  <2> QED BY <2>2 DEF v
<1>9. SubSeq(T, k + 3, Len(T)) = rest
  <2> DEFINE v == SubSeq(T, k + 3, Len(T))
  <2>1. v \in Seq(Words) /\ Len(v) = Len(rest) /\ \A i \in 1..Len(rest) : v[i] = T[k + 3 + i - 1]
    BY <1>3, <1>4
  <2> HIDE DEF v
  <2>2. ASSUME NEW i \in 1..Len(rest) PROVE v[i] = rest[i]
    <3>1. k + 3 + i - 1 = Len(s) + 3 + i
      OBVIOUS
    <3> QED BY <1>3, <2>1, <3>1
  <2>3. v = rest
    BY <2>1, <2>2, SeqEqual
  <2> QED BY <2>3 DEF v
<1>10. CutScheme(T) = [service |-> s, node |-> rest]
  BY <1>5, <1>7, <1>8, <1>9 DEF CutScheme
<1> QED BY <1>10 DEF T

\* Where the colons are.
LEMMA Colons ==
  ASSUME NEW text \in Seq(Words)
  PROVE  Occurrences(text, <<":">>) = {i \in 1..Len(text) : text[i] = ":"}
<1>1. Len(<<":">>) = 1
  OBVIOUS
<1>2. ASSUME NEW i \in 1..Len(text)
      PROVE  SubSeq(text, i, i) = <<":">> <=> text[i] = ":"
  <2>1. SubSeq(text, i, i) = <<text[i]>>
    <3> DEFINE v == SubSeq(text, i, i)
    <3>1. v \in Seq(Words) /\ Len(v) = 1 /\ v[1] = text[i]
      OBVIOUS
    <3> HIDE DEF v
    <3>2. v = <<v[1]>>
      BY <3>1
    <3> QED BY <3>1, <3>2 DEF v
  <2> QED BY <2>1
<1>3. \A i \in 1..Len(text) : i + Len(<<":">>) - 1 = i
  BY <1>1
<1>4. Len(text) - Len(<<":">>) + 1 = Len(text)
  BY <1>1
<1> QED BY <1>2, <1>3, <1>4 DEF Occurrences

\* The text of one colon.
LEMMA Colon == <<":">> \in Seq(Words) /\ Lacks(<<":">>, "/")
<1> DEFINE c == <<":">>
<1>1. ":" \in Words
  BY WordsAssumption
<1>2. c \in Seq(Words) /\ Len(c) = 1 /\ c[1] = ":"
  BY <1>1
<1>3. DOMAIN c = {1} /\ ":" # "/"
  OBVIOUS
<1> HIDE DEF c
<1>4. c \in Seq(Words) /\ Lacks(c, "/")
  BY <1>2, <1>3 DEF Lacks
<1> QED BY <1>4 DEF c

\* A text that has a colon has a last one, and CutPort cuts there.
LEMMA LastColon ==
  ASSUME NEW text \in Seq(Words), NEW i \in 1..Len(text), text[i] = ":"
  PROVE  LET k == RFind(text, <<":">>) IN
         /\ k \in 1..Len(text) /\ text[k] = ":"
         /\ \A j \in 1..Len(text) : text[j] = ":" => j <= k
<1> DEFINE O == {j \in 1..Len(text) : text[j] = ":"}
           D == {Len(text) - j : j \in O}
<1>1. Occurrences(text, <<":">>) = O
  BY Colons
<1>2. D \in SUBSET Nat /\ Len(text) - i \in D
  OBVIOUS
<1>3. PICK d \in D : \A e \in D : d <= e
  <2> HIDE DEF D
  <2> QED BY <1>2, Least
<1>4. PICK m \in O : d = Len(text) - m
  BY <1>3
<1>5. \A j \in O : m >= j
  <2> SUFFICES ASSUME NEW j \in O PROVE m >= j
    OBVIOUS
  <2>1. Len(text) - m <= Len(text) - j
    BY <1>3, <1>4
  <2> QED BY <2>1
<1> DEFINE k == CHOOSE x \in O : \A j \in O : x >= j
<1> HIDE DEF O
<1>6. k \in O /\ \A j \in O : k >= j
  BY <1>4, <1>5
<1>7. RFind(text, <<":">>) = k
  BY <1>1 DEF RFind
<1> HIDE DEF k
<1> QED BY <1>6, <1>7 DEF O

\* A node without colons has no port.
LEMMA NoPort ==
  ASSUME NEW s, NEW node \in Seq(Words), Lacks(node, ":")
  PROVE  CutPort([service |-> s, node |-> node]) = [service |-> s, node |-> node]
<1>1. Occurrences(node, <<":">>) = {}
  BY Colons DEF Lacks
<1> QED BY <1>1 DEF CutPort

\* A port is what follows the last colon.
LEMMA LastPort ==
  ASSUME NEW s, NEW h \in Seq(Words), NEW p \in Seq(Words), Lacks(p, ":")
  PROVE  CutPort([service |-> s, node |-> (h \o <<":">>) \o p]) = [service |-> p, node |-> h]
<1> DEFINE c == <<":">>
           u == h \o c
           T == u \o p
           k == Len(h) + 1
<1>1. c \in Seq(Words) /\ Len(c) = 1 /\ c[1] = ":"
  <2>1. ":" \in Words
    BY WordsAssumption
  <2> QED BY <2>1
<1> HIDE DEF c
<1>2. /\ u \in Seq(Words) /\ Len(u) = k /\ u[k] = ":"
      /\ \A i \in 1..Len(h) : u[i] = h[i]
  <2>1. /\ u \in Seq(Words) /\ Len(u) = Len(h) + Len(c)
        /\ \A i \in 1..Len(h) : u[i] = h[i]
        /\ \A i \in 1..Len(c) : u[Len(h) + i] = c[i]
    BY <1>1, Joined
  <2>2. u[Len(h) + 1] = c[1]
    BY <1>1, <2>1
  <2> QED BY <1>1, <2>1, <2>2
<1> HIDE DEF u
<1>3. /\ T \in Seq(Words) /\ Len(T) = k + Len(p)
      /\ \A i \in 1..k : T[i] = u[i]
      /\ \A i \in 1..Len(p) : T[k + i] = p[i]
  <2>1. /\ T \in Seq(Words) /\ Len(T) = Len(u) + Len(p)
        /\ \A i \in 1..Len(u) : T[i] = u[i]
        /\ \A i \in 1..Len(p) : T[Len(u) + i] = p[i]
    BY <1>2, Joined
  <2> QED BY <1>2, <2>1
<1> HIDE DEF T
<1>4. k \in 1..Len(T) /\ T[k] = ":" /\ k \in Nat
  BY <1>2, <1>3
<1>5. ASSUME NEW j \in 1..Len(T), T[j] = ":"
      PROVE  j <= k
  <2> SUFFICES ASSUME ~(j <= k) PROVE FALSE
    OBVIOUS
  <2>1. j - k \in 1..Len(p) /\ k + (j - k) = j
    BY <1>3
  <2>2. p[j - k] = ":"
    BY <1>3, <1>5, <2>1
  <2> QED BY <2>1, <2>2 DEF Lacks
<1>6. RFind(T, <<":">>) = k
  <2> DEFINE x == RFind(T, <<":">>)
  <2>1. x \in 1..Len(T) /\ T[x] = ":" /\ \A j \in 1..Len(T) : T[j] = ":" => j <= x
    BY <1>3, <1>4, LastColon
  <2> HIDE DEF x
  <2>2. x <= k /\ k <= x
    BY <1>4, <1>5, <2>1
  <2>3. x = k
    BY <2>1, <2>2, <1>4
  <2> QED BY <2>3 DEF x
<1>7. SubSeq(T, k + 1, Len(T)) = p
  <2> DEFINE v == SubSeq(T, k + 1, Len(T))
  <2>1. v \in Seq(Words) /\ Len(v) = Len(p) /\ \A i \in 1..Len(p) : v[i] = T[k + 1 + i - 1]
    BY <1>3, <1>4
  <2> HIDE DEF v
  <2>2. ASSUME NEW i \in 1..Len(p) PROVE v[i] = p[i]
    <3>1. k + 1 + i - 1 = k + i
      OBVIOUS
    <3> QED BY <1>3, <2>1, <3>1
  <2>3. v = p
    BY <2>1, <2>2, SeqEqual
  <2> QED BY <2>3 DEF v
<1>8. SubSeq(T, 1, k - 1) = h
  <2> DEFINE v == SubSeq(T, 1, k - 1)
  <2>1. v \in Seq(Words) /\ Len(v) = Len(h) /\ \A i \in 1..Len(h) : v[i] = T[i]
    BY <1>3, <1>4
  <2> HIDE DEF v
  <2>2. v = h
    BY <1>2, <1>3, <2>1, SeqEqual
  <2> QED BY <2>2 DEF v
<1>9. Occurrences(T, <<":">>) # {}
  BY <1>3, <1>4, Colons
<1>10. CutPort([service |-> s, node |-> T]) = [service |-> p, node |-> h]
  BY <1>6, <1>7, <1>8, <1>9 DEF CutPort
<1> QED BY <1>10 DEF T, u, c

\* What is left of a node with two colons has one.
LEMMA TwoColons ==
  ASSUME NEW s, NEW node \in Seq(Words),
         NEW i \in 1..Len(node), NEW j \in 1..Len(node), i # j, node[i] = ":", node[j] = ":"
  PROVE  LET left == CutPort([service |-> s, node |-> node]).node IN
         left # <<>> /\ ~Lacks(left, ":")
<1> DEFINE k == RFind(node, <<":">>)
           left == SubSeq(node, 1, k - 1)
<1>1. /\ k \in 1..Len(node) /\ node[k] = ":"
      /\ \A m \in 1..Len(node) : node[m] = ":" => m <= k
  BY LastColon
<1>2. CutPort([service |-> s, node |-> node]).node = left
  <2>1. Occurrences(node, <<":">>) # {}
    BY Colons
  <2> QED BY <2>1 DEF CutPort
<1> HIDE DEF k
<1>3. PICK m \in 1..Len(node) : node[m] = ":" /\ m < k
  <2>1. i <= k /\ j <= k
    BY <1>1
  <2>2. i < k \/ j < k
    BY <1>1, <2>1
  <2> QED BY <2>2
<1>4. left \in Seq(Words) /\ Len(left) = k - 1 /\ left[m] = node[m]
  BY <1>1, <1>3
<1> HIDE DEF left
<1>5. m \in DOMAIN left
  BY <1>1, <1>3, <1>4
<1>6. ~Lacks(left, ":")
  BY <1>3, <1>4, <1>5 DEF Lacks
<1>7. left # <<>>
  BY <1>1, <1>3, <1>4
<1> QED BY <1>2, <1>6, <1>7

(***************************************************************************)
(* What a text is split into.                                              *)
(***************************************************************************)

\* The scheme of a text made of one, and the rest.
LEMMA TextScheme ==
  ASSUME NEW scheme \in Seq(Words), Lacks(scheme, ":"),
         NEW host \in Seq(Words), Lacks(host, "/"),
         NEW port \in Seq(Words), Lacks(port, "/")
  PROVE  CutScheme(Text(scheme, host, port)) =
           [service |-> scheme,
            node    |-> IF port = <<>> THEN host ELSE (host \o <<":">>) \o port]
<1> DEFINE c == <<":">>
           tail == IF port = <<>> THEN <<>> ELSE c \o port
           rest == IF port = <<>> THEN host ELSE (host \o c) \o port
<1>0. Associative(Words)
  BY ConcatIsAssociative
<1>1. c \in Seq(Words) /\ Lacks(c, "/")
  BY Colon
<1> HIDE DEF c
<1>2. c \o port \in Seq(Words) /\ host \o c \in Seq(Words) /\ Lacks(host \o c, "/")
  BY <1>1, Joined, JoinedLacks
<1>3. (host \o c) \o port \in Seq(Words) /\ Lacks((host \o c) \o port, "/")
  BY <1>2, JoinedLacks
<1>4. (host \o c) \o port = host \o (c \o port)
  BY <1>1, <1>0, Zenon DEF Associative
<1>5. tail \in Seq(Words)
  BY <1>2
<1>6. rest \in Seq(Words) /\ Lacks(rest, "/")
  BY <1>3
<1>7. rest = host \o tail
  <2>1. host \o <<>> = host
    BY ConcatEmptySeq
  <2> QED BY <1>4, <2>1
<1>8. Text(scheme, host, port) =
        ((IF scheme = <<>> THEN <<>> ELSE scheme \o Separator) \o host) \o tail
  BY DEF Text, c
<1> HIDE DEF tail, rest
<1>9. CASE scheme = <<>>
  <2>1. <<>> \o host = host
    BY ConcatEmptySeq
  <2>2. Text(scheme, host, port) = rest
    BY <1>7, <1>8, <1>9, <2>1
  <2>3. CutScheme(rest) = [service |-> <<>>, node |-> rest]
    BY <1>6, NoScheme
  <2> QED BY <1>9, <2>2, <2>3 DEF rest, c
<1>10. CASE scheme # <<>>
  <2> DEFINE u == scheme \o Separator
  <2>1. Separator \in Seq(Words)
    <3>1. ":" \in Words /\ "/" \in Words
      BY WordsAssumption
    <3> QED BY <3>1 DEF Separator
  <2>2. u \in Seq(Words)
    BY <2>1, Joined
  <2>3. Text(scheme, host, port) = (u \o host) \o tail
    BY <1>8, <1>10
  <2> HIDE DEF u
  <2>4. (u \o host) \o tail = u \o (host \o tail)
    BY <1>5, <2>2, <1>0, Zenon DEF Associative
  <2>5. Text(scheme, host, port) = u \o rest
    BY <1>7, <2>3, <2>4
  <2>6. CutScheme(u \o rest) = [service |-> scheme, node |-> rest]
    BY <1>6, FirstScheme DEF u
  <2> QED BY <2>5, <2>6 DEF rest, c
<1> QED BY <1>9, <1>10

\* Texts of schemes, hosts and ports.
LEMMA TextParts ==
  ASSUME NEW scheme \in Schemes, NEW host \in HostTexts, NEW port \in PortTexts
  PROVE  /\ scheme \in Seq(Words) /\ Lacks(scheme, ":")
         /\ host \in Seq(Words) /\ Lacks(host, "/")
         /\ port \in Seq(Words) /\ Lacks(port, ":") /\ Lacks(port, "/")
<1>1. \A text \in Schemes \union PortTexts : IsWord(text)
  BY TextAssumption
<1>2. \A text \in HostTexts : text \in Seq(Words) /\ Lacks(text, "/")
  BY TextAssumption
<1> QED BY <1>1, <1>2 DEF IsWord

\* IPv6 texts are split into a scheme and the rest.
LEMMA SplitIPv6 ==
  ASSUME NEW scheme \in Schemes, NEW host \in HostTexts, NEW port \in PortTexts
  PROVE  Split(Text(scheme, host, port), "INET6") =
           [service |-> scheme,
            node    |-> IF port = <<>> THEN host ELSE (host \o <<":">>) \o port]
BY TextParts, TextScheme DEF Split

\* In other families a port wins over a scheme.
LEMMA SplitWithPort ==
  ASSUME NEW scheme \in Schemes, NEW host \in HostTexts, NEW port \in PortTexts,
         NEW family, family # "INET6", port # <<>>
  PROVE  Split(Text(scheme, host, port), family) = [service |-> port, node |-> host]
<1>1. /\ scheme \in Seq(Words) /\ Lacks(scheme, ":")
      /\ host \in Seq(Words) /\ Lacks(host, "/")
      /\ port \in Seq(Words) /\ Lacks(port, ":") /\ Lacks(port, "/")
  BY TextParts
<1>2. CutScheme(Text(scheme, host, port)) = [service |-> scheme, node |-> (host \o <<":">>) \o port]
  BY <1>1, TextScheme
<1>3. CutPort([service |-> scheme, node |-> (host \o <<":">>) \o port]) = [service |-> port, node |-> host]
  BY <1>1, LastPort
<1> QED BY <1>2, <1>3 DEF Split

\* Without a port it is the scheme that counts, when the host has no colons.
LEMMA SplitNoPort ==
  ASSUME NEW scheme \in Schemes, NEW host \in HostTexts, NEW port \in PortTexts,
         NEW family, family # "INET6", port = <<>>
  PROVE  LET parts == Split(Text(scheme, host, port), family) IN
         IF Lacks(host, ":") THEN parts = [service |-> scheme, node |-> host]
         ELSE parts.node # <<>> /\ ~Lacks(parts.node, ":")
<1>1. /\ scheme \in Seq(Words) /\ Lacks(scheme, ":")
      /\ host \in Seq(Words) /\ Lacks(host, "/")
      /\ port \in Seq(Words) /\ Lacks(port, ":") /\ Lacks(port, "/")
  BY TextParts
<1>2. Split(Text(scheme, host, port), family) = CutPort([service |-> scheme, node |-> host])
  BY <1>1, TextScheme DEF Split
<1>3. CASE Lacks(host, ":")
  BY <1>1, <1>2, <1>3, NoPort
<1>4. CASE ~Lacks(host, ":")
  <2>1. PICK i \in DOMAIN host : host[i] = ":"
    BY <1>4 DEF Lacks
  <2>2. \A k \in DOMAIN host : host[k] = ":" => \E l \in DOMAIN host \ {k} : host[l] = ":"
    BY TextAssumption
  <2>3. PICK j \in DOMAIN host \ {i} : host[j] = ":"
    BY <2>1, <2>2
  <2>4. i \in 1..Len(host) /\ j \in 1..Len(host) /\ i # j
    BY <1>1, <2>1, <2>3
  <2> DEFINE left == CutPort([service |-> scheme, node |-> host]).node
  <2>5. left # <<>> /\ ~Lacks(left, ":")
    BY <1>1, <2>1, <2>3, <2>4, TwoColons
  <2> QED BY <1>2, <1>4, <2>5
<1> QED BY <1>3, <1>4

(***************************************************************************)
(* The objects the operations make.                                        *)
(***************************************************************************)

\* Objects of a family, at an address of the family and a port the resolver has
\* texts for: what ports are cut to 16 bits for.
Sound == {a \in [family : Families, ip : UNION {Ips(f) : f \in Families}, port : Known] :
                 a.ip \in Ips(a.family)}

AddrInd == addr \in Sound /\ MeansWhatItSays

LEMMA IsAddress ==
  ASSUME NEW f \in Families, NEW ip \in Ips(f), NEW port \in Known
  PROVE  [family |-> f, ip |-> ip, port |-> port] \in Sound
BY DEF Sound

LEMMA KnownPorts == 0 \in Known /\ \A p \in Ports : Short(p) \in Known
<1>1. 0 \in Known
  <2> DEFINE s == [text |-> <<>>, port |-> 0]
  <2>1. s \in Services
    BY ServicesAssumption, Zenon
  <2>2. s.port = 0
    OBVIOUS
  <2> HIDE DEF s
  <2> QED BY <2>1, <2>2 DEF Known
<1>2. \A p \in Ports : Short(p) \in Known
  BY TextAssumption, Zenon
<1> QED BY <1>1, <1>2

LEMMA FreshIsAddress ==
  ASSUME NEW type \in Types
  PROVE  Fresh(type) \in Sound
<1>1. Decode(type) \in Families
  BY DEF Types, Decode, Families, Internet
<1>2. Any \in Ips(Decode(type))
  BY DEF Ips
<1>3. 0 \in Known
  BY KnownPorts
<1> QED BY <1>1, <1>2, <1>3, IsAddress DEF Fresh

LEMMA WithPortIsAddress ==
  ASSUME NEW a \in Sound, NEW port \in Ports
  PROVE  WithPort(a, port) \in Sound
<1>1. Short(port) \in Known
  BY KnownPorts
<1> QED BY <1>1 DEF WithPort, Sound

LEMMA WithIpIsAddress ==
  ASSUME NEW a \in Sound, NEW ip
  PROVE  WithIp(a, ip) \in Sound
BY DEF WithIp, Sound

LEMMA FromDataIsAddress ==
  ASSUME NEW b \in FromData
  PROVE  b \in Sound
<1>1. PICK f \in Families : b \in [family : {f}, ip : Ips(f), port : Known]
  BY DEF FromData
<1>2. b = [family |-> f, ip |-> b.ip, port |-> b.port] /\ b.ip \in Ips(f) /\ b.port \in Known
  BY <1>1
<1> QED BY <1>2, IsAddress

\* What the resolver finds.
LEMMA FoundIsAddress ==
  ASSUME NEW family, NEW node, NEW service,
         NEW b \in Resolves(family, node, service) \union ResolvesNone(family, node, service)
  PROVE  b \in Sound
<1>1. b \in Objects(family) /\ b.family \in Families
  BY DEF Resolves, ResolvesNone, Objects, LooksIn, Families, Internet
<1>2. b.port \in Known /\ b = [family |-> b.family, ip |-> b.ip, port |-> b.port]
  BY <1>1 DEF Objects
<1>3. b.ip \in Ips(b.family)
  <2>1. CASE b \in Resolves(family, node, service)
    <3>1. [text |-> node, ip |-> b.ip] \in Hosts[b.family]
      BY <2>1 DEF Resolves
    <3>2. b.family \in Internet
      BY <1>1 DEF Objects, LooksIn, Internet
    <3>3. b.ip \in {h.ip : h \in Hosts[b.family]}
      BY <3>1
    <3> QED BY <3>2, <3>3 DEF Ips
  <2>2. CASE b \in ResolvesNone(family, node, service)
    BY <2>2 DEF ResolvesNone, Ips
  <2> QED BY <2>1, <2>2
<1> QED BY <1>1, <1>2, <1>3, IsAddress

LEMMA WithAddressIsAddress ==
  ASSUME NEW a \in Sound, NEW text, NEW b \in WithAddress(a, text)
  PROVE  b \in Sound
BY FoundIsAddress DEF WithAddress

(***************************************************************************)
(* What the operations mean.                                               *)
(***************************************************************************)

\* No IPv4 host has colons in its text, and no host at all is found for
\* families getaddrinfo does not look in.
LEMMA NoColonsInIPv4 ==
  ASSUME NEW node, node # <<>>, ~Lacks(node, ":"), NEW service
  PROVE  /\ Resolves("INET", node, service) = {}
         /\ ResolvesNone("INET", node, service) = {}
<1>1. ASSUME NEW a \in Resolves("INET", node, service)
      PROVE  FALSE
  <2>1. a \in Objects("INET") /\ [text |-> node, ip |-> a.ip] \in Hosts[a.family]
    BY DEF Resolves
  <2>2. a.family = "INET"
    BY <2>1 DEF Objects, LooksIn, Internet
  <2> DEFINE h == [text |-> node, ip |-> a.ip]
  <2>3. h \in Hosts["INET"] /\ h.text = node
    BY <2>1, <2>2
  <2>4. \A g \in Hosts["INET"] : Lacks(g.text, ":")
    <3>1. "INET" \in Internet
      BY DEF Internet
    <3> QED BY <3>1, HostsAssumption, Zenon
  <2> HIDE DEF h
  <2> QED BY <2>3, <2>4
<1> QED BY <1>1 DEF ResolvesNone

LEMMA NothingForOthers ==
  ASSUME NEW family \in {"UNIX", "OTHER"}, NEW node, NEW service
  PROVE  /\ Resolves(family, node, service) = {}
         /\ ResolvesNone(family, node, service) = {}
<1>1. Objects(family) = {}
  <2>1. LooksIn(family) = {}
    BY DEF LooksIn, Internet
  <2> QED BY <2>1 DEF Objects
<1> QED BY <1>1 DEF Resolves, ResolvesNone

\* Setting an address from a text of a scheme, a host and a port.
LEMMA Means ==
  ASSUME NEW a \in Sound,
         NEW scheme \in Schemes, NEW host \in HostTexts, NEW port \in PortTexts,
         NEW b \in WithAddress(a, Text(scheme, host, port))
  PROVE  LET whole   == a.family = "INET6" /\ port # <<>>
             node    == IF whole THEN (host \o <<":">>) \o port ELSE host
             service == IF whole \/ port = <<>> THEN scheme ELSE port
             found   == Resolves(a.family, node, service)
         IN  (a.family = "UNSPEC" /\ port = <<>> => Lacks(host, ":"))
             => IF found # {} THEN b \in found
                ELSE b \in {a} \union ResolvesNone(a.family, node, service)
<1> DEFINE T == Text(scheme, host, port)
           parts == Split(T, a.family)
           long == (host \o <<":">>) \o port
<1>1. LET found == Resolves(a.family, parts.node, parts.service) IN
      IF found # {} THEN b \in found
      ELSE b \in {a} \union ResolvesNone(a.family, parts.node, parts.service)
  BY DEF WithAddress
<1>2. CASE a.family = "INET6"
  <2>1. parts = [service |-> scheme, node |-> IF port = <<>> THEN host ELSE long]
    BY <1>2, SplitIPv6
  <2> HIDE DEF parts, long
  <2>2. parts.service = scheme /\ parts.node = IF port = <<>> THEN host ELSE long
    BY <2>1
  <2> QED BY <1>1, <1>2, <2>2 DEF long
<1>3. CASE a.family # "INET6" /\ port # <<>>
  <2>1. parts = [service |-> port, node |-> host]
    BY <1>3, SplitWithPort
  <2> HIDE DEF parts
  <2>2. parts.service = port /\ parts.node = host
    BY <2>1
  <2> QED BY <1>1, <1>3, <2>2
<1>4. CASE a.family # "INET6" /\ port = <<>> /\ Lacks(host, ":")
  <2>1. parts = [service |-> scheme, node |-> host]
    BY <1>4, SplitNoPort
  <2> HIDE DEF parts
  <2>2. parts.service = scheme /\ parts.node = host
    BY <2>1
  <2> QED BY <1>1, <1>4, <2>2
<1>5. CASE a.family \notin {"INET6", "UNSPEC"} /\ port = <<>> /\ ~Lacks(host, ":")
  <2>1. parts.node # <<>> /\ ~Lacks(parts.node, ":")
    BY <1>5, SplitNoPort
  <2>2. host # <<>>
    BY <1>5 DEF Lacks
  <2>3. a.family = "INET" \/ a.family \in {"UNIX", "OTHER"}
    BY <1>5 DEF Sound, Families, Internet
  <2> HIDE DEF parts
  <2>4. /\ Resolves(a.family, parts.node, parts.service) = {}
        /\ ResolvesNone(a.family, parts.node, parts.service) = {}
    BY <2>1, <2>3, NoColonsInIPv4, NothingForOthers
  <2>5. Resolves(a.family, host, scheme) = {} /\ ResolvesNone(a.family, host, scheme) = {}
    BY <1>5, <2>2, <2>3, NoColonsInIPv4, NothingForOthers
  <2>6. b = a
    BY <1>1, <2>4
  <2> QED BY <1>5, <2>5, <2>6
<1> QED BY <1>2, <1>3, <1>4, <1>5

\* What the resolver finds for a text and a service it knows is one address.
LEMMA FoundIsOne ==
  ASSUME NEW a \in Sound, a.family \in Internet, NEW node, NEW service,
         [text |-> node, ip |-> a.ip] \in Hosts[a.family],
         [text |-> service, port |-> a.port] \in Services
  PROVE  Resolves(a.family, node, service) = {a}
<1>1. a = [family |-> a.family, ip |-> a.ip, port |-> a.port] /\ a.port \in Known /\ a.ip \in Ips(a.family)
  BY DEF Sound
<1>2. LooksIn(a.family) = {a.family}
  BY DEF LooksIn, Internet
<1>3. a \in Objects(a.family)
  BY <1>1, <1>2 DEF Objects
<1>4. a \in Resolves(a.family, node, service)
  BY <1>3 DEF Resolves
<1>5. ASSUME NEW b \in Resolves(a.family, node, service)
      PROVE  b = a
  <2>1. b \in Objects(a.family)
    BY DEF Resolves
  <2>2. b = [family |-> b.family, ip |-> b.ip, port |-> b.port] /\ b.family = a.family
    BY <1>2, <2>1 DEF Objects
  <2>3. [text |-> node, ip |-> b.ip] \in Hosts[a.family] /\ [text |-> service, port |-> b.port] \in Services
    BY <2>2 DEF Resolves
  <2>4. \A g, h \in Hosts[a.family] : g.text = h.text => g.ip = h.ip
    BY HostsAssumption, Zenon
  <2>5. b.ip = a.ip
    <3> DEFINE g == [text |-> node, ip |-> b.ip]
               h == [text |-> node, ip |-> a.ip]
    <3>1. g \in Hosts[a.family] /\ h \in Hosts[a.family] /\ g.text = h.text /\ g.ip = b.ip /\ h.ip = a.ip
      BY <2>3
    <3> HIDE DEF g, h
    <3>2. g.ip = h.ip
      BY <2>4, <3>1
    <3> QED BY <3>1, <3>2
  <2>6. \A r, s \in Services : r.text = s.text => r.port = s.port
    BY ServicesAssumption, Zenon
  <2>7. b.port = a.port
    <3> DEFINE r == [text |-> service, port |-> b.port]
               s == [text |-> service, port |-> a.port]
    <3>1. r \in Services /\ s \in Services /\ r.text = s.text /\ r.port = b.port /\ s.port = a.port
      BY <2>3
    <3> HIDE DEF r, s
    <3>2. r.port = s.port
      BY <2>6, <3>1
    <3> QED BY <3>1, <3>2
  <2> QED BY <1>1, <2>2, <2>5, <2>7
<1> QED BY <1>4, <1>5

\* The text getnameinfo gives an address is one of the texts of its host.
LEMMA HostTextIsFound ==
  ASSUME NEW a \in Sound, a.family \in Internet
  PROVE  /\ [text |-> HostText(a), ip |-> a.ip] \in Hosts[a.family]
         /\ HostText(a) \in Seq(Words) /\ Lacks(HostText(a), "/")
         /\ a.family = "INET" => Lacks(HostText(a), ":")
<1>1. a.ip \in {h.ip : h \in Hosts[a.family]}
  <2>1. a.ip \in Ips(a.family)
    BY DEF Sound
  <2>2. Any \in {h.ip : h \in Hosts[a.family]}
    BY HostsAssumption
  <2> QED BY <2>1, <2>2 DEF Ips
<1>2. PICK h \in Hosts[a.family] : h.ip = a.ip
  BY <1>1
<1> DEFINE g == CHOOSE x \in Hosts[a.family] : x.ip = a.ip
<1>3. g \in Hosts[a.family] /\ g.ip = a.ip
  BY <1>2
<1>4. HostText(a) = g.text
  BY DEF HostText
<1> HIDE DEF g
<1>5. \A x \in Hosts[a.family] :
        /\ x = [text |-> x.text, ip |-> x.ip]
        /\ x.text \in Seq(Words) \ {<<>>} /\ Lacks(x.text, "/")
        /\ a.family = "INET" => Lacks(x.text, ":")
  BY HostsAssumption, Zenon
<1> QED BY <1>3, <1>4, <1>5

\* The texts of the port of an address are found again.
LEMMA PortTextIsFound ==
  ASSUME NEW a \in Sound
  PROVE  /\ [text |-> Names[a.port], port |-> a.port] \in Services
         /\ [text |-> Digits[a.port], port |-> a.port] \in Services
         /\ IsWord(Names[a.port]) /\ IsWord(Digits[a.port])
         /\ Names[a.port] \in {<<>>, <<"0">>} => [text |-> <<>>, port |-> a.port] \in Services
<1>1. PICK s \in Services : a.port = s.port
  BY DEF Sound, Known
<1> DEFINE n == [text |-> Names[a.port], port |-> a.port]
           d == [text |-> Digits[a.port], port |-> a.port]
           e == [text |-> <<>>, port |-> 0]
           z == [text |-> <<"0">>, port |-> 0]
<1>2. n \in Services /\ d \in Services
  BY <1>1, ServicesAssumption, Zenon
<1>3. e \in Services /\ z \in Services
  BY ServicesAssumption, Zenon
<1>4. \A r \in Services : IsWord(r.text)
  BY ServicesAssumption, Zenon
<1>5. n.text = Names[a.port] /\ d.text = Digits[a.port] /\ n.port = a.port
  OBVIOUS
<1>6. \A r, q \in Services : r.text = q.text => r.port = q.port
  BY ServicesAssumption, Zenon
<1>7. e.text = <<>> /\ z.text = <<"0">> /\ e.port = 0 /\ z.port = 0
  OBVIOUS
<1>8. IsWord(Names[a.port]) /\ IsWord(Digits[a.port])
  <2> HIDE DEF n, d
  <2> QED BY <1>2, <1>4, <1>5
<1>9. Names[a.port] \in {<<>>, <<"0">>} => a.port = 0
  <2> HIDE DEF n, e, z
  <2> QED BY <1>2, <1>3, <1>5, <1>6, <1>7
<1> QED BY <1>2, <1>3, <1>8, <1>9

\* What "host", "host:service" and "service://host" are split into.
LEMMA SplitHost ==
  ASSUME NEW a \in Sound, a.family \in Internet
  PROVE  Split(HostText(a), a.family) = [service |-> <<>>, node |-> HostText(a)]
<1>1. /\ HostText(a) \in Seq(Words) /\ Lacks(HostText(a), "/")
      /\ a.family = "INET" => Lacks(HostText(a), ":")
  BY HostTextIsFound
<1>2. CutScheme(HostText(a)) = [service |-> <<>>, node |-> HostText(a)]
  BY <1>1, NoScheme
<1>3. CASE a.family = "INET6"
  BY <1>2, <1>3 DEF Split
<1>4. CASE a.family = "INET"
  <2>1. CutPort([service |-> <<>>, node |-> HostText(a)]) = [service |-> <<>>, node |-> HostText(a)]
    BY <1>1, <1>4, NoPort
  <2> QED BY <1>2, <1>4, <2>1 DEF Split
<1> QED BY <1>3, <1>4 DEF Internet

LEMMA SplitHostPort ==
  ASSUME NEW a \in Sound, a.family = "INET", NEW port, IsWord(port)
  PROVE  Split((HostText(a) \o <<":">>) \o port, a.family) = [service |-> port, node |-> HostText(a)]
<1>1. port \in Seq(Words) /\ Lacks(port, ":") /\ Lacks(port, "/")
  BY DEF IsWord
<1>2. HostText(a) \in Seq(Words) /\ Lacks(HostText(a), "/")
  BY HostTextIsFound DEF Internet
<1> DEFINE c == <<":">>
           u == HostText(a) \o c
           T == u \o port
<1>3. c \in Seq(Words) /\ Lacks(c, "/")
  BY Colon
<1> HIDE DEF c
<1>4. u \in Seq(Words) /\ Lacks(u, "/")
  BY <1>2, <1>3, JoinedLacks
<1> HIDE DEF u
<1>5. T \in Seq(Words) /\ Lacks(T, "/")
  BY <1>1, <1>4, JoinedLacks
<1> HIDE DEF T
<1>6. CutScheme(T) = [service |-> <<>>, node |-> T]
  BY <1>5, NoScheme
<1>7. CutPort([service |-> <<>>, node |-> T]) = [service |-> port, node |-> HostText(a)]
  BY <1>1, <1>2, LastPort DEF T, u, c
<1>8. Split(T, a.family) = [service |-> port, node |-> HostText(a)]
  BY <1>6, <1>7 DEF Split
<1> QED BY <1>8 DEF T, u, c

LEMMA SplitSchemeHost ==
  ASSUME NEW a \in Sound, a.family \in Internet, NEW service, IsWord(service)
  PROVE  Split((service \o Separator) \o HostText(a), a.family) = [service |-> service, node |-> HostText(a)]
<1> DEFINE T == (service \o Separator) \o HostText(a)
<1>1. service \in Seq(Words) /\ Lacks(service, ":")
  BY DEF IsWord
<1>2. HostText(a) \in Seq(Words) /\ (a.family = "INET" => Lacks(HostText(a), ":"))
  BY HostTextIsFound
<1>3. CutScheme(T) = [service |-> service, node |-> HostText(a)]
  BY <1>1, <1>2, FirstScheme
<1> HIDE DEF T
<1>4. ASSUME a.family = "INET6"
      PROVE  Split(T, a.family) = [service |-> service, node |-> HostText(a)]
  BY <1>3, <1>4 DEF Split
<1>5. ASSUME a.family = "INET"
      PROVE  Split(T, a.family) = [service |-> service, node |-> HostText(a)]
  <2>1. CutPort([service |-> service, node |-> HostText(a)]) = [service |-> service, node |-> HostText(a)]
    BY <1>2, <1>5, NoPort
  <2> QED BY <1>3, <1>5, <2>1 DEF Split
<1>6. Split(T, a.family) = [service |-> service, node |-> HostText(a)]
  BY <1>4, <1>5 DEF Internet
<1> QED BY <1>6 DEF T

\* What an address is read as is split into texts of its host and its port.
LEMMA SplitRead ==
  ASSUME NEW a \in Sound, NEW named \in BOOLEAN,
         a.family = "INET" \/ (a.family = "INET6" /\ ~ReadWithPort(a, named))
  PROVE  LET parts == Split(AddressText(a, named), a.family) IN
         /\ [text |-> parts.node, ip |-> a.ip] \in Hosts[a.family]
         /\ [text |-> parts.service, port |-> a.port] \in Services
<1> DEFINE serv == Names[a.port]
           parts == Split(AddressText(a, named), a.family)
<1>0. a.family \in Internet
  BY DEF Internet
<1>1. [text |-> HostText(a), ip |-> a.ip] \in Hosts[a.family]
  BY <1>0, HostTextIsFound
<1>2. /\ [text |-> serv, port |-> a.port] \in Services
      /\ [text |-> Digits[a.port], port |-> a.port] \in Services
      /\ IsWord(serv) /\ IsWord(Digits[a.port])
      /\ serv \in {<<>>, <<"0">>} => [text |-> <<>>, port |-> a.port] \in Services
  BY PortTextIsFound
<1>3. AddressText(a, named) =
        IF ~named THEN (HostText(a) \o <<":">>) \o Digits[a.port]
        ELSE IF serv \in {<<>>, <<"0">>} THEN HostText(a)
        ELSE IF serv \in NumberLike THEN (HostText(a) \o <<":">>) \o serv
        ELSE (serv \o Separator) \o HostText(a)
  BY <1>0 DEF AddressText, Internet
<1> HIDE DEF serv
<1>4. CASE ~named
  <2>1. a.family = "INET"
    BY <1>4 DEF ReadWithPort
  <2>2. parts = [service |-> Digits[a.port], node |-> HostText(a)]
    BY <1>2, <1>3, <1>4, <2>1, SplitHostPort
  <2> QED BY <1>1, <1>2, <2>2
<1>5. CASE named /\ serv \in {<<>>, <<"0">>}
  <2>1. parts = [service |-> <<>>, node |-> HostText(a)]
    BY <1>0, <1>3, <1>5, SplitHost
  <2> HIDE DEF parts
  <2>2. parts.service = <<>> /\ parts.node = HostText(a)
    BY <2>1
  <2>3. /\ [text |-> parts.node, ip |-> a.ip] \in Hosts[a.family]
        /\ [text |-> parts.service, port |-> a.port] \in Services
    BY <1>1, <1>2, <1>5, <2>2
  <2> QED BY <2>3 DEF parts
<1>6. CASE named /\ serv \notin {<<>>, <<"0">>} /\ serv \in NumberLike
  <2>1. a.family = "INET"
    BY <1>6 DEF ReadWithPort, serv
  <2>2. parts = [service |-> serv, node |-> HostText(a)]
    BY <1>2, <1>3, <1>6, <2>1, SplitHostPort
  <2> QED BY <1>1, <1>2, <2>2
<1>7. CASE named /\ serv \notin {<<>>, <<"0">>} /\ serv \notin NumberLike
  <2>1. parts = [service |-> serv, node |-> HostText(a)]
    BY <1>0, <1>2, <1>3, <1>7, SplitSchemeHost
  <2> QED BY <1>1, <1>2, <2>1
<1> QED BY <1>4, <1>5, <1>6, <1>7

\* Any object of the family becomes the address when its text is set.
LEMMA ReadBack ==
  ASSUME NEW a \in Sound, NEW named \in BOOLEAN, NEW other, other.family = a.family,
         a.family = "INET" \/ (a.family = "INET6" /\ ~ReadWithPort(a, named))
  PROVE  WithAddress(other, AddressText(a, named)) = {a}
<1> DEFINE parts == Split(AddressText(a, named), a.family)
<1>1. /\ [text |-> parts.node, ip |-> a.ip] \in Hosts[a.family]
      /\ [text |-> parts.service, port |-> a.port] \in Services
  BY SplitRead
<1> HIDE DEF parts
<1>2. Resolves(a.family, parts.node, parts.service) = {a}
  BY <1>1, FoundIsOne DEF Internet
<1> QED BY <1>2 DEF WithAddress, parts

(***************************************************************************)
(* The theorems.                                                           *)
(***************************************************************************)

\* Every step makes a sound address, and one that means what a text says.
LEMMA AddressStep ==
  ASSUME AddrInd, [Next]_addressVars
  PROVE  AddrInd'
<1> USE DEF AddrInd
<1>1. SUFFICES addr' \in Sound' /\ MeansWhatItSays'
  OBVIOUS
<1>2. ASSUME addr' \in Sound, given' = Nothing
      PROVE  addr' \in Sound' /\ MeansWhatItSays'
  BY <1>2 DEF MeansWhatItSays
<1>3. ASSUME NEW type \in Types, Create(type)
      PROVE  addr' \in Sound' /\ MeansWhatItSays'
  BY <1>2, <1>3, FreshIsAddress DEF Create
<1>4. ASSUME NEW type \in {-1, -2}, NEW ip \in Literals, NEW port \in Ports, CreateIP(type, ip, port)
      PROVE  addr' \in Sound' /\ MeansWhatItSays'
  <2>1. Fresh(type) \in Sound
    BY FreshIsAddress DEF Types
  <2>2. WithPort(WithIp(Fresh(type), ip), port) \in Sound
    BY <2>1, WithIpIsAddress, WithPortIsAddress
  <2> QED BY <1>2, <1>4, <2>2 DEF CreateIP
<1>5. ASSUME CreateFromData
      PROVE  addr' \in Sound' /\ MeansWhatItSays'
  BY <1>2, <1>5, FromDataIsAddress DEF CreateFromData
<1>6. ASSUME NEW port \in Ports, SetPort(port)
      PROVE  addr' \in Sound' /\ MeansWhatItSays'
  BY <1>2, <1>6, WithPortIsAddress DEF SetPort
<1>7. ASSUME NEW ip \in Literals, SetIP(ip)
      PROVE  addr' \in Sound' /\ MeansWhatItSays'
  BY <1>2, <1>7, WithIpIsAddress DEF SetIP
<1>8. ASSUME NEW scheme \in Schemes, NEW host \in HostTexts, NEW port \in PortTexts,
             NEW a \in {addr} \union {Fresh(t) : t \in Types}, SetAddress(a, scheme, host, port)
      PROVE  addr' \in Sound' /\ MeansWhatItSays'
  <2>1. a \in Sound
    BY FreshIsAddress
  <2>2. /\ addr' \in WithAddress(a, Text(scheme, host, port))
        /\ given' = [scheme |-> scheme, host |-> host, port |-> port, before |-> a]
    BY <1>8 DEF SetAddress
  <2>3. /\ given'.scheme = scheme /\ given'.host = host /\ given'.port = port
        /\ given'.before = a
    BY <2>2
  <2>4. addr' \in Sound
    BY <2>1, <2>2, WithAddressIsAddress
  <2>5. LET whole   == a.family = "INET6" /\ port # <<>>
            node    == IF whole THEN (host \o <<":">>) \o port ELSE host
            service == IF whole \/ port = <<>> THEN scheme ELSE port
            found   == Resolves(a.family, node, service)
        IN  (a.family = "UNSPEC" /\ port = <<>> => Lacks(host, ":"))
            => IF found # {} THEN addr' \in found
               ELSE addr' \in {a} \union ResolvesNone(a.family, node, service)
    BY <2>1, <2>2, Means
  <2>6. MeansWhatItSays'
    BY <2>3, <2>5 DEF MeansWhatItSays
  <2> QED BY <2>4, <2>6
<1>9. ASSUME NEW named \in BOOLEAN, SetAsRead(named)
      PROVE  addr' \in Sound' /\ MeansWhatItSays'
  BY <1>2, <1>9, WithAddressIsAddress DEF SetAsRead
<1>10. CASE UNCHANGED addressVars
  BY <1>10 DEF addressVars, MeansWhatItSays
<1> QED BY <1>3, <1>4, <1>5, <1>6, <1>7, <1>8, <1>9, <1>10 DEF Next

\* The invariant is inductive.
LEMMA AddressInductive == AddressesSpec => []AddrInd
<1>1. Init => AddrInd
  <2> SUFFICES ASSUME Init PROVE AddrInd
    OBVIOUS
  <2>1. addr \in Sound /\ given = Nothing
    BY FreshIsAddress DEF Init
  <2> QED BY <2>1 DEF AddrInd, MeansWhatItSays
<1>2. AddrInd /\ [Next]_addressVars => AddrInd'
  BY AddressStep
<1> QED BY <1>1, <1>2, PTL DEF AddressesSpec

\* Whatever the resolver knows: the text an address is read as sets any object
\* of its family to that address (SockAddr.cpp:141-194).
THEOREM AddressReadsBack == AddressesSpec => []ReadsBack
<1>1. AddrInd => ReadsBack
  <2> SUFFICES ASSUME AddrInd, NEW named \in BOOLEAN,
                      addr.family = "INET" \/ (addr.family = "INET6" /\ ~ReadWithPort(addr, named))
               PROVE  LET other == [family |-> addr.family, ip |-> Any, port |-> 0] IN
                      WithAddress(other, AddressText(addr, named)) = {addr}
    BY DEF ReadsBack
  <2> DEFINE other == [family |-> addr.family, ip |-> Any, port |-> 0]
  <2>1. other.family = addr.family /\ addr \in Sound
    BY DEF AddrInd
  <2> HIDE DEF other
  <2>2. WithAddress(other, AddressText(addr, named)) = {addr}
    BY <2>1, ReadBack
  <2> QED BY <2>2 DEF other
<1> QED BY <1>1, AddressInductive, PTL

\* Whatever the resolver knows and the texts are made of: set_Address finds the
\* scheme, the host and the port a text was made of (SockAddr.cpp:174-212).
THEOREM AddressMeansWhatItSays == AddressesSpec => []MeansWhatItSays
<1>1. AddrInd => MeansWhatItSays
  BY DEF AddrInd
<1> QED BY <1>1, AddressInductive, PTL

===============================================================================
