------------------------------- MODULE Addresses ------------------------------
(***************************************************************************)
(* Socket addresses (SockAddr.cpp): an object with a family, an IP address *)
(* and a port, the texts it is set from and read as, and its raw bytes.  A *)
(* text is a sequence of words and of the characters ":" and "/", which    *)
(* set_Address looks for.                                                  *)
(*                                                                         *)
(* The resolver (getaddrinfo, getnameinfo, inet_pton) is external: any     *)
(* table of hosts and services that agrees with itself in both directions. *)
(***************************************************************************)
EXTENDS Integers, Sequences

CONSTANTS
  Words,       \* what texts are made of, the separators too
  Hosts,       \* what the resolver finds for texts of hosts, per family
  Services,    \* and for texts of services
  Names,       \* what getnameinfo calls a port
  Digits,      \* a port printed with %d
  NumberLike,  \* the texts atof does not make zero of
  Ports,       \* the numbers a script passes for a port
  Literals,    \* the IP addresses it passes
  Schemes, HostTexts, PortTexts   \* what it makes a text of

VARIABLES
  addr,    \* the object
  given    \* history: what the last text set was made of and the object
           \* before, or Nothing when something else set the object last

addressVars == <<addr, given>>

Nothing == [scheme |-> <<>>, host |-> <<>>, port |-> <<>>, before |-> <<>>]

(***************************************************************************)
(* The resolver.                                                           *)
(***************************************************************************)
Internet == {"INET", "INET6"}

\* What raw data may say the family is: OTHER is any number that names none
\* the library knows.
Families == Internet \union {"UNIX", "UNSPEC", "OTHER"}

\* The families getaddrinfo looks in: all there are for AF_UNSPEC, and it
\* fails for what is not of the Internet.
LooksIn(family) == IF family = "UNSPEC" THEN Internet ELSE {family} \intersect Internet

\* Ports are an unsigned short, which htons cuts a number to.
PortNumbers == 0..65535
Short(port) == port % 65536

\* The addresses of a family and the ports are those of the resolver: it has a
\* text for each there is.
Any == "any"
Ips(family) == {Any} \union (IF family \in Internet THEN {h.ip : h \in Hosts[family]} ELSE {})
Known == {s.port : s \in Services}
Objects(family) == [family : LooksIn(family), ip : UNION {Ips(f) : f \in LooksIn(family)}, port : Known]

Lacks(text, c) == \A i \in DOMAIN text : text[i] # c
IsWord(text) == text \in Seq(Words) /\ Lacks(text, ":") /\ Lacks(text, "/")

ASSUME WordsAssumption == ":" \in Words /\ "/" \in Words

\* The resolver agrees with itself: what a text means does not change, each
\* family has a text for any address, and each port one of digits and a name
\* that are found again.  Only IPv6 hosts have colons in them.
ASSUME HostsAssumption ==
  \A f \in Internet :
    /\ \A h \in Hosts[f] :
         /\ h = [text |-> h.text, ip |-> h.ip]
         /\ h.text \in Seq(Words) \ {<<>>} /\ Lacks(h.text, "/")
         /\ f = "INET" => Lacks(h.text, ":")
         /\ \A g \in Hosts[f] : g.text = h.text => g.ip = h.ip
    /\ Any \in {h.ip : h \in Hosts[f]}

ASSUME ServicesAssumption ==
  /\ \A s \in Services :
       /\ s = [text |-> s.text, port |-> s.port]
       /\ IsWord(s.text) /\ s.port \in PortNumbers
       /\ \A r \in Services : r.text = s.text => r.port = s.port
       /\ [text |-> Names[s.port], port |-> s.port] \in Services
       /\ [text |-> Digits[s.port], port |-> s.port] \in Services
  /\ [text |-> <<>>, port |-> 0] \in Services
  /\ [text |-> <<"0">>, port |-> 0] \in Services

\* The parts of a text have no separators in them, but for the colons of IPv6
\* literals, which have at least two.
ASSUME TextAssumption ==
  /\ Ports \subseteq Int /\ \A p \in Ports : Short(p) \in Known
  /\ \A text \in Schemes \union PortTexts : IsWord(text)
  /\ \A text \in HostTexts :
       /\ text \in Seq(Words) /\ Lacks(text, "/")
       /\ \A i \in DOMAIN text : text[i] = ":" => \E j \in DOMAIN text \ {i} : text[j] = ":"

\* What getaddrinfo finds for a node and a service; and for no node at all,
\* where resolvers differ in whether that is any address.
Resolves(family, node, service) ==
  {a \in Objects(family) :
     /\ [text |-> node, ip |-> a.ip] \in Hosts[a.family]
     /\ [text |-> service, port |-> a.port] \in Services}

ResolvesNone(family, node, service) ==
  {a \in Objects(family) :
     /\ node = <<>> /\ a.ip = Any
     /\ [text |-> service, port |-> a.port] \in Services}

\* getnameinfo: one of the texts of the host.
HostText(a) == (CHOOSE h \in Hosts[a.family] : h.ip = a.ip).text

(***************************************************************************)
(* Cutting a text.                                                         *)
(***************************************************************************)
Separator == <<":", "/", "/">>

\* Where part occurs in text: what find takes the first and rfind the last of.
Occurrences(text, part) ==
  {i \in 1..(Len(text) - Len(part) + 1) : SubSeq(text, i, i + Len(part) - 1) = part}

Find(text, part) == CHOOSE i \in Occurrences(text, part) : \A j \in Occurrences(text, part) : i <= j
RFind(text, part) == CHOOSE i \in Occurrences(text, part) : \A j \in Occurrences(text, part) : i >= j

\* "service://node"
CutScheme(text) ==
  IF Occurrences(text, Separator) = {} THEN [service |-> <<>>, node |-> text]
  ELSE LET i == Find(text, Separator) IN
       [service |-> SubSeq(text, 1, i - 1), node |-> SubSeq(text, i + 3, Len(text))]

\* "node:service", which wins over a scheme.
CutPort(parts) ==
  IF Occurrences(parts.node, <<":">>) = {} THEN parts
  ELSE LET i == RFind(parts.node, <<":">>) IN
       [service |-> SubSeq(parts.node, i + 1, Len(parts.node)),
        node    |-> SubSeq(parts.node, 1, i - 1)]

\* Mutant of Split: a port is looked for before the scheme.
SplitPortFirst(text, family) ==
  IF family = "INET6" \/ Occurrences(text, <<":">>) = {} THEN CutScheme(text)
  ELSE CutPort([service |-> <<>>, node |-> text])

\* IPv6 literals have colons of their own.
Split(text, family) ==
  IF family = "INET6" THEN CutScheme(text) ELSE CutPort(CutScheme(text))

(***************************************************************************)
(* The members of SockAddr.                                                *)
(***************************************************************************)
\* decode_type: -1 and -2 are the script's IPv4 and IPv6, 0 is AF_UNSPEC.
Types == {-1, -2, 0, 1}
Decode(type) ==
  CASE type = -1 -> "INET" [] type = -2 -> "INET6" [] type = 0 -> "UNSPEC" [] type = 1 -> "UNIX"

Fresh(type) == [family |-> Decode(type), ip |-> Any, port |-> 0]

\* set_Port: htons takes 16 bits.
WithPort(a, port) == IF a.family \in Internet THEN [a EXCEPT !.port = Short(port)] ELSE a

\* set_IP: inet_pton takes literals of the family, and leaves the object
\* alone where it fails.
WithIp(a, ip) == IF ip \in Ips(a.family) THEN [a EXCEPT !.ip = ip] ELSE a

\* What set_Address may make of a: what getaddrinfo finds, or a unchanged.
WithAddress(a, text) ==
  LET parts == Split(text, a.family)
      found == Resolves(a.family, parts.node, parts.service)
  IN  IF found # {} THEN found
      ELSE {a} \union ResolvesNone(a.family, parts.node, parts.service)

\* Mutant of AddressText: always "host:service".
AddressTextPort(a, named) ==
  IF a.family \notin Internet THEN <<>>
  ELSE HostText(a) \o <<":">> \o (IF named THEN Names[a.port] ELSE Digits[a.port])

\* get_Address: "host", "service://host" or "host:service", where services
\* have names to getnameinfo, and "host:port" where it fails to name them.
\* It has no name at all for an address without a family it knows.
AddressText(a, named) ==
  LET serv == Names[a.port] IN
  CASE a.family = "UNIX"        -> <<"localhost">>
    [] a.family \in {"UNSPEC", "OTHER"} -> <<>>
    [] a.family \in Internet ->
         IF ~named THEN HostText(a) \o <<":">> \o Digits[a.port]
         ELSE IF serv \in {<<>>, <<"0">>} THEN HostText(a)
         ELSE IF serv \in NumberLike THEN HostText(a) \o <<":">> \o serv
         ELSE serv \o Separator \o HostText(a)

\* CreateFromData: what the script's bytes say, and what was in memory where
\* they end: any family, and any address and port of it.
FromData == UNION {[family : {f}, ip : Ips(f), port : Known] : f \in Families}

(***************************************************************************)
(* What a script does with an address.  Its texts are made of a scheme, a  *)
(* host and a port; the empty scheme and port are left out.                *)
(***************************************************************************)
Text(scheme, host, port) ==
  (IF scheme = <<>> THEN <<>> ELSE scheme \o Separator)
    \o host \o (IF port = <<>> THEN <<>> ELSE <<":">> \o port)

Init ==
  /\ addr \in {Fresh(t) : t \in Types}
  /\ given = Nothing

Create(type) == addr' = Fresh(type) /\ given' = Nothing

\* CreateIP and CreateIPv6
CreateIP(type, ip, port) ==
  addr' = WithPort(WithIp(Fresh(type), ip), port) /\ given' = Nothing

CreateFromData == addr' \in FromData /\ given' = Nothing

SetPort(port) == addr' = WithPort(addr, port) /\ given' = Nothing

SetIP(ip) == addr' = WithIp(addr, ip) /\ given' = Nothing

\* set_Address on a, which CreateFromString makes and the attribute has.
SetAddress(a, scheme, host, port) ==
  /\ addr' \in WithAddress(a, Text(scheme, host, port))
  /\ given' = [scheme |-> scheme, host |-> host, port |-> port, before |-> a]

\* What is read as the attribute Address is set again, of the same object.
SetAsRead(named) ==
  /\ addr' \in WithAddress(addr, AddressText(addr, named))
  /\ given' = Nothing

Next ==
  \/ \E t \in Types : Create(t)
  \/ \E t \in {-1, -2}, ip \in Literals, port \in Ports : CreateIP(t, ip, port)
  \/ CreateFromData
  \/ \E port \in Ports : SetPort(port)
  \/ \E ip \in Literals : SetIP(ip)
  \/ \E scheme \in Schemes, host \in HostTexts, port \in PortTexts :
       \E a \in {addr} \union {Fresh(t) : t \in Types} : SetAddress(a, scheme, host, port)
  \/ \E named \in BOOLEAN : SetAsRead(named)

AddressesSpec == Init /\ [][Next]_addressVars

(***************************************************************************)
(* Properties.                                                             *)
(***************************************************************************)

\* Whether an address is read as "host:service", which set_Address does not
\* look for in IPv6 addresses.
ReadWithPort(a, named) ==
  ~named \/ (Names[a.port] \notin {<<>>, <<"0">>} /\ Names[a.port] \in NumberLike)

\* The text an address is read as says all of it, and set_Address on another
\* object finds it there, whether the service has a name, a number or a name
\* that looks like a number (SockAddr.cpp:165-170 against 183-194).  IPv6
\* addresses whose port has no name are the exception.
ReadsBack ==
  LET other == [family |-> addr.family, ip |-> Any, port |-> 0] IN
  \A named \in BOOLEAN :
    addr.family = "INET" \/ (addr.family = "INET6" /\ ~ReadWithPort(addr, named))
      => WithAddress(other, AddressText(addr, named)) = {addr}

\* An address set from a scheme, a host and a port is that host at that port,
\* or at the scheme's where none is given (test/sockaddr.cpp:112-133), and
\* what cannot be resolved leaves the object as it was (SockAddr.cpp:203-207).
\* IPv6 addresses take a port for a part of the host.  An address without a
\* family takes the last of an IPv6 host for the port, where no port is given.
MeansWhatItSays ==
  given # Nothing =>
    LET family  == given.before.family
        whole   == family = "INET6" /\ given.port # <<>>
        node    == IF whole THEN given.host \o <<":">> \o given.port ELSE given.host
        service == IF whole \/ given.port = <<>> THEN given.scheme ELSE given.port
        found   == Resolves(family, node, service)
    IN  (family = "UNSPEC" /\ given.port = <<>> => Lacks(given.host, ":"))
        => IF found # {} THEN addr \in found
           ELSE addr \in {given.before} \union ResolvesNone(family, node, service)

===============================================================================
