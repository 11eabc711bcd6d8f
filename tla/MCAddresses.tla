------------------------------ MODULE MCAddresses -----------------------------
(***************************************************************************)
(* Addresses for TLC: a resolver that knows a name of both families, a     *)
(* service of each kind (3com begins like a number, 8080 has no name), and *)
(* as AI_V4MAPPED has it the IPv4 literals for IPv6; and ports that lie    *)
(* beyond 16 bits on each side.                                            *)
(***************************************************************************)
EXTENDS Addresses

MCHosts ==
  [ INET  |-> {[text |-> <<"www">>, ip |-> "v4"], [text |-> <<"192.0.2.1">>, ip |-> "192.0.2.1"],
               [text |-> <<"0.0.0.0">>, ip |-> Any]},
    INET6 |-> {[text |-> <<"www">>, ip |-> "v6"], [text |-> <<":", ":", "1">>, ip |-> "::1"],
               [text |-> <<":", ":", "1", ":", "80">>, ip |-> "::1:80"],
               [text |-> <<":", ":">>, ip |-> Any],
               [text |-> <<"192.0.2.1">>, ip |-> "::ffff:192.0.2.1"]} ]

MCServices ==
  {[text |-> <<>>, port |-> 0], [text |-> <<"0">>, port |-> 0], [text |-> <<"http">>, port |-> 80],
   [text |-> <<"80">>, port |-> 80], [text |-> <<"3com">>, port |-> 106],
   [text |-> <<"106">>, port |-> 106], [text |-> <<"8080">>, port |-> 8080]}

MCDigits == [p \in {0, 80, 106, 8080} |->
  CASE p = 0 -> <<"0">> [] p = 80 -> <<"80">> [] p = 106 -> <<"106">> [] p = 8080 -> <<"8080">>]
MCNames == [MCDigits EXCEPT ![80] = <<"http">>, ![106] = <<"3com">>]
MCNumberLike == {<<"3com">>, <<"8080">>}

MCWords ==
  {":", "/", "www", "nowhere", "nosuch", "192.0.2.1", "0.0.0.0", "1", "0", "http", "80", "3com", "106", "8080"}

MCPorts == {0, 80, 106, 8080, 65616, -65456}
MCLiterals == {"192.0.2.1", "::1", "bad"}

MCSchemes == {<<>>, <<"http">>, <<"nosuch">>}
MCPortTexts == {<<>>, <<"80">>, <<"8080">>}
MCHostTexts == {<<>>, <<"nowhere">>} \union {h.text : h \in MCHosts["INET"] \union MCHosts["INET6"]}

===============================================================================
