-------------------------- MODULE MCConfigBuilder --------------------------
(* Three guests and the ways in which their labels can meet. *)
EXTENDS ConfigBuilder

CONSTANTS g1, g2, g3

MCOrder == <<g1, g2, g3>>
MCId == (g1 :> "101") @@ (g2 :> "102") @@ (g3 :> "103")
MCKind == (g1 :> "vm") @@ (g2 :> "lxc") @@ (g3 :> "vm")
MCNode == (g1 :> "pve1") @@ (g2 :> "pve1") @@ (g3 :> "pve2")
MCNumeral(k) == ToString(k)

App == <<"app">>
Web == <<"web">>

\* The names that are tried for the last guest.
Taken == << App, App \o <<"103">>, App \o <<"pve2", "103">>, App \o <<"vm", "103">> >>

\* A long name, cut when it gets a suffix.
Long == <<"a", "b", "c">>

MCNameOrder ==
  << <<"a", "b", "103">>, Long, <<"a", "b", "d">>, <<"a", "b", "insecure">>,
     <<"a", "pve2", "103">>, <<"a", "vm", "103">>, App, App \o <<"103">>,
     App \o <<"insecure">>, App \o <<"pve2", "103">>, App \o <<"vm", "103">>,
     <<"b", "pve2", "103">>, Web >>

-----------------------------------------------------------------------------
(* Labels *)

Path(segments) == [i \in DOMAIN segments |-> <<segments[i]>>]
Label(segments, value) == <<Path(segments), <<value>> >>
Of(protocol, collection, name, segments, value) ==
  << << <<protocol>>, <<collection>>, name>> \o Path(segments), <<value>> >>

Rule(name, value) == Of("http", "routers", name, <<"rule">>, value)
Port(name, value) == Of("http", "services", name, LBServer("port"), value)
InsecureService(name) ==
  Of("http", "services", name, <<"loadbalancer", "insecureskipverify">>, "true")
Transport(name, insecure) ==
  Of("http", "serverstransports", name, <<"insecureskipverify">>, insecure)

\* The labels of a guest of that name, enabled.
Named(name, list) ==  [list |-> <<Label(<<"enable">>, "true")>> \o list, base |-> name]
AGuest(list) == Named(App, list)
Each(L(_), names) == [i \in DOMAIN names |-> L(names[i])]

MCHTTPLabels == <<
  AGuest(<<Label(<<"port">>, "8080")>>),
  AGuest(<<Label(<<"insecureskipverify">>, "true")>>),
  AGuest(<<Rule(App, "r1"), Port(App, "8080")>>),
  AGuest(<<Rule(Web, "r1"), Port(Web, "8080"),
           Of("http", "services", App, <<"loadbalancer", "sticky", "cookie", "name">>, "c")>>),
  AGuest(<<InsecureService(App), Transport(App \o <<"insecure">>, "false")>>),
  AGuest(<<Of("http", "routers", App, <<"service">>, "app"),
           Transport(App \o <<"insecure">>, "true")>>),
  AGuest(<<Of("http", "services", App, <<"bogus">>, "1")>>),
  AGuest(Each(LAMBDA n : Rule(n, "r1"), Taken) \o Each(LAMBDA n : Port(n, "8080"), Taken)),
  [list |-> <<Label(<<"port">>, "8080")>>, base |-> App],
  AGuest(<<Label(<<"name">>, "web"), Label(<<"port">>, "8080"), Port(App, "9090")>>)
>>

TCPPort == Label(<<"tcp", "port">>, "5432")
TCPServer(name) == Of("tcp", "services", name, LBServer("port"), "5432")
TCPRule(name) == Of("tcp", "routers", name, <<"rule">>, "r1")

MCStreamLabels == <<
  AGuest(<<TCPPort>>),
  AGuest(<<TCPPort, Label(<<"tcp", "service">>, "web")>>),
  AGuest(<<Rule(App, "r1"), TCPPort>>),
  AGuest(<<TCPRule(App), TCPRule(Web), TCPServer(Web)>>),
  AGuest(<<TCPServer(App), TCPServer(Web)>>),
  AGuest(<<TCPPort, Of("tcp", "routers", App, <<"bogus">>, "1")>>),
  AGuest(Each(TCPRule, Taken) \o Each(TCPServer, Taken)),
  AGuest(<<Label(<<"udp", "port">>, "53")>>),
  AGuest(<<TCPPort, Of("udp", "routers", App, <<"entrypoint">>, "e"),
           Of("udp", "services", Web, LBServer("port"), "53")>>)
>>

InsecureGuest(name) == Named(name, <<Label(<<"insecureskipverify">>, "true")>>)

MCLongLabels == <<
  InsecureGuest(Long), InsecureGuest(<<"a", "b", "d">>), InsecureGuest(<<"a", "b", "103">>),
  InsecureGuest(<<"a", "vm", "103">>), InsecureGuest(<<"b", "pve2", "103">>),
  AGuest(<<Rule(Long, "r1"), Port(Long, "8080")>>),
  AGuest(<<InsecureService(Long), InsecureService(<<"a", "b", "103">>)>>),
  AGuest(<<Rule(<<"a", "pve2", "103">>, "r1"), Rule(<<"a", "vm", "103">>, "r1"),
           Port(<<"a", "pve2", "103">>, "8080"), Transport(<<"a", "b", "insecure">>, "false")>>)
>>

\* The label sets that are parsed of them.
MCLabels ==
  {[set |-> Parse(guest.list, guest.base), base |-> guest.base] :
     guest \in ToSet(MCHTTPLabels \o MCStreamLabels \o MCLongLabels)}
=============================================================================
