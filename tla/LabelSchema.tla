----------------------------- MODULE LabelSchema -----------------------------
(***************************************************************************)
(* The labels there are and what each is about (traefik/labels/schema).    *)
(*                                                                         *)
(* A label without its prefix is a path, the sequence of the segments      *)
(* between its dots.  A segment is in turn the sequence of its pieces, as  *)
(* names are; domains[i] has the pieces "domains[", i and "]".             *)
(*                                                                         *)
(* A row of the schema has a pattern for the path and one for what the     *)
(* label is about.  A part of a pattern is a capture or a literal.         *)
(***************************************************************************)
EXTENDS Integers, Sequences

Protocols == {"http", "tcp", "udp"}
Collections == {"routers", "services", "serverstransports"}

StringCaptures == {"{name}", "{header}"}
Default == "{default}"
DomainIndex == "domains[{domain}]"
DomainFields == {"main", "sans"}

Shorthand == 0  \* OriginShorthand
Explicit == 1  \* OriginExplicit

-----------------------------------------------------------------------------
(* The rows.  Keys are given by kind of value; those under one prefix of   *)
(* the path are about the same keys under a prefix of the target.          *)

Rows(from, to, keys) ==
  UNION {{[source |-> from \o key, target |-> to \o key, kind |-> kind,
           origin |-> IF from = to THEN Explicit ELSE Shorthand] : key \in keys[kind]} :
           kind \in DOMAIN keys}

\* label, for rows without "->"
Plain(prefix, keys) == Rows(prefix, prefix, keys)

RootRows == Plain(<<>>, [bool |-> {<<"enable">>}, string |-> {<<"name">>}])

RouterKeys == [
  bool   |-> {<<"tls">>},
  int    |-> {<<"priority">>},
  csv    |-> {<<"entrypoints">>, <<"middlewares">>, <<"tls", "domains">>,
              <<"tls", DomainIndex>>, <<"tls", DomainIndex, "sans">>},
  string |-> {<<"rule">>, <<"service">>, <<"entrypoint">>, <<"tls", "certresolver">>,
              <<"tls", "options">>, <<"tls", DomainIndex, "main">>}]

TCPRouterKeys == [RouterKeys EXCEPT !.bool = @ \cup {<<"tls", "passthrough">>}]

UDPRouterKeys == [csv |-> {<<"entrypoints">>}, string |-> {<<"service">>, <<"entrypoint">>}]

ServiceKeys == [
  bool   |-> {<<"insecureskipverify">>, <<"passhostheader">>,
              <<"healthcheck", "followredirects">>,
              <<"sticky", "cookie", "secure">>, <<"sticky", "cookie", "httponly">>},
  int    |-> {<<"server", "port">>, <<"healthcheck", "port">>},
  string |-> {<<"server", f>> : f \in {"url", "scheme", "ip"}}
    \cup {<<"serverstransport">>}
    \cup {<<"healthcheck", f>> :
            f \in {"path", "interval", "timeout", "scheme", "method", "hostname"}}
    \cup {<<"healthcheck", "headers", "{header}">>}
    \cup {<<"sticky", "cookie", "name">>, <<"sticky", "cookie", "samesite">>,
          <<"responseforwarding", "flushinterval">>}]

TransportKeys == [
  bool   |-> {<<"insecureskipverify">>, <<"disablehttp2">>},
  int    |-> {<<"maxidleconnsperhost">>},
  csv    |-> {<<"rootcas">>},
  string |-> {<<"servername">>, <<"peercerturi">>}
    \cup {<<"forwardingtimeouts", f>> :
            f \in {"dialtimeout", "responseheadertimeout", "idleconntimeout",
                   "readidletimeout", "pingtimeout"}}]

StreamServerKeys == [int |-> {<<"port">>}, string |-> {<<"ip">>, <<"address">>}]
TCPServiceKeys == [int |-> {<<"proxyprotocol", "version">>, <<"terminationdelay">>}]

\* The port as a text.
PortAsText == [string |-> {<<"port">>, <<"scheme">>}]

HTTPServerShorthands == [int |-> {<<"port">>}, string |-> {<<"scheme">>}]
HTTPServiceShorthands == [bool |-> {<<"insecureskipverify">>}, string |-> {<<"serverstransport">>}]
HTTPRouterShorthands ==
  [csv |-> {<<"middlewares">>, <<"entrypoints">>}, string |-> {<<"entrypoint">>}]

LoadBalancer(p, name) == <<p, "services", name, "loadbalancer">>
Server(p, name) == LoadBalancer(p, name) \o <<"server">>

HTTPRows ==
  Rows(<<>>, Server("http", Default), HTTPServerShorthands)
  \cup Rows(<<>>, LoadBalancer("http", Default), HTTPServiceShorthands)
  \cup Rows(<<>>, <<"http", "routers", Default>>, HTTPRouterShorthands)
  \cup Plain(<<"http", "routers", "{name}">>, RouterKeys)
  \cup Plain(LoadBalancer("http", "{name}"), ServiceKeys)
  \cup Plain(<<"http", "serverstransports", "{name}">>, TransportKeys)

\* The rows of TCP and UDP: the shorthand ones and the plain ones about the
\* routers, the servers and the services.
StreamRows(p, routerKeys, serviceKeys) ==
  Rows(<<p>>, <<p, "routers", Default>>, routerKeys)
  \cup Rows(<<p>>, Server(p, Default), StreamServerKeys)
  \cup Rows(<<p>>, LoadBalancer(p, Default), serviceKeys)
  \cup Plain(<<p, "routers", "{name}">>, routerKeys)
  \cup Plain(Server(p, "{name}"), StreamServerKeys)
  \cup Plain(LoadBalancer(p, "{name}"), serviceKeys)

TCPRows == StreamRows("tcp", TCPRouterKeys, TCPServiceKeys)
UDPRows == StreamRows("udp", UDPRouterKeys, [int |-> {}])

SchemaRows == RootRows \cup HTTPRows \cup TCPRows \cup UDPRows

-----------------------------------------------------------------------------
(* Match *)

IsCapture(part) == part \in StringCaptures \cup {Default, DomainIndex}

\* ParseDomainIndex
IsDomainIndex(segment) == Len(segment) = 3 /\ segment[1] = "domains["

Fits(part, segment) ==
  IF part = DomainIndex THEN IsDomainIndex(segment)
  ELSE IF IsCapture(part) THEN segment # <<>>
  ELSE segment = <<part>>

MatchingRows(path) ==
  {row \in SchemaRows : /\ Len(row.source) = Len(path)
                        /\ \A i \in DOMAIN path : Fits(row.source[i], path[i])}

-----------------------------------------------------------------------------
(* Compile: the first three parts of a target say the protocol, the        *)
(* collection and the name, the last one the entry if it is a capture, and *)
(* those between are the key.                                              *)

NoEntry == <<>>

IsResource(row) == row.target[1] \in Protocols

HasEntry(row) == row.target[Len(row.target)] \in StringCaptures

\* inferKey
KeyParts(row) == SubSeq(row.target, 4, Len(row.target) - IF HasEntry(row) THEN 1 ELSE 0)

\* compileKey: the index of a domain is no part of the key.  It is kept with
\* a field of the domain, and there only.
Key(row) ==
  [i \in DOMAIN KeyParts(row) |->
     IF KeyParts(row)[i] = DomainIndex THEN "domains" ELSE KeyParts(row)[i]]

HasDomain(row) ==
  LET n == Len(row.target) IN
  n > 4 /\ row.target[n - 1] = DomainIndex /\ row.target[n] \in DomainFields

\* resolveCapture
Captured(row, path, capture) == path[CHOOSE i \in DOMAIN path : row.source[i] = capture]

NameIn(row, path, defaultName) ==
  IF row.target[3] = Default THEN defaultName ELSE Captured(row, path, row.target[3])

Entry(row, path) ==
  CASE HasEntry(row)  -> Captured(row, path, row.target[Len(row.target)])
    [] HasDomain(row) -> Captured(row, path, DomainIndex)
    [] OTHER          -> NoEntry

Target(row, path, defaultName) ==
  IF IsResource(row)
  THEN [protocol |-> row.target[1], collection |-> row.target[2],
        name |-> NameIn(row, path, defaultName), key |-> Key(row), entry |-> Entry(row, path)]
  ELSE [protocol |-> "", collection |-> "", name |-> <<>>, key |-> row.target, entry |-> NoEntry]

\* validate, where it does not panic
ValidRow(row) ==
  /\ ~IsCapture(row.target[1])
  /\ IF IsResource(row)
     THEN /\ row.target[2] \in Collections
          /\ row.target[3] \in StringCaptures \cup {Default}
          /\ KeyParts(row) # <<>>
     ELSE Len(row.target) = 1
  /\ \A i \in DOMAIN row.target :
       IsCapture(row.target[i]) /\ row.target[i] # Default =>
         \E j \in DOMAIN row.source : row.source[j] = row.target[i]

\* Two rows for one path: the code takes the one that comes first.
Overlap(r, s) ==
  /\ Len(r.source) = Len(s.source)
  /\ \A i \in DOMAIN r.source :
       \/ {r.source[i], s.source[i]} \cap (StringCaptures \cup {Default}) # {}
       \/ r.source[i] = s.source[i]

\* A plain row is about the path itself; a shorthand one is about a default
\* object, and for TCP and UDP its path says so.  Only HTTP has transports.
IsPlainOrShorthand(row) ==
  /\ row.origin = Explicit => row.target = row.source
  /\ row.origin = Shorthand => IsResource(row) /\ row.target[3] = Default
  /\ row.target[1] \in {"tcp", "udp"} => row.source[1] = row.target[1]
  /\ IsResource(row) /\ row.target[2] = "serverstransports" => row.target[1] = "http"

\* The schema compiles, the order of its rows does not matter, and its rows
\* are of the two kinds there are.
ASSUME SchemaAssumption ==
  /\ \A row \in SchemaRows :
       /\ row.source \in Seq(STRING) \ {<<>>} /\ row.target \in Seq(STRING)
       /\ row.origin \in {Shorthand, Explicit}
       /\ Default \notin {row.source[i] : i \in DOMAIN row.source}
       /\ ValidRow(row)
       /\ IsPlainOrShorthand(row)
  /\ \A r, s \in SchemaRows : r # s => ~Overlap(r, s)
=============================================================================
