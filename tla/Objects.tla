------------------------------- MODULE Objects -------------------------------
(***************************************************************************)
(* The routers, services and transports that are built of a label set      *)
(* (traefik/http.go, tcp.go, udp.go, tls.go, backend.go): for each field,  *)
(* which label it is read from, as a value of which kind, and which labels *)
(* or defaults come before or after it.                                    *)
(*                                                                         *)
(* A field is Unset when nothing says otherwise.  A part of an object that *)
(* need not be there, a pointer in the code, is a sequence with it or an   *)
(* empty one.  s is the label set, o the object that is built.             *)
(***************************************************************************)
EXTENDS LabelSet

CONSTANTS
  DefaultDomain  \* Options.DefaultDomain, <<>> for none

Or(value, default) == IF value # Unset THEN value ELSE default

\* What a field that is no pointer holds without a label.
Zero(kind) == CASE kind = "bool" -> <<"false">> [] kind = "int" -> <<"0">> [] OTHER -> Unset

\* Fields that are read alike: from the label of that name under a prefix, by
\* kind of value.
Fields(s, o, prefix, kinds) ==
  [f \in DOMAIN kinds |->
     Or(ValueAt(s, o, Append(prefix, f), NoEntry, kinds[f]), Zero(kinds[f]))]

AnySet(fields) == \E f \in DOMAIN fields : fields[f] # Unset

-----------------------------------------------------------------------------
(* TLS of routers *)

\* routerTLSDomains: domains with an index come before the list.
RouterTLSDomains(s, o) ==
  LET listed == ListValue(s, o, <<"tls", "domains">>) IN
  IF TLSDomains(s, o, <<"tls">>) # <<>> THEN TLSDomains(s, o, <<"tls">>)
  ELSE [i \in DOMAIN listed |-> [main |-> <<listed[i]>>, sans |-> Unset]]

TLSFields(s, o) ==
  [certResolver |-> StringValue(s, o, <<"tls", "certresolver">>),
   options |-> StringValue(s, o, <<"tls", "options">>),
   domains |-> RouterTLSDomains(s, o)]

\* buildRouterTLS: the label tls turns TLS on, whatever its value.
RouterTLS(s, o) ==
  IF BoolValue(s, o, <<"tls">>) # Unset \/ AnySet(TLSFields(s, o))
  THEN <<TLSFields(s, o)>> ELSE <<>>

\* buildTCPRouterTLS
TCPRouterTLS(s, o) ==
  LET passthrough == BoolValue(s, o, <<"tls", "passthrough">>) IN
  IF BoolValue(s, o, <<"tls">>) # Unset \/ passthrough # Unset \/ AnySet(TLSFields(s, o))
  THEN <<[fields |-> TLSFields(s, o), passthrough |-> Or(passthrough, Zero("bool"))]>>
  ELSE <<>>

-----------------------------------------------------------------------------
(* Routers *)

EntryPoints(s, o) ==
  Or(ListValue(s, o, <<"entrypoints">>), StringValue(s, o, <<"entrypoint">>))

\* defaultHTTPRule
DefaultHTTPRule(name) ==
  <<"Host">> \o Or(Normalized(name), <<"workload">>) \o DefaultDomain

HTTPRouter(s, o, service) ==
  [rule |-> Or(StringValue(s, o, <<"rule">>), DefaultHTTPRule(o.name)),
   service |-> Or(StringValue(s, o, <<"service">>), service),
   entryPoints |-> EntryPoints(s, o),
   middlewares |-> ListValue(s, o, <<"middlewares">>),
   priority |-> Or(IntValue(s, o, <<"priority">>), Zero("int")),
   tls |-> RouterTLS(s, o)]

TCPRouter(s, o, service) ==
  [rule |-> Or(StringValue(s, o, <<"rule">>), <<"HostSNI", "*">>),
   service |-> Or(StringValue(s, o, <<"service">>), service),
   entryPoints |-> EntryPoints(s, o),
   middlewares |-> ListValue(s, o, <<"middlewares">>),
   priority |-> Or(IntValue(s, o, <<"priority">>), Zero("int")),
   tls |-> TCPRouterTLS(s, o)]

UDPRouter(s, o, service) ==
  [service |-> Or(StringValue(s, o, <<"service">>), service),
   entryPoints |-> EntryPoints(s, o)]

Router(s, o, service) ==
  CASE o.protocol = "http" -> HTTPRouter(s, o, service)
    [] o.protocol = "tcp"  -> TCPRouter(s, o, service)
    [] OTHER               -> UDPRouter(s, o, service)

-----------------------------------------------------------------------------
(* Servers: where a label puts them, or at the hosts of the guest *)

ServerAt(scheme, host, port) == [scheme |-> scheme, host |-> host, port |-> port]

LBServer(field) == <<"loadbalancer", "server", field>>

\* buildHTTPServers, serviceSchemeAndPort
HTTPServers(s, o, hosts) ==
  LET url == StringValue(s, o, LBServer("url"))
      scheme == Or(StringValue(s, o, LBServer("scheme")), <<"http">>)
      port == Or(IntValue(s, o, LBServer("port")),
                 IF scheme = <<"https">> THEN <<"443">> ELSE <<"80">>)
      ip == StringValue(s, o, LBServer("ip")) IN
  IF url # Unset THEN {ServerAt(Unset, url, Unset)}
  ELSE IF ip # Unset THEN {ServerAt(scheme, ip, port)}
  ELSE {ServerAt(scheme, host, port) : host \in hosts}

\* backendAddresses
StreamServers(s, o, hosts) ==
  LET address == StringValue(s, o, LBServer("address"))
      port == Or(IntValue(s, o, LBServer("port")), <<"80">>)
      ip == StringValue(s, o, LBServer("ip")) IN
  IF address # Unset THEN {ServerAt(Unset, address, Unset)}
  ELSE IF ip # Unset THEN {ServerAt(Unset, ip, port)}
  ELSE {ServerAt(Unset, host, port) : host \in hosts}

-----------------------------------------------------------------------------
(* Services and transports *)

HealthCheckKinds ==
  [path |-> "string", interval |-> "string", timeout |-> "string", scheme |-> "string",
   method |-> "string", hostname |-> "string", port |-> "int"]

CookieKinds == [name |-> "string", secure |-> "bool", httponly |-> "bool", samesite |-> "string"]

TransportKinds ==
  [servername |-> "string", rootcas |-> "csv", peercerturi |-> "string",
   insecureskipverify |-> "bool", maxidleconnsperhost |-> "int", disablehttp2 |-> "bool"]

TimeoutKinds ==
  [dialtimeout |-> "string", responseheadertimeout |-> "string",
   idleconntimeout |-> "string", readidletimeout |-> "string", pingtimeout |-> "string"]

\* buildHealthCheck: there is none without a path.
HealthCheck(s, o) ==
  LET prefix == <<"loadbalancer", "healthcheck">>
      fields == Fields(s, o, prefix, HealthCheckKinds) IN
  IF fields.path = Unset THEN <<>>
  ELSE <<[fields |-> fields,
          followRedirects |-> BoolValue(s, o, Append(prefix, "followredirects")),
          headers |-> Headers(s, o, Append(prefix, "headers"))]>>

\* buildSticky: there is none without the name of the cookie.
Sticky(s, o) ==
  LET fields == Fields(s, o, <<"loadbalancer", "sticky", "cookie">>, CookieKinds) IN
  IF fields.name = Unset THEN <<>> ELSE <<fields>>

HTTPService(s, o, hosts) ==
  [passHostHeader |-> Or(BoolValue(s, o, <<"loadbalancer", "passhostheader">>), <<"true">>),
   healthCheck |-> HealthCheck(s, o),
   sticky |-> Sticky(s, o),
   flushInterval |-> StringValue(s, o, <<"loadbalancer", "responseforwarding", "flushinterval">>),
   serversTransport |-> StringValue(s, o, <<"loadbalancer", "serverstransport">>),
   servers |-> HTTPServers(s, o, hosts)]

\* httpServiceInsecureSkipVerify
InsecureSkipVerify(s, o) ==
  BoolValue(s, o, <<"loadbalancer", "insecureskipverify">>) = <<"true">>

TCPService(s, o, hosts) ==
  [terminationDelay |-> IntValue(s, o, <<"loadbalancer", "terminationdelay">>),
   proxyProtocol |-> IntValue(s, o, <<"loadbalancer", "proxyprotocol", "version">>),
   servers |-> StreamServers(s, o, hosts)]

UDPService(s, o, hosts) == [servers |-> StreamServers(s, o, hosts)]

Service(s, o, hosts) ==
  CASE o.protocol = "http" -> HTTPService(s, o, hosts)
    [] o.protocol = "tcp"  -> TCPService(s, o, hosts)
    [] OTHER               -> UDPService(s, o, hosts)

\* buildHTTPServersTransport, buildForwardingTimeouts
ServersTransport(s, o) ==
  LET timeouts == Fields(s, o, <<"forwardingtimeouts">>, TimeoutKinds) IN
  [fields |-> Fields(s, o, <<>>, TransportKinds),
   forwardingTimeouts |-> IF AnySet(timeouts) THEN <<timeouts>> ELSE <<>>]

\* buildInsecureHTTPServersTransport
InsecureServersTransport ==
  [fields |-> [f \in DOMAIN TransportKinds |->
                 IF f = "insecureskipverify" THEN <<"true">> ELSE Zero(TransportKinds[f])],
   forwardingTimeouts |-> <<>>]

-----------------------------------------------------------------------------
\* BuildPrepared: the protocols that are built for a label set, and their order.
ProtocolsOf(s) ==
  {p \in Protocols : \/ <<p>> \in s.marks
                     \/ p = "http" /\ s.marks \cap {<<"tcp">>, <<"udp">>} = {}}

Turn == [http |-> 1, tcp |-> 2, udp |-> 3]
=============================================================================
