---------------------------- MODULE ConfigBuilder ----------------------------
(***************************************************************************)
(* How the guests of a snapshot become one configuration (traefik/         *)
(* config.go, workload.go, object_names.go, http_merge.go): guest after    *)
(* guest, names are claimed for routers, services and transports, explicit *)
(* ones as they are and default ones with a suffix when they are taken,    *)
(* and the objects are added under those names.                            *)
(*                                                                         *)
(* The labels of a guest are a label set as Preparation makes it, and what  *)
(* is built of them is what Objects says.  The hosts of a guest are one,   *)
(* the guest itself.                                                       *)
(***************************************************************************)
EXTENDS Objects

CONSTANTS
  Order,          \* the guests of the snapshot, in its order
  LabelSets,      \* the label sets a guest may have, each with the default name
  NameOrder,      \* the names in labels, in the order of their texts
  Id, Kind, Node, \* Id[g], Kind[g], Node[g]: pieces for the suffixes of names
  Numeral(_)      \* the piece for a natural number

Guests == ToSet(Order)

\* Numbered suffixes fit into a name, so that the search for a free one ends.
\* What a label gives as a host is told apart from the hosts of the guests.
ASSUME BuilderAssumption ==
  /\ Order \in Seq(Guests) /\ IsInjective(Order)
  /\ NameOrder \in Seq(ToSet(NameOrder)) /\ IsInjective(NameOrder)
  /\ MaxNameLength > 2
  /\ \A l \in LabelSets :
       /\ WellFormed(l.set, l.base)
       /\ DefaultObjectName(l.set, l.base) # <<>>
       /\ {o.name : o \in DOMAIN l.set.objects} \subseteq ToSet(NameOrder)
       /\ \A place \in DOMAIN l.set.values : l.set.values[place].value \notin {<<g>> : g \in Guests}

VARIABLES
  labels,         \* the label set each guest has
  todo,           \* the guests still to be added, the current one first
  protocols,      \* the protocols still to be added for it
  pc,             \* what is being added
  serviceNames,   \* the names of its services
  serviceQueue,   \* those of them still to be added, in the order of names
  routerQueue,    \* the names of its routers still to be added, likewise
  routers, services, transports,                 \* the configuration
  routerOwner, serviceOwner, transportOwner,     \* the claimed names
  reported,       \* names reported as used by another guest, "skipping duplicate"
  attached        \* the transports attached for insecureskipverify

queues  == <<serviceNames, serviceQueue, routerQueue>>
objects == <<routers, services, transports>>
claims  == <<routerOwner, serviceOwner, transportOwner>>
history == <<reported, attached>>
vars    == <<labels, todo, protocols, pc, queues, objects, claims, history>>

Init ==
  /\ labels \in [Guests -> LabelSets]
  /\ todo = Order
  /\ protocols = {}
  /\ pc = "guest"
  /\ serviceNames = {}
  /\ serviceQueue = {}
  /\ routerQueue = {}
  /\ routers = [p \in Protocols |-> Empty]
  /\ services = [p \in Protocols |-> Empty]
  /\ transports = Empty
  /\ routerOwner = [p \in Protocols |-> Empty]
  /\ serviceOwner = [p \in Protocols |-> Empty]
  /\ transportOwner = Empty
  /\ reported = {}
  /\ attached = {}

-----------------------------------------------------------------------------
(* Names *)

\* The names tried for a default object, in order.
Candidate(name, g, k) ==
  CASE k = 0 -> name
    [] k = 1 -> WithSuffix(name, <<Id[g]>>)
    [] k = 2 -> WithSuffix(name, <<Kind[g], Id[g]>>)
    [] k = 3 -> WithSuffix(name, <<Node[g], Id[g]>>)
    [] OTHER -> WithSuffix(name, <<Id[g], Numeral(k - 2)>>)

\* How many candidates are passed over: one number, if the search ends.  It is
\* not more than there are names taken, since the candidates of the unbounded
\* loop differ.
PassedOver(name, g, WillDo(_), taken) ==
  {i \in 0 .. (4 + Cardinality(taken)) :
    /\ WillDo(Candidate(name, g, i))
    /\ \A j \in 0 .. (i - 1) : ~WillDo(Candidate(name, g, j))}

\* claimObjectName succeeds.
Claimable(owner, name, g) == name \in DOMAIN owner => owner[name] = g

\* The claims after g has tried to claim the names.
Claimed(owner, names, g) ==
  [n \in DOMAIN owner \cup names |-> IF n \in DOMAIN owner THEN owner[n] ELSE g]

-----------------------------------------------------------------------------
(* The labels of the guests *)

Guest == Head(todo)
Proto == CHOOSE p \in protocols : \A q \in protocols : Turn[p] <= Turn[q]

Labels(g) == labels[g].set
Name(g) == DefaultObjectName(Labels(g), labels[g].base)

Seen(g, p, collection) == <<p, collection>> \in Labels(g).marks
ExplicitOf(g, p, collection) == ExplicitNames(Labels(g), p, collection)

DefaultTakenAnyway(owner, g) == {0}

\* claimDefaultObjectName
DefaultsPassed(owner, g) ==
  PassedOver(Name(g), g, LAMBDA n : Claimable(owner, n, g), DOMAIN owner)

\* sortedExplicitLabelResourceNames: a list of names is a set with this order.
IsFirst(name, names) ==
  /\ name \in names
  /\ \A n \in names \ {name} : \E i, j \in DOMAIN NameOrder :
       i < j /\ NameOrder[i] = name /\ NameOrder[j] = n

-----------------------------------------------------------------------------
(* BuildPrepared: the guests, and the protocols of each *)

BeginGuest ==
  /\ pc = "guest"
  /\ todo # <<>>
  /\ protocols' = IF Enabled(Labels(Guest)) THEN ProtocolsOf(Labels(Guest)) ELSE {}
  /\ pc' = "protocol"
  /\ UNCHANGED <<labels, todo, queues, objects, claims, history>>

EndGuest ==
  /\ pc = "protocol"
  /\ protocols = {}
  /\ todo' = Tail(todo)
  /\ pc' = "guest"
  /\ UNCHANGED <<labels, protocols, queues, objects, claims, history>>

-----------------------------------------------------------------------------
(* addHTTPWorkload, addTCPWorkload and addUDPWorkload begin with the names. *)

\* The names for the routers or services of the current guest: explicit ones
\* if there are any - all of them for HTTP, where they may be shared, and the
\* claimable ones for TCP and UDP -, none if labels were seen but had none
\* that can be used, and otherwise the default one after so many are passed.
NamesFor(owner, explicit, seen, passed) ==
  IF explicit # {}
  THEN {n \in explicit : Proto = "http" \/ Claimable(owner, n, Guest)}
  ELSE IF seen THEN {} ELSE {Candidate(Name(Guest), Guest, passed)}

OnlyDefaultsClaimed(names, explicit) == IF explicit # {} THEN {} ELSE names

\* Those of them that are claimed now; explicit HTTP names are claimed when
\* their objects are added.
ClaimedNow(names, explicit) == IF explicit # {} /\ Proto = "http" THEN {} ELSE names

\* The names reported as used by another guest.
RefusedFor(owner, explicit, seen, passed) ==
  IF explicit # {}
  THEN {n \in explicit : Proto # "http" /\ ~Claimable(owner, n, Guest)}
  ELSE IF seen THEN {}
  ELSE {Candidate(Name(Guest), Guest, k) : k \in 0 .. (passed - 1)}

Reports(kind, names) == {<<kind, Proto, n, Guest>> : n \in names}

ClaimNames ==
  /\ pc = "protocol"
  /\ protocols # {}
  /\ \E i \in DefaultsPassed(routerOwner[Proto], Guest),
        j \in DefaultsPassed(serviceOwner[Proto], Guest) :
     LET er == ExplicitOf(Guest, Proto, "routers")
         es == ExplicitOf(Guest, Proto, "services")
         et == ExplicitOf(Guest, Proto, "serverstransports")
         sr == Seen(Guest, Proto, "routers")
         ss == Seen(Guest, Proto, "services")
         rnames == NamesFor(routerOwner[Proto], er, sr, i)
         snames == NamesFor(serviceOwner[Proto], es, ss, j)
         tnames == {n \in et : Claimable(transportOwner, n, Guest)}
     IN
     /\ routerOwner' = [routerOwner EXCEPT ![Proto] = Claimed(@, ClaimedNow(rnames, er), Guest)]
     /\ serviceOwner' = [serviceOwner EXCEPT ![Proto] = Claimed(@, ClaimedNow(snames, es), Guest)]
     /\ transportOwner' = Claimed(transportOwner, tnames, Guest)
     /\ reported' = reported
          \cup Reports("router", RefusedFor(routerOwner[Proto], er, sr, i))
          \cup Reports("service", RefusedFor(serviceOwner[Proto], es, ss, j))
          \cup Reports("transport", et \ tnames)
     /\ IF rnames = {} \/ snames = {}
        THEN \* the protocol is given up, the claims stay
             /\ protocols' = protocols \ {Proto}
             /\ UNCHANGED <<pc, queues, transports>>
        ELSE /\ pc' = "services"
             /\ serviceNames' = snames
             /\ serviceQueue' = snames
             /\ routerQueue' = rnames
             /\ transports' = [n \in DOMAIN transports \cup tnames |->
                   IF n \in tnames
                   THEN ServersTransport(Labels(Guest), Object(Proto, "serverstransports", n))
                   ELSE transports[n]]
             /\ UNCHANGED protocols
  /\ UNCHANGED <<labels, todo, routers, services, attached>>

-----------------------------------------------------------------------------
(* The services *)

ServiceObject(name) == Object(Proto, "services", name)

\* The service that the labels of the current guest describe.
Described(name) == Service(Labels(Guest), ServiceObject(name), {<<Guest>>})

\* applyHTTPServiceShorthands: an insecure transport is attached.
Attaches(name) ==
  /\ Described(name).serversTransport = Unset
  /\ InsecureSkipVerify(Labels(Guest), ServiceObject(name))

AnyTransport(n) == n \in DOMAIN transports \/ Claimable(transportOwner, n, Guest)

\* reusableInsecureHTTPServersTransport
Insecure(transport) == transport.fields.insecureskipverify = <<"true">>

\* A transport that can be reused or made.
AttachableTransport(n) ==
  IF n \in DOMAIN transports THEN Insecure(transports[n]) ELSE Claimable(transportOwner, n, Guest)

\* ensureInsecureHTTPServersTransport
TransportCandidate(name, j) == Candidate(WithSuffix(name, <<"insecure">>), Guest, j)

TransportsPassed(name) ==
  PassedOver(WithSuffix(name, <<"insecure">>), Guest, AttachableTransport,
             DOMAIN transports \cup DOMAIN transportOwner)

HTTPServiceFor(name, transport) ==
  IF Attaches(name) THEN [Described(name) EXCEPT !.serversTransport = transport]
  ELSE Described(name)

\* compatibleHTTPServices: all but the servers agrees.
Compatible(s, t) == [s EXCEPT !.servers = {}] = [t EXCEPT !.servers = {}]

AttachTransport(name, t) ==
  IF ~Attaches(name) THEN UNCHANGED <<transports, transportOwner, attached>>
  ELSE /\ IF t \in DOMAIN transports THEN UNCHANGED <<transports, transportOwner>>
          ELSE /\ transports' = With(transports, t, InsecureServersTransport)
               /\ transportOwner' = Claimed(transportOwner, {t}, Guest)
       /\ attached' = attached \cup {t}

TransportRefusals(name, passed) ==
  IF ~Attaches(name) THEN {}
  ELSE {TransportCandidate(name, j) : j \in 0 .. (passed - 1)} \ DOMAIN transports

NewServiceUnclaimed(name, s, refused) ==
  /\ name \notin DOMAIN services.http
  /\ services' = [services EXCEPT !.http = With(@, name, s)]
  /\ reported' = reported
  /\ UNCHANGED serviceOwner

NewServiceReplaces(name, s, refused) ==
  /\ services' = [services EXCEPT !.http = With(@, name, s)]
  /\ serviceOwner' = [serviceOwner EXCEPT !.http = Claimed(@, {name}, Guest)]
  /\ reported' = reported

\* addOrMergeHTTPService: no service of that name yet ...
NewService(name, s, refused) ==
  /\ name \notin DOMAIN services.http
  /\ services' = [services EXCEPT !.http = With(@, name, s)]
  /\ serviceOwner' = [serviceOwner EXCEPT !.http = Claimed(@, {name}, Guest)]
  /\ reported' = reported \cup Reports("transport", refused)
       \cup Reports("service", {n \in {name} : ~Claimable(serviceOwner.http, n, Guest)})

\* mergeHTTPServers
Merged(old, s) == [old EXCEPT !.servers = @ \cup s.servers]

MergeIncompatible(name, s, refused) ==
  /\ name \in DOMAIN services.http
  /\ services' = [services EXCEPT !.http = With(@, name, Merged(@[name], s))]
  /\ reported' = reported \cup Reports("transport", refused)
  /\ UNCHANGED serviceOwner

\* ... one that can be shared ...
MergeService(name, s, refused) ==
  /\ name \in DOMAIN services.http
  /\ Compatible(services.http[name], s)
  /\ services' = [services EXCEPT !.http = With(@, name, Merged(@[name], s))]
  /\ reported' = reported \cup Reports("transport", refused)
  /\ UNCHANGED serviceOwner

\* ... or one that cannot.
SkipService(name, s, refused) ==
  /\ name \in DOMAIN services.http
  /\ ~Compatible(services.http[name], s)
  /\ reported' = reported \cup Reports("transport", refused)
  /\ UNCHANGED <<services, serviceOwner>>

AddHTTPService ==
  /\ pc = "services" /\ Proto = "http"
  /\ \E name \in serviceQueue :
       /\ IsFirst(name, serviceQueue)
       /\ \E j \in IF Attaches(name) THEN TransportsPassed(name) ELSE {0} :
            LET t == TransportCandidate(name, j)
                s == HTTPServiceFor(name, t)
                refused == TransportRefusals(name, j) IN
            /\ \/ NewService(name, s, refused)
               \/ MergeService(name, s, refused)
               \/ SkipService(name, s, refused)
            /\ AttachTransport(name, t)
       /\ serviceQueue' = serviceQueue \ {name}
  /\ UNCHANGED <<labels, todo, protocols, pc, serviceNames, routerQueue, routers, routerOwner>>

\* A TCP or UDP service has its name to itself.
AddService ==
  /\ pc = "services" /\ Proto # "http"
  /\ \E name \in serviceQueue :
       /\ IsFirst(name, serviceQueue)
       /\ services' = [services EXCEPT ![Proto] = With(@, name, Described(name))]
       /\ serviceQueue' = serviceQueue \ {name}
  /\ UNCHANGED <<labels, todo, protocols, pc, serviceNames, routerQueue,
                 routers, transports, claims, history>>

EndServices ==
  /\ pc = "services" /\ serviceQueue = {}
  /\ pc' = "routers"
  /\ UNCHANGED <<labels, todo, protocols, queues, objects, claims, history>>

-----------------------------------------------------------------------------
(* The routers *)

\* defaultServiceForRouter
DefaultService(name) ==
  IF name \in serviceNames THEN name
  ELSE CHOOSE n \in serviceNames : IsFirst(n, serviceNames)

RouterFor(name) ==
  [object |-> Router(Labels(Guest), Object(Proto, "routers", name), DefaultService(name)),
   from |-> Guest]

NewRouter(name, r) ==
  /\ name \notin DOMAIN routers.http
  /\ routers' = [routers EXCEPT !.http = With(@, name, r)]
  /\ routerOwner' = [routerOwner EXCEPT !.http = Claimed(@, {name}, Guest)]
  /\ reported' = reported
       \cup Reports("router", {n \in {name} : ~Claimable(routerOwner.http, n, Guest)})

\* The one that is there stays, whether it has the same settings or, with a
\* diagnostic, others.
KeepRouter(name) ==
  /\ name \in DOMAIN routers.http
  /\ UNCHANGED <<routers, routerOwner, reported>>

AddHTTPRouter ==
  /\ pc = "routers" /\ Proto = "http"
  /\ \E name \in routerQueue :
       /\ IsFirst(name, routerQueue)
       /\ NewRouter(name, RouterFor(name)) \/ KeepRouter(name)
       /\ routerQueue' = routerQueue \ {name}
  /\ UNCHANGED <<labels, todo, protocols, pc, serviceNames, serviceQueue,
                 services, transports, serviceOwner, transportOwner, attached>>

AddRouter ==
  /\ pc = "routers" /\ Proto # "http"
  /\ \E name \in routerQueue :
       /\ IsFirst(name, routerQueue)
       /\ routers' = [routers EXCEPT ![Proto] = With(@, name, RouterFor(name))]
       /\ routerQueue' = routerQueue \ {name}
  /\ UNCHANGED <<labels, todo, protocols, pc, serviceNames, serviceQueue,
                 services, transports, claims, history>>

EndRouters ==
  /\ pc = "routers" /\ routerQueue = {}
  /\ protocols' = protocols \ {Proto}
  /\ pc' = "protocol"
  /\ UNCHANGED <<labels, todo, queues, objects, claims, history>>

\* The configuration is returned; everything before it can go on.
Finished ==
  /\ pc = "guest" /\ todo = <<>>
  /\ UNCHANGED vars

-----------------------------------------------------------------------------
Next ==
  \/ BeginGuest \/ ClaimNames \/ EndGuest
  \/ AddHTTPService \/ AddService \/ EndServices
  \/ AddHTTPRouter \/ AddRouter \/ EndRouters
  \/ Finished

Spec == Init /\ [][Next]_vars

-----------------------------------------------------------------------------
\* The guests that have been added.
Done == Guests \ ToSet(todo)

\* The guest is to have its default router and service for the protocol.
OnDefaults(g, p) ==
  /\ Enabled(Labels(g)) /\ p \in ProtocolsOf(Labels(g))
  /\ ~Seen(g, p, "routers") /\ ~Seen(g, p, "services")

\* A label of one of its objects.
RouterService(g, p, name) == StringValue(Labels(g), Object(p, "routers", name), <<"service">>)
ServerLabels(g, p, name) ==
  {f \in {"url", "ip", "address"} :
     StringValue(Labels(g), Object(p, "services", name), LBServer(f)) # Unset}

\* The guests among the hosts of a service.
GuestsOf(service) == {g \in Guests : \E s \in service.servers : s.host = <<g>>}

\* The shape of the configuration and of the claims; every object has a name
\* that is claimed.
TypeOK ==
  /\ todo = SubSeq(Order, Len(Order) - Len(todo) + 1, Len(Order))
  /\ protocols \subseteq Protocols
  /\ pc \in {"guest", "protocol", "services", "routers"}
  /\ pc # "guest" => todo # <<>>
  /\ pc \in {"services", "routers"} => protocols # {} /\ serviceNames # {}
  /\ \A q \in Protocols :
       /\ \A n \in DOMAIN routerOwner[q] : routerOwner[q][n] \in Guests
       /\ \A n \in DOMAIN serviceOwner[q] : serviceOwner[q][n] \in Guests
       /\ DOMAIN routers[q] \subseteq DOMAIN routerOwner[q]
       /\ DOMAIN services[q] \subseteq DOMAIN serviceOwner[q]
  /\ DOMAIN transports \subseteq DOMAIN transportOwner

\* A guest that leaves its names to the provider is served, whatever names the
\* guests before and after it have taken: it has a router of its own whose
\* service, unless a label says which, is there and sends to the guest.
DefaultGuestServed ==
  \A g \in Done, q \in Protocols : OnDefaults(g, q) =>
    \E n \in DOMAIN routers[q] : LET service == routers[q][n].object.service IN
      /\ routers[q][n].from = g
      /\ RouterService(g, q, Name(g)) = Unset =>
           /\ service \in DOMAIN services[q]
           /\ ServerLabels(g, q, Name(g)) # {} \/ g \in GuestsOf(services[q][service])

\* What the provider refers to is there: the services it chose for routers,
\* and the transports it attached, which still skip the verification.
ReferencesResolve ==
  /\ \A q \in Protocols : \A n \in DOMAIN routers[q] :
       LET service == routers[q][n].object.service
           labelled == {RouterService(routers[q][n].from, q, o.name) :
                          o \in DOMAIN Labels(routers[q][n].from).objects}
       IN service \in labelled \/ service \in DOMAIN services[q]
  /\ \A t \in attached : t \in DOMAIN transports /\ Insecure(transports[t])

Settings(service) == [f \in DOMAIN service \ {"servers", "serversTransport"} |-> service[f]]

\* A service sends only to the guest that owns its name and to guests that
\* give the name themselves and agree on the settings: a default name never
\* lands a guest in the service of another.
NoStrangers ==
  \A q \in Protocols : \A n \in DOMAIN services[q] : \A g \in GuestsOf(services[q][n]) :
    IF ExplicitOf(g, q, "services") = {} THEN g = serviceOwner[q][n]
    ELSE /\ n \in ExplicitOf(g, q, "services")
         /\ Settings(Service(Labels(g), Object(q, "services", n), {})) = Settings(services[q][n])

\* TCP and UDP objects belong to the guest that owns their name.
OwnersOnly ==
  \A q \in {"tcp", "udp"} :
    /\ \A n \in DOMAIN routers[q] :
         n \in DOMAIN routerOwner[q] /\ routers[q][n].from = routerOwner[q][n]
    /\ \A n \in DOMAIN services[q] : \A g \in GuestsOf(services[q][n]) :
         n \in DOMAIN serviceOwner[q] /\ g = serviceOwner[q][n]

\* Nothing one guest published is taken back or changed by another: names
\* stay claimed, routers stay as they are, transports too, and services only
\* get more servers.
Keeps(before, after) ==
  DOMAIN before \subseteq DOMAIN after /\ \A n \in DOMAIN before : after[n] = before[n]

PublishedStays ==
  [][\A q \in Protocols :
       /\ Keeps(routers[q], routers'[q])
       /\ Keeps(routerOwner[q], routerOwner'[q])
       /\ Keeps(serviceOwner[q], serviceOwner'[q])
       /\ Keeps(transports, transports')
       /\ DOMAIN services[q] \subseteq DOMAIN services'[q]
       /\ \A n \in DOMAIN services[q] :
            /\ Compatible(services[q][n], services'[q][n])
            /\ services[q][n].servers \subseteq services'[q][n].servers]_vars

\* README.md, Common Shorthand Labels: "port: backend HTTP port".  A guest
\* that leaves its names to the provider is sent to at the port it asks for.
ShorthandPortKept ==
  \A g \in Done :
    LET port == IntValue(Labels(g), Object("http", "services", Name(g)), LBServer("port")) IN
    (OnDefaults(g, "http") /\ port # Unset) =>
      \E n \in DOMAIN services.http : \E s \in services.http[n].servers :
        s.host = <<g>> /\ s.port = port

\* object_names.go: a name is reported as "already used by" another guest,
\* "skipping duplicate".  The object so reported is not published.
SkippedIsSkipped ==
  \A r \in reported : LET q == r[2] n == r[3] g == r[4] IN
    /\ (r[1] = "router" /\ n \in DOMAIN routers[q]) => routers[q][n].from # g
    /\ (r[1] = "service" /\ n \in DOMAIN services[q]) =>
         g \notin GuestsOf(services[q][n])
=============================================================================
