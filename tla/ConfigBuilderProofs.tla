------------------------- MODULE ConfigBuilderProofs -------------------------
(***************************************************************************)
(* Proofs about ConfigBuilder, for any number of guests with any label     *)
(* sets: nothing published is taken back, TCP and UDP objects belong to    *)
(* the guest that owns their name, no guest's traffic lands in a service   *)
(* it has nothing to do with, a guest that leaves its names to the         *)
(* provider is served, and what the provider refers to of its own accord   *)
(* is there.                                                               *)
(***************************************************************************)
EXTENDS ConfigBuilder, Numbers, SequenceTheorems

-----------------------------------------------------------------------------
(* What is built for one guest *)

\* A guest has a first protocol as long as it has one.
LEMMA FirstProtocol ==
  ASSUME protocols \in SUBSET Protocols, protocols # {}
  PROVE  Proto \in protocols
<1> DEFINE first == IF "http" \in protocols THEN "http" ELSE IF "tcp" \in protocols THEN "tcp" ELSE "udp"
<1>1. \A q \in protocols : q \in {"http", "tcp", "udp"}
  BY DEF Protocols
<1>2. Turn["http"] = 1 /\ Turn["tcp"] = 2 /\ Turn["udp"] = 3
  BY DEF Turn
<1>3. first \in protocols
  BY <1>1
<1>4. \A q \in protocols : Turn[first] <= Turn[q]
  BY <1>1, <1>2
<1> QED  BY <1>3, <1>4 DEF Proto

\* The hosts of a guest make a difference to the servers of its services only,
\* and so does the transport that is attached.
LEMMA SettingsOfService ==
  ASSUME NEW s, NEW o, NEW hosts, NEW t
  PROVE  /\ "servers" \in DOMAIN Service(s, o, hosts)
         /\ Settings(Service(s, o, hosts)) = Settings(Service(s, o, {}))
         /\ o.protocol = "http" =>
              LET u == [Service(s, o, hosts) EXCEPT !.serversTransport = t] IN
              /\ "servers" \in DOMAIN u
              /\ u.servers = Service(s, o, hosts).servers
              /\ Settings(u) = Settings(Service(s, o, {}))
<1>1. CASE o.protocol = "http"
  BY <1>1 DEF Service, HTTPService, Settings
<1>2. CASE o.protocol = "tcp"
  BY <1>2 DEF Service, TCPService, Settings
<1>3. CASE o.protocol \notin {"http", "tcp"}
  BY <1>3 DEF Service, UDPService, Settings
<1> QED  BY <1>1, <1>2, <1>3

\* Services that agree on all but their servers have the same settings.
LEMMA CompatibleSettings ==
  ASSUME NEW s, NEW t, "servers" \in DOMAIN s, "servers" \in DOMAIN t, Compatible(s, t)
  PROVE  Settings(s) = Settings(t)
<1> DEFINE u == [s EXCEPT !.servers = {}]
           v == [t EXCEPT !.servers = {}]
<1>1. u = v
  BY DEF Compatible
<1>2. DOMAIN s = DOMAIN u /\ DOMAIN t = DOMAIN v
  OBVIOUS
<1>3. \A f \in DOMAIN s \ {"servers", "serversTransport"} : s[f] = u[f] /\ t[f] = v[f]
  BY <1>1, <1>2
<1> HIDE DEF u, v
<1> QED  BY <1>1, <1>2, <1>3 DEF Settings

\* A service only sends to the guest whose labels describe it.
LEMMA ServersOfGuest ==
  ASSUME NEW g \in Guests, labels \in [Guests -> LabelSets], NEW o
  PROVE  GuestsOf(Service(Labels(g), o, {<<g>>})) \subseteq {g}
<1> DEFINE s == Labels(g)
<1>1. \A key : StringValue(s, o, key) # Unset => \A h \in Guests : StringValue(s, o, key) # <<h>>
  BY BuilderAssumption DEF StringValue, ValueAt, Labels
<1>2. \A x \in Service(s, o, {<<g>>}).servers :
        x.host = <<g>> \/ \E key : x.host = StringValue(s, o, key) /\ StringValue(s, o, key) # Unset
  <2>1. \A x \in HTTPServers(s, o, {<<g>>}) :
          x.host = <<g>> \/ \E key : x.host = StringValue(s, o, key) /\ StringValue(s, o, key) # Unset
    BY DEF HTTPServers, ServerAt
  <2>2. \A x \in StreamServers(s, o, {<<g>>}) :
          x.host = <<g>> \/ \E key : x.host = StringValue(s, o, key) /\ StringValue(s, o, key) # Unset
    BY DEF StreamServers, ServerAt
  <2>3. Service(s, o, {<<g>>}).servers \in {HTTPServers(s, o, {<<g>>}), StreamServers(s, o, {<<g>>})}
    BY DEF Service, HTTPService, TCPService, UDPService
  <2> QED  BY <2>1, <2>2, <2>3
<1> HIDE DEF s
<1>3. \A h \in Guests : <<h>> = <<g>> => h = g
  OBVIOUS
<1> QED  BY <1>1, <1>2, <1>3 DEF GuestsOf, s

-----------------------------------------------------------------------------
(* The invariant.  The configuration is a map for each protocol, every      *)
(* object in it has a claimed name, and a name in a queue is one the guest  *)
(* gives in its labels or one that is claimed for it.                       *)

Steps == {"guest", "protocol", "services", "routers"}

Shape ==
  /\ labels \in [Guests -> LabelSets]
  /\ todo \in Seq(Guests)
  /\ protocols \in SUBSET Protocols
  /\ pc \in Steps
  /\ pc # "guest" => todo # <<>>
  /\ pc \in {"services", "routers"} => protocols # {} /\ serviceNames # {}
  /\ DOMAIN routers = Protocols
  /\ DOMAIN services = Protocols
  /\ DOMAIN routerOwner = Protocols
  /\ DOMAIN serviceOwner = Protocols

OwnedBy(owner) == \A n \in DOMAIN owner : owner[n] \in Guests

Owned ==
  /\ \A q \in Protocols :
       /\ OwnedBy(routerOwner[q])
       /\ OwnedBy(serviceOwner[q])
       /\ DOMAIN routers[q] \subseteq DOMAIN routerOwner[q]
       /\ DOMAIN services[q] \subseteq DOMAIN serviceOwner[q]
       /\ \A n \in DOMAIN services[q] : "servers" \in DOMAIN services[q][n]
  /\ DOMAIN transports \subseteq DOMAIN transportOwner

\* The guest has this name for its objects.
Entitled(n, owner, collection) ==
  /\ ExplicitOf(Guest, Proto, collection) # {} => n \in ExplicitOf(Guest, Proto, collection)
  /\ ExplicitOf(Guest, Proto, collection) = {} \/ Proto # "http" =>
       n \in DOMAIN owner /\ owner[n] = Guest

Queued ==
  pc \in {"services", "routers"} =>
    /\ \A n \in serviceQueue : Entitled(n, serviceOwner[Proto], "services")
    /\ \A n \in routerQueue : Entitled(n, routerOwner[Proto], "routers")

Inv == Shape /\ Owned /\ Queued /\ OwnersOnly /\ NoStrangers

-----------------------------------------------------------------------------
(* Claiming names *)

\* Claims are only added, and the guest gets those it may have.
LEMMA ClaimsAreKept ==
  ASSUME NEW owner, NEW names, NEW g
  PROVE  /\ Keeps(owner, Claimed(owner, names, g))
         /\ names \subseteq DOMAIN Claimed(owner, names, g)
         /\ DOMAIN Claimed(owner, names, g) = DOMAIN owner \cup names
         /\ \A n \in names : Claimable(owner, n, g) => Claimed(owner, names, g)[n] = g
         /\ g \in Guests /\ OwnedBy(owner) => OwnedBy(Claimed(owner, names, g))
BY DEF Claimed, Claimable, Keeps, OwnedBy

\* What ClaimNames makes of the claims of one kind: the names the guest gets,
\* and those of them that are claimed now.
Choice(names, now, owner, collection) ==
  /\ now \subseteq names
  /\ ExplicitOf(Guest, Proto, collection) # {} => names \subseteq ExplicitOf(Guest, Proto, collection)
  /\ ExplicitOf(Guest, Proto, collection) = {} \/ Proto # "http" =>
       now = names /\ \A n \in names : Claimable(owner, n, Guest)

LEMMA NamesAreChosen ==
  ASSUME NEW owner, NEW collection, NEW i \in DefaultsPassed(owner, Guest), NEW seen
  PROVE  LET explicit == ExplicitOf(Guest, Proto, collection)
             names == NamesFor(owner, explicit, seen, i)
         IN Choice(names, ClaimedNow(names, explicit), owner, collection)
<1>1. Claimable(owner, Candidate(Name(Guest), Guest, i), Guest)
  BY DEF DefaultsPassed, PassedOver
<1> QED  BY <1>1 DEF NamesFor, ClaimedNow, Choice

LEMMA ChosenAreEntitled ==
  ASSUME NEW owner, NEW collection, NEW names, NEW now, Choice(names, now, owner, collection),
         NEW n \in names
  PROVE  Entitled(n, Claimed(owner, now, Guest), collection)
BY ClaimsAreKept DEF Choice, Entitled

\* ClaimNames as the proofs see it.
LEMMA WhatClaimNamesDoes ==
  ASSUME ClaimNames, Shape
  PROVE  \E rs, rnow, ss, snow, ts :
           /\ Proto # "http" => ts = {}
           /\ Choice(rs, rnow, routerOwner[Proto], "routers")
           /\ Choice(ss, snow, serviceOwner[Proto], "services")
           /\ \A n \in ts : Claimable(transportOwner, n, Guest)
           /\ routerOwner' = [routerOwner EXCEPT ![Proto] = Claimed(@, rnow, Guest)]
           /\ serviceOwner' = [serviceOwner EXCEPT ![Proto] = Claimed(@, snow, Guest)]
           /\ transportOwner' = Claimed(transportOwner, ts, Guest)
           /\ \/ /\ protocols' = protocols \ {Proto}
                 /\ UNCHANGED <<pc, queues, transports>>
              \/ /\ ss # {} /\ pc' = "services" /\ protocols' = protocols
                 /\ serviceNames' = ss /\ serviceQueue' = ss /\ routerQueue' = rs
                 /\ DOMAIN transports' = DOMAIN transports \cup ts
                 /\ \A n \in DOMAIN transports \ ts : transports'[n] = transports[n]
<1> DEFINE er == ExplicitOf(Guest, Proto, "routers")
           es == ExplicitOf(Guest, Proto, "services")
           et == ExplicitOf(Guest, Proto, "serverstransports")
           sr == Seen(Guest, Proto, "routers")
           so == Seen(Guest, Proto, "services")
           rnames(i) == NamesFor(routerOwner[Proto], er, sr, i)
           snames(j) == NamesFor(serviceOwner[Proto], es, so, j)
           tnames == {n \in et : Claimable(transportOwner, n, Guest)}
<1>1. PICK i \in DefaultsPassed(routerOwner[Proto], Guest),
           j \in DefaultsPassed(serviceOwner[Proto], Guest) :
        /\ routerOwner' = [routerOwner EXCEPT ![Proto] = Claimed(@, ClaimedNow(rnames(i), er), Guest)]
        /\ serviceOwner' = [serviceOwner EXCEPT ![Proto] = Claimed(@, ClaimedNow(snames(j), es), Guest)]
        /\ transportOwner' = Claimed(transportOwner, tnames, Guest)
        /\ IF rnames(i) = {} \/ snames(j) = {}
           THEN protocols' = protocols \ {Proto} /\ UNCHANGED <<pc, queues, transports>>
           ELSE /\ pc' = "services" /\ serviceNames' = snames(j)
                /\ serviceQueue' = snames(j) /\ routerQueue' = rnames(i)
                /\ transports' = [n \in DOMAIN transports \cup tnames |->
                      IF n \in tnames
                      THEN ServersTransport(Labels(Guest), Object(Proto, "serverstransports", n))
                      ELSE transports[n]]
                /\ UNCHANGED protocols
  BY DEF ClaimNames
<1>2. Choice(rnames(i), ClaimedNow(rnames(i), er), routerOwner[Proto], "routers")
  BY NamesAreChosen
<1>3. Choice(snames(j), ClaimedNow(snames(j), es), serviceOwner[Proto], "services")
  BY NamesAreChosen
<1>4. /\ \A n \in tnames : Claimable(transportOwner, n, Guest)
      /\ Proto # "http" => tnames = {}
  <2>1. Guest \in Guests
    BY DEF Shape, Guest, ClaimNames
  <2>2. labels[Guest] \in LabelSets
    BY <2>1 DEF Shape
  <2>3. \A o \in DOMAIN labels[Guest].set.objects :
          o.collection = "serverstransports" => o.protocol = "http"
    BY <2>2, BuilderAssumption DEF WellFormed
  <2> QED  BY <2>3 DEF ExplicitOf, ExplicitNames, Labels
<1> HIDE DEF er, es, et, sr, so, rnames, snames, tnames
<1>5. CASE rnames(i) = {} \/ snames(j) = {}
  BY <1>1, <1>2, <1>3, <1>4, <1>5
<1>6. CASE ~(rnames(i) = {} \/ snames(j) = {})
  <2>1. /\ DOMAIN transports' = DOMAIN transports \cup tnames
        /\ \A n \in DOMAIN transports \ tnames : transports'[n] = transports[n]
    BY <1>1, <1>6
  <2> QED  BY <1>1, <1>2, <1>3, <1>4, <1>6, <2>1
<1> QED  BY <1>5, <1>6

-----------------------------------------------------------------------------
(* Frames: what a step keeps that leaves most of the configuration alone *)

LEMMA KeptQueues ==
  ASSUME Queued, pc \in {"services", "routers"},
         UNCHANGED <<labels, todo, protocols>>,
         serviceQueue' \subseteq serviceQueue, routerQueue' \subseteq routerQueue,
         Keeps(routerOwner[Proto], routerOwner'[Proto]),
         Keeps(serviceOwner[Proto], serviceOwner'[Proto])
  PROVE  Queued'
<1>1. Guest' = Guest /\ Proto' = Proto
  BY DEF Guest, Proto
<1>2. \A g, p, c : ExplicitOf(g, p, c)' = ExplicitOf(g, p, c)
  BY DEF ExplicitOf, Labels
<1>3. \A n \in serviceQueue : Entitled(n, serviceOwner[Proto], "services")
  BY DEF Queued
<1>4. \A n \in routerQueue : Entitled(n, routerOwner[Proto], "routers")
  BY DEF Queued
<1>5. ASSUME NEW n \in serviceQueue'  PROVE Entitled(n, serviceOwner[Proto], "services")'
  BY <1>1, <1>2, <1>3, <1>5 DEF Entitled, Keeps
<1>6. ASSUME NEW n \in routerQueue'  PROVE Entitled(n, routerOwner[Proto], "routers")'
  BY <1>1, <1>2, <1>4, <1>6 DEF Entitled, Keeps
<1> QED  BY <1>5, <1>6 DEF Queued

\* Objects stay with their owners when only claims are added.
LEMMA KeptObjects ==
  ASSUME Owned, OwnersOnly, NoStrangers, UNCHANGED <<labels, routers, services>>,
         \A q \in Protocols : /\ Keeps(routerOwner[q], routerOwner'[q])
                              /\ Keeps(serviceOwner[q], serviceOwner'[q])
  PROVE  OwnersOnly' /\ NoStrangers'
<1>1. OwnersOnly'
  <2>1. ASSUME NEW q \in {"tcp", "udp"}, NEW n \in DOMAIN routers'[q]
        PROVE  n \in DOMAIN routerOwner'[q] /\ routers'[q][n].from = routerOwner'[q][n]
    <3>1. q \in Protocols /\ n \in DOMAIN routers[q]
      BY DEF Protocols
    <3>2. n \in DOMAIN routerOwner[q] /\ routers[q][n].from = routerOwner[q][n]
      BY <3>1 DEF OwnersOnly
    <3> QED  BY <3>1, <3>2 DEF Keeps
  <2>2. ASSUME NEW q \in {"tcp", "udp"}, NEW n \in DOMAIN services'[q],
               NEW g \in GuestsOf(services'[q][n])
        PROVE  n \in DOMAIN serviceOwner'[q] /\ g = serviceOwner'[q][n]
    <3>1. q \in Protocols /\ n \in DOMAIN services[q] /\ g \in GuestsOf(services[q][n])
      BY DEF Protocols
    <3>2. n \in DOMAIN serviceOwner[q] /\ g = serviceOwner[q][n]
      BY <3>1 DEF OwnersOnly
    <3> QED  BY <3>1, <3>2 DEF Keeps
  <2>3. \A g : GuestsOf(g)' = GuestsOf(g)
    BY DEF GuestsOf
  <2> QED  BY <2>1, <2>2, <2>3 DEF OwnersOnly
<1>2. \A g, p, c : ExplicitOf(g, p, c)' = ExplicitOf(g, p, c)
  BY DEF ExplicitOf, Labels
<1>3. \A g : Labels(g)' = Labels(g)
  BY DEF Labels
<1>4. \A q \in Protocols : \A n \in DOMAIN services[q] : serviceOwner'[q][n] = serviceOwner[q][n]
  BY DEF Owned, Keeps
<1>5. NoStrangers'
  BY <1>2, <1>3, <1>4 DEF NoStrangers
<1> QED  BY <1>1, <1>5

-----------------------------------------------------------------------------
(* The initial configuration *)

LEMMA InitInv == Init => Inv
<1> SUFFICES ASSUME Init PROVE Inv
  OBVIOUS
<1>1. \A q \in Protocols : /\ DOMAIN routers[q] = {} /\ DOMAIN services[q] = {}
                           /\ DOMAIN routerOwner[q] = {} /\ DOMAIN serviceOwner[q] = {}
  BY DEF Init, Empty
<1>2. DOMAIN transports = {}
  BY DEF Init, Empty
<1>3. Shape
  BY BuilderAssumption DEF Init, Shape, Steps
<1>4. Owned
  BY <1>1, <1>2 DEF Owned, OwnedBy
<1>5. Queued
  BY DEF Init, Queued
<1>6. OwnersOnly
  BY <1>1 DEF OwnersOnly, Protocols
<1>7. NoStrangers
  BY <1>1 DEF NoStrangers
<1> QED  BY <1>3, <1>4, <1>5, <1>6, <1>7 DEF Inv

-----------------------------------------------------------------------------
(* The steps *)

LEMMA ClaimNamesKeepsInv ==
  ASSUME Inv, ClaimNames
  PROVE  Inv'
<1> USE DEF Inv
<1>1. PICK rs, rnow, ss, snow, ts :
           /\ Proto # "http" => ts = {}
           /\ Choice(rs, rnow, routerOwner[Proto], "routers")
           /\ Choice(ss, snow, serviceOwner[Proto], "services")
           /\ \A n \in ts : Claimable(transportOwner, n, Guest)
           /\ routerOwner' = [routerOwner EXCEPT ![Proto] = Claimed(@, rnow, Guest)]
           /\ serviceOwner' = [serviceOwner EXCEPT ![Proto] = Claimed(@, snow, Guest)]
           /\ transportOwner' = Claimed(transportOwner, ts, Guest)
           /\ \/ /\ protocols' = protocols \ {Proto}
                 /\ UNCHANGED <<pc, queues, transports>>
              \/ /\ ss # {} /\ pc' = "services" /\ protocols' = protocols
                 /\ serviceNames' = ss /\ serviceQueue' = ss /\ routerQueue' = rs
                 /\ DOMAIN transports' = DOMAIN transports \cup ts
                 /\ \A n \in DOMAIN transports \ ts : transports'[n] = transports[n]
  BY WhatClaimNamesDoes
<1>2. pc = "protocol" /\ protocols # {} /\ UNCHANGED <<labels, todo, routers, services>>
  BY DEF ClaimNames
<1>3. Proto \in Protocols /\ Guest \in Guests
  BY <1>2, FirstProtocol DEF Shape, Guest
<1>4. Shape'
  BY <1>1, <1>2, <1>3 DEF Shape, queues, Steps
<1>5. \A q \in Protocols : /\ Keeps(routerOwner[q], routerOwner'[q])
                           /\ Keeps(serviceOwner[q], serviceOwner'[q])
  <2>1. ASSUME NEW q \in Protocols, q = Proto
        PROVE  /\ Keeps(routerOwner[q], routerOwner'[q])
               /\ Keeps(serviceOwner[q], serviceOwner'[q])
    <3>1. /\ routerOwner'[q] = Claimed(routerOwner[q], rnow, Guest)
          /\ serviceOwner'[q] = Claimed(serviceOwner[q], snow, Guest)
      BY <1>1, <2>1 DEF Shape
    <3>2. /\ Keeps(routerOwner[q], Claimed(routerOwner[q], rnow, Guest))
          /\ Keeps(serviceOwner[q], Claimed(serviceOwner[q], snow, Guest))
      BY ClaimsAreKept
    <3> QED  BY <3>1, <3>2
  <2>2. ASSUME NEW q \in Protocols, q # Proto
        PROVE  routerOwner'[q] = routerOwner[q] /\ serviceOwner'[q] = serviceOwner[q]
    BY <1>1, <2>2 DEF Shape
  <2> QED  BY <2>1, <2>2 DEF Keeps
<1>6. \A q \in Protocols : OwnedBy(routerOwner'[q]) /\ OwnedBy(serviceOwner'[q])
  BY <1>1, <1>3, ClaimsAreKept DEF Shape, Owned
<1>7. DOMAIN transports' \subseteq DOMAIN transportOwner'
  BY <1>1, ClaimsAreKept DEF Owned, Keeps
<1>8. Owned'
  BY <1>2, <1>5, <1>6, <1>7 DEF Owned, Keeps, OwnedBy
<1>9. OwnersOnly' /\ NoStrangers'
  BY <1>2, <1>5, KeptObjects
<1>10. Queued'
  <2>1. CASE pc' \in {"services", "routers"}
    <3>1. serviceQueue' = ss /\ routerQueue' = rs /\ protocols' = protocols
      BY <1>1, <1>2, <2>1
    <3>2. Guest' = Guest /\ Proto' = Proto
      BY <1>2, <3>1 DEF Guest, Proto
    <3>3. \A g, p, c : ExplicitOf(g, p, c)' = ExplicitOf(g, p, c)
      BY <1>2 DEF ExplicitOf, Labels
    <3>4. /\ serviceOwner'[Proto] = Claimed(serviceOwner[Proto], snow, Guest)
          /\ routerOwner'[Proto] = Claimed(routerOwner[Proto], rnow, Guest)
      BY <1>1, <1>3 DEF Shape
    <3>5. \A n \in ss : Entitled(n, Claimed(serviceOwner[Proto], snow, Guest), "services")
      BY <1>1, ChosenAreEntitled
    <3>6. \A n \in rs : Entitled(n, Claimed(routerOwner[Proto], rnow, Guest), "routers")
      BY <1>1, ChosenAreEntitled
    <3>7. ASSUME NEW n \in serviceQueue'  PROVE Entitled(n, serviceOwner[Proto], "services")'
      BY <3>1, <3>2, <3>3, <3>4, <3>5, <3>7 DEF Entitled
    <3>8. ASSUME NEW n \in routerQueue'  PROVE Entitled(n, routerOwner[Proto], "routers")'
      BY <3>1, <3>2, <3>3, <3>4, <3>6, <3>8 DEF Entitled
    <3> QED  BY <3>7, <3>8 DEF Queued
  <2>2. CASE pc' \notin {"services", "routers"}
    BY <2>2 DEF Queued
  <2> QED  BY <2>1, <2>2
<1> QED  BY <1>4, <1>8, <1>9, <1>10

LEMMA BetweenObjectsKeepsInv ==
  ASSUME Inv, BeginGuest \/ EndGuest \/ EndServices \/ EndRouters \/ UNCHANGED vars
  PROVE  Inv'
<1> USE DEF Inv
<1>1. UNCHANGED <<labels, objects, claims>>
  BY DEF BeginGuest, EndGuest, EndServices, EndRouters, vars
<1>2. Owned'
  BY <1>1 DEF Owned, OwnedBy, objects, claims
<1>3. \A q \in Protocols : /\ Keeps(routerOwner[q], routerOwner'[q])
                           /\ Keeps(serviceOwner[q], serviceOwner'[q])
  BY <1>1 DEF Keeps, claims
<1>4. OwnersOnly' /\ NoStrangers'
  BY <1>1, <1>3, KeptObjects DEF objects
<1>5. Shape' /\ Queued'
  <2>1. CASE BeginGuest
    <3>1. \A s : ProtocolsOf(s) \subseteq Protocols
      BY DEF ProtocolsOf
    <3>2. pc = "guest" /\ pc' = "protocol" /\ todo # <<>> /\ UNCHANGED <<labels, todo, queues>>
      BY <2>1 DEF BeginGuest
    <3>3. protocols' \subseteq Protocols
      BY <2>1, <3>1 DEF BeginGuest
    <3>4. Shape'
      BY <1>1, <3>2, <3>3 DEF Shape, Steps, objects, claims
    <3> QED  BY <3>2, <3>4 DEF Queued
  <2>2. CASE EndGuest
    <3>1. todo' \in Seq(Guests)
      BY <2>2 DEF EndGuest, Shape
    <3> QED  BY <1>1, <2>2, <3>1 DEF EndGuest, Shape, Queued, Steps, objects, claims
  <2>3. CASE EndServices
    <3>1. Shape'
      BY <1>1, <2>3 DEF EndServices, Shape, Steps, queues, objects, claims
    <3>2. Proto \in Protocols
      BY <2>3, FirstProtocol DEF EndServices, Shape
    <3>3. Queued'
      BY <1>3, <2>3, <3>2, KeptQueues DEF EndServices, queues
    <3> QED  BY <3>1, <3>3
  <2>4. CASE EndRouters
    BY <1>1, <2>4 DEF EndRouters, Shape, Queued, Steps, queues, objects, claims
  <2>5. CASE UNCHANGED vars
    <3>1. Shape'
      BY <2>5 DEF vars, Shape, objects, claims, queues
    <3>2. CASE pc \in {"services", "routers"}
      <4>1. Proto \in Protocols
        BY <3>2, FirstProtocol DEF Shape
      <4> QED  BY <1>3, <2>5, <3>1, <3>2, <4>1, KeptQueues DEF vars, queues
    <3>3. CASE pc \notin {"services", "routers"}
      BY <2>5, <3>1, <3>3 DEF vars, Queued
    <3> QED  BY <3>1, <3>2, <3>3
  <2> QED  BY <2>1, <2>2, <2>3, <2>4, <2>5
<1> QED  BY <1>2, <1>4, <1>5

-----------------------------------------------------------------------------
(* The steps that add a service *)

\* A service is added, or one is changed, and all others are kept.
OneService(name, t) ==
  /\ DOMAIN services' = Protocols
  /\ \A q \in Protocols \ {Proto} : services'[q] = services[q]
  /\ DOMAIN services'[Proto] = DOMAIN services[Proto] \cup {name}
  /\ \A n \in DOMAIN services[Proto] \ {name} : services'[Proto][n] = services[Proto][n]
  /\ services'[Proto][name] = t

\* What NoStrangers asks of a guest in a service.
Belongs(g, q, n, service, owner) ==
  IF ExplicitOf(g, q, "services") = {} THEN g = owner[n]
  ELSE /\ n \in ExplicitOf(g, q, "services")
       /\ Settings(Service(Labels(g), Object(q, "services", n), {})) = Settings(service)

LEMMA OneServiceKeepsObjects ==
  ASSUME Inv, UNCHANGED <<labels, routers, routerOwner>>, Proto \in Protocols,
         NEW name, NEW t, OneService(name, t), "servers" \in DOMAIN t,
         \A q \in Protocols : Keeps(serviceOwner[q], serviceOwner'[q]) /\ OwnedBy(serviceOwner'[q]),
         name \in DOMAIN serviceOwner'[Proto],
         DOMAIN transports' \subseteq DOMAIN transportOwner',
         \A g \in GuestsOf(t) : /\ Belongs(g, Proto, name, t, serviceOwner'[Proto])
                                /\ Proto # "http" => g = serviceOwner'[Proto][name]
  PROVE  Owned' /\ OwnersOnly' /\ NoStrangers'
<1> USE DEF Inv
<1>1. ASSUME NEW q \in Protocols, NEW n \in DOMAIN services'[q]
      PROVE  /\ n \in DOMAIN serviceOwner'[q]
             /\ "servers" \in DOMAIN services'[q][n]
             /\ \/ q = Proto /\ n = name /\ services'[q][n] = t
                \/ /\ n \in DOMAIN services[q] /\ services'[q][n] = services[q][n]
                   /\ serviceOwner'[q][n] = serviceOwner[q][n]
  BY <1>1 DEF OneService, Owned, Keeps
<1>2. Owned'
  <2>1. \A q \in Protocols : OwnedBy(serviceOwner[q])'
    BY DEF OwnedBy
  <2>2. \A q \in Protocols : OwnedBy(routerOwner[q])'
    BY DEF OwnedBy, Owned
  <2>3. \A q \in Protocols : DOMAIN routers'[q] \subseteq DOMAIN routerOwner'[q]
    BY DEF Owned
  <2> QED  BY <1>1, <2>1, <2>2, <2>3 DEF Owned
<1>3. \A s : GuestsOf(s)' = GuestsOf(s)
  BY DEF GuestsOf
<1>4. OwnersOnly'
  <2>1. ASSUME NEW q \in {"tcp", "udp"}, NEW n \in DOMAIN services'[q],
               NEW g \in GuestsOf(services'[q][n])
        PROVE  n \in DOMAIN serviceOwner'[q] /\ g = serviceOwner'[q][n]
    <3>1. q \in Protocols /\ q # "http"
      BY DEF Protocols
    <3>2. CASE q = Proto /\ n = name /\ services'[q][n] = t
      BY <1>1, <3>1, <3>2
    <3>3. CASE /\ n \in DOMAIN services[q] /\ services'[q][n] = services[q][n]
               /\ serviceOwner'[q][n] = serviceOwner[q][n]
      BY <1>1, <3>1, <3>3 DEF OwnersOnly
    <3> QED  BY <1>1, <3>1, <3>2, <3>3
  <2>2. ASSUME NEW q \in {"tcp", "udp"}, NEW n \in DOMAIN routers'[q]
        PROVE  n \in DOMAIN routerOwner'[q] /\ routers'[q][n].from = routerOwner'[q][n]
    BY DEF OwnersOnly
  <2> QED  BY <1>3, <2>1, <2>2 DEF OwnersOnly
<1>5. NoStrangers'
  <2>1. ASSUME NEW q \in Protocols, NEW n \in DOMAIN services'[q],
               NEW g \in GuestsOf(services'[q][n])
        PROVE  Belongs(g, q, n, services'[q][n], serviceOwner'[q])
    <3>1. CASE q = Proto /\ n = name /\ services'[q][n] = t
      BY <3>1
    <3>2. CASE /\ n \in DOMAIN services[q] /\ services'[q][n] = services[q][n]
               /\ serviceOwner'[q][n] = serviceOwner[q][n]
      BY <3>2 DEF NoStrangers, Belongs
    <3> QED  BY <1>1, <3>1, <3>2
  <2>2. \A g, p, c : ExplicitOf(g, p, c)' = ExplicitOf(g, p, c)
    BY DEF ExplicitOf, Labels
  <2>3. \A g : Labels(g)' = Labels(g)
    BY DEF Labels
  <2> QED  BY <1>3, <2>1, <2>2, <2>3 DEF NoStrangers, Belongs
<1> QED  BY <1>2, <1>4, <1>5

\* What the labels of the guest describe belongs where its names are.
LEMMA DescribedBelongs ==
  ASSUME Inv, pc = "services", Proto \in Protocols, NEW name \in serviceQueue,
         NEW t, NEW owner, Keeps(serviceOwner[Proto], owner),
         Settings(t) = Settings(Service(Labels(Guest), Object(Proto, "services", name), {}))
  PROVE  /\ Belongs(Guest, Proto, name, t, owner)
         /\ Proto # "http" => Guest = owner[name]
<1>1. Entitled(name, serviceOwner[Proto], "services")
  BY DEF Inv, Queued
<1> QED  BY <1>1 DEF Entitled, Belongs, Keeps

LEMMA DescribedService ==
  ASSUME Inv, pc = "services", NEW name, NEW transport
  PROVE  /\ Guest \in Guests
         /\ Proto \in Protocols
         /\ "servers" \in DOMAIN Described(name)
         /\ GuestsOf(Described(name)) \subseteq {Guest}
         /\ Settings(Described(name)) =
              Settings(Service(Labels(Guest), Object(Proto, "services", name), {}))
         /\ Proto = "http" =>
              LET s == HTTPServiceFor(name, transport) IN
              /\ "servers" \in DOMAIN s
              /\ GuestsOf(s) \subseteq {Guest}
              /\ Settings(s) = Settings(Service(Labels(Guest), Object(Proto, "services", name), {}))
<1> DEFINE o == Object(Proto, "services", name)
           d == Service(Labels(Guest), o, {<<Guest>>})
<1>1. Guest \in Guests /\ Proto \in Protocols
  BY FirstProtocol DEF Inv, Shape, Guest
<1>2. Described(name) = d
  BY DEF Described, ServiceObject
<1>3. "servers" \in DOMAIN d /\ Settings(d) = Settings(Service(Labels(Guest), o, {}))
  BY SettingsOfService
<1>4. GuestsOf(d) \subseteq {Guest}
  BY <1>1, ServersOfGuest DEF Inv, Shape
<1>5. ASSUME Proto = "http"
      PROVE  LET s == HTTPServiceFor(name, transport) IN
             /\ "servers" \in DOMAIN s
             /\ GuestsOf(s) \subseteq {Guest}
             /\ Settings(s) = Settings(Service(Labels(Guest), o, {}))
  <2> DEFINE u == [d EXCEPT !.serversTransport = transport]
  <2>1. o.protocol = "http"
    BY <1>5 DEF Object
  <2>2. /\ "servers" \in DOMAIN u /\ u.servers = d.servers
        /\ Settings(u) = Settings(Service(Labels(Guest), o, {}))
    <3> HIDE DEF o
    <3> QED  BY <2>1, SettingsOfService
  <2>3. GuestsOf(u) = GuestsOf(d)
    <3> HIDE DEF d, u
    <3> QED  BY <2>2 DEF GuestsOf
  <2>4. HTTPServiceFor(name, transport) \in {d, u}
    BY <1>2 DEF HTTPServiceFor
  <2> HIDE DEF d, u
  <2> QED  BY <1>3, <1>4, <2>2, <2>3, <2>4
<1> QED  BY <1>1, <1>2, <1>3, <1>4, <1>5

\* A transport is attached by adding it, never by changing one.
LEMMA AttachingKeepsTransports ==
  ASSUME NEW name, NEW t, AttachTransport(name, t)
  PROVE  /\ Keeps(transports, transports')
         /\ Keeps(transportOwner, transportOwner')
         /\ DOMAIN transports \subseteq DOMAIN transportOwner =>
              DOMAIN transports' \subseteq DOMAIN transportOwner'
<1>1. CASE UNCHANGED <<transports, transportOwner>>
  BY <1>1 DEF Keeps
<1>2. CASE /\ t \notin DOMAIN transports
           /\ transports' = With(transports, t, InsecureServersTransport)
           /\ transportOwner' = Claimed(transportOwner, {t}, Guest)
  <2>1. Keeps(transports, transports') /\ DOMAIN transports' = DOMAIN transports \cup {t}
    BY <1>2 DEF With, Keeps
  <2>2. Keeps(transportOwner, transportOwner') /\ DOMAIN transportOwner' = DOMAIN transportOwner \cup {t}
    BY <1>2 DEF Claimed, Keeps
  <2> QED  BY <2>1, <2>2
<1> QED  BY <1>1, <1>2 DEF AttachTransport

\* AddHTTPService as the proofs see it: t is the transport that is attached.
AddsHTTPService(name, t, refused) ==
  /\ \/ NewService(name, HTTPServiceFor(name, t), refused)
     \/ MergeService(name, HTTPServiceFor(name, t), refused)
     \/ SkipService(name, HTTPServiceFor(name, t), refused)
  /\ AttachTransport(name, t)
  /\ Attaches(name) => AttachableTransport(t)
  /\ serviceQueue' = serviceQueue \ {name}

LEMMA WhatAddHTTPServiceDoes ==
  ASSUME AddHTTPService
  PROVE  \E name \in serviceQueue : \E t, refused : AddsHTTPService(name, t, refused)
<1>1. PICK name \in serviceQueue : \E j \in IF Attaches(name) THEN TransportsPassed(name) ELSE {0} :
        LET t == TransportCandidate(name, j)
            s == HTTPServiceFor(name, t)
            refused == TransportRefusals(name, j) IN
        /\ \/ NewService(name, s, refused)
           \/ MergeService(name, s, refused)
           \/ SkipService(name, s, refused)
        /\ AttachTransport(name, t)
        /\ serviceQueue' = serviceQueue \ {name}
  BY DEF AddHTTPService
<1>2. \A j \in TransportsPassed(name) : AttachableTransport(TransportCandidate(name, j))
  BY DEF TransportsPassed, PassedOver, TransportCandidate
<1> QED  BY <1>1, <1>2 DEF AddsHTTPService

LEMMA AddHTTPServiceKeepsInv ==
  ASSUME Inv, AddHTTPService
  PROVE  Inv'
<1> USE DEF Inv
<1>1. pc = "services" /\ Proto = "http"
  BY DEF AddHTTPService
<1>2. PICK name \in serviceQueue : \E tr, refused : AddsHTTPService(name, tr, refused)
  BY WhatAddHTTPServiceDoes
<1>added. PICK tr, refused :
        /\ \/ NewService(name, HTTPServiceFor(name, tr), refused)
           \/ MergeService(name, HTTPServiceFor(name, tr), refused)
           \/ SkipService(name, HTTPServiceFor(name, tr), refused)
        /\ AttachTransport(name, tr)
        /\ serviceQueue' = serviceQueue \ {name}
  BY <1>2 DEF AddsHTTPService
<1>3. UNCHANGED <<labels, todo, protocols, pc, serviceNames, routerQueue, routers, routerOwner>>
  BY DEF AddHTTPService
<1> DEFINE s == HTTPServiceFor(name, tr)
<1>4. /\ Guest \in Guests /\ "http" \in Protocols
      /\ "servers" \in DOMAIN s
      /\ GuestsOf(s) \subseteq {Guest}
      /\ Settings(s) = Settings(Service(Labels(Guest), Object(Proto, "services", name), {}))
  BY <1>1, DescribedService
<1>5. DOMAIN transports' \subseteq DOMAIN transportOwner'
  BY <1>added, AttachingKeepsTransports DEF Owned
<1> HIDE DEF s
<1>6. \A q \in Protocols : Keeps(routerOwner[q], routerOwner'[q])
  BY <1>3 DEF Keeps
<1>7. CASE NewService(name, s, refused)
  <2>1. /\ name \notin DOMAIN services["http"]
        /\ services' = [services EXCEPT !["http"] = With(@, name, s)]
        /\ serviceOwner' = [serviceOwner EXCEPT !["http"] = Claimed(@, {name}, Guest)]
    BY <1>7 DEF NewService
  <2>2. OneService(name, s)
    BY <1>1, <1>4, <2>1 DEF OneService, Shape, With
  <2>3. /\ serviceOwner'["http"] = Claimed(serviceOwner["http"], {name}, Guest)
        /\ \A q \in Protocols \ {"http"} : serviceOwner'[q] = serviceOwner[q]
        /\ DOMAIN serviceOwner' = Protocols
    BY <1>4, <2>1 DEF Shape
  <2>4. \A q \in Protocols : Keeps(serviceOwner[q], serviceOwner'[q])
    <3>1. Keeps(serviceOwner["http"], Claimed(serviceOwner["http"], {name}, Guest))
      BY ClaimsAreKept
    <3> QED  BY <2>3, <3>1 DEF Keeps
  <2>5. \A q \in Protocols : OwnedBy(serviceOwner'[q])
    <3>1. OwnedBy(Claimed(serviceOwner["http"], {name}, Guest))
      BY <1>4, ClaimsAreKept DEF Owned
    <3> QED  BY <2>3, <3>1 DEF Owned
  <2>6. name \in DOMAIN serviceOwner'["http"]
    BY <2>3 DEF Claimed
  <2>7. Belongs(Guest, Proto, name, s, serviceOwner'[Proto])
    BY <1>1, <1>4, <2>4, DescribedBelongs
  <2>8. Owned' /\ OwnersOnly' /\ NoStrangers'
    BY <1>1, <1>3, <1>4, <1>5, <2>2, <2>4, <2>5, <2>6, <2>7, OneServiceKeepsObjects
  <2>9. Shape'
    BY <1>3, <2>2, <2>3 DEF Shape, OneService, Steps
  <2>10. Queued'
    BY <1>1, <1>added, <1>3, <1>4, <1>6, <2>4, KeptQueues
  <2> QED  BY <2>8, <2>9, <2>10
<1>8. CASE MergeService(name, s, refused)
  <2> DEFINE old == services["http"][name]
             t == Merged(old, s)
  <2>1. /\ name \in DOMAIN services["http"] /\ Compatible(old, s)
        /\ services' = [services EXCEPT !["http"] = With(@, name, t)]
        /\ UNCHANGED serviceOwner
    BY <1>8 DEF MergeService
  <2>2. OneService(name, t)
    BY <1>1, <1>4, <2>1 DEF OneService, Shape, With
  <2>3. "servers" \in DOMAIN old
    BY <1>4, <2>1 DEF Owned
  <2>4. "servers" \in DOMAIN t /\ t.servers = old.servers \cup s.servers
    BY <2>3 DEF Merged
  <2>5. Settings(t) = Settings(old) /\ Settings(old) = Settings(s)
    <3>1. Compatible(old, t)
      BY <2>3 DEF Compatible, Merged
    <3> HIDE DEF old, t
    <3> QED  BY <1>4, <2>1, <2>3, <2>4, <3>1, CompatibleSettings
  <2>6. \A q \in Protocols : Keeps(serviceOwner[q], serviceOwner'[q]) /\ OwnedBy(serviceOwner'[q])
    BY <2>1 DEF Keeps, Owned
  <2>7. name \in DOMAIN serviceOwner'["http"]
    BY <1>4, <2>1 DEF Owned
  <2>8. ASSUME NEW g \in GuestsOf(t)  PROVE Belongs(g, Proto, name, t, serviceOwner'[Proto])
    <3>1. g \in GuestsOf(old) \/ g \in GuestsOf(s)
      <4> HIDE DEF old, t
      <4> QED  BY <2>4, <2>8 DEF GuestsOf
    <3>2. CASE g \in GuestsOf(old)
      <4>1. Belongs(g, Proto, name, old, serviceOwner[Proto])
        BY <1>1, <1>4, <2>1, <3>2 DEF NoStrangers, Belongs
      <4> HIDE DEF old, t
      <4> QED  BY <2>1, <2>5, <4>1 DEF Belongs
    <3>3. CASE g \in GuestsOf(s)
      <4>1. g = Guest
        BY <1>4, <3>3
      <4> HIDE DEF old, t
      <4> QED  BY <1>1, <1>4, <2>5, <2>6, <4>1, DescribedBelongs
    <3> QED  BY <3>1, <3>2, <3>3
  <2> HIDE DEF old, t
  <2>9. Owned' /\ OwnersOnly' /\ NoStrangers'
    BY <1>1, <1>3, <1>4, <1>5, <2>2, <2>4, <2>6, <2>7, <2>8, OneServiceKeepsObjects
  <2>10. Shape'
    BY <1>3, <2>1, <2>2 DEF Shape, OneService, Steps
  <2>11. Queued'
    BY <1>1, <1>added, <1>3, <1>4, <1>6, <2>6, KeptQueues
  <2> QED  BY <2>9, <2>10, <2>11
<1>9. CASE SkipService(name, s, refused)
  <2>1. UNCHANGED <<services, serviceOwner>>
    BY <1>9 DEF SkipService
  <2>2. \A q \in Protocols : Keeps(serviceOwner[q], serviceOwner'[q])
    BY <2>1 DEF Keeps
  <2>3. Shape'
    BY <1>3, <2>1 DEF Shape
  <2>4. Owned'
    BY <1>3, <1>5, <2>1 DEF Owned, OwnedBy
  <2>5. OwnersOnly' /\ NoStrangers'
    BY <1>3, <1>6, <2>1, <2>2, KeptObjects
  <2>6. Queued'
    BY <1>1, <1>added, <1>3, <1>4, <1>6, <2>2, KeptQueues
  <2> QED  BY <2>3, <2>4, <2>5, <2>6
<1> QED  BY <1>added, <1>7, <1>8, <1>9 DEF s

LEMMA AddServiceKeepsInv ==
  ASSUME Inv, AddService
  PROVE  Inv'
<1> USE DEF Inv
<1>1. pc = "services" /\ Proto # "http"
  BY DEF AddService
<1>2. PICK name \in serviceQueue :
        /\ services' = [services EXCEPT ![Proto] = With(@, name, Described(name))]
        /\ serviceQueue' = serviceQueue \ {name}
  BY DEF AddService
<1>3. UNCHANGED <<labels, todo, protocols, pc, serviceNames, routerQueue, routers, transports, claims>>
  BY DEF AddService
<1> DEFINE s == Described(name)
<1>4. /\ Guest \in Guests /\ Proto \in Protocols
      /\ "servers" \in DOMAIN s
      /\ GuestsOf(s) \subseteq {Guest}
      /\ Settings(s) = Settings(Service(Labels(Guest), Object(Proto, "services", name), {}))
  BY <1>1, DescribedService
<1> HIDE DEF s
<1>5. OneService(name, s)
  BY <1>2, <1>4 DEF OneService, Shape, With, s
<1>6. \A q \in Protocols : /\ Keeps(routerOwner[q], routerOwner'[q])
                           /\ Keeps(serviceOwner[q], serviceOwner'[q])
                           /\ OwnedBy(serviceOwner'[q])
  BY <1>3 DEF Keeps, Owned, claims
<1>7. Belongs(Guest, Proto, name, s, serviceOwner'[Proto]) /\ Guest = serviceOwner'[Proto][name]
  BY <1>1, <1>4, <1>6, DescribedBelongs
<1>8. name \in DOMAIN serviceOwner'[Proto]
  BY <1>1, <1>3 DEF Queued, Entitled, claims
<1>9. DOMAIN transports' \subseteq DOMAIN transportOwner'
  BY <1>3 DEF Owned, claims
<1>10. Owned' /\ OwnersOnly' /\ NoStrangers'
  BY <1>3, <1>4, <1>5, <1>6, <1>7, <1>8, <1>9, OneServiceKeepsObjects DEF claims
<1>11. Shape'
  BY <1>3, <1>5 DEF Shape, OneService, Steps, claims
<1>12. Queued'
  BY <1>1, <1>2, <1>3, <1>4, <1>6, KeptQueues
<1> QED  BY <1>10, <1>11, <1>12

-----------------------------------------------------------------------------
(* The steps that add a router *)

OneRouter(name, r) ==
  /\ DOMAIN routers' = Protocols
  /\ \A q \in Protocols \ {Proto} : routers'[q] = routers[q]
  /\ DOMAIN routers'[Proto] = DOMAIN routers[Proto] \cup {name}
  /\ \A n \in DOMAIN routers[Proto] \ {name} : routers'[Proto][n] = routers[Proto][n]
  /\ routers'[Proto][name] = r

LEMMA OneRouterKeepsObjects ==
  ASSUME Inv, UNCHANGED <<labels, services, serviceOwner, transports, transportOwner>>,
         Proto \in Protocols,
         NEW name, NEW r, OneRouter(name, r),
         \A q \in Protocols : Keeps(routerOwner[q], routerOwner'[q]) /\ OwnedBy(routerOwner'[q]),
         name \in DOMAIN routerOwner'[Proto],
         Proto # "http" => r.from = routerOwner'[Proto][name]
  PROVE  Owned' /\ OwnersOnly' /\ NoStrangers'
<1> USE DEF Inv
<1>1. ASSUME NEW q \in Protocols, NEW n \in DOMAIN routers'[q]
      PROVE  /\ n \in DOMAIN routerOwner'[q]
             /\ \/ q = Proto /\ n = name /\ routers'[q][n] = r
                \/ /\ n \in DOMAIN routers[q] /\ routers'[q][n] = routers[q][n]
                   /\ routerOwner'[q][n] = routerOwner[q][n]
  BY <1>1 DEF OneRouter, Owned, Keeps
<1>2. Owned'
  <2>1. \A q \in Protocols : OwnedBy(routerOwner[q])'
    BY DEF OwnedBy
  <2>2. \A q \in Protocols : OwnedBy(serviceOwner[q])'
    BY DEF OwnedBy, Owned
  <2> QED  BY <1>1, <2>1, <2>2 DEF Owned
<1>3. \A s : GuestsOf(s)' = GuestsOf(s)
  BY DEF GuestsOf
<1>4. OwnersOnly'
  <2>1. ASSUME NEW q \in {"tcp", "udp"}, NEW n \in DOMAIN routers'[q]
        PROVE  n \in DOMAIN routerOwner'[q] /\ routers'[q][n].from = routerOwner'[q][n]
    <3>1. q \in Protocols /\ q # "http"
      BY DEF Protocols
    <3>2. CASE q = Proto /\ n = name /\ routers'[q][n] = r
      BY <1>1, <3>1, <3>2
    <3>3. CASE /\ n \in DOMAIN routers[q] /\ routers'[q][n] = routers[q][n]
               /\ routerOwner'[q][n] = routerOwner[q][n]
      BY <1>1, <3>1, <3>3 DEF OwnersOnly
    <3> QED  BY <1>1, <3>1, <3>2, <3>3
  <2>2. ASSUME NEW q \in {"tcp", "udp"}, NEW n \in DOMAIN services'[q],
               NEW g \in GuestsOf(services'[q][n])
        PROVE  n \in DOMAIN serviceOwner'[q] /\ g = serviceOwner'[q][n]
    BY DEF OwnersOnly
  <2> QED  BY <1>3, <2>1, <2>2 DEF OwnersOnly
<1>5. NoStrangers'
  <2>1. \A g, p, c : ExplicitOf(g, p, c)' = ExplicitOf(g, p, c)
    BY DEF ExplicitOf, Labels
  <2>2. \A g : Labels(g)' = Labels(g)
    BY DEF Labels
  <2> QED  BY <1>3, <2>1, <2>2 DEF NoStrangers
<1> QED  BY <1>2, <1>4, <1>5

LEMMA AddHTTPRouterKeepsInv ==
  ASSUME Inv, AddHTTPRouter
  PROVE  Inv'
<1> USE DEF Inv
<1>1. pc = "routers" /\ Proto = "http"
  BY DEF AddHTTPRouter
<1>2. PICK name \in routerQueue :
        /\ NewRouter(name, RouterFor(name)) \/ KeepRouter(name)
        /\ routerQueue' = routerQueue \ {name}
  BY DEF AddHTTPRouter
<1>3. UNCHANGED <<labels, todo, protocols, pc, serviceNames, serviceQueue,
                  services, transports, serviceOwner, transportOwner>>
  BY DEF AddHTTPRouter
<1>4. Guest \in Guests /\ "http" \in Protocols
  BY <1>1, FirstProtocol DEF Shape, Guest
<1>5. \A q \in Protocols : Keeps(serviceOwner[q], serviceOwner'[q])
  BY <1>3 DEF Keeps
<1> DEFINE r == RouterFor(name)
<1> HIDE DEF r
<1>6. CASE NewRouter(name, r)
  <2>1. /\ routers' = [routers EXCEPT !["http"] = With(@, name, r)]
        /\ routerOwner' = [routerOwner EXCEPT !["http"] = Claimed(@, {name}, Guest)]
    BY <1>6 DEF NewRouter
  <2>2. OneRouter(name, r)
    BY <1>1, <1>4, <2>1 DEF OneRouter, Shape, With
  <2>3. /\ routerOwner'["http"] = Claimed(routerOwner["http"], {name}, Guest)
        /\ \A q \in Protocols \ {"http"} : routerOwner'[q] = routerOwner[q]
        /\ DOMAIN routerOwner' = Protocols
    BY <1>4, <2>1 DEF Shape
  <2>4. \A q \in Protocols : Keeps(routerOwner[q], routerOwner'[q])
    <3>1. Keeps(routerOwner["http"], Claimed(routerOwner["http"], {name}, Guest))
      BY ClaimsAreKept
    <3> QED  BY <2>3, <3>1 DEF Keeps
  <2>5. \A q \in Protocols : OwnedBy(routerOwner'[q])
    <3>1. OwnedBy(Claimed(routerOwner["http"], {name}, Guest))
      BY <1>4, ClaimsAreKept DEF Owned
    <3> QED  BY <2>3, <3>1 DEF Owned
  <2>6. name \in DOMAIN routerOwner'["http"]
    BY <2>3 DEF Claimed
  <2>7. Owned' /\ OwnersOnly' /\ NoStrangers'
    BY <1>1, <1>3, <1>4, <2>2, <2>4, <2>5, <2>6, OneRouterKeepsObjects
  <2>8. Shape'
    BY <1>3, <2>2, <2>3 DEF Shape, OneRouter, Steps
  <2>9. Queued'
    BY <1>1, <1>2, <1>3, <1>4, <1>5, <2>4, KeptQueues
  <2> QED  BY <2>7, <2>8, <2>9
<1>7. CASE KeepRouter(name)
  <2>1. UNCHANGED <<routers, routerOwner>>
    BY <1>7 DEF KeepRouter
  <2>2. \A q \in Protocols : Keeps(routerOwner[q], routerOwner'[q])
    BY <2>1 DEF Keeps
  <2>3. Shape' /\ Owned'
    BY <1>3, <2>1 DEF Shape, Owned, OwnedBy
  <2>4. OwnersOnly' /\ NoStrangers'
    BY <1>3, <1>5, <2>1, <2>2, KeptObjects
  <2>5. Queued'
    BY <1>1, <1>2, <1>3, <1>4, <1>5, <2>2, KeptQueues
  <2> QED  BY <2>3, <2>4, <2>5
<1> QED  BY <1>2, <1>6, <1>7 DEF r

LEMMA AddRouterKeepsInv ==
  ASSUME Inv, AddRouter
  PROVE  Inv'
<1> USE DEF Inv
<1>1. pc = "routers" /\ Proto # "http"
  BY DEF AddRouter
<1>2. PICK name \in routerQueue :
        /\ routers' = [routers EXCEPT ![Proto] = With(@, name, RouterFor(name))]
        /\ routerQueue' = routerQueue \ {name}
  BY DEF AddRouter
<1>3. UNCHANGED <<labels, todo, protocols, pc, serviceNames, serviceQueue, services, transports, claims>>
  BY DEF AddRouter
<1>4. Guest \in Guests /\ Proto \in Protocols
  BY <1>1, FirstProtocol DEF Shape, Guest
<1> DEFINE r == RouterFor(name)
<1>5. r.from = Guest
  BY DEF RouterFor
<1> HIDE DEF r
<1>6. OneRouter(name, r)
  BY <1>2, <1>4 DEF OneRouter, Shape, With, r
<1>7. \A q \in Protocols : /\ Keeps(routerOwner[q], routerOwner'[q])
                           /\ Keeps(serviceOwner[q], serviceOwner'[q])
                           /\ OwnedBy(routerOwner'[q])
  BY <1>3 DEF Keeps, Owned, claims
<1>8. name \in DOMAIN routerOwner'[Proto] /\ Guest = routerOwner'[Proto][name]
  BY <1>1, <1>3 DEF Queued, Entitled, claims
<1>9. Owned' /\ OwnersOnly' /\ NoStrangers'
  BY <1>3, <1>4, <1>5, <1>6, <1>7, <1>8, OneRouterKeepsObjects DEF claims
<1>10. Shape'
  BY <1>3, <1>6 DEF Shape, OneRouter, Steps, claims
<1>11. Queued'
  BY <1>1, <1>2, <1>3, <1>4, <1>7, KeptQueues
<1> QED  BY <1>9, <1>10, <1>11

-----------------------------------------------------------------------------
\* The invariant holds of every configuration under construction.
THEOREM BuilderInvariance == Spec => []Inv
<1>1. Init => Inv
  BY InitInv
<1>2. Inv /\ [Next]_vars => Inv'
  BY ClaimNamesKeepsInv, BetweenObjectsKeepsInv, AddHTTPServiceKeepsInv, AddServiceKeepsInv,
     AddHTTPRouterKeepsInv, AddRouterKeepsInv DEF Next, Finished
<1> QED  BY <1>1, <1>2, PTL DEF Spec

\* A service sends only to the guest that owns its name and to guests that
\* give the name in their labels with the same settings (claimDefaultObjectName,
\* compatibleHTTPServices): no guest lands in the service of another by chance.
THEOREM NoStrangersServed == Spec => []NoStrangers
<1>1. Inv => NoStrangers
  BY DEF Inv
<1> QED  BY <1>1, BuilderInvariance, PTL

\* A TCP or UDP router or service belongs to the guest that claimed its name
\* (claimObjectNames), which no other guest overwrites.
THEOREM OwnersKeepTheirObjects == Spec => []OwnersOnly
<1>1. Inv => OwnersOnly
  BY DEF Inv
<1> QED  BY <1>1, BuilderInvariance, PTL

-----------------------------------------------------------------------------
(* Nothing published is taken back.  A guest gets to a protocol once: before *)
(* it does, it owns no name there, and therefore the names it then claims    *)
(* for TCP and UDP are not those of objects that are there already.          *)

Fresh(g, q) ==
  /\ \A n \in DOMAIN routerOwner[q] : routerOwner[q][n] # g
  /\ \A n \in DOMAIN serviceOwner[q] : serviceOwner[q][n] # g
  /\ q = "http" => \A n \in DOMAIN transportOwner : transportOwner[n] # g

Apart == \A i, j \in 1 .. Len(todo) : todo[i] = todo[j] => i = j

Unbegun ==
  /\ \A i \in 2 .. Len(todo) : \A q \in Protocols : Fresh(todo[i], q)
  /\ pc = "guest" /\ todo # <<>> => \A q \in Protocols : Fresh(Guest, q)
  /\ pc # "guest" => \A q \in protocols : pc = "protocol" \/ q # Proto => Fresh(Guest, q)

InTurn ==
  pc \in {"services", "routers"} /\ Proto # "http" =>
    /\ \A n \in serviceQueue : n \notin DOMAIN services[Proto]
    /\ \A n \in routerQueue : n \notin DOMAIN routers[Proto]

OrderInv == Inv /\ Apart /\ Unbegun /\ InTurn

\* What a step may do to the configuration.
Stays ==
  \A q \in Protocols :
    /\ Keeps(routers[q], routers'[q])
    /\ Keeps(routerOwner[q], routerOwner'[q])
    /\ Keeps(serviceOwner[q], serviceOwner'[q])
    /\ Keeps(transports, transports')
    /\ DOMAIN services[q] \subseteq DOMAIN services'[q]
    /\ \A n \in DOMAIN services[q] :
         /\ Compatible(services[q][n], services'[q][n])
         /\ services[q][n].servers \subseteq services'[q][n].servers

\* New claims are those of the guest for the protocol it has got to.
AddsFor(q, before, after) ==
  \A n \in DOMAIN after : \/ n \in DOMAIN before /\ after[n] = before[n]
                          \/ q = Proto /\ after[n] = Guest

GuestClaims ==
  /\ \A q \in Protocols : /\ AddsFor(q, routerOwner[q], routerOwner'[q])
                          /\ AddsFor(q, serviceOwner[q], serviceOwner'[q])
  /\ AddsFor("http", transportOwner, transportOwner')

LEMMA StillUnbegun ==
  ASSUME Shape, Apart, Unbegun, GuestClaims, todo' = todo, pc # "guest", protocols # {},
         \/ protocols' = protocols /\ pc' \in {"services", "routers"}
         \/ protocols' = protocols \ {Proto} /\ pc' = "protocol"
  PROVE  Apart' /\ Unbegun'
<1>1. Apart'
  BY DEF Apart
<1>2. Guest' = Guest /\ Guest = todo[1] /\ Len(todo) >= 1
  BY DEF Guest, Shape
<1>3. ASSUME NEW i \in 2 .. Len(todo'), NEW q \in Protocols
      PROVE  Fresh(todo[i], q)'
  <2>1. todo[i] # Guest
    BY <1>2, <1>3 DEF Apart, Shape
  <2>2. Fresh(todo[i], q)
    BY <1>3 DEF Unbegun
  <2>3. Fresh(todo[i], q)'
    <3> DEFINE g == todo[i]
    <3>1. /\ AddsFor(q, routerOwner[q], routerOwner'[q])
          /\ AddsFor(q, serviceOwner[q], serviceOwner'[q])
          /\ AddsFor("http", transportOwner, transportOwner')
      BY DEF GuestClaims
    <3>2. g = todo'[i] /\ g # Guest /\ Fresh(g, q)
      BY <2>1, <2>2
    <3> HIDE DEF g
    <3>3. /\ \A n \in DOMAIN routerOwner'[q] : routerOwner'[q][n] # g
          /\ \A n \in DOMAIN serviceOwner'[q] : serviceOwner'[q][n] # g
          /\ q = "http" => \A n \in DOMAIN transportOwner' : transportOwner'[n] # g
      BY <3>1, <3>2 DEF AddsFor, Fresh
    <3> QED  BY <3>2, <3>3 DEF Fresh
  <2> QED  BY <2>3
<1>4. ASSUME NEW q \in protocols', pc' = "protocol" \/ q # Proto'
      PROVE  Fresh(Guest, q)'
  <2>1. q \in protocols /\ q # Proto /\ q \in Protocols
    BY <1>4 DEF Proto, Shape
  <2>2. Fresh(Guest, q)
    BY <2>1 DEF Unbegun
  <2>3. /\ AddsFor(q, routerOwner[q], routerOwner'[q])
        /\ AddsFor(q, serviceOwner[q], serviceOwner'[q])
        /\ AddsFor("http", transportOwner, transportOwner')
    BY <2>1 DEF GuestClaims
  <2>4. /\ \A n \in DOMAIN routerOwner'[q] : routerOwner'[q][n] # Guest
        /\ \A n \in DOMAIN serviceOwner'[q] : serviceOwner'[q][n] # Guest
        /\ q = "http" => \A n \in DOMAIN transportOwner' : transportOwner'[n] # Guest
    BY <2>1, <2>2, <2>3 DEF AddsFor, Fresh
  <2> QED  BY <1>2, <2>4 DEF Fresh
<1>5. pc' # "guest"
  OBVIOUS
<1>6. todo' = todo
  OBVIOUS
<1> QED  BY <1>1, <1>3, <1>4, <1>5, <1>6 DEF Unbegun

\* The empty step and the steps between the objects change nothing published.
LEMMA SameStays ==
  ASSUME UNCHANGED <<objects, claims>>
  PROVE  Stays /\ GuestClaims /\ \A g, q : Fresh(g, q)' = Fresh(g, q)
<1>1. Stays
  BY DEF Stays, Keeps, Compatible, objects, claims
<1>2. GuestClaims
  BY DEF GuestClaims, AddsFor, claims
<1>3. \A g, q : Fresh(g, q)' = Fresh(g, q)
  BY DEF Fresh, claims
<1> QED  BY <1>1, <1>2, <1>3

LEMMA BetweenObjectsKeepsOrder ==
  ASSUME OrderInv, BeginGuest \/ EndGuest \/ EndServices \/ EndRouters \/ UNCHANGED vars
  PROVE  Stays /\ Apart' /\ Unbegun' /\ InTurn'
<1> USE DEF OrderInv, Inv
<1>1. UNCHANGED <<objects, claims>>
  BY DEF BeginGuest, EndGuest, EndServices, EndRouters, vars
<1>2. Stays /\ GuestClaims /\ \A g, q : Fresh(g, q)' = Fresh(g, q)
  BY <1>1, SameStays
<1>3. CASE BeginGuest
  <2>1. /\ pc = "guest" /\ pc' = "protocol" /\ todo # <<>> /\ todo' = todo
        /\ protocols' \subseteq Protocols
    BY <1>3 DEF BeginGuest, ProtocolsOf
  <2>2. Apart' /\ InTurn'
    BY <2>1 DEF Apart, InTurn
  <2>3. Guest' = Guest
    BY <2>1 DEF Guest
  <2>4. Unbegun'
    BY <1>2, <2>1, <2>3 DEF Unbegun
  <2> QED  BY <1>2, <2>2, <2>4
<1>4. CASE EndGuest
  <2>1. pc' = "guest" /\ todo # <<>> /\ todo' = Tail(todo)
    BY <1>4 DEF EndGuest, Shape
  <2>2. /\ Len(todo') = Len(todo) - 1 /\ Len(todo) \in Nat
        /\ \A i \in 1 .. Len(todo') : todo'[i] = todo[i + 1] /\ i + 1 \in 2 .. Len(todo)
    BY <2>1 DEF Shape
  <2>3. Apart'
    BY <2>2 DEF Apart
  <2>4. ASSUME NEW i \in 1 .. Len(todo'), NEW q \in Protocols
        PROVE  Fresh(todo[i], q)'
    <3>1. Fresh(todo[i + 1], q) /\ todo'[i] = todo[i + 1]
      BY <2>2 DEF Unbegun
    <3> QED  BY <1>1, <3>1 DEF Fresh, claims
  <2>5. todo' # <<>> => 1 \in 1 .. Len(todo') /\ Guest' = todo'[1]
    BY <2>1, <2>2 DEF Guest, Shape
  <2>6. \A i \in 2 .. Len(todo') : \A q \in Protocols : Fresh(todo[i], q)'
    BY <2>2, <2>4
  <2>7. todo' # <<>> => \A q \in Protocols : Fresh(Guest, q)'
    <3>1. SUFFICES ASSUME todo' # <<>>, NEW q \in Protocols PROVE Fresh(Guest, q)'
      OBVIOUS
    <3>2. Fresh(todo[1], q)'
      BY <2>4, <2>5, <3>1
    <3> QED  BY <2>5, <3>1, <3>2 DEF Fresh
  <2>8. Unbegun'
    BY <2>1, <2>6, <2>7 DEF Unbegun
  <2> QED  BY <1>2, <2>1, <2>3, <2>8 DEF InTurn
<1>5. CASE EndServices
  <2>1. /\ pc = "services" /\ pc' = "routers" /\ UNCHANGED <<todo, protocols, queues, objects>>
        /\ protocols # {}
    BY <1>5 DEF EndServices, Shape
  <2>2. Apart' /\ Unbegun'
    BY <1>2, <2>1, StillUnbegun
  <2>3. InTurn'
    BY <2>1 DEF InTurn, Proto, queues, objects
  <2> QED  BY <1>2, <2>2, <2>3
<1>6. CASE EndRouters
  <2>1. /\ pc = "routers" /\ pc' = "protocol" /\ protocols' = protocols \ {Proto} /\ todo' = todo
        /\ protocols # {}
    BY <1>6 DEF EndRouters, Shape
  <2>2. Apart' /\ Unbegun'
    BY <1>2, <2>1, StillUnbegun
  <2> QED  BY <1>2, <2>1, <2>2 DEF InTurn
<1>7. CASE UNCHANGED vars
  <2>1. UNCHANGED <<todo, protocols, pc, queues, objects>>
    BY <1>7 DEF vars
  <2>2. Guest' = Guest /\ Proto' = Proto
    BY <2>1 DEF Guest, Proto
  <2> QED  BY <1>2, <2>1, <2>2 DEF Apart, Unbegun, InTurn, queues, objects
<1> QED  BY <1>3, <1>4, <1>5, <1>6, <1>7

LEMMA ClaimNamesKeepsOrder ==
  ASSUME OrderInv, ClaimNames
  PROVE  Stays /\ Apart' /\ Unbegun' /\ InTurn'
<1> USE DEF OrderInv, Inv
<1>1. PICK rs, rnow, ss, snow, ts :
           /\ Proto # "http" => ts = {}
           /\ Choice(rs, rnow, routerOwner[Proto], "routers")
           /\ Choice(ss, snow, serviceOwner[Proto], "services")
           /\ \A n \in ts : Claimable(transportOwner, n, Guest)
           /\ routerOwner' = [routerOwner EXCEPT ![Proto] = Claimed(@, rnow, Guest)]
           /\ serviceOwner' = [serviceOwner EXCEPT ![Proto] = Claimed(@, snow, Guest)]
           /\ transportOwner' = Claimed(transportOwner, ts, Guest)
           /\ \/ /\ protocols' = protocols \ {Proto}
                 /\ UNCHANGED <<pc, queues, transports>>
              \/ /\ ss # {} /\ pc' = "services" /\ protocols' = protocols
                 /\ serviceNames' = ss /\ serviceQueue' = ss /\ routerQueue' = rs
                 /\ DOMAIN transports' = DOMAIN transports \cup ts
                 /\ \A n \in DOMAIN transports \ ts : transports'[n] = transports[n]
  BY WhatClaimNamesDoes
<1>2. pc = "protocol" /\ protocols # {} /\ UNCHANGED <<labels, todo, routers, services>>
  BY DEF ClaimNames
<1>3. Proto \in protocols /\ Proto \in Protocols
  BY <1>2, FirstProtocol DEF Shape
<1>4. Fresh(Guest, Proto)
  BY <1>2, <1>3 DEF Unbegun
<1>5. /\ routerOwner'[Proto] = Claimed(routerOwner[Proto], rnow, Guest)
      /\ serviceOwner'[Proto] = Claimed(serviceOwner[Proto], snow, Guest)
      /\ \A q \in Protocols \ {Proto} : /\ routerOwner'[q] = routerOwner[q]
                                        /\ serviceOwner'[q] = serviceOwner[q]
  BY <1>1, <1>3 DEF Shape
<1>6. \A q \in Protocols : /\ Keeps(routerOwner[q], routerOwner'[q])
                           /\ Keeps(serviceOwner[q], serviceOwner'[q])
  <2>1. /\ Keeps(routerOwner[Proto], Claimed(routerOwner[Proto], rnow, Guest))
        /\ Keeps(serviceOwner[Proto], Claimed(serviceOwner[Proto], snow, Guest))
    BY ClaimsAreKept
  <2> QED  BY <1>5, <2>1 DEF Keeps
<1>7. GuestClaims
  <2>1. /\ AddsFor(Proto, routerOwner[Proto], Claimed(routerOwner[Proto], rnow, Guest))
        /\ AddsFor(Proto, serviceOwner[Proto], Claimed(serviceOwner[Proto], snow, Guest))
    BY DEF AddsFor, Claimed
  <2>2. AddsFor("http", transportOwner, transportOwner')
    BY <1>1 DEF AddsFor, Claimed
  <2> QED  BY <1>5, <2>1, <2>2 DEF GuestClaims, AddsFor
<1>8. Keeps(transports, transports')
  <2>1. ASSUME NEW n \in ts  PROVE n \notin DOMAIN transports
    <3>1. Proto = "http"
      BY <1>1, <2>1
    <3> QED  BY <1>1, <1>4, <2>1, <3>1 DEF Fresh, Claimable, Owned
  <2> QED  BY <1>1, <2>1 DEF Keeps, queues
<1>9. Stays
  <2>1. \A q \in Protocols : /\ Keeps(routers[q], routers'[q])
                             /\ DOMAIN services[q] \subseteq DOMAIN services'[q]
                             /\ \A n \in DOMAIN services[q] :
                                  /\ Compatible(services[q][n], services'[q][n])
                                  /\ services[q][n].servers \subseteq services'[q][n].servers
    BY <1>2 DEF Keeps, Compatible
  <2> QED  BY <1>6, <1>8, <2>1 DEF Stays
<1>10. Apart' /\ Unbegun'
  BY <1>1, <1>2, <1>7, StillUnbegun
<1>11. InTurn'
  <2>1. CASE pc' = "services" /\ protocols' = protocols /\ serviceQueue' = ss /\ routerQueue' = rs
    <3>1. Proto' = Proto
      BY <2>1 DEF Proto
    <3>2. ASSUME Proto # "http", NEW n \in ss  PROVE n \notin DOMAIN services[Proto]
      BY <1>1, <1>3, <1>4, <3>2 DEF Choice, Claimable, Fresh, Owned
    <3>3. ASSUME Proto # "http", NEW n \in rs  PROVE n \notin DOMAIN routers[Proto]
      BY <1>1, <1>3, <1>4, <3>3 DEF Choice, Claimable, Fresh, Owned
    <3> QED  BY <1>2, <2>1, <3>1, <3>2, <3>3 DEF InTurn
  <2>2. CASE pc' = "protocol"
    BY <2>2 DEF InTurn
  <2> QED  BY <1>1, <1>2, <2>1, <2>2
<1> QED  BY <1>9, <1>10, <1>11

\* Attaching claims only for the guest, and only for HTTP.
LEMMA AttachingClaims ==
  ASSUME NEW name, NEW t, AttachTransport(name, t), Proto = "http"
  PROVE  AddsFor("http", transportOwner, transportOwner')
BY DEF AttachTransport, AddsFor, Claimed

LEMMA CompatibleWithItself ==
  ASSUME NEW s
  PROVE  Compatible(s, s)
BY DEF Compatible

ServicesGrow ==
  \A q \in Protocols : \A n \in DOMAIN services[q] :
    /\ n \in DOMAIN services'[q]
    /\ Compatible(services[q][n], services'[q][n])
    /\ services[q][n].servers \subseteq services'[q][n].servers

LEMMA AddHTTPServiceKeepsOrder ==
  ASSUME OrderInv, AddHTTPService
  PROVE  Stays /\ Apart' /\ Unbegun' /\ InTurn'
<1> USE DEF OrderInv, Inv
<1>1. pc = "services" /\ Proto = "http" /\ protocols # {} /\ "http" \in Protocols
  BY FirstProtocol DEF AddHTTPService, Shape
<1>2. PICK name \in serviceQueue : \E tr, refused : AddsHTTPService(name, tr, refused)
  BY WhatAddHTTPServiceDoes
<1>added. PICK tr, refused :
        /\ \/ NewService(name, HTTPServiceFor(name, tr), refused)
           \/ MergeService(name, HTTPServiceFor(name, tr), refused)
           \/ SkipService(name, HTTPServiceFor(name, tr), refused)
        /\ AttachTransport(name, tr)
        /\ serviceQueue' = serviceQueue \ {name}
  BY <1>2 DEF AddsHTTPService
<1>3. UNCHANGED <<labels, todo, protocols, pc, serviceNames, routerQueue, routers, routerOwner>>
  BY DEF AddHTTPService
<1> DEFINE s == HTTPServiceFor(name, tr)
<1> HIDE DEF s
<1>4. /\ Keeps(transports, transports')
      /\ AddsFor("http", transportOwner, transportOwner')
  BY <1>1, <1>added, AttachingKeepsTransports, AttachingClaims
<1>5. /\ \A q \in Protocols : Keeps(serviceOwner[q], serviceOwner'[q])
      /\ \A q \in Protocols : AddsFor(q, serviceOwner[q], serviceOwner'[q])
  <2>1. CASE serviceOwner' = [serviceOwner EXCEPT !["http"] = Claimed(@, {name}, Guest)]
    <3>1. /\ serviceOwner'["http"] = Claimed(serviceOwner["http"], {name}, Guest)
          /\ \A q \in Protocols \ {"http"} : serviceOwner'[q] = serviceOwner[q]
      BY <1>1, <2>1 DEF Shape
    <3>2. /\ Keeps(serviceOwner["http"], Claimed(serviceOwner["http"], {name}, Guest))
          /\ AddsFor("http", serviceOwner["http"], Claimed(serviceOwner["http"], {name}, Guest))
      BY <1>1 DEF Keeps, AddsFor, Claimed
    <3> QED  BY <3>1, <3>2 DEF Keeps, AddsFor
  <2>2. CASE serviceOwner' = serviceOwner
    BY <2>2 DEF Keeps, AddsFor
  <2> QED  BY <1>added, <2>1, <2>2 DEF NewService, MergeService, SkipService
<1>6. GuestClaims
  BY <1>3, <1>4, <1>5 DEF GuestClaims, AddsFor
<1>7. ServicesGrow
  <2>1. ASSUME NEW t, services' = [services EXCEPT !["http"] = With(@, name, t)],
               name \in DOMAIN services["http"] =>
                 LET old == services["http"][name] IN
                 Compatible(old, t) /\ old.servers \subseteq t.servers
        PROVE  ServicesGrow
    <3>1. /\ services'["http"] = With(services["http"], name, t)
          /\ \A q \in Protocols \ {"http"} : services'[q] = services[q]
      BY <1>1, <2>1 DEF Shape
    <3>2. ASSUME NEW q \in Protocols, NEW n \in DOMAIN services[q]
          PROVE  /\ n \in DOMAIN services'[q]
                 /\ Compatible(services[q][n], services'[q][n])
                 /\ services[q][n].servers \subseteq services'[q][n].servers
      <4>1. CASE q = "http" /\ n = name
        BY <2>1, <3>1, <3>2, <4>1 DEF With
      <4>2. CASE ~(q = "http" /\ n = name)
        <5>1. n \in DOMAIN services'[q] /\ services'[q][n] = services[q][n]
          BY <3>1, <3>2, <4>2 DEF With
        <5> QED  BY <5>1, CompatibleWithItself
      <4> QED  BY <4>1, <4>2
    <3> QED  BY <3>2 DEF ServicesGrow
  <2>2. CASE NewService(name, s, refused)
    <3>1. /\ name \notin DOMAIN services["http"]
          /\ services' = [services EXCEPT !["http"] = With(@, name, s)]
      BY <2>2 DEF NewService
    <3> QED  BY <2>1, <3>1
  <2>3. CASE MergeService(name, s, refused)
    <3> DEFINE old == services["http"][name]
               t == Merged(old, s)
    <3>1. /\ name \in DOMAIN services["http"]
          /\ services' = [services EXCEPT !["http"] = With(@, name, t)]
      BY <2>3 DEF MergeService
    <3>2. "servers" \in DOMAIN old
      BY <1>1, <3>1 DEF Owned
    <3>3. Compatible(old, t) /\ old.servers \subseteq t.servers
      BY <3>2 DEF Compatible, Merged
    <3> HIDE DEF t
    <3> QED  BY <2>1, <3>1, <3>3
  <2>4. CASE SkipService(name, s, refused)
    BY <2>4, CompatibleWithItself DEF SkipService, ServicesGrow
  <2> QED  BY <1>added, <2>2, <2>3, <2>4 DEF s
<1>8. Stays
  BY <1>3, <1>4, <1>5, <1>7 DEF Stays, Keeps, ServicesGrow
<1>9. Apart' /\ Unbegun'
  BY <1>1, <1>3, <1>6, StillUnbegun
<1>10. InTurn'
  BY <1>1, <1>3 DEF InTurn, Proto
<1> QED  BY <1>8, <1>9, <1>10

LEMMA AddServiceKeepsOrder ==
  ASSUME OrderInv, AddService
  PROVE  Stays /\ Apart' /\ Unbegun' /\ InTurn'
<1> USE DEF OrderInv, Inv
<1>1. pc = "services" /\ Proto # "http" /\ protocols # {} /\ Proto \in Protocols
  BY FirstProtocol DEF AddService, Shape
<1>2. PICK name \in serviceQueue :
        /\ services' = [services EXCEPT ![Proto] = With(@, name, Described(name))]
        /\ serviceQueue' = serviceQueue \ {name}
  BY DEF AddService
<1>3. UNCHANGED <<labels, todo, protocols, pc, serviceNames, routerQueue, routers, transports, claims>>
  BY DEF AddService
<1>4. /\ services'[Proto] = With(services[Proto], name, Described(name))
      /\ \A q \in Protocols \ {Proto} : services'[q] = services[q]
  BY <1>1, <1>2 DEF Shape
<1>5. name \notin DOMAIN services[Proto]
  BY <1>1 DEF InTurn
<1>6. ASSUME NEW q \in Protocols, NEW n \in DOMAIN services[q]
      PROVE  /\ n \in DOMAIN services'[q]
             /\ Compatible(services[q][n], services'[q][n])
             /\ services[q][n].servers \subseteq services'[q][n].servers
  <2>1. n \in DOMAIN services'[q] /\ services'[q][n] = services[q][n]
    BY <1>4, <1>5, <1>6 DEF With
  <2> QED  BY <2>1, CompatibleWithItself
<1>7. Stays
  BY <1>3, <1>6 DEF Stays, Keeps, claims
<1>8. GuestClaims
  BY <1>3 DEF GuestClaims, AddsFor, claims
<1>9. Apart' /\ Unbegun'
  BY <1>1, <1>3, <1>8, StillUnbegun
<1>10. InTurn'
  <2>1. Proto' = Proto
    BY <1>3 DEF Proto
  <2>2. DOMAIN services'[Proto] = DOMAIN services[Proto] \cup {name}
    BY <1>4 DEF With
  <2> QED  BY <1>1, <1>2, <1>3, <2>1, <2>2 DEF InTurn
<1> QED  BY <1>7, <1>9, <1>10

LEMMA AddRouterKeepsOrder ==
  ASSUME OrderInv, AddHTTPRouter \/ AddRouter
  PROVE  Stays /\ Apart' /\ Unbegun' /\ InTurn'
<1> USE DEF OrderInv, Inv
<1>1. /\ pc = "routers" /\ protocols # {} /\ Proto \in Protocols
      /\ UNCHANGED <<labels, todo, protocols, pc, serviceNames, serviceQueue,
                     services, transports, serviceOwner, transportOwner>>
  BY FirstProtocol DEF AddHTTPRouter, AddRouter, Shape, claims
<1>2. PICK name \in routerQueue :
        /\ routerQueue' = routerQueue \ {name}
        /\ \/ UNCHANGED <<routers, routerOwner>> /\ Proto = "http"
           \/ /\ name \notin DOMAIN routers[Proto]
              /\ routers' = [routers EXCEPT ![Proto] = With(@, name, RouterFor(name))]
              /\ \/ routerOwner' = [routerOwner EXCEPT ![Proto] = Claimed(@, {name}, Guest)]
                 \/ routerOwner' = routerOwner
  <2>1. CASE AddHTTPRouter
    <3>1. Proto = "http"
      BY <2>1 DEF AddHTTPRouter
    <3> QED  BY <2>1, <3>1 DEF AddHTTPRouter, NewRouter, KeepRouter
  <2>2. CASE AddRouter
    BY <2>2 DEF AddRouter, InTurn, claims
  <2> QED  BY <2>1, <2>2
<1>3. \A q \in Protocols : /\ Keeps(routerOwner[q], routerOwner'[q])
                           /\ AddsFor(q, routerOwner[q], routerOwner'[q])
  <2>1. CASE routerOwner' = [routerOwner EXCEPT ![Proto] = Claimed(@, {name}, Guest)]
    <3>1. /\ routerOwner'[Proto] = Claimed(routerOwner[Proto], {name}, Guest)
          /\ \A q \in Protocols \ {Proto} : routerOwner'[q] = routerOwner[q]
      BY <1>1, <2>1 DEF Shape
    <3>2. /\ Keeps(routerOwner[Proto], Claimed(routerOwner[Proto], {name}, Guest))
          /\ AddsFor(Proto, routerOwner[Proto], Claimed(routerOwner[Proto], {name}, Guest))
      BY DEF Keeps, AddsFor, Claimed
    <3> QED  BY <3>1, <3>2 DEF Keeps, AddsFor
  <2>2. CASE routerOwner' = routerOwner
    BY <2>2 DEF Keeps, AddsFor
  <2> QED  BY <1>2, <2>1, <2>2
<1>4. /\ \A q \in Protocols : Keeps(routers[q], routers'[q])
      /\ Proto # "http" => DOMAIN routers'[Proto] = DOMAIN routers[Proto] \cup {name}
  <2>1. CASE /\ name \notin DOMAIN routers[Proto]
             /\ routers' = [routers EXCEPT ![Proto] = With(@, name, RouterFor(name))]
    <3>1. /\ routers'[Proto] = With(routers[Proto], name, RouterFor(name))
          /\ \A q \in Protocols \ {Proto} : routers'[q] = routers[q]
      BY <1>1, <2>1 DEF Shape
    <3>2. DOMAIN routers'[Proto] = DOMAIN routers[Proto] \cup {name}
      BY <3>1 DEF With
    <3>3. Keeps(routers[Proto], routers'[Proto])
      BY <2>1, <3>1 DEF With, Keeps
    <3> QED  BY <3>1, <3>2, <3>3 DEF Keeps
  <2>2. CASE routers' = routers /\ Proto = "http"
    BY <2>2 DEF Keeps
  <2> QED  BY <1>2, <2>1, <2>2
<1>5. Stays
  BY <1>1, <1>3, <1>4, CompatibleWithItself DEF Stays, Keeps
<1>6. GuestClaims
  BY <1>1, <1>3 DEF GuestClaims, AddsFor
<1>7. Apart' /\ Unbegun'
  BY <1>1, <1>6, StillUnbegun
<1>8. InTurn'
  <2>1. Proto' = Proto
    BY <1>1 DEF Proto
  <2> QED  BY <1>1, <1>2, <1>4, <2>1 DEF InTurn
<1> QED  BY <1>5, <1>7, <1>8

LEMMA OrderStep ==
  ASSUME OrderInv, [Next]_vars
  PROVE  Stays /\ Apart' /\ Unbegun' /\ InTurn'
BY ClaimNamesKeepsOrder, BetweenObjectsKeepsOrder, AddHTTPServiceKeepsOrder,
   AddServiceKeepsOrder, AddRouterKeepsOrder DEF Next, Finished

\* The guests come one after the other and each of them only once, and so do
\* the objects of a guest (BuildPrepared and the loops over its names).
THEOREM OrderInvariance == Spec => [](Apart /\ Unbegun /\ InTurn)
<1>1. Init => Apart /\ Unbegun /\ InTurn
  <2> SUFFICES ASSUME Init PROVE Apart /\ Unbegun /\ InTurn
    OBVIOUS
  <2>1. Apart
    BY BuilderAssumption DEF Init, Apart, IsInjective
  <2>2. \A g : \A q \in Protocols : Fresh(g, q)
    BY DEF Init, Fresh, Empty
  <2>3. Unbegun
    BY <2>2 DEF Init, Unbegun
  <2> QED  BY <2>1, <2>3 DEF Init, InTurn
<1>2. Inv /\ Apart /\ Unbegun /\ InTurn /\ [Next]_vars => (Apart /\ Unbegun /\ InTurn)'
  BY OrderStep DEF OrderInv
<1> QED  BY <1>1, <1>2, BuilderInvariance, PTL DEF Spec

\* No step of the builder takes back or changes what it has published for a
\* guest (claimObjectName, addOrMergeHTTPService, addOrSetHTTPRouter): claims,
\* routers and transports stay, and services only get more servers.
THEOREM NothingIsTakenBack == Spec => PublishedStays
<1>1. Inv /\ Apart /\ Unbegun /\ InTurn /\ [Next]_vars => Stays
  BY OrderStep DEF OrderInv
<1>2. Stays => [\A q \in Protocols :
       /\ Keeps(routers[q], routers'[q])
       /\ Keeps(routerOwner[q], routerOwner'[q])
       /\ Keeps(serviceOwner[q], serviceOwner'[q])
       /\ Keeps(transports, transports')
       /\ DOMAIN services[q] \subseteq DOMAIN services'[q]
       /\ \A n \in DOMAIN services[q] :
            /\ Compatible(services[q][n], services'[q][n])
            /\ services[q][n].servers \subseteq services'[q][n].servers]_vars
  BY DEF Stays
<1> QED  BY <1>1, <1>2, BuilderInvariance, OrderInvariance, PTL DEF Spec, PublishedStays

\* The guests that are left are a tail of the snapshot.
Rest ==
  /\ Len(todo) <= Len(Order)
  /\ todo = SubSeq(Order, Len(Order) - Len(todo) + 1, Len(Order))

\* The configuration keeps its shape: every object in it has a claimed name,
\* and BuildPrepared goes through the guests in the order of the snapshot.
THEOREM TypeCorrectness == Spec => []TypeOK
<1>1. Init => Rest
  BY BuilderAssumption DEF Init, Rest
<1>2. Inv /\ Rest /\ [Next]_vars => Rest'
  <2> SUFFICES ASSUME Inv, Rest, [Next]_vars PROVE Rest'
    OBVIOUS
  <2>1. CASE EndGuest
    <3>1. /\ todo' = Tail(todo) /\ todo # <<>> /\ todo \in Seq(Guests) /\ Order \in Seq(Guests)
      BY <2>1, BuilderAssumption DEF EndGuest, Inv, Shape
    <3> DEFINE n == Len(Order)
               m == Len(todo)
    <3>2. n \in Nat /\ m \in Nat /\ m >= 1 /\ m <= n /\ Len(todo') = m - 1
      BY <3>1 DEF Rest
    <3>3. \A i \in 1 .. m : todo[i] = Order[n - m + i]
      BY <3>1, <3>2 DEF Rest
    <3>4. \A i \in 1 .. (m - 1) : todo'[i] = Order[n - m + 1 + i]
      BY <3>1, <3>2, <3>3
    <3>5. SubSeq(Order, n - m + 2, n) \in Seq(Guests) /\ Len(SubSeq(Order, n - m + 2, n)) = m - 1
      BY <3>1, <3>2, SubSeqProperties
    <3>6. \A i \in 1 .. (m - 1) : SubSeq(Order, n - m + 2, n)[i] = Order[n - m + 1 + i]
      BY <3>1, <3>2, SubSeqProperties
    <3>7. todo' = SubSeq(Order, n - m + 2, n)
      <4>1. todo' \in Seq(Guests)
        BY <3>1
      <4> QED  BY <3>2, <3>4, <3>5, <3>6, <4>1, SeqEqual
    <3> QED  BY <3>2, <3>7 DEF Rest
  <2>2. CASE todo' = todo
    BY <2>2 DEF Rest
  <2>3. EndGuest \/ todo' = todo
    BY DEF Next, vars, BeginGuest, ClaimNames, AddHTTPService, AddService, EndServices,
           AddHTTPRouter, AddRouter, EndRouters, Finished
  <2> QED  BY <2>1, <2>2, <2>3
<1>3. Inv /\ Rest => TypeOK
  BY DEF Inv, Shape, Owned, OwnedBy, Steps, Rest, TypeOK
<1> QED  BY <1>1, <1>2, <1>3, BuilderInvariance, PTL DEF Spec

-----------------------------------------------------------------------------
(* The first name of a set of names *)

LEMMA FirstName ==
  ASSUME NEW names, names # {}, names \subseteq ToSet(NameOrder)
  PROVE  \E n \in names : IsFirst(n, names)
<1> DEFINE T == {i \in DOMAIN NameOrder : NameOrder[i] \in names}
<1>1. T # {} /\ T \subseteq Nat
  BY BuilderAssumption DEF ToSet
<1>2. PICK i \in T : \A j \in T : i <= j
  <2> HIDE DEF T
  <2> QED  BY <1>1, LeastNumber
<1>3. ASSUME NEW n \in names \ {NameOrder[i]}
      PROVE  \E k, j \in DOMAIN NameOrder : k < j /\ NameOrder[k] = NameOrder[i] /\ NameOrder[j] = n
  <2>1. PICK j \in T : NameOrder[j] = n
    BY DEF ToSet
  <2>2. i < j
    BY <1>1, <1>2, <1>3, <2>1
  <2> QED  BY <2>1, <2>2
<1> QED  BY <1>3 DEF IsFirst

\* The services of a guest: names its labels give, or one default name.
Named(names) == names \subseteq ToSet(NameOrder) \/ \E m : names = {m}

LEMMA DefaultServiceIsOneOfThem ==
  ASSUME NEW name, serviceNames # {}, Named(serviceNames)
  PROVE  DefaultService(name) \in serviceNames
<1>1. \E n \in serviceNames : IsFirst(n, serviceNames)
  BY FirstName DEF Named, IsFirst
<1> QED  BY <1>1 DEF DefaultService

-----------------------------------------------------------------------------
(* What the labels of a guest on defaults do not say *)

\* It has no explicit router or service, and no label about one under
\* another name than the default one.
LEMMA BareLabels ==
  ASSUME Shape, NEW g \in Guests, NEW q \in Protocols, OnDefaults(g, q),
         NEW c \in {"routers", "services"}
  PROVE  /\ ExplicitOf(g, q, c) = {}
         /\ \A n, key : n # Name(g) => StringValue(Labels(g), Object(q, c, n), key) = Unset
<1> DEFINE l == labels[g]
<1>1. l \in LabelSets
  BY DEF Shape
<1>2. <<q, c>> \notin l.set.marks
  BY DEF OnDefaults, Seen, Labels
<1>3. \A o \in DOMAIN l.set.objects :
        /\ l.set.objects[o] => <<o.protocol, o.collection>> \in l.set.marks
        /\ ~l.set.objects[o] => o.name = Name(g)
  BY <1>1, BuilderAssumption DEF WellFormed, Name, Labels
<1>4. \A p \in DOMAIN l.set.values : ~IsRoot(p) => ObjectOf(p) \in DOMAIN l.set.objects
  BY <1>1, BuilderAssumption DEF WellFormed
<1>5. ExplicitOf(g, q, c) = {}
  BY <1>2, <1>3 DEF ExplicitOf, ExplicitNames, Labels
<1>6. ASSUME NEW n, NEW key, n # Name(g)
      PROVE  StringValue(Labels(g), Object(q, c, n), key) = Unset
  <2> DEFINE p == [protocol |-> q, collection |-> c, name |-> n, key |-> key, entry |-> NoEntry]
  <2>1. p \notin DOMAIN l.set.values
    <3>1. ~IsRoot(p)
      BY DEF IsRoot, Protocols
    <3>2. ObjectOf(p) = [protocol |-> q, collection |-> c, name |-> n]
      BY DEF ObjectOf, Object
    <3> HIDE DEF p
    <3>3. ObjectOf(p) \notin DOMAIN l.set.objects
      BY <1>2, <1>3, <1>6, <3>2
    <3> QED  BY <1>4, <3>1, <3>3
  <2> QED  BY <2>1 DEF StringValue, ValueAt, Object, Labels
<1> QED  BY <1>5, <1>6

\* A router without a label that names its service gets the one it is given.
LEMMA ServiceOfRouter ==
  ASSUME NEW s, NEW o, NEW default
  PROVE  Router(s, o, default).service = Or(StringValue(s, o, <<"service">>), default)
BY DEF Router, HTTPRouter, TCPRouter, UDPRouter

\* A service without a label about its servers sends to its guest.
LEMMA ServiceSendsToGuest ==
  ASSUME NEW g \in Guests, NEW s, NEW o,
         \A f \in {"url", "ip", "address"} : StringValue(s, o, LBServer(f)) = Unset
  PROVE  g \in GuestsOf(Service(s, o, {<<g>>}))
<1> DEFINE At(scheme, port) == {ServerAt(scheme, host, port) : host \in {<<g>>}}
<1>0. \A scheme, port : \E x \in At(scheme, port) : x.host = <<g>>
  <2>1. ASSUME NEW scheme, NEW port  PROVE \E x \in At(scheme, port) : x.host = <<g>>
    <3>1. ServerAt(scheme, <<g>>, port) \in At(scheme, port)
      OBVIOUS
    <3>2. ServerAt(scheme, <<g>>, port).host = <<g>>
      BY DEF ServerAt
    <3> HIDE DEF At
    <3> QED  BY <3>1, <3>2
  <2> QED  BY <2>1
<1>1. \E x \in HTTPServers(s, o, {<<g>>}) : x.host = <<g>>
  <2>1. StringValue(s, o, LBServer("url")) = Unset /\ StringValue(s, o, LBServer("ip")) = Unset
    OBVIOUS
  <2>2. \E scheme, port : HTTPServers(s, o, {<<g>>}) = At(scheme, port)
    BY <2>1 DEF HTTPServers
  <2> QED  BY <1>0, <2>2
<1>2. \E x \in StreamServers(s, o, {<<g>>}) : x.host = <<g>>
  <2>1. StringValue(s, o, LBServer("address")) = Unset /\ StringValue(s, o, LBServer("ip")) = Unset
    OBVIOUS
  <2>2. \E scheme, port : StreamServers(s, o, {<<g>>}) = At(scheme, port)
    BY <2>1 DEF StreamServers
  <2> QED  BY <1>0, <2>2
<1>3. Service(s, o, {<<g>>}).servers \in {HTTPServers(s, o, {<<g>>}), StreamServers(s, o, {<<g>>})}
  BY DEF Service, HTTPService, TCPService, UDPService
<1> QED  BY <1>1, <1>2, <1>3 DEF GuestsOf

-----------------------------------------------------------------------------
(* A guest that is served stays served *)

\* The service sends to the guest, or to where its labels say.
SentBy(g, q, service) == ServerLabels(g, q, Name(g)) # {} \/ g \in GuestsOf(service)

SentTo(g, q, n) == n \in DOMAIN services[q] /\ SentBy(g, q, services[q][n])

Served(g, q) ==
  \E n \in DOMAIN routers[q] :
    /\ routers[q][n].from = g
    /\ RouterService(g, q, Name(g)) = Unset => SentTo(g, q, routers[q][n].object.service)

LEMMA SameLabels ==
  ASSUME UNCHANGED labels
  PROVE  /\ \A g : Labels(g)' = Labels(g)
         /\ \A g : Name(g)' = Name(g)
         /\ \A g, q : OnDefaults(g, q)' = OnDefaults(g, q)
         /\ \A g, q, n : ServerLabels(g, q, n)' = ServerLabels(g, q, n)
         /\ \A g, q, n : RouterService(g, q, n)' = RouterService(g, q, n)
BY DEF Labels, Name, OnDefaults, Seen, ServerLabels, RouterService

LEMMA ServedStays ==
  ASSUME Stays, UNCHANGED labels, NEW g, NEW q \in Protocols
  PROVE  /\ \A n : SentTo(g, q, n) => SentTo(g, q, n)'
         /\ Served(g, q) => Served(g, q)'
<1>1. ASSUME NEW n, SentTo(g, q, n)  PROVE SentTo(g, q, n)'
  <2>1. /\ n \in DOMAIN services'[q]
        /\ services[q][n].servers \subseteq services'[q][n].servers
    BY <1>1 DEF SentTo, Stays
  <2>2. GuestsOf(services[q][n]) \subseteq GuestsOf(services'[q][n])
    BY <2>1 DEF GuestsOf
  <2>3. \A s : GuestsOf(s)' = GuestsOf(s)
    BY DEF GuestsOf
  <2> QED  BY <1>1, <2>1, <2>2, <2>3, SameLabels DEF SentTo, SentBy
<1>2. ASSUME Served(g, q)  PROVE Served(g, q)'
  <2>1. PICK n \in DOMAIN routers[q] :
          /\ routers[q][n].from = g
          /\ RouterService(g, q, Name(g)) = Unset => SentTo(g, q, routers[q][n].object.service)
    BY <1>2 DEF Served
  <2>2. n \in DOMAIN routers'[q] /\ routers'[q][n] = routers[q][n]
    BY DEF Stays, Keeps
  <2> QED  BY <1>1, <2>1, <2>2, SameLabels DEF Served
<1> QED  BY <1>1, <1>2

-----------------------------------------------------------------------------
(* The invariant: a guest on defaults is served once it, or the protocol,   *)
(* is done; until then its one service and its one router are on the way,   *)
(* and no object of another guest has their names.                          *)

AllServed ==
  /\ \A g \in Done, q \in Protocols : OnDefaults(g, q) => Served(g, q)
  /\ pc # "guest" => \A q \in Protocols \ protocols : OnDefaults(Guest, q) => Served(Guest, q)

OneOnTheWay(m) ==
  /\ serviceNames = {m}
  /\ \/ serviceQueue = {m} /\ pc = "services" /\ m \notin DOMAIN services[Proto]
     \/ serviceQueue = {} /\ SentTo(Guest, Proto, m)
  /\ \/ \E r : routerQueue = {r} /\ r \notin DOMAIN routers[Proto]
     \/ routerQueue = {} /\ Served(Guest, Proto)

OnTheWay ==
  pc \in {"services", "routers"} /\ OnDefaults(Guest, Proto) => \E m : OneOnTheWay(m)

Serving == AllServed /\ OnTheWay

\* Within a guest, it is enough to look at the protocols that got done.
LEMMA StillAllServed ==
  ASSUME AllServed, Stays, UNCHANGED <<labels, todo>>, pc # "guest",
         \A q \in protocols \ protocols' : OnDefaults(Guest, q) => Served(Guest, q)'
  PROVE  AllServed'
<1>1. Done' = Done /\ Guest' = Guest
  BY DEF Done, Guest
<1>2. ASSUME NEW g \in Done, NEW q \in Protocols, OnDefaults(g, q)'  PROVE Served(g, q)'
  BY <1>2, ServedStays, SameLabels DEF AllServed
<1>3. ASSUME NEW q \in Protocols \ protocols', OnDefaults(Guest, q)'  PROVE Served(Guest, q)'
  <2> DEFINE g == Guest
  <2>1. OnDefaults(Guest, q)
    <3>1. labels' = labels
      OBVIOUS
    <3> QED  BY <1>1, <1>3, <3>1 DEF OnDefaults, Seen, Labels
  <2>2. CASE q \in protocols
    BY <2>1, <2>2
  <2>3. CASE q \notin protocols
    <3>1. g = Guest' /\ Served(g, q)
      BY <1>1, <2>1, <2>3 DEF AllServed
    <3> HIDE DEF g
    <3>2. Served(g, q) => Served(Guest, q)'
      BY <3>1, ServedStays DEF Served
    <3> QED  BY <3>1, <3>2
  <2> QED  BY <2>2, <2>3
<1> QED  BY <1>1, <1>2, <1>3 DEF AllServed

-----------------------------------------------------------------------------
(* The names of a guest on defaults *)

\* The name it gets is that of no object, since the guest owns nothing yet.
LEMMA DefaultNameIsFree ==
  ASSUME NEW owner, NEW i \in DefaultsPassed(owner, Guest),
         \A n \in DOMAIN owner : owner[n] # Guest
  PROVE  Candidate(Name(Guest), Guest, i) \notin DOMAIN owner
<1>1. Claimable(owner, Candidate(Name(Guest), Guest, i), Guest)
  BY DEF DefaultsPassed, PassedOver
<1> QED  BY <1>1 DEF Claimable

LEMMA ClaimsOfDefaultGuest ==
  ASSUME OrderInv, ClaimNames, OnDefaults(Guest, Proto)
  PROVE  /\ pc' = "services" /\ UNCHANGED <<todo, protocols, services, routers>>
         /\ \E m : /\ serviceNames' = {m} /\ serviceQueue' = {m}
                   /\ m \notin DOMAIN services[Proto]
         /\ \E r : routerQueue' = {r} /\ r \notin DOMAIN routers[Proto]
<1> USE DEF OrderInv, Inv
<1>1. /\ pc = "protocol" /\ protocols # {} /\ Guest \in Guests /\ Proto \in Protocols
      /\ Proto \in protocols
  BY FirstProtocol DEF ClaimNames, Shape, Guest
<1>2. Fresh(Guest, Proto)
  BY <1>1 DEF Unbegun
<1> DEFINE er == ExplicitOf(Guest, Proto, "routers")
           es == ExplicitOf(Guest, Proto, "services")
           sr == Seen(Guest, Proto, "routers")
           so == Seen(Guest, Proto, "services")
           rnames(i) == NamesFor(routerOwner[Proto], er, sr, i)
           snames(j) == NamesFor(serviceOwner[Proto], es, so, j)
<1>3. er = {} /\ es = {} /\ ~sr /\ ~so
  BY <1>1, BareLabels DEF OnDefaults
<1>4. PICK i \in DefaultsPassed(routerOwner[Proto], Guest),
           j \in DefaultsPassed(serviceOwner[Proto], Guest) :
        IF rnames(i) = {} \/ snames(j) = {} THEN TRUE
        ELSE /\ pc' = "services" /\ serviceNames' = snames(j)
             /\ serviceQueue' = snames(j) /\ routerQueue' = rnames(i)
             /\ UNCHANGED protocols
  BY DEF ClaimNames
<1> DEFINE r == Candidate(Name(Guest), Guest, i)
           m == Candidate(Name(Guest), Guest, j)
<1>5. rnames(i) = {r} /\ snames(j) = {m}
  BY <1>3 DEF NamesFor
<1>6. r \notin DOMAIN routerOwner[Proto] /\ m \notin DOMAIN serviceOwner[Proto]
  BY <1>2, DefaultNameIsFree DEF Fresh
<1> HIDE DEF r, m, rnames, snames
<1>7. r \notin DOMAIN routers[Proto] /\ m \notin DOMAIN services[Proto]
  BY <1>1, <1>6 DEF Owned
<1>8. UNCHANGED <<todo, services, routers>>
  BY DEF ClaimNames
<1> QED  BY <1>4, <1>5, <1>7, <1>8

LEMMA ClaimNamesKeepsServing ==
  ASSUME OrderInv, Serving, Stays, ClaimNames
  PROVE  Serving'
<1>1. /\ pc = "protocol" /\ protocols # {} /\ UNCHANGED <<labels, todo, services, routers>>
      /\ Proto \in protocols /\ Proto \in Protocols
  BY FirstProtocol DEF ClaimNames, OrderInv, Inv, Shape
<1>2. \/ protocols' = protocols /\ pc' = "services"
      \/ protocols' = protocols \ {Proto} /\ pc' = "protocol"
  BY <1>1 DEF ClaimNames
<1>3. OnDefaults(Guest, Proto) => protocols' = protocols
  BY ClaimsOfDefaultGuest
<1>4. AllServed'
  <2>1. \A q \in protocols \ protocols' : q = Proto /\ ~OnDefaults(Guest, Proto)
    BY <1>2, <1>3
  <2> QED  BY <1>1, <2>1, StillAllServed DEF Serving
<1>5. OnTheWay'
  <2>1. CASE pc' = "services" /\ OnDefaults(Guest, Proto)
    <3>1. Proto' = Proto
      BY <1>2, <2>1 DEF Proto
    <3>2. PICK m : /\ serviceNames' = {m} /\ serviceQueue' = {m}
                   /\ m \notin DOMAIN services[Proto]
      BY <2>1, ClaimsOfDefaultGuest
    <3>3. PICK r : routerQueue' = {r} /\ r \notin DOMAIN routers[Proto]
      BY <2>1, ClaimsOfDefaultGuest
    <3>4. OneOnTheWay(m)'
      BY <1>1, <2>1, <3>1, <3>2, <3>3 DEF OneOnTheWay
    <3> QED  BY <3>4 DEF OnTheWay
  <2>2. CASE pc' = "services" /\ ~OnDefaults(Guest, Proto)
    <3>1. Proto' = Proto /\ Guest' = Guest
      BY <1>1, <1>2, <2>2 DEF Proto, Guest
    <3>2. ~OnDefaults(Guest, Proto)'
      BY <1>1, <2>2, <3>1 DEF OnDefaults, Seen, Labels
    <3> QED  BY <3>2 DEF OnTheWay
  <2>3. CASE pc' = "protocol"
    BY <2>3 DEF OnTheWay
  <2> QED  BY <1>2, <2>1, <2>2, <2>3
<1> QED  BY <1>4, <1>5 DEF Serving

-----------------------------------------------------------------------------
(* The steps between objects *)

\* What is on the way stays so as long as nothing about it changes.
LEMMA StillOnTheWay ==
  ASSUME OnTheWay, Stays, pc \in {"services", "routers"}, Proto \in Protocols,
         UNCHANGED <<labels, todo, protocols, serviceNames, serviceQueue, routerQueue,
                     services, routers>>,
         pc' = pc \/ serviceQueue = {}
  PROVE  OnTheWay'
<1>1. Guest' = Guest /\ Proto' = Proto
  BY DEF Guest, Proto
<1>2. OnDefaults(Guest, Proto)' = OnDefaults(Guest, Proto)
  BY <1>1 DEF OnDefaults, Seen, Labels
<1>3. SUFFICES ASSUME OnDefaults(Guest, Proto) PROVE \E m : OneOnTheWay(m)'
  BY <1>2 DEF OnTheWay
<1>4. PICK m : OneOnTheWay(m)
  BY <1>3 DEF OnTheWay
<1>5. SentTo(Guest, Proto, m)' = SentTo(Guest, Proto, m)
  BY <1>1 DEF SentTo, SentBy, ServerLabels, Name, Labels, GuestsOf
<1>6. Served(Guest, Proto)' = Served(Guest, Proto)
  BY <1>1 DEF Served, SentTo, SentBy, RouterService, ServerLabels, Name, Labels, GuestsOf
<1>7. OneOnTheWay(m)'
  BY <1>1, <1>4, <1>5, <1>6 DEF OneOnTheWay
<1> QED  BY <1>7

LEMMA BetweenObjectsKeepsServing ==
  ASSUME OrderInv, Serving, Stays,
         BeginGuest \/ EndGuest \/ EndServices \/ EndRouters \/ UNCHANGED vars
  PROVE  Serving'
<1> USE DEF OrderInv, Inv, Serving
<1>1. CASE BeginGuest
  <2>1. Guest' = Guest /\ Done' = Done /\ labels' = labels /\ pc' = "protocol"
    BY <1>1 DEF BeginGuest, Guest, Done
  <2>2. ASSUME NEW q \in Protocols, OnDefaults(Guest, q)'  PROVE q \in protocols'
    <3>1. OnDefaults(Guest, q)
      BY <2>1, <2>2 DEF OnDefaults, Seen, Labels
    <3> QED  BY <1>1, <3>1 DEF BeginGuest, OnDefaults
  <2>3. ASSUME NEW g \in Done, NEW q \in Protocols, OnDefaults(g, q)'  PROVE Served(g, q)'
    BY <2>1, <2>3, ServedStays, SameLabels DEF AllServed
  <2> QED  BY <2>1, <2>2, <2>3 DEF AllServed, OnTheWay
<1>2. CASE EndGuest
  <2>1. /\ labels' = labels /\ pc' = "guest" /\ pc = "protocol" /\ protocols = {}
        /\ todo' = Tail(todo) /\ todo \in Seq(Guests) /\ todo # <<>>
    BY <1>2 DEF EndGuest, Shape
  <2>2. ASSUME NEW g \in Done'  PROVE g \in Done \/ g = Guest
    <3>1. \A i \in DOMAIN todo : todo[i] = Head(todo) \/ \E j \in DOMAIN Tail(todo) : Tail(todo)[j] = todo[i]
      <4>1. ASSUME NEW i \in DOMAIN todo, i # 1
            PROVE  i - 1 \in DOMAIN Tail(todo) /\ Tail(todo)[i - 1] = todo[i]
        BY <2>1, <4>1
      <4>2. todo[1] = Head(todo)
        BY <2>1
      <4> QED  BY <4>1, <4>2
    <3> QED  BY <2>1, <2>2, <3>1 DEF Done, ToSet, Guest
  <2>3. ASSUME NEW g \in Done', NEW q \in Protocols, OnDefaults(g, q)'  PROVE Served(g, q)'
    <3>1. OnDefaults(g, q)
      BY <2>1, <2>3, SameLabels
    <3>2. Served(g, q)
      BY <2>1, <2>2, <3>1 DEF AllServed
    <3> QED  BY <2>1, <3>2, ServedStays
  <2> QED  BY <2>1, <2>3 DEF AllServed, OnTheWay
<1>3. CASE EndServices
  <2>1. /\ pc = "services" /\ pc' = "routers" /\ serviceQueue = {}
        /\ UNCHANGED <<labels, todo, protocols, serviceNames, serviceQueue, routerQueue,
                       services, routers>>
    BY <1>3 DEF EndServices, queues, objects
  <2>2. AllServed'
    BY <2>1, StillAllServed
  <2>3. OnTheWay'
    BY <2>1, FirstProtocol, StillOnTheWay DEF Shape
  <2> QED  BY <2>2, <2>3
<1>4. CASE EndRouters
  <2>1. /\ pc = "routers" /\ pc' = "protocol" /\ routerQueue = {}
        /\ protocols' = protocols \ {Proto} /\ UNCHANGED <<labels, todo, services, routers>>
        /\ Proto \in Protocols
    BY <1>4, FirstProtocol DEF EndRouters, objects, Shape
  <2>2. OnDefaults(Guest, Proto) => Served(Guest, Proto)
    BY <2>1 DEF OnTheWay, OneOnTheWay
  <2>3. ASSUME NEW q \in protocols \ protocols', OnDefaults(Guest, q)  PROVE Served(Guest, q)'
    <3>1. q = Proto /\ Served(Guest, q)
      BY <2>1, <2>2, <2>3
    <3>2. Guest' = Guest
      BY <2>1 DEF Guest
    <3> QED  BY <2>1, <3>1, <3>2 DEF Served, SentTo, SentBy, RouterService, ServerLabels, Name, Labels, GuestsOf
  <2>4. AllServed'
    BY <2>1, <2>3, StillAllServed
  <2> QED  BY <2>1, <2>4 DEF OnTheWay
<1>5. CASE UNCHANGED vars
  <2>1. UNCHANGED <<labels, todo, protocols, pc, serviceNames, serviceQueue, routerQueue,
                    services, routers>>
    BY <1>5 DEF vars, queues, objects
  <2>2. AllServed'
    <3>1. CASE pc = "guest"
      <4>1. ASSUME NEW g \in Done, NEW q \in Protocols, OnDefaults(g, q)'  PROVE Served(g, q)'
        BY <2>1, <4>1, ServedStays, SameLabels DEF AllServed
      <4>2. Done' = Done /\ pc' = "guest"
        BY <2>1, <3>1 DEF Done
      <4> QED  BY <4>1, <4>2 DEF AllServed
    <3>2. CASE pc # "guest"
      BY <2>1, <3>2, StillAllServed
    <3> QED  BY <3>1, <3>2
  <2>3. OnTheWay'
    <3>1. CASE pc \in {"services", "routers"}
      BY <2>1, <3>1, FirstProtocol, StillOnTheWay DEF Shape
    <3>2. CASE pc \notin {"services", "routers"}
      BY <2>1, <3>2 DEF OnTheWay
    <3> QED  BY <3>1, <3>2
  <2> QED  BY <2>2, <2>3
<1> QED  BY <1>1, <1>2, <1>3, <1>4, <1>5

-----------------------------------------------------------------------------
(* The steps that add objects *)

\* A service made of the labels of a guest on defaults sends to it.
LEMMA DescribedSends ==
  ASSUME Inv, pc = "services", OnDefaults(Guest, Proto), NEW name, NEW transport
  PROVE  /\ SentBy(Guest, Proto, Described(name))
         /\ Proto = "http" => SentBy(Guest, Proto, HTTPServiceFor(name, transport))
<1> USE DEF Inv
<1>1. Guest \in Guests /\ Proto \in Protocols
  BY FirstProtocol DEF Shape, Guest
<1> DEFINE s == Labels(Guest)
           o == Object(Proto, "services", name)
<1>2. CASE ServerLabels(Guest, Proto, Name(Guest)) # {}
  BY <1>2 DEF SentBy
<1>3. CASE ServerLabels(Guest, Proto, Name(Guest)) = {}
  <2>1. \A f \in {"url", "ip", "address"} : StringValue(s, o, LBServer(f)) = Unset
    <3>1. CASE name = Name(Guest)
      BY <1>3, <3>1 DEF ServerLabels
    <3>2. CASE name # Name(Guest)
      BY <1>1, <3>2, BareLabels
    <3> QED  BY <3>1, <3>2
  <2> DEFINE d == Service(s, o, {<<Guest>>})
             u == [d EXCEPT !.serversTransport = transport]
  <2>2. Described(name) = d
    BY DEF Described, ServiceObject
  <2>3. Guest \in GuestsOf(d)
    <3> HIDE DEF s, o
    <3> QED  BY <1>1, <2>1, ServiceSendsToGuest
  <2>4. Proto = "http" => u.servers = d.servers
    <3>1. Proto = "http" => o.protocol = "http"
      BY DEF Object
    <3> HIDE DEF s, o
    <3> QED  BY <3>1, SettingsOfService
  <2>5. HTTPServiceFor(name, transport) \in {d, u}
    BY <2>2 DEF HTTPServiceFor
  <2> HIDE DEF d, u
  <2>6. Proto = "http" => Guest \in GuestsOf(u)
    BY <2>3, <2>4 DEF GuestsOf
  <2> QED  BY <2>2, <2>3, <2>5, <2>6 DEF SentBy
<1> QED  BY <1>2, <1>3

LEMMA AddServiceKeepsServing ==
  ASSUME OrderInv, Serving, Stays, AddHTTPService \/ AddService
  PROVE  Serving'
<1> USE DEF OrderInv, Inv
<1>1. /\ pc = "services" /\ Proto \in Protocols
      /\ UNCHANGED <<labels, todo, protocols, pc, serviceNames, routerQueue, routers>>
  BY FirstProtocol DEF AddHTTPService, AddService, Shape
<1>2. AllServed'
  BY <1>1, StillAllServed DEF Serving
<1>3. Guest' = Guest /\ Proto' = Proto
  BY <1>1 DEF Guest, Proto
<1>4. OnDefaults(Guest, Proto)' = OnDefaults(Guest, Proto)
  BY <1>1, <1>3 DEF OnDefaults, Seen, Labels
<1>5. ASSUME OnDefaults(Guest, Proto)  PROVE \E m : OneOnTheWay(m)'
  <2>1. PICK m : OneOnTheWay(m)
    BY <1>1, <1>5 DEF Serving, OnTheWay
  <2>2. serviceQueue = {m} /\ m \notin DOMAIN services[Proto] /\ serviceQueue' = {}
    BY <2>1, WhatAddHTTPServiceDoes DEF OneOnTheWay, AddHTTPService, AddService, AddsHTTPService
  <2>3. \E s : /\ services' = [services EXCEPT ![Proto] = With(@, m, s)]
               /\ SentBy(Guest, Proto, s)
    <3>1. CASE AddHTTPService
      <4>1. Proto = "http"
        BY <3>1 DEF AddHTTPService
      <4>2. PICK tr, refused : AddsHTTPService(m, tr, refused)
        BY <2>2, <3>1, WhatAddHTTPServiceDoes
      <4>3. services' = [services EXCEPT !["http"] = With(@, m, HTTPServiceFor(m, tr))]
        BY <2>2, <4>1, <4>2 DEF AddsHTTPService, NewService, MergeService, SkipService
      <4> QED  BY <1>1, <1>5, <4>1, <4>3, DescribedSends
    <3>2. CASE AddService
      <4>1. services' = [services EXCEPT ![Proto] = With(@, m, Described(m))]
        BY <2>2, <3>2 DEF AddService
      <4> QED  BY <1>1, <1>5, <4>1, DescribedSends
    <3> QED  BY <3>1, <3>2
  <2>4. PICK s : /\ services' = [services EXCEPT ![Proto] = With(@, m, s)]
                 /\ SentBy(Guest, Proto, s)
    BY <2>3
  <2>5. m \in DOMAIN services'[Proto] /\ services'[Proto][m] = s
    BY <1>1, <2>4 DEF Shape, With
  <2>6. SentTo(Guest, Proto, m)'
    BY <1>1, <1>3, <2>4, <2>5 DEF SentTo, SentBy, ServerLabels, Name, Labels, GuestsOf
  <2>7. Served(Guest, Proto) => Served(Guest, Proto)'
    <3> DEFINE g == Guest
               q == Proto
    <3>1. g = Guest' /\ q = Proto' /\ q \in Protocols
      BY <1>1, <1>3
    <3> HIDE DEF g, q
    <3>2. Served(g, q) => Served(Guest, Proto)'
      BY <1>1, <3>1, ServedStays DEF Served
    <3> QED  BY <3>2 DEF g, q
  <2> QED  BY <1>1, <1>3, <2>1, <2>2, <2>6, <2>7 DEF OneOnTheWay
<1> QED  BY <1>2, <1>4, <1>5 DEF Serving, OnTheWay

LEMMA AddRouterKeepsServing ==
  ASSUME OrderInv, Serving, Stays, AddHTTPRouter \/ AddRouter
  PROVE  Serving'
<1> USE DEF OrderInv, Inv
<1>1. /\ pc = "routers" /\ Proto \in Protocols
      /\ UNCHANGED <<labels, todo, protocols, pc, serviceNames, serviceQueue, services>>
  BY FirstProtocol DEF AddHTTPRouter, AddRouter, Shape
<1>2. AllServed'
  BY <1>1, StillAllServed DEF Serving
<1>3. Guest' = Guest /\ Proto' = Proto
  BY <1>1 DEF Guest, Proto
<1>4. OnDefaults(Guest, Proto)' = OnDefaults(Guest, Proto)
  BY <1>1, <1>3 DEF OnDefaults, Seen, Labels
<1>5. ASSUME OnDefaults(Guest, Proto)  PROVE \E m : OneOnTheWay(m)'
  <2>1. PICK m : OneOnTheWay(m)
    BY <1>1, <1>5 DEF Serving, OnTheWay
  <2>2. serviceNames = {m} /\ serviceQueue = {} /\ SentTo(Guest, Proto, m)
    BY <1>1, <2>1 DEF OneOnTheWay
  <2>3. PICK r : routerQueue = {r} /\ r \notin DOMAIN routers[Proto]
    BY <2>1 DEF OneOnTheWay, AddHTTPRouter, AddRouter
  <2>4. /\ routerQueue' = {}
        /\ routers' = [routers EXCEPT ![Proto] = With(@, r, RouterFor(r))]
    BY <2>3 DEF AddHTTPRouter, AddRouter, NewRouter, KeepRouter
  <2>5. r \in DOMAIN routers'[Proto] /\ routers'[Proto][r] = RouterFor(r)
    BY <1>1, <2>4 DEF Shape, With
  <2>6. ASSUME RouterService(Guest, Proto, Name(Guest)) = Unset
        PROVE  RouterFor(r).object.service = m
    <3> DEFINE o == Object(Proto, "routers", r)
    <3>1. DefaultService(r) = m
      BY <2>2 DEF DefaultService, IsFirst
    <3>2. StringValue(Labels(Guest), o, <<"service">>) = Unset
      <4>1. CASE r = Name(Guest)
        BY <2>6, <4>1 DEF RouterService
      <4>2. CASE r # Name(Guest)
        <5>1. Guest \in Guests
          BY <1>1 DEF Shape, Guest
        <5> QED  BY <1>1, <1>5, <4>2, <5>1, BareLabels
      <4> QED  BY <4>1, <4>2
    <3>3. RouterFor(r).object = Router(Labels(Guest), o, DefaultService(r))
      BY DEF RouterFor
    <3> HIDE DEF o
    <3> QED  BY <3>1, <3>2, <3>3, ServiceOfRouter DEF Or
  <2>7. RouterFor(r).from = Guest
    BY DEF RouterFor
  <2>8. SentTo(Guest, Proto, m)'
    BY <1>1, <1>3, <2>2 DEF SentTo, SentBy, ServerLabels, Name, Labels, GuestsOf
  <2>9. RouterService(Guest, Proto, Name(Guest))' = RouterService(Guest, Proto, Name(Guest))
    BY <1>1, <1>3 DEF RouterService, Name, Labels
  <2>10. Served(Guest, Proto)'
    BY <1>3, <2>5, <2>6, <2>7, <2>8, <2>9 DEF Served
  <2> QED  BY <1>1, <1>3, <2>2, <2>4, <2>8, <2>10 DEF OneOnTheWay
<1> QED  BY <1>2, <1>4, <1>5 DEF Serving, OnTheWay

-----------------------------------------------------------------------------
(* The theorem *)

LEMMA ServingStep ==
  ASSUME OrderInv, Serving, Stays, [Next]_vars
  PROVE  Serving'
BY ClaimNamesKeepsServing, BetweenObjectsKeepsServing, AddServiceKeepsServing,
   AddRouterKeepsServing DEF Next, Finished

LEMMA InitServing == Init => Serving
<1> SUFFICES ASSUME Init PROVE Serving
  OBVIOUS
<1>1. Done = {} /\ pc = "guest"
  BY DEF Init, Done, Guests
<1> QED  BY <1>1 DEF Serving, AllServed, OnTheWay

\* A guest that gives no names of its own gets a router and a service under
\* default names, whatever names the guests before it took and those after it
\* ask for (claimDefaultObjectName, defaultServiceForRouter,
\* addOrMergeHTTPService, addOrSetHTTPRouter): its router leads to its service,
\* and that sends to the guest.
THEOREM DefaultGuestsAreServed == Spec => []DefaultGuestServed
<1>1. Inv /\ Apart /\ Unbegun /\ InTurn /\ Serving /\ [Next]_vars => Serving'
  BY OrderStep, ServingStep DEF OrderInv
<1>2. Serving => DefaultGuestServed
  BY DEF Serving, AllServed, Served, SentTo, SentBy, DefaultGuestServed
<1> QED  BY <1>1, <1>2, InitServing, BuilderInvariance, OrderInvariance, PTL DEF Spec

-----------------------------------------------------------------------------
(* References.  A router refers to a service that is there or that a label   *)
(* names; the services of the current guest are there or in the queue.       *)

LabelledServices(g, q) == {RouterService(g, q, o.name) : o \in DOMAIN Labels(g).objects}

Resolves(q, r) ==
  r.object.service \in LabelledServices(r.from, q) \/ r.object.service \in DOMAIN services[q]

RoutersResolve == \A q \in Protocols : \A n \in DOMAIN routers[q] : Resolves(q, routers[q][n])

AttachedStay == \A t \in attached : t \in DOMAIN transports /\ Insecure(transports[t])

ServicesOnTheWay ==
  pc \in {"services", "routers"} =>
    /\ Named(serviceNames)
    /\ serviceNames \subseteq DOMAIN services[Proto] \cup serviceQueue
    /\ pc = "routers" => serviceQueue = {}

Referring == RoutersResolve /\ AttachedStay /\ ServicesOnTheWay

\* What is resolved stays so.
LEMMA StillResolves ==
  ASSUME Stays, UNCHANGED labels, NEW q \in Protocols, NEW r, Resolves(q, r)
  PROVE  Resolves(q, r)'
BY DEF Resolves, Stays, LabelledServices, RouterService, Labels

LEMMA StillAllResolve ==
  ASSUME RoutersResolve, Stays, UNCHANGED <<labels, routers>>
  PROVE  RoutersResolve'
<1>1. SUFFICES ASSUME NEW q \in Protocols, NEW n \in DOMAIN routers'[q]
               PROVE  Resolves(q, routers[q][n])'
  BY DEF RoutersResolve
<1>2. PICK r : r = routers[q][n] /\ r = routers'[q][n]
  OBVIOUS
<1>3. Resolves(q, r)'
  BY <1>2, StillResolves DEF RoutersResolve
<1> QED  BY <1>2, <1>3 DEF Resolves

LEMMA StillAttached ==
  ASSUME AttachedStay, Stays, UNCHANGED attached
  PROVE  AttachedStay'
<1>1. Keeps(transports, transports')
  BY DEF Stays, Protocols
<1> QED  BY <1>1 DEF AttachedStay, Keeps, Insecure

\* The service of a new router is one of the guest's, or one a label names.
LEMMA NewRouterResolves ==
  ASSUME OrderInv, ServicesOnTheWay, pc = "routers", NEW name
  PROVE  Resolves(Proto, RouterFor(name))
<1> USE DEF OrderInv, Inv
<1> DEFINE s == Labels(Guest)
           o == Object(Proto, "routers", name)
           said == StringValue(s, o, <<"service">>)
           p == [protocol |-> Proto, collection |-> "routers", name |-> name,
                 key |-> <<"service">>, entry |-> NoEntry]
<1>1. /\ RouterFor(name).object.service = Or(said, DefaultService(name))
      /\ RouterFor(name).from = Guest
  BY ServiceOfRouter DEF RouterFor
<1>2. labels[Guest] \in LabelSets /\ Proto \in Protocols
  BY FirstProtocol DEF Shape, Guest
<1>3. CASE said = Unset
  <2>1. DefaultService(name) \in serviceNames
    BY DefaultServiceIsOneOfThem DEF ServicesOnTheWay, Shape
  <2>2. DefaultService(name) \in DOMAIN services[Proto]
    BY <2>1 DEF ServicesOnTheWay
  <2> QED  BY <1>1, <1>3, <2>2 DEF Resolves, Or
<1>4. CASE said # Unset
  <2>1. p \in DOMAIN s.values
    BY <1>4 DEF StringValue, ValueAt, Object
  <2>2. ~IsRoot(p) /\ ObjectOf(p) = o
    BY <1>2 DEF IsRoot, Protocols, ObjectOf, Object
  <2>3. \A x \in DOMAIN s.values : ~IsRoot(x) => ObjectOf(x) \in DOMAIN s.objects
    BY <1>2, BuilderAssumption DEF WellFormed, Labels
  <2> HIDE DEF p
  <2>4. o \in DOMAIN s.objects
    BY <2>1, <2>2, <2>3
  <2>5. o.name = name /\ RouterService(Guest, Proto, name) = said
    BY DEF Object, RouterService
  <2>6. said \in LabelledServices(Guest, Proto)
    BY <2>4, <2>5 DEF LabelledServices
  <2> QED  BY <1>1, <1>4, <2>6 DEF Resolves, Or
<1> QED  BY <1>3, <1>4

LEMMA AddRouterKeepsReferring ==
  ASSUME OrderInv, Referring, Stays, AddHTTPRouter \/ AddRouter
  PROVE  Referring'
<1> USE DEF OrderInv, Inv, Referring
<1>1. /\ pc = "routers" /\ Proto \in Protocols
      /\ UNCHANGED <<labels, todo, protocols, pc, serviceNames, serviceQueue, services, attached>>
  BY FirstProtocol DEF AddHTTPRouter, AddRouter, Shape, history
<1>2. Guest' = Guest /\ Proto' = Proto
  BY <1>1 DEF Guest, Proto
<1>3. RoutersResolve'
  <2>1. CASE UNCHANGED routers
    BY <1>1, <2>1, StillAllResolve
  <2>2. CASE ~UNCHANGED routers
    <3>1. PICK name : routers' = [routers EXCEPT ![Proto] = With(@, name, RouterFor(name))]
      BY <1>1, <2>2 DEF AddHTTPRouter, AddRouter, NewRouter, KeepRouter
    <3>2. SUFFICES ASSUME NEW q \in Protocols, NEW n \in DOMAIN routers'[q]
                   PROVE  Resolves(q, routers[q][n])'
      BY DEF RoutersResolve
    <3>3. PICK r : r = routers'[q][n]
      OBVIOUS
    <3>4. Resolves(q, r)
      <4>1. CASE q = Proto /\ n = name
        <5>1. r = RouterFor(name)
          BY <1>1, <3>1, <3>3, <4>1 DEF Shape, With
        <5> QED  BY <1>1, <4>1, <5>1, NewRouterResolves
      <4>2. CASE ~(q = Proto /\ n = name)
        <5>1. n \in DOMAIN routers[q] /\ r = routers[q][n]
          BY <1>1, <3>1, <3>2, <3>3, <4>2 DEF Shape, With
        <5> QED  BY <5>1 DEF RoutersResolve
      <4> QED  BY <4>1, <4>2
    <3>5. Resolves(q, r)'
      BY <1>1, <3>4, StillResolves
    <3> QED  BY <3>3, <3>5 DEF Resolves
  <2> QED  BY <2>1, <2>2
<1>4. AttachedStay'
  BY <1>1, StillAttached
<1>5. ServicesOnTheWay'
  BY <1>1, <1>2 DEF ServicesOnTheWay
<1> QED  BY <1>3, <1>4, <1>5

LEMMA AddServiceKeepsReferring ==
  ASSUME OrderInv, Referring, Stays, AddHTTPService \/ AddService
  PROVE  Referring'
<1> USE DEF OrderInv, Inv, Referring
<1>1. /\ pc = "services" /\ Proto \in Protocols
      /\ UNCHANGED <<labels, todo, protocols, pc, serviceNames, routers>>
  BY FirstProtocol DEF AddHTTPService, AddService, Shape
<1>2. Guest' = Guest /\ Proto' = Proto
  BY <1>1 DEF Guest, Proto
<1>3. RoutersResolve'
  BY <1>1, StillAllResolve
<1>4. AttachedStay'
  <2>1. CASE AddService
    BY <2>1, StillAttached DEF AddService, history
  <2>2. CASE AddHTTPService
    <3>1. PICK name \in serviceQueue : \E t, refused : AddsHTTPService(name, t, refused)
      BY <2>2, WhatAddHTTPServiceDoes
    <3>2. PICK t : /\ AttachTransport(name, t)
                   /\ Attaches(name) => AttachableTransport(t)
      BY <3>1 DEF AddsHTTPService
    <3>3. Insecure(InsecureServersTransport)
      BY DEF Insecure, InsecureServersTransport, TransportKinds
    <3>4. Keeps(transports, transports')
      BY DEF Stays, Protocols
    <3>5. CASE ~Attaches(name)
      <4>1. UNCHANGED attached
        BY <3>2, <3>5 DEF AttachTransport
      <4> QED  BY <4>1, StillAttached
    <3>6. CASE Attaches(name)
      <4>1. attached' = attached \cup {t}
        BY <3>2, <3>6 DEF AttachTransport
      <4>2. CASE t \in DOMAIN transports
        BY <3>2, <3>4, <3>6, <4>1, <4>2 DEF AttachableTransport, AttachedStay, Keeps, Insecure
      <4>3. CASE t \notin DOMAIN transports
        <5>1. transports' = With(transports, t, InsecureServersTransport)
          BY <3>2, <3>6, <4>3 DEF AttachTransport
        <5>2. t \in DOMAIN transports' /\ transports'[t] = InsecureServersTransport
          BY <5>1 DEF With
        <5> QED  BY <3>3, <3>4, <4>1, <5>2 DEF AttachedStay, Keeps, Insecure
      <4> QED  BY <4>2, <4>3
    <3> QED  BY <3>5, <3>6
  <2> QED  BY <2>1, <2>2
<1>5. ServicesOnTheWay'
  <2>1. ASSUME NEW name, serviceQueue' = serviceQueue \ {name}, name \in DOMAIN services'[Proto]
        PROVE  serviceNames \subseteq DOMAIN services'[Proto] \cup serviceQueue'
    BY <1>1, <2>1 DEF ServicesOnTheWay, Stays
  <2>2. \E name : serviceQueue' = serviceQueue \ {name} /\ name \in DOMAIN services'[Proto]
    <3>1. CASE AddHTTPService
      <4>1. PICK name \in serviceQueue : \E t, refused : AddsHTTPService(name, t, refused)
        BY <3>1, WhatAddHTTPServiceDoes
      <4>2. Proto = "http"
        BY <3>1 DEF AddHTTPService
      <4>3. PICK t, refused : AddsHTTPService(name, t, refused)
        BY <4>1
      <4>4. \/ \E s : services' = [services EXCEPT !["http"] = With(@, name, s)]
            \/ name \in DOMAIN services["http"] /\ services' = services
        BY <4>3 DEF AddsHTTPService, NewService, MergeService, SkipService
      <4>5. name \in DOMAIN services'["http"]
        BY <1>1, <4>2, <4>4 DEF Shape, With
      <4> QED  BY <4>2, <4>3, <4>5 DEF AddsHTTPService
    <3>2. CASE AddService
      <4>1. PICK name : /\ services' = [services EXCEPT ![Proto] = With(@, name, Described(name))]
                        /\ serviceQueue' = serviceQueue \ {name}
        BY <3>2 DEF AddService
      <4>2. name \in DOMAIN services'[Proto]
        BY <1>1, <4>1 DEF Shape, With
      <4> QED  BY <4>1, <4>2
    <3> QED  BY <3>1, <3>2
  <2> QED  BY <1>1, <1>2, <2>1, <2>2 DEF ServicesOnTheWay
<1> QED  BY <1>3, <1>4, <1>5

\* The names of the services are explicit ones, or the one default name.
LEMMA ClaimedServicesAreNamed ==
  ASSUME Shape, ClaimNames, pc' = "services"
  PROVE  /\ Named(serviceNames') /\ serviceQueue' = serviceNames'
         /\ protocols' = protocols
<1> DEFINE es == ExplicitOf(Guest, Proto, "services")
           so == Seen(Guest, Proto, "services")
           snames(j) == NamesFor(serviceOwner[Proto], es, so, j)
<1>1. PICK j : serviceNames' = snames(j) /\ serviceQueue' = snames(j) /\ protocols' = protocols
  BY DEF ClaimNames
<1>2. es \subseteq ToSet(NameOrder)
  <2>1. labels[Guest] \in LabelSets
    BY DEF Shape, Guest, ClaimNames
  <2>2. {o.name : o \in DOMAIN labels[Guest].set.objects} \subseteq ToSet(NameOrder)
    BY <2>1, BuilderAssumption
  <2> QED  BY <2>2 DEF ExplicitOf, ExplicitNames, Labels
<1>3. snames(j) \subseteq es \/ \E m : snames(j) \subseteq {m}
  BY DEF NamesFor
<1>4. snames(j) # {} => Named(snames(j))
  BY <1>2, <1>3 DEF Named
<1>5. Named({})
  BY DEF Named
<1> HIDE DEF snames
<1>6. Named(snames(j))
  BY <1>4, <1>5
<1> QED  BY <1>1, <1>6 DEF Named

LEMMA OtherStepsKeepReferring ==
  ASSUME OrderInv, Referring, Stays,
         \/ ClaimNames \/ BeginGuest \/ EndGuest \/ EndServices \/ EndRouters
         \/ UNCHANGED vars
  PROVE  Referring'
<1> USE DEF OrderInv, Inv, Referring
<1>1. UNCHANGED <<labels, routers, attached>>
  BY DEF ClaimNames, BeginGuest, EndGuest, EndServices, EndRouters, objects, history, vars
<1>2. RoutersResolve' /\ AttachedStay'
  BY <1>1, StillAllResolve, StillAttached
<1>3. ServicesOnTheWay'
  <2>1. CASE ClaimNames
    <3>1. CASE pc' = "services"
      BY <2>1, <3>1, ClaimedServicesAreNamed DEF ServicesOnTheWay, Named
    <3>2. CASE pc' # "services"
      <4>1. pc' = "protocol"
        BY <2>1, <3>2 DEF ClaimNames
      <4> QED  BY <4>1 DEF ServicesOnTheWay
    <3> QED  BY <3>1, <3>2
  <2>2. CASE BeginGuest \/ EndGuest \/ EndRouters
    BY <2>2 DEF BeginGuest, EndGuest, EndRouters, ServicesOnTheWay
  <2>3. CASE EndServices \/ UNCHANGED vars
    <3>1. UNCHANGED <<protocols, services, serviceNames, serviceQueue>>
      BY <2>3 DEF EndServices, vars, queues, objects
    <3>2. Proto' = Proto
      BY <3>1 DEF Proto
    <3>3. pc' = pc \/ (pc = "services" /\ serviceQueue = {})
      BY <2>3 DEF EndServices, vars
    <3> QED  BY <3>1, <3>2, <3>3 DEF ServicesOnTheWay, Named
  <2> QED  BY <2>1, <2>2, <2>3
<1> QED  BY <1>2, <1>3

LEMMA InitReferring == Init => Referring
<1> SUFFICES ASSUME Init PROVE Referring
  OBVIOUS
<1>1. \A q \in Protocols : DOMAIN routers[q] = {}
  BY DEF Init, Empty
<1> QED  BY <1>1 DEF Init, Referring, RoutersResolve, AttachedStay, ServicesOnTheWay

\* What the builder refers to of its own accord exists when the configuration
\* is done and at every moment before: the service defaultServiceForRouter
\* chose for a router is there, and a transport that
\* ensureInsecureHTTPServersTransport attached is there and still skips the
\* verification.
THEOREM ReferencesAreResolved == Spec => []ReferencesResolve
<1>1. Inv /\ Apart /\ Unbegun /\ InTurn /\ Referring /\ [Next]_vars => Referring'
  BY OrderStep, AddRouterKeepsReferring, AddServiceKeepsReferring, OtherStepsKeepReferring
     DEF OrderInv, Next, Finished
<1>2. Referring => ReferencesResolve
  BY DEF Referring, RoutersResolve, Resolves, LabelledServices, AttachedStay, ReferencesResolve
<1> QED  BY <1>1, <1>2, InitReferring, BuilderInvariance, OrderInvariance, PTL DEF Spec
=============================================================================
