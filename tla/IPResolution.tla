----------------------------- MODULE IPResolution -----------------------------
(***************************************************************************)
(* Where the traffic of one guest goes: the addresses a scan takes from    *)
(* its configuration, those the resolution takes from its network          *)
(* interfaces instead (scanner/ip_resolution.go), and the servers that are *)
(* made of them or of labels (traefik/http.go, backend.go).                *)
(*                                                                         *)
(* Addresses are abstract: which are IPv4 and which can be reached by      *)
(* others is given.  Lists of addresses are sets: the code sorts them and  *)
(* drops duplicates.                                                       *)
(***************************************************************************)
EXTENDS Glob, Sequences

CONSTANTS
  Addresses,         \* what Proxmox VE may give as addresses
  IPv4,              \* the IPv4 ones
  Routable,          \* valid and not loopback, link-local, multicast, unspecified
  InterfaceSets,     \* the sets of interfaces a guest may have
  PatternSets,       \* the sets of patterns of pve.interfaces; {}: no label
  DefaultInterfaces, \* Options.DefaultInterfaces, {} for every interface
  FallbackHost,      \* the host name a backend falls back to
  LabelURL, LabelIP, \* what the labels for a server give
  Unset              \* a label that is not there

\* A blank pattern is dropped before it gets here (normalizedInterfacePatterns,
\* normalizedDefaultInterfaces).
ASSUME ResolutionAssumption ==
  /\ IPv4 \subseteq Addresses /\ Routable \subseteq Addresses
  /\ {} \in PatternSets
  /\ {FallbackHost, LabelURL} \cap (Addresses \cup {LabelIP}) = {}
  /\ \A is \in InterfaceSets : \A i \in is : IsText(i.name)
  /\ \A pat \in DefaultInterfaces \cup UNION PatternSets : IsText(pat) /\ pat # <<>>

Modes == {"ipv4", "ipv6", "ipv4/6"}

VARIABLES
  mode,       \* Options.IPMode, normalized
  skip,       \* Options.SkipIPResolution
  guest,      \* its kind, whether it is running and enabled, its ipconfigN
              \* entries, pve.interfaces, and the labels for its server
  interfaces, \* its interfaces
  pc,
  ips,        \* Workload.IPs
  problems,   \* Workload.Problems
  servers     \* the hosts or URLs traffic is sent to

input == <<mode, skip, guest, interfaces>>
vars  == <<input, pc, ips, problems, servers>>

\* Only virtual machines have ipconfigN entries.
GuestType ==
  {g \in [kind : {"vm", "container"}, running : BOOLEAN, enabled : BOOLEAN,
          ipconfigs : SUBSET Addresses, patterns : PatternSets,
          url : {Unset, LabelURL}, ip : {Unset, LabelIP}] :
     g.kind = "container" => g.ipconfigs = {}}

Init ==
  /\ mode \in Modes
  /\ skip \in BOOLEAN
  /\ guest \in GuestType
  /\ interfaces \in InterfaceSets
  /\ pc = "listed"
  /\ ips = {}
  /\ problems = {}
  /\ servers = {}

-----------------------------------------------------------------------------
\* IPMode.allows
Allows(m, a) ==
  CASE m = "ipv6" -> a \notin IPv4
    [] m = "ipv4/6" -> TRUE
    [] OTHER -> a \in IPv4

UnroutableToo(as) == {a \in as : Allows(mode, a)}

\* ipFromAddress
Usable(as) == {a \in as \cap Routable : Allows(mode, a)}

\* interfacePatternsFor
Patterns == IF guest.patterns # {} THEN guest.patterns ELSE DefaultInterfaces

AllowedIgnoringLabel(name) ==
  DefaultInterfaces = {} \/ \E pat \in DefaultInterfaces : Matches(pat, name)

\* allowedGuestInterface
Allowed(name) == Patterns = {} \/ \E pat \in Patterns : Matches(pat, name)

\* ipsFromInterfaces
FromInterfaces == Usable(UNION {i.addresses : i \in {j \in interfaces : Allowed(j.name)}})

-----------------------------------------------------------------------------
\* applyConfig, whatever becomes of the resolution.
ApplyConfig ==
  /\ pc = "listed"
  /\ pc' = "configured"
  /\ ips' = Usable(guest.ipconfigs)
  /\ UNCHANGED <<input, problems, servers>>

\* The configuration could not be read: without its notes the guest is not
\* enabled, and nothing comes of it.
ConfigFails ==
  /\ pc = "listed"
  /\ pc' = "dropped"
  /\ problems' = problems \cup {"config"}
  /\ UNCHANGED <<input, ips, servers>>

Resolves == ~skip /\ guest.running /\ guest.enabled

ResolveNothing ==
  /\ pc = "configured"
  /\ ~Resolves
  /\ pc' = "resolved"
  /\ UNCHANGED <<input, ips, problems, servers>>

\* Addresses that were found replace those of the configuration. If there are
\* none, those stay, unless the guest says which interfaces to use.
KeepsConfigured(found) ==
  /\ pc = "configured"
  /\ Resolves
  /\ pc' = "resolved"
  /\ ips' = IF found # {} THEN found ELSE ips

Settle(found) ==
  /\ pc = "configured"
  /\ Resolves
  /\ pc' = "resolved"
  /\ ips' = IF found # {} THEN found ELSE IF guest.patterns # {} THEN {} ELSE ips

Resolve ==
  /\ Settle(FromInterfaces)
  /\ UNCHANGED <<input, problems, servers>>

ResolveFails ==
  /\ Settle({})
  /\ problems' = problems \cup {"interfaces"}
  /\ UNCHANGED <<input, servers>>

\* buildHTTPServers and backendAddresses: labels come before addresses, and
\* the host name is used when there are none.
ServersIPsFirst ==
  IF ips # {} THEN ips
  ELSE IF guest.url # Unset THEN {guest.url}
  ELSE IF guest.ip # Unset THEN {guest.ip}
  ELSE {FallbackHost}

ServersWithoutHost ==
  IF guest.url # Unset THEN {guest.url}
  ELSE IF guest.ip # Unset THEN {guest.ip}
  ELSE ips

Servers ==
  IF guest.url # Unset THEN {guest.url}
  ELSE IF guest.ip # Unset THEN {guest.ip}
  ELSE IF ips # {} THEN ips
  ELSE {FallbackHost}

BuildServers ==
  /\ pc = "resolved"
  /\ guest.enabled
  /\ pc' = "built"
  /\ servers' = Servers
  /\ UNCHANGED <<input, ips, problems>>

Next ==
  \/ ApplyConfig \/ ConfigFails
  \/ ResolveNothing \/ Resolve \/ ResolveFails
  \/ BuildServers

Spec == Init /\ [][Next]_vars

-----------------------------------------------------------------------------
TypeOK ==
  /\ ips \subseteq Addresses
  /\ problems \subseteq {"config", "interfaces"}
  /\ pc \in {"listed", "dropped", "configured", "resolved", "built"}
  /\ servers # {} <=> pc = "built"

\* README.md, IP Resolution, as a definition of its own: the addresses on the
\* interfaces to be considered, then, for a virtual machine that does not say
\* which interfaces these are, the static ones, then the host name.  A failed
\* call counts as one that found nothing.
Considered ==
  {i \in interfaces :
     LET wanted == IF guest.patterns = {} THEN DefaultInterfaces ELSE guest.patterns
     IN wanted = {} \/ \E pat \in wanted : Denotes(pat, i.name)}

WantedVersions ==
  CASE mode = "ipv4" -> IPv4 [] mode = "ipv6" -> Addresses \ IPv4 [] OTHER -> Addresses

Documented ==
  LET discovered == {a \in Routable \cap WantedVersions : \E i \in Considered : a \in i.addresses}
      static == guest.ipconfigs \cap Routable \cap WantedVersions
      answer == IF "interfaces" \in problems THEN {} ELSE discovered
  IN IF answer # {} THEN answer
     ELSE IF guest.patterns = {} /\ static # {} THEN static
     ELSE {FallbackHost}

\* README.md:153-184: traffic goes to what the labels server.url and server.ip
\* of the service give, whatever was resolved, and else to the addresses of the
\* guest that the options and its own labels allow.  The README names a third
\* label, ip, that the schema does not have: IPLabelOverrides of Preparation.
ServersAsDocumented ==
  (pc = "built" /\ Resolves) =>
    servers = IF guest.url # Unset THEN {LabelURL}
              ELSE IF guest.ip # Unset THEN {LabelIP}
              ELSE Documented

\* No traffic is sent to an address of the wrong version or one only the
\* guest itself can reach, from whichever source it comes.
NoUnreachableServer ==
  (servers \ {LabelIP}) \cap Addresses \subseteq Routable \cap WantedVersions

\* The matching of patterns is what a pattern stands for.
PatternsMean ==
  \A i \in interfaces : \A pat \in guest.patterns \cup DefaultInterfaces :
    Matches(pat, i.name) <=> (pat # <<>> /\ Denotes(pat, i.name))

\* README.md: ipMode "has no effect when skipIPResolution is true".  Then the
\* traffic of a guest goes to its host name or to addresses of every version.
ModeWithoutEffect ==
  (skip /\ pc = "built" /\ guest.url = Unset /\ guest.ip = Unset) =>
    servers \in {{FallbackHost}, guest.ipconfigs \cap Routable}
=============================================================================
