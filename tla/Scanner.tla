------------------------------- MODULE Scanner -------------------------------
(***************************************************************************)
(* One scan of a Proxmox VE cluster, API call by API call                  *)
(* (proxmox/inventory/scanner), while guests are edited, moved, started    *)
(* and stopped, and nodes come and go, under its feet.                     *)
(*                                                                         *)
(* A scan lists all guests with one call and falls back to listing them    *)
(* node by node; it then reads the configuration of each guest, and asks   *)
(* the enabled running ones for their addresses.  Each call sees the       *)
(* cluster as it is when the call is answered, so a snapshot is not one    *)
(* state of the cluster.                                                   *)
(*                                                                         *)
(* The notes of a guest are abstracted to their revision.  The tags filter *)
(* and the order of the snapshot are left out here.                        *)
(***************************************************************************)
EXTENDS Integers, Sequences, SequencesExt

CONSTANTS
  Guests,
  VMs,              \* the guests that are virtual machines; others: containers
  NodeList,         \* the nodes, in the order the API lists them
  IncludedNodes,    \* Options.Nodes, normalized; empty: all nodes
  SkipStopped,      \* Options.SkipStopped
  SkipIPResolution, \* Options.SkipIPResolution
  ClusterUsable,    \* /cluster/resources describes every guest completely
  EnabledRevs,      \* the revisions of the notes that have traefik.enable=true
  InitialHome,      \* where the guests are at first
  MaxChanges,       \* bound on the changes of the cluster
  MaxFailures       \* bound on the calls that fail for no reason modelled here

Nodes == ToSet(NodeList)

ASSUME ScannerAssumption ==
  /\ NodeList \in Seq(Nodes)
  /\ VMs \subseteq Guests
  /\ IncludedNodes \in Seq(Nodes)
  /\ SkipStopped \in BOOLEAN /\ SkipIPResolution \in BOOLEAN /\ ClusterUsable \in BOOLEAN
  /\ EnabledRevs \subseteq Nat
  /\ InitialHome \in [Guests -> Nodes]
  /\ MaxChanges \in Nat /\ MaxFailures \in Nat

VARIABLES
  (* the cluster *)
  home,      \* home[g]: the node guest g is on
  rev,       \* rev[g]: the revision of its notes
  running,   \* the guests that are started
  online,    \* the nodes that are up
  changes,   \* how often the cluster has changed
  failures,  \* how many calls have failed for no other reason
  (* the scan *)
  canceled,  \* the context of the scan is done
  phase,     \* which calls the scan is making
  queue,     \* the nodes still to be listed, the current one first
  batch,     \* listed resources whose configuration is still to be read
  snapshot,  \* the workloads of the scan
  unresolved,\* the workloads still to be asked for their addresses
  trouble,   \* the problems found
  (* what happened since the scan began *)
  startRev,  \* the revisions when it began
  touched,   \* the guests that changed
  lost,      \* the guests some call about which failed
  answered   \* whether a call was answered

world   == <<home, rev, running, online, changes>>
scan    == <<phase, queue, batch, snapshot, unresolved, trouble>>
history == <<startRev, touched, lost, answered>>

Phases == {"idle", "cluster", "configs", "nodes", "vms", "vmconfigs",
           "containers", "ctconfigs", "resolve"}

NoRev == -1

ScannerInit ==
  /\ home = InitialHome
  /\ rev = [g \in Guests |-> 0]
  /\ running = Guests
  /\ online = Nodes
  /\ changes = 0
  /\ failures = 0
  /\ canceled = FALSE
  /\ phase = "idle"
  /\ queue = <<>>
  /\ batch = {}
  /\ snapshot = {}
  /\ unresolved = {}
  /\ trouble = {}
  /\ startRev = [g \in Guests |-> 0]
  /\ touched = {}
  /\ lost = {}
  /\ answered = FALSE

-----------------------------------------------------------------------------
(* The cluster changes *)

Change(gs) ==
  /\ changes < MaxChanges
  /\ changes' = changes + 1
  /\ touched' = touched \cup gs
  /\ UNCHANGED <<failures, canceled, scan, startRev, lost, answered>>

Edit(g) ==
  /\ Change({g})
  /\ rev' = [rev EXCEPT ![g] = @ + 1]
  /\ UNCHANGED <<home, running, online>>

Migrate(g, n) ==
  /\ {home[g], n} \subseteq online
  /\ n # home[g]
  /\ Change({g})
  /\ home' = [home EXCEPT ![g] = n]
  /\ UNCHANGED <<rev, running, online>>

Power(g) ==
  /\ Change({g})
  /\ running' = IF g \in running THEN running \ {g} ELSE running \cup {g}
  /\ UNCHANGED <<home, rev, online>>

NodeGoesOrComes(n) ==
  /\ Change({g \in Guests : home[g] = n})
  /\ online' = IF n \in online THEN online \ {n} ELSE online \cup {n}
  /\ UNCHANGED <<home, rev, running>>

World ==
  \/ \E g \in Guests : Edit(g) \/ Power(g) \/ \E n \in Nodes : Migrate(g, n)
  \/ \E n \in Nodes : NodeGoesOrComes(n)

-----------------------------------------------------------------------------
(* Calls: an answered one shows the cluster of that moment; a call fails when *)
(* the context is done, when what it is about is not there, or for reasons   *)
(* of its own.                                                               *)

Answered ==
  /\ ~canceled
  /\ answered' = TRUE
  /\ UNCHANGED <<failures, canceled, world, startRev, touched>>

Refused(thereIsNone, gs) ==
  /\ \/ canceled /\ UNCHANGED failures
     \/ ~canceled /\ thereIsNone /\ UNCHANGED failures
     \/ ~canceled /\ failures < MaxFailures /\ failures' = failures + 1
  /\ lost' = lost \cup gs
  /\ UNCHANGED <<canceled, world, startRev, touched, answered>>

\* The status a guest is listed with.
Up(g) == g \in running /\ home[g] \in online

\* includedNode
Included(n) == IncludedNodes = <<>> \/ n \in ToSet(IncludedNodes)

\* The resources of the guests gs that pass includeResource.
Resources(gs) ==
  {[guest |-> g, node |-> home[g], up |-> Up(g)] : g \in {h \in gs : SkipStopped => Up(h)}}

\* Nodes to list, those of them in up being worth it: the configured ones are
\* all tried, of the others those that are listed online.
Entries(nodes, up) ==
  [i \in 1 .. Len(nodes) |-> [name |-> nodes[i], up |-> nodes[i] \in up]]

Node == Head(queue).name

Reachable(r) == home[r.guest] = r.node /\ r.node \in online

Enabled(w) == w.rev \in EnabledRevs

\* EnabledRunningWorkloads, unless the addresses are not to be resolved.
ResolutionTargets(ws) ==
  IF SkipIPResolution THEN {} ELSE {w \in ws : w.up /\ Enabled(w)}

-----------------------------------------------------------------------------
(* Scan *)

BeginKeepingSnapshot ==
  /\ phase = "idle"
  /\ phase' = "cluster"
  /\ trouble' = {}
  /\ startRev' = rev
  /\ touched' = {}
  /\ lost' = {}
  /\ answered' = FALSE
  /\ UNCHANGED <<world, failures, queue, batch, snapshot, unresolved>>

Begin ==
  /\ phase = "idle"
  /\ phase' = "cluster"
  /\ snapshot' = {}
  /\ trouble' = {}
  /\ startRev' = rev
  /\ touched' = {}
  /\ lost' = {}
  /\ answered' = FALSE
  /\ UNCHANGED <<world, failures, queue, batch, unresolved>>

\* The calls are over: the workloads to resolve are those found so far.
ToResolve ==
  /\ phase' = "resolve"
  /\ unresolved' = ResolutionTargets(snapshot)

ListClusterUnfiltered ==
  /\ phase = "cluster"
  /\ ClusterUsable
  /\ Answered
  /\ batch' = Resources(Guests)
  /\ phase' = "configs"
  /\ UNCHANGED <<queue, snapshot, unresolved, trouble, lost>>

ListCluster ==
  /\ phase = "cluster"
  /\ ClusterUsable
  /\ Answered
  /\ batch' = Resources({g \in Guests : Included(home[g])})
  /\ phase' = "configs"
  /\ UNCHANGED <<queue, snapshot, unresolved, trouble, lost>>

ListClusterFailsEmpty ==
  /\ phase = "cluster"
  /\ Refused(~ClusterUsable, {})
  /\ ToResolve
  /\ UNCHANGED <<queue, batch, snapshot, trouble>>

\* The listing fails or is not usable; nothing is reported. The nodes to list
\* are the configured ones, or have to be asked for.
ListClusterFails ==
  /\ phase = "cluster"
  /\ Refused(~ClusterUsable, {})
  /\ queue' = Entries(IncludedNodes, Nodes)
  /\ phase' = IF IncludedNodes = <<>> THEN "nodes" ELSE "vms"
  /\ UNCHANGED <<batch, snapshot, unresolved, trouble>>

ListNodes ==
  /\ phase = "nodes"
  /\ Answered
  /\ queue' = Entries(NodeList, online)
  /\ IF queue' = <<>> THEN ToResolve ELSE phase' = "vms" /\ UNCHANGED unresolved
  /\ UNCHANGED <<batch, snapshot, trouble, lost>>

\* Scan returns an error.
ListNodesFails ==
  /\ phase = "nodes"
  /\ Refused(FALSE, Guests)
  /\ phase' = "idle"
  /\ UNCHANGED <<queue, batch, snapshot, unresolved, trouble>>

NextNodeStuck ==
  /\ queue' = Tail(queue)
  /\ ToResolve

NextNode ==
  /\ queue' = Tail(queue)
  /\ IF queue' = <<>> THEN ToResolve ELSE phase' = "vms" /\ UNCHANGED unresolved

SkipNode ==
  /\ phase = "vms"
  /\ ~Head(queue).up
  /\ NextNode
  /\ UNCHANGED <<world, failures, canceled, batch, snapshot, trouble, history>>

ListVMs ==
  /\ phase = "vms"
  /\ Head(queue).up
  /\ Node \in online
  /\ Answered
  /\ batch' = Resources({g \in VMs : home[g] = Node})
  /\ phase' = "vmconfigs"
  /\ UNCHANGED <<queue, snapshot, unresolved, trouble, lost>>

ListVMsFails ==
  /\ phase = "vms"
  /\ Head(queue).up
  /\ Refused(Node \notin online, {g \in VMs : home[g] = Node})
  /\ trouble' = trouble \cup {<<Node, "vm", "list">>}
  /\ phase' = "containers"
  /\ UNCHANGED <<queue, batch, snapshot, unresolved>>

ListContainers ==
  /\ phase = "containers"
  /\ Node \in online
  /\ Answered
  /\ batch' = Resources({g \in Guests \ VMs : home[g] = Node})
  /\ phase' = "ctconfigs"
  /\ UNCHANGED <<queue, snapshot, unresolved, trouble, lost>>

ListContainersFails ==
  /\ phase = "containers"
  /\ Refused(Node \notin online, {g \in Guests \ VMs : home[g] = Node})
  /\ trouble' = trouble \cup {<<Node, "ct", "list">>}
  /\ NextNode
  /\ UNCHANGED <<batch, snapshot>>

-----------------------------------------------------------------------------
(* scanVM and scanContainer, in any order, as the pool runs them *)

Workload(r, v, backend) ==
  [guest |-> r.guest, node |-> r.node, up |-> r.up, rev |-> v, backend |-> backend]

FetchConfig(r) ==
  /\ r \in batch
  /\ Reachable(r)
  /\ Answered
  /\ batch' = batch \ {r}
  /\ snapshot' = snapshot \cup {Workload(r, rev[r.guest], "fallback")}
  /\ UNCHANGED <<phase, queue, unresolved, trouble, lost>>

\* The workload stays in the snapshot, without notes.
FetchConfigFails(r) ==
  /\ r \in batch
  /\ Refused(~Reachable(r), {r.guest})
  /\ batch' = batch \ {r}
  /\ snapshot' = snapshot \cup {Workload(r, NoRev, "fallback")}
  /\ trouble' = trouble \cup {<<r.node, r.guest, "config">>}
  /\ UNCHANGED <<phase, queue, unresolved>>

EndBatchEarly ==
  /\ \/ phase = "configs" /\ ToResolve /\ UNCHANGED queue
     \/ phase = "vmconfigs" /\ phase' = "containers" /\ UNCHANGED <<queue, unresolved>>
     \/ phase = "ctconfigs" /\ NextNode
  /\ UNCHANGED <<world, failures, canceled, batch, snapshot, trouble, history>>

EndBatch ==
  /\ batch = {}
  /\ \/ phase = "configs" /\ ToResolve /\ UNCHANGED queue
     \/ phase = "vmconfigs" /\ phase' = "containers" /\ UNCHANGED <<queue, unresolved>>
     \/ phase = "ctconfigs" /\ NextNode
  /\ UNCHANGED <<world, failures, canceled, batch, snapshot, trouble, history>>

-----------------------------------------------------------------------------
(* ResolveIPs *)

Resolve(w) ==
  /\ w \in unresolved
  /\ Reachable(w)
  /\ Up(w.guest)
  /\ Answered
  /\ unresolved' = unresolved \ {w}
  /\ snapshot' = (snapshot \ {w}) \cup {[w EXCEPT !.backend = "ip"]}
  /\ UNCHANGED <<phase, queue, batch, trouble, lost>>

\* The backend of the workload falls back to its host name.
ResolveFails(w) ==
  /\ w \in unresolved
  /\ Refused(~(Reachable(w) /\ Up(w.guest)), {w.guest})
  /\ unresolved' = unresolved \ {w}
  /\ trouble' = trouble \cup {<<w.node, w.guest, "interfaces">>}
  /\ UNCHANGED <<phase, queue, batch, snapshot>>

Finished == phase = "resolve" /\ unresolved = {}

Finish ==
  /\ Finished
  /\ phase' = "idle"
  /\ UNCHANGED <<world, failures, queue, batch, snapshot, unresolved, trouble, history>>

-----------------------------------------------------------------------------
\* The calls of a scan after which it goes on.
Call ==
  \/ ListCluster \/ ListClusterFails
  \/ ListNodes
  \/ SkipNode
  \/ ListVMs \/ ListVMsFails
  \/ ListContainers \/ ListContainersFails
  \/ \E r \in batch : FetchConfig(r) \/ FetchConfigFails(r)
  \/ EndBatch
  \/ \E w \in unresolved : Resolve(w) \/ ResolveFails(w)

\* What BuildPrepared makes of a snapshot: an entry for each enabled workload.
Route(w) == [guest |-> w.guest, node |-> w.node, rev |-> w.rev, backend |-> w.backend]

Routes == {Route(w) : w \in {v \in snapshot : Enabled(v)}}

\* What a configuration of the cluster as it is now has of guest g.
WantedNodes == IF IncludedNodes = <<>> THEN Nodes ELSE ToSet(IncludedNodes)

Published(g) ==
  /\ home[g] \in WantedNodes \cap online
  /\ rev[g] \in EnabledRevs
  /\ SkipStopped => g \in running

CurrentRoute(g) ==
  [guest |-> g, node |-> home[g], rev |-> rev[g],
   backend |-> IF g \in running /\ ~SkipIPResolution THEN "ip" ELSE "fallback"]

Current == {CurrentRoute(g) : g \in {h \in Guests : Published(h)}}
=============================================================================
