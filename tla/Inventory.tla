------------------------------ MODULE Inventory ------------------------------
(***************************************************************************)
(* From the configuration of the plugin to the snapshot of one scan        *)
(* (provider.go New, proxmox/client.go, proxmox/inventory/scanner): the    *)
(* options are accepted or not, and the listings are filtered by node,     *)
(* status and tags, sorted, and completed with the configuration of each   *)
(* guest, whatever the calls answer.                                       *)
(*                                                                         *)
(* The cluster stays as it is here, and the calls of a batch are answered  *)
(* in one step: Scanner has a cluster that changes between the calls, and  *)
(* WorkerPool the pool that makes them.                                    *)
(***************************************************************************)
EXTENDS Options

CONSTANTS
  Configs,   \* configurations of the plugin
  Clusters,  \* clusters: the path of their API, their nodes, and their guests
             \* in the order in which the API lists them
  NodeOrder  \* the names of nodes, in the order of their texts

\* The guests of a cluster have ids of their own, its nodes names.
ASSUME InventoryAssumption ==
  /\ IsList(NodeOrder)
  /\ \A c \in Configs :
       /\ c.maxConcurrency \in Int
       /\ IsList(c.nodes) /\ \A t \in ToSet(c.nodes) : IsText(t)
       /\ IsList(c.requiredTags) /\ \A t \in ToSet(c.requiredTags) : IsText(t)
       /\ IsList(c.endpoint) /\ \A e \in ToSet(c.endpoint) : IsList(e.path)
  /\ \A c \in Clusters :
       /\ IsList(c.nodes)
       /\ \A i, j \in DOMAIN c.nodes : c.nodes[i].name = c.nodes[j].name => i = j
       /\ IsList(c.guests)
       /\ \A i, j \in DOMAIN c.guests : c.guests[i].id = c.guests[j].id => i = j
       /\ \A g \in ToSet(c.guests) :
            /\ g.id \in Nat /\ g.node \in ToSet(NodeOrder)
            /\ IsList(g.tags) /\ \A t \in ToSet(g.tags) : IsText(t)

VARIABLES
  config, cluster,
  pc,
  options,   \* of the provider, once it is accepted
  queue,     \* the nodes still to be listed, the current one first
  batch,     \* listed guests whose configuration is still to be read
  workloads, problems,  \* the snapshot
  hung,      \* a call is under way that the server does not answer
  canceled,  \* the context of the scan is done
  (* what happened *)
  path,      \* the listing the snapshot is made of
  silent     \* the calls that were answered with no data and no error

snapshot == <<workloads, problems>>
input    == <<config, cluster>>
vars     == <<input, pc, options, queue, batch, snapshot, hung, canceled, path, silent>>

Scanning == {"cluster", "configs", "nodes", "vms", "vmconfigs", "containers", "ctconfigs"}
Batches == {"configs", "vmconfigs", "ctconfigs"}

NoOptions == <<>>

Init ==
  /\ config \in Configs
  /\ cluster \in Clusters
  /\ pc = "new"
  /\ options = NoOptions
  /\ queue = <<>>
  /\ batch = <<>>
  /\ workloads = <<>>
  /\ problems = {}
  /\ hung = FALSE
  /\ canceled = FALSE
  /\ path = ""
  /\ silent = {}

New ==
  /\ pc = "new"
  /\ IF Accepted(config)
     THEN options' = OptionsOf(config) /\ pc' = "cluster"
     ELSE options' = options /\ pc' = "rejected"
  /\ UNCHANGED <<input, queue, batch, snapshot, hung, canceled, path, silent>>

-----------------------------------------------------------------------------
(* The API of Proxmox VE *)

Request(what, node, id) == [base |-> options.path, what |-> what, node |-> node, id |-> id]

Up(node) ==
  \E i \in DOMAIN cluster.nodes :
    Text(cluster.nodes[i].name) = node /\ cluster.nodes[i].status # "offline"

\* The elements of a list that are in a set.
Those(list, elements) ==
  LET kept[i \in 0 .. Len(list)] ==
        IF i = 0 THEN <<>>
        ELSE IF list[i] \in elements THEN Append(kept[i - 1], list[i])
        ELSE kept[i - 1]
  IN kept[Len(list)]

Kind(type) == CASE type = "qemu" -> "vm" [] type = "lxc" -> "container" [] OTHER -> ""

GuestsOn(node, kind) ==
  Those(cluster.guests,
        {g \in ToSet(cluster.guests) : Text(g.node) = node /\ Kind(g.type) = kind})

\* What a request is about is there.
Served(q) ==
  /\ q.base = cluster.path
  /\ q.what \in {"cluster", "nodes"} \/ Up(q.node)
  /\ q.what = "config" => \E g \in ToSet(cluster.guests) : g.id = q.id /\ Text(g.node) = q.node

\* do: how a call ends for its caller.  Not sent, not answered in time or with
\* another status, cut at 4 MiB or not as it should be, it is an error; data
\* that is null or missing is none, and no error.
Outcomes(q) ==
  {"error"} \cup (IF canceled THEN {} ELSE {"none"})
    \cup (IF ~canceled /\ Served(q) THEN {"data"} ELSE {})

\* A call that hangs ends when its time is up or the scan is canceled.
Ends(call) == hung => call = "error" /\ (options.timeout > 0 \/ canceled)

\* One call, with its outcome.
Called(q, outcome) ==
  /\ outcome \in Outcomes(q)
  /\ Ends(outcome)
  /\ hung' = FALSE
  /\ silent' = IF outcome = "none" THEN silent \cup {q} ELSE silent

Hang ==
  /\ pc \in Scanning /\ (pc \in Batches => batch # <<>>)
  /\ ~hung /\ ~canceled
  /\ hung' = TRUE
  /\ UNCHANGED <<input, pc, options, queue, batch, snapshot, canceled, path, silent>>

Cancel ==
  /\ pc \in Scanning
  /\ ~canceled
  /\ canceled' = TRUE
  /\ UNCHANGED <<input, pc, options, queue, batch, snapshot, hung, path, silent>>

-----------------------------------------------------------------------------
(* Filters *)

IncludedNode(node) ==
  options.includedNodes = {} \/ ToLower(TrimSpace(node)) \in options.includedNodes

\* splitTags
SplitTags(tags) ==
  LET trimmed == [i \in DOMAIN tags |-> TrimSpace(tags[i])] IN
  Those(trimmed, ToSet(trimmed) \ {NoText})

MatchesSomeTag(tags) ==
  options.requiredTags = {} \/ options.requiredTags \cap {ToLower(t) : t \in ToSet(tags)} # {}

MatchesRequiredTags(tags) ==
  options.requiredTags \subseteq {ToLower(t) : t \in ToSet(tags)}

IncludeResource(r) ==
  /\ options.skipStopped => r.status = "running"
  /\ MatchesRequiredTags(SplitTags(r.tags))

\* clusterResourcesUsable
Usable(resources) ==
  \A i \in DOMAIN resources : LET r == resources[i] IN
    Kind(r.type) # "" /\ r.node # "" /\ r.id # 0 /\ r.name # "" /\ r.status # ""

\* Where the name is in the order of texts.
Place(name) == CHOOSE i \in DOMAIN NodeOrder : NodeOrder[i] = name

\* compareClusterResources, of guests of clusters that are usable
Before(r, s) ==
  IF r.node # s.node THEN Place(r.node) < Place(s.node)
  ELSE IF r.type # s.type THEN r.type = "qemu"
  ELSE r.id < s.id

\* Guests in that order; no two of them compare equal.
Sorted(resources) ==
  CHOOSE s \in [1 .. Cardinality(resources) -> resources] :
    \A i, j \in DOMAIN s : i < j => Before(s[i], s[j])

Entry(kind, node, r) == [kind |-> kind, node |-> node, resource |-> r]

\* filteredClusterResources, sorted
ClusterBatch(resources) ==
  LET sorted == Sorted({r \in ToSet(resources) : IncludedNode(Text(r.node)) /\ IncludeResource(r)}) IN
  [i \in DOMAIN sorted |-> Entry(Kind(sorted[i].type), Text(sorted[i].node), sorted[i])]

\* filteredResources
NodeBatch(kind, node, resources) ==
  LET filtered == Those(resources, {r \in ToSet(resources) : IncludeResource(r)}) IN
  [i \in DOMAIN filtered |-> Entry(kind, node, filtered[i])]

-----------------------------------------------------------------------------
(* scanClusterResources and scanNodes *)

ToNodes ==
  /\ path' = "nodes"
  /\ queue' = options.includedNodeNames
  /\ pc' = IF options.includedNodeNames = <<>> THEN "nodes" ELSE "vms"
  /\ UNCHANGED batch

ListCluster ==
  /\ pc = "cluster"
  /\ \E o \in {"error", "none", "data"} :
       LET resources == IF o = "data" THEN cluster.guests ELSE <<>> IN
       /\ Called(Request("cluster", NoText, 0), o)
       /\ IF o # "error" /\ Usable(resources)
          THEN /\ batch' = ClusterBatch(resources)
               /\ path' = "cluster"
               /\ pc' = "configs"
               /\ UNCHANGED queue
          ELSE ToNodes
  /\ UNCHANGED <<input, options, snapshot, canceled>>

\* The node is listed online, or without a status.
NodesOnline ==
  LET online == Those(cluster.nodes, {n \in ToSet(cluster.nodes) :
                        n.status \in {"", "online"} /\ IncludedNode(Text(n.name))}) IN
  [i \in DOMAIN online |-> Text(online[i].name)]

ListNodes ==
  /\ pc = "nodes"
  /\ \E o \in {"error", "none", "data"} :
       /\ Called(Request("nodes", NoText, 0), o)
       /\ queue' = IF o = "data" THEN NodesOnline ELSE <<>>
       /\ pc' = IF o = "error" THEN "failed" ELSE IF queue' = <<>> THEN "done" ELSE "vms"
  /\ UNCHANGED <<input, options, batch, snapshot, canceled, path>>

NextNode ==
  /\ queue' = Tail(queue)
  /\ pc' = IF Tail(queue) = <<>> THEN "done" ELSE "vms"

ListGuests(kind) ==
  \E o \in {"error", "none", "data"} :
    /\ Called(Request(kind, Head(queue), 0), o)
    /\ IF o = "error"
       THEN /\ problems' = problems \cup {[node |-> Head(queue), kind |-> kind, id |-> 0]}
            /\ IF kind = "vm" THEN pc' = "containers" /\ UNCHANGED queue ELSE NextNode
            /\ UNCHANGED batch
       ELSE /\ batch' = IF o = "none" THEN <<>>
                        ELSE NodeBatch(kind, Head(queue), GuestsOn(Head(queue), kind))
            /\ pc' = IF kind = "vm" THEN "vmconfigs" ELSE "ctconfigs"
            /\ UNCHANGED <<problems, queue>>
    /\ UNCHANGED <<input, options, workloads, canceled, path>>

\* scanNode
ListVMs == pc = "vms" /\ ListGuests("vm")
ListContainers == pc = "containers" /\ ListGuests("container")

-----------------------------------------------------------------------------
(* scanVM and scanContainer *)

NoConfig == [name |-> "", hostname |-> "", notes |-> "", tags |-> <<>>]

\* baseWorkload
BaseWorkload(e) ==
  [kind |-> e.kind, node |-> e.node, id |-> e.resource.id, name |-> e.resource.name,
   status |-> e.resource.status, tags |-> SplitTags(e.resource.tags), notes |-> "",
   problem |-> FALSE]

\* applyConfig
ApplyConfig(w, c) ==
  [w EXCEPT !.name = IF c.name # "" THEN c.name ELSE IF c.hostname # "" THEN c.hostname ELSE @,
            !.notes = c.notes,
            !.tags = IF c.tags # <<>> THEN SplitTags(c.tags) ELSE @]

Scanned(e, outcome) ==
  CASE outcome = "error" -> [BaseWorkload(e) EXCEPT !.problem = TRUE]
    [] outcome = "none"  -> ApplyConfig(BaseWorkload(e), NoConfig)
    [] OTHER             -> ApplyConfig(BaseWorkload(e), e.resource.config)

ConfigRequest(e) == Request("config", e.node, e.resource.id)

ScanWorkloads ==
  /\ pc \in Batches
  /\ \E outcomes \in [DOMAIN batch -> {"error", "none", "data"}] :
       /\ \A i \in DOMAIN batch : outcomes[i] \in Outcomes(ConfigRequest(batch[i]))
       /\ hung => \E i \in DOMAIN batch : Ends(outcomes[i])
       /\ workloads' = workloads \o [i \in DOMAIN batch |-> Scanned(batch[i], outcomes[i])]
       /\ silent' = silent \cup {ConfigRequest(batch[i]) : i \in {j \in DOMAIN batch : outcomes[j] = "none"}}
  /\ hung' = FALSE
  /\ batch' = <<>>
  /\ CASE pc = "configs"   -> pc' = "done" /\ UNCHANGED queue
       [] pc = "vmconfigs" -> pc' = "containers" /\ UNCHANGED queue
       [] pc = "ctconfigs" -> NextNode
  /\ UNCHANGED <<input, options, problems, canceled, path>>

-----------------------------------------------------------------------------
Step == New \/ ListCluster \/ ListNodes \/ ListVMs \/ ListContainers \/ ScanWorkloads

Next == Step \/ Hang \/ Cancel

\* The goroutine runs; what hangs ends only by Step.
Spec == Init /\ [][Next]_vars /\ WF_vars(Step)

-----------------------------------------------------------------------------
\* The words of a list, however they are spelt.
Words(texts) == {t.word : t \in ToSet(texts)} \ {""}

\* What the accepted options are to the parts of the provider: an interval a
\* ticker can have, a bound for the pool, modes that there are, each node once,
\* tags that can be found; and what a scan knows at each of its steps.
TypeOK ==
  /\ pc \in Scanning \cup {"new", "rejected", "failed", "done"}
  /\ pc \notin {"new", "rejected"} =>
       /\ options.pollInterval >= MinPollInterval
       /\ options.timeout # 0
       /\ options.maxConcurrency > 0
       /\ options.ipMode \in DOMAIN IPModes
       /\ options.extractMode \in {"fenced", "loose", "auto"}
       /\ IsInjective(options.includedNodeNames)
       /\ {ToLower(n) : n \in ToSet(options.includedNodeNames)} = options.includedNodes
       /\ options.requiredTags = {Text(w) : w \in Words(config.requiredTags)}
       /\ IsSuffix(APIPath, options.path)
  /\ batch # <<>> => pc \in Batches
  /\ pc \in {"vms", "vmconfigs", "containers", "ctconfigs"} => queue # <<>>
  /\ hung => pc \in Scanning

\* README.md, Configuration: nodes limits the nodes that are scanned, stopped
\* guests may be skipped, and required tags must all be there.
Wanted(g) ==
  /\ Words(config.nodes) # {} => g.node \in Words(config.nodes)
  /\ config.skipStopped => g.status = "running"
  /\ Words(config.requiredTags) \subseteq Words(g.tags)

Shows(w, g) == w.id = g.id /\ w.kind = Kind(g.type) /\ w.node.word = g.node

\* No data came where the guest should have been, or its node is not listed
\* online: then, and then only, it may be missing without a word.
Unseen(g) ==
  \/ \E q \in silent : \/ q.what \in {"cluster", "nodes"}
                       \/ q.what = Kind(g.type) /\ q.node.word = g.node
  \/ path = "nodes" /\ options.includedNodes = {}
       /\ \A i \in DOMAIN cluster.nodes :
            cluster.nodes[i].name = g.node => cluster.nodes[i].status \notin {"", "online"}

\* What a guest is called: a virtual machine by the name and a container by the
\* hostname of its configuration, and as it is listed only if it has neither.
OwnNames(g) ==
  LET own == {g.config.name, g.config.hostname} \ {""} IN IF own = {} THEN {g.name} ELSE own

\* The snapshot of a scan has every guest the options ask for, once, and no
\* other; a guest that is missing is so with a problem, or is Unseen.  It has the
\* notes of its configuration and a name of its own, or it has a problem, or no
\* data came.  A snapshot of the cluster listing is in the order of nodes, kinds and
\* ids, in whatever order the API lists.
SnapshotAsDocumented ==
  pc = "done" =>
    /\ \A i, j \in DOMAIN workloads :
         workloads[i].id = workloads[j].id /\ workloads[i].node = workloads[j].node => i = j
    /\ \A i \in DOMAIN workloads : LET w == workloads[i] IN
         \E g \in ToSet(cluster.guests) :
           /\ Shows(w, g) /\ Wanted(g)
           /\ \/ w.problem /\ w.notes = ""
              \/ [base |-> cluster.path, what |-> "config", node |-> w.node, id |-> w.id] \in silent
              \/ w.notes = g.config.notes /\ w.name \in OwnNames(g)
    /\ \A g \in ToSet(cluster.guests) : (Wanted(g) /\ Kind(g.type) # "") =>
         \/ \E i \in DOMAIN workloads : Shows(workloads[i], g)
         \/ \E p \in problems : p.node.word = g.node /\ p.kind = Kind(g.type)
         \/ Unseen(g)
    /\ path = "cluster" =>
         \A i \in 2 .. Len(workloads) : LET v == workloads[i - 1] w == workloads[i] IN
           \/ Place(v.node.word) < Place(w.node.word)
           \/ v.node = w.node /\ v.kind = "vm" /\ w.kind = "container"
           \/ v.node = w.node /\ v.kind = w.kind /\ v.id < w.id

Ended == pc \in {"done", "failed"}

\* A scan ends whatever the server does: always if the configured timeout is
\* not negative, and when the provider is stopped if it is.
EveryScanEnds ==
  /\ (pc = "cluster" /\ Timeout(config)[1] >= 0) ~> Ended
  /\ (pc \in Scanning /\ canceled) ~> Ended
=============================================================================
