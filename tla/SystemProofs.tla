----------------------------- MODULE SystemProofs -----------------------------
(***************************************************************************)
(* Proofs about System, for every cluster, every sequence of changes and   *)
(* failures and every setting: the types of a scan, that nothing stale is  *)
(* published, that the system is an instance of the polling loop of        *)
(* Provider, and what is in the configuration a scan leads to.             *)
(***************************************************************************)
EXTENDS System, TLAPS

QueueType == Seq([name : Nodes, up : BOOLEAN])

\* The queue of nodes is a sequence of named nodes, and stays one.
LEMMA EntriesType ==
  ASSUME NEW nodes \in Seq(Nodes), NEW up
  PROVE  Entries(nodes, up) \in QueueType
<1> DEFINE e(i) == [name |-> nodes[i], up |-> nodes[i] \in up]
<1>1. Len(nodes) \in Nat
  OBVIOUS
<1>2. \A i \in 1 .. Len(nodes) : e(i) \in [name : Nodes, up : BOOLEAN]
  OBVIOUS
<1>3. [i \in 1 .. Len(nodes) |-> e(i)] \in Seq([name : Nodes, up : BOOLEAN])
  <2> HIDE DEF e
  <2> QED  BY <1>1, <1>2
<1> QED  BY <1>3 DEF Entries, QueueType

LEMMA NodeType ==
  ASSUME queue \in QueueType, queue # <<>>
  PROVE  Node \in Nodes /\ Tail(queue) \in QueueType
<1> DEFINE T == [name : Nodes, up : BOOLEAN]
<1>0. queue \in Seq(T)
  BY DEF QueueType
<1>1. Head(queue) \in T /\ Tail(queue) \in Seq(T)
  <2> HIDE DEF T
  <2> QED  BY <1>0
<1> QED  BY <1>1 DEF Node, QueueType

LEMMA ResourcesType ==
  ASSUME NEW gs \in SUBSET Guests, home \in [Guests -> Nodes]
  PROVE  Resources(gs) \subseteq ResourceType
<1>1. \A g \in gs : Up(g) \in BOOLEAN /\ home[g] \in Nodes /\ g \in Guests
  BY DEF Up
<1> QED  BY <1>1 DEF Resources, ResourceType

LEMMA WorkloadHasType ==
  ASSUME NEW r \in ResourceType, NEW v \in Nat \cup {NoRev}
  PROVE  Workload(r, v, "fallback") \in WorkloadType
BY DEF Workload, WorkloadType, ResourceType

LEMMA TargetsAreWorkloads ==
  ASSUME NEW ws
  PROVE  ResolutionTargets(ws) \subseteq ws
BY DEF ResolutionTargets

LEMMA ProblemHasType ==
  ASSUME NEW n \in Nodes, NEW x \in Guests \cup {"vm", "ct"},
         NEW stage \in {"list", "config", "interfaces"}
  PROVE  <<n, x, stage>> \in Problems
BY DEF Problems

\* What a scan leads to is a configuration of the loop.
LEMMA RoutesType ==
  ASSUME snapshot \subseteq WorkloadType
  PROVE  Routes \in SUBSET RouteType
<1>1. ASSUME NEW w \in snapshot, Enabled(w) PROVE Route(w) \in RouteType
  BY <1>1 DEF Enabled, Route, WorkloadType, RouteType
<1> QED  BY <1>1 DEF Routes

-----------------------------------------------------------------------------
Types == WorldType /\ ScanType

LEMMA TypesInit == Init => Types
<1> SUFFICES ASSUME Init PROVE Types  OBVIOUS
<1>1. WorldType
  BY ScannerAssumption DEF Init, ScannerInit, WorldType
<1>2. <<>> \in Seq([name : Nodes, up : BOOLEAN])
  OBVIOUS
<1>3. ScanType
  BY <1>2 DEF Init, ScannerInit, ScanType, Phases
<1> QED  BY <1>1, <1>3 DEF Types

LEMMA TypesWorld == Types /\ World => Types'
<1> SUFFICES ASSUME Types, World PROVE Types'  OBVIOUS
<1>1. UNCHANGED <<phase, queue, batch, snapshot, unresolved, trouble, startRev>>
  BY DEF World, Edit, Power, Migrate, NodeGoesOrComes, Change, scan
<1>2. ScanType'
  BY <1>1 DEF Types, ScanType
<1>3. WorldType'
  <2>1. ASSUME NEW g \in Guests, Edit(g) PROVE WorldType'
    BY <1>1, <2>1 DEF Types, WorldType, Edit
  <2>2. ASSUME NEW g \in Guests, Power(g) PROVE WorldType'
    BY <1>1, <2>2 DEF Types, WorldType, Power
  <2>3. ASSUME NEW g \in Guests, NEW n \in Nodes, Migrate(g, n) PROVE WorldType'
    BY <1>1, <2>3 DEF Types, WorldType, Migrate
  <2>4. ASSUME NEW n \in Nodes, NodeGoesOrComes(n) PROVE WorldType'
    BY <1>1, <2>4 DEF Types, WorldType, NodeGoesOrComes
  <2> QED  BY <2>1, <2>2, <2>3, <2>4 DEF World
<1> QED  BY <1>2, <1>3 DEF Types

LEMMA TypesBegin == Types /\ Begin => Types'
<1> SUFFICES ASSUME Types, Begin PROVE Types'  OBVIOUS
<1>1. WorldType'  BY DEF Types, WorldType, Begin, world
<1>2. ScanType'   BY DEF Types, ScanType, Begin, Phases
<1> QED  BY <1>1, <1>2 DEF Types

LEMMA TypesToResolve ==
  ASSUME Types, ToResolve, UNCHANGED <<batch, snapshot>>,
         trouble' \subseteq Problems, queue' \in QueueType
  PROVE  ScanType'
BY TargetsAreWorkloads DEF Types, ScanType, ToResolve, Phases, QueueType

LEMMA TypesNextNode ==
  ASSUME Types, NextNode, UNCHANGED <<batch, snapshot>>, queue # <<>>,
         trouble' \subseteq Problems
  PROVE  ScanType'
<1>1. queue' \in QueueType
  BY NodeType DEF NextNode, Types, ScanType, QueueType
<1>2. CASE queue' = <<>>
  BY <1>1, <1>2, TypesToResolve DEF NextNode
<1>3. CASE queue' # <<>>
  BY <1>1, <1>3 DEF NextNode, Types, ScanType, Phases, QueueType
<1> QED  BY <1>2, <1>3

\* A call changes nothing in the cluster.
LEMMA CallsOnlyRead ==
  ASSUME Types, UNCHANGED <<world, startRev>>
  PROVE  WorldType'
BY DEF Types, WorldType, world

LEMMA TypesCall == Types /\ Call => Types'
<1> SUFFICES ASSUME Types, Call PROVE Types'  OBVIOUS
<1>w. WorldType'
  <2>1. UNCHANGED <<world, startRev>>
    BY DEF Call, ListCluster, ListClusterFails, ListNodes, SkipNode, ListVMs, ListVMsFails,
       ListContainers, ListContainersFails, FetchConfig, FetchConfigFails, EndBatch,
       Resolve, ResolveFails, Answered, Refused, history
  <2> QED  BY <2>1, CallsOnlyRead
<1> USE DEF QueueType
<1>q. /\ queue \in QueueType
      /\ phase \in {"vms", "vmconfigs", "containers", "ctconfigs"} => queue # <<>>
      /\ trouble \subseteq Problems
      /\ snapshot \subseteq WorkloadType
  BY DEF Types, ScanType
<1>n. ASSUME phase \in {"vms", "containers"}
      PROVE  /\ Node \in Nodes
             /\ {<<Node, "vm", "list">>, <<Node, "ct", "list">>} \subseteq Problems
  BY <1>q, <1>n, NodeType, ProblemHasType
<1>1. CASE ListCluster
  <2>1. batch' \subseteq ResourceType
    BY <1>1, ResourcesType DEF ListCluster, Types, WorldType
  <2> QED  BY <1>1, <1>w, <2>1 DEF ListCluster, Types, ScanType, Phases
<1>2. CASE ListClusterFails
  <2>1. queue' \in QueueType
    BY <1>2, EntriesType, ScannerAssumption DEF ListClusterFails
  <2>2. IncludedNodes # <<>> => queue' # <<>>
    BY <1>2, ScannerAssumption DEF ListClusterFails, Entries
  <2> QED  BY <1>2, <1>w, <2>1, <2>2 DEF ListClusterFails, Types, ScanType, Phases
<1>3. CASE ListNodes
  <2>1. queue' \in QueueType
    BY <1>3, EntriesType, ScannerAssumption DEF ListNodes
  <2>2. CASE queue' = <<>>
    BY <1>3, <1>w, <1>q, <2>1, <2>2, TypesToResolve DEF ListNodes, Types
  <2>3. CASE queue' # <<>>
    BY <1>3, <1>w, <2>1, <2>3 DEF ListNodes, Types, ScanType, Phases
  <2> QED  BY <2>2, <2>3
<1>4. CASE SkipNode
  BY <1>4, <1>w, <1>q, TypesNextNode DEF SkipNode, Types
<1>5. CASE ListVMs
  <2>1. batch' \subseteq ResourceType
    BY <1>5, ResourcesType, ScannerAssumption DEF ListVMs, Types, WorldType
  <2> QED  BY <1>5, <1>w, <2>1 DEF ListVMs, Types, ScanType, Phases
<1>6. CASE ListVMsFails
  <2>1. trouble' \subseteq Problems
    BY <1>6, <1>n, <1>q DEF ListVMsFails
  <2> QED  BY <1>6, <1>w, <2>1 DEF ListVMsFails, Types, ScanType, Phases
<1>7. CASE ListContainers
  <2>1. batch' \subseteq ResourceType
    BY <1>7, ResourcesType DEF ListContainers, Types, WorldType
  <2> QED  BY <1>7, <1>w, <2>1 DEF ListContainers, Types, ScanType, Phases
<1>8. CASE ListContainersFails
  <2>1. trouble' \subseteq Problems
    BY <1>8, <1>n, <1>q DEF ListContainersFails
  <2> QED  BY <1>8, <1>w, <1>q, <2>1, TypesNextNode DEF ListContainersFails, Types
<1>9. ASSUME NEW r \in batch, FetchConfig(r) PROVE Types'
  <2>1. r \in ResourceType /\ rev[r.guest] \in Nat
    BY DEF Types, ScanType, WorldType, ResourceType
  <2>2. snapshot' \subseteq WorkloadType
    BY <1>9, <1>q, <2>1, WorkloadHasType DEF FetchConfig
  <2> QED  BY <1>9, <1>w, <2>2 DEF FetchConfig, Types, ScanType
<1>10. ASSUME NEW r \in batch, FetchConfigFails(r) PROVE Types'
  <2>1. r \in ResourceType /\ r.node \in Nodes /\ r.guest \in Guests
    BY DEF Types, ScanType, ResourceType
  <2>2. snapshot' \subseteq WorkloadType
    BY <1>10, <1>q, <2>1, WorkloadHasType DEF FetchConfigFails
  <2>3. trouble' \subseteq Problems
    BY <1>10, <1>q, <2>1, ProblemHasType DEF FetchConfigFails
  <2> QED  BY <1>10, <1>w, <2>2, <2>3 DEF FetchConfigFails, Types, ScanType
<1>11. CASE EndBatch
  <2>1. UNCHANGED <<batch, snapshot, trouble>>
    BY <1>11 DEF EndBatch
  <2>2. CASE phase = "configs"
    <3>1. ToResolve /\ queue' = queue
      BY <1>11, <2>2 DEF EndBatch
    <3> QED  BY <1>w, <1>q, <2>1, <3>1, TypesToResolve DEF Types
  <2>3. CASE phase = "vmconfigs"
    <3>1. phase' = "containers" /\ UNCHANGED <<queue, unresolved>>
      BY <1>11, <2>3 DEF EndBatch
    <3> QED  BY <1>w, <1>q, <2>1, <2>3, <3>1 DEF Types, ScanType, Phases
  <2>4. CASE phase = "ctconfigs"
    <3>1. NextNode
      BY <1>11, <2>4 DEF EndBatch
    <3> QED  BY <1>w, <1>q, <2>1, <2>4, <3>1, TypesNextNode DEF Types
  <2> QED  BY <1>11, <2>2, <2>3, <2>4 DEF EndBatch
<1>12. ASSUME NEW w \in unresolved, Resolve(w) PROVE Types'
  <2>1. w \in WorkloadType /\ [w EXCEPT !.backend = "ip"] \in WorkloadType
    BY DEF Types, ScanType, WorkloadType
  <2>2. snapshot' \subseteq WorkloadType
    BY <1>12, <1>q, <2>1 DEF Resolve
  <2> QED  BY <1>12, <1>w, <2>2 DEF Resolve, Types, ScanType
<1>13. ASSUME NEW w \in unresolved, ResolveFails(w) PROVE Types'
  <2>1. w.node \in Nodes /\ w.guest \in Guests
    BY DEF Types, ScanType, WorkloadType
  <2>2. trouble' \subseteq Problems
    BY <1>13, <1>q, <2>1, ProblemHasType DEF ResolveFails
  <2> QED  BY <1>13, <1>w, <2>2 DEF ResolveFails, Types, ScanType
<1> QED
  BY <1>1, <1>2, <1>3, <1>4, <1>5, <1>6, <1>7, <1>8, <1>9, <1>10, <1>11, <1>12, <1>13 DEF Call

LEMMA TypesScanEnds == Types /\ (Finish \/ ListNodesFails) => Types'
<1> SUFFICES ASSUME Types, Finish \/ ListNodesFails PROVE Types'  OBVIOUS
<1>1. UNCHANGED <<world, startRev, queue, batch, snapshot, unresolved, trouble>> /\ phase' = "idle"
  BY DEF Finish, ListNodesFails, Refused, history
<1>2. WorldType'  BY <1>1, CallsOnlyRead
<1>3. ScanType'   BY <1>1 DEF Types, ScanType, Phases
<1> QED  BY <1>2, <1>3 DEF Types

LEMMA TypesStutter == Types /\ UNCHANGED scannerVars => Types'
BY DEF Types, WorldType, ScanType, scannerVars, world, scan, history

LEMMA TypesNext == Types /\ [Next]_vars => Types'
<1> SUFFICES ASSUME Types, [Next]_vars PROVE Types'  OBVIOUS
<1>1. CASE Provide \/ TakeTick
  BY <1>1, TypesBegin DEF Provide, TakeTick
<1>2. CASE WorldChanges
  BY <1>2, TypesWorld DEF WorldChanges
<1>3. CASE ScanCall
  BY <1>3, TypesCall DEF ScanCall
<1>4. CASE ScanFails \/ ScanReturns
  BY <1>4, TypesScanEnds DEF ScanFails, ScanReturns
<1>5. CASE Build \/ Send \/ Tick \/ TakeDone \/ Stop \/ Receive
  BY <1>5, TypesStutter DEF Build, Send, Tick, TakeDone, Stop, Receive
<1>6. CASE UNCHANGED vars
  BY <1>6, TypesStutter DEF vars
<1> QED  BY <1>1, <1>2, <1>3, <1>4, <1>5, <1>6 DEF Next

\* The cluster and the scan keep their types, whatever changes and fails.
THEOREM ScanTypeCorrectness == Spec => []Types
BY TypesInit, TypesNext, PTL DEF Spec

-----------------------------------------------------------------------------
(* Nothing stale.  Every revision a scan has read lies between the one when  *)
(* the scan began and the one now, and a new scan starts with nothing.       *)

Between(x) == startRev[x.guest] <= x.rev /\ x.rev <= rev[x.guest]

Read(w) == w.rev # NoRev => Between(w)

Fresh ==
  /\ \A g \in Guests : startRev[g] <= rev[g]
  /\ phase # "idle" => \A w \in snapshot \cup unresolved : Read(w)
  /\ unresolved # {} => phase = "resolve"
  /\ pc \in {"prepared", "sending"} => \A r \in config : r \in RouteType /\ Between(r)

LEMMA FreshInit == Init => Fresh
BY DEF Init, ScannerInit, Fresh, Loop!Init

\* A step that changes no revision, no snapshot and no configuration.
LEMMA FreshStutter ==
  ASSUME Fresh,
         UNCHANGED <<rev, startRev, snapshot, unresolved, config>>,
         phase' = phase \/ (phase' # "idle" /\ phase # "idle" /\ unresolved = {}),
         pc' \in {"prepared", "sending"} => pc \in {"prepared", "sending"}
  PROVE  Fresh'
BY DEF Fresh, Read, Between

LEMMA FreshWorld == Types /\ Fresh /\ WorldChanges => Fresh'
<1> SUFFICES ASSUME Types, Fresh, WorldChanges PROVE Fresh'  OBVIOUS
<1>1. UNCHANGED <<phase, snapshot, unresolved, startRev, pc, config>>
  BY DEF WorldChanges, World, Edit, Power, Migrate, NodeGoesOrComes, Change, scan, loopVars
<1>2. \A g \in Guests : rev[g] \in Nat /\ rev'[g] \in Nat /\ rev[g] <= rev'[g]
  <2>1. ASSUME NEW h \in Guests, Edit(h) PROVE rev' = [rev EXCEPT ![h] = rev[h] + 1]
    BY <2>1 DEF Edit
  <2>2. \/ \E h \in Guests : rev' = [rev EXCEPT ![h] = rev[h] + 1]
        \/ rev' = rev
    BY <2>1 DEF WorldChanges, World, Power, Migrate, NodeGoesOrComes
  <2> QED  BY <2>2 DEF Types, WorldType
<1>3. \A g \in Guests : startRev[g] \in Nat
  BY DEF Types, WorldType
<1>4. \A w \in snapshot \cup unresolved : w.guest \in Guests /\ (w.rev # NoRev => w.rev \in Nat)
  BY DEF Types, ScanType, WorkloadType
<1>5. \A r \in RouteType : r.guest \in Guests /\ r.rev \in Nat
  BY ScannerAssumption DEF RouteType
<1>6. \A g \in Guests : startRev[g] <= rev'[g]
  BY <1>2, <1>3 DEF Fresh
<1>7. phase # "idle" => \A w \in snapshot \cup unresolved : Read(w)'
  BY <1>1, <1>2, <1>3, <1>4 DEF Fresh, Read, Between
<1>8. pc \in {"prepared", "sending"} => \A r \in config : r \in RouteType /\ Between(r)'
  BY <1>1, <1>2, <1>3, <1>5 DEF Fresh, Between
<1> QED  BY <1>1, <1>6, <1>7, <1>8 DEF Fresh

LEMMA FreshBegin == Types /\ Fresh /\ (Provide \/ TakeTick) => Fresh'
<1> SUFFICES ASSUME Types, Fresh, Provide \/ TakeTick PROVE Fresh'  OBVIOUS
<1>1. Begin /\ pc' = "scanning"
  BY DEF Provide, TakeTick, Loop!Provide, Loop!TakeTick
<1>2. snapshot' = {} /\ unresolved' = {} /\ startRev' = rev /\ rev' = rev
  BY <1>1 DEF Begin, Fresh, world
<1>3. \A g \in Guests : rev[g] \in Nat
  BY DEF Types, WorldType
<1> QED  BY <1>1, <1>2, <1>3 DEF Fresh

LEMMA FreshToResolve ==
  ASSUME Fresh, ToResolve, phase # "idle", UNCHANGED <<rev, startRev, snapshot, pc, config>>
  PROVE  Fresh'
<1>1. unresolved' \subseteq snapshot
  BY TargetsAreWorkloads DEF ToResolve
<1> QED  BY <1>1 DEF Fresh, Read, Between, ToResolve

LEMMA FreshNextNode ==
  ASSUME Fresh, NextNode, phase # "idle", phase # "resolve",
         UNCHANGED <<rev, startRev, snapshot, pc, config>>
  PROVE  Fresh'
<1>1. CASE queue' = <<>>
  BY <1>1, FreshToResolve DEF NextNode
<1>2. CASE queue' # <<>>
  BY <1>2, FreshStutter DEF NextNode, Fresh
<1> QED  BY <1>1, <1>2

LEMMA FreshCall == Types /\ Fresh /\ ScanCall => Fresh'
<1> SUFFICES ASSUME Types, Fresh, ScanCall PROVE Fresh'  OBVIOUS
<1>0. Call /\ UNCHANGED <<pc, config, rev, startRev>>
  BY DEF ScanCall, Call, ListCluster, ListClusterFails, ListNodes, SkipNode, ListVMs,
     ListVMsFails, ListContainers, ListContainersFails, FetchConfig, FetchConfigFails,
     EndBatch, Resolve, ResolveFails, Answered, Refused, history, world, loopVars
<1>1. CASE ListCluster
  BY <1>0, <1>1, FreshStutter DEF ListCluster, Fresh
<1>2. CASE ListClusterFails
  BY <1>0, <1>2, FreshStutter DEF ListClusterFails, Fresh
<1>3. CASE ListNodes
  <2>1. CASE queue' = <<>>
    BY <1>0, <1>3, <2>1, FreshToResolve DEF ListNodes
  <2>2. CASE queue' # <<>>
    BY <1>0, <1>3, <2>2, FreshStutter DEF ListNodes, Fresh
  <2> QED  BY <2>1, <2>2
<1>4. CASE SkipNode
  BY <1>0, <1>4, FreshNextNode DEF SkipNode
<1>5. CASE ListVMs
  BY <1>0, <1>5, FreshStutter DEF ListVMs, Fresh
<1>6. CASE ListVMsFails
  BY <1>0, <1>6, FreshStutter DEF ListVMsFails, Fresh
<1>7. CASE ListContainers
  BY <1>0, <1>7, FreshStutter DEF ListContainers, Fresh
<1>8. CASE ListContainersFails
  BY <1>0, <1>8, FreshNextNode DEF ListContainersFails
<1>9. ASSUME NEW r \in batch, FetchConfig(r) PROVE Fresh'
  <2> DEFINE w == Workload(r, rev[r.guest], "fallback")
  <2>1. r.guest \in Guests /\ startRev[r.guest] <= rev[r.guest] /\ rev[r.guest] \in Nat
    BY DEF Types, ScanType, WorldType, ResourceType, Fresh
  <2>2. Between(w)
    BY <2>1 DEF Between, Workload
  <2>3. snapshot' = snapshot \cup {w} /\ UNCHANGED <<phase, unresolved>>
    BY <1>9 DEF FetchConfig
  <2> HIDE DEF w
  <2>4. phase # "idle" => \A v \in snapshot' \cup unresolved' : Read(v)
    BY <2>2, <2>3 DEF Fresh, Read
  <2>5. \A v : Read(v)' <=> Read(v)
    BY <1>0 DEF Read, Between
  <2> QED  BY <1>0, <2>3, <2>4, <2>5 DEF Fresh, Between
<1>10. ASSUME NEW r \in batch, FetchConfigFails(r) PROVE Fresh'
  <2> DEFINE w == Workload(r, NoRev, "fallback")
  <2>1. Read(w)
    BY DEF Read, Workload
  <2>2. snapshot' = snapshot \cup {w} /\ UNCHANGED <<phase, unresolved>>
    BY <1>10 DEF FetchConfigFails
  <2> HIDE DEF w
  <2>3. phase # "idle" => \A v \in snapshot' \cup unresolved' : Read(v)
    BY <2>1, <2>2 DEF Fresh
  <2>4. \A v : Read(v)' <=> Read(v)
    BY <1>0 DEF Read, Between
  <2> QED  BY <1>0, <2>2, <2>3, <2>4 DEF Fresh, Between
<1>11. CASE EndBatch
  <2>1. UNCHANGED snapshot
    BY <1>11 DEF EndBatch
  <2>2. CASE phase = "configs"
    BY <1>0, <1>11, <2>1, <2>2, FreshToResolve DEF EndBatch
  <2>3. CASE phase = "vmconfigs"
    BY <1>0, <1>11, <2>1, <2>3, FreshStutter DEF EndBatch, Fresh
  <2>4. CASE phase = "ctconfigs"
    BY <1>0, <1>11, <2>1, <2>4, FreshNextNode DEF EndBatch
  <2> QED  BY <1>11, <2>2, <2>3, <2>4 DEF EndBatch
<1>12. ASSUME NEW w \in unresolved, Resolve(w) PROVE Fresh'
  <2> DEFINE x == [w EXCEPT !.backend = "ip"]
  <2>1. phase = "resolve" /\ Read(w)
    BY DEF Fresh
  <2>2. x.guest = w.guest /\ x.rev = w.rev
    BY DEF Types, ScanType, WorkloadType
  <2>3. Read(x)
    BY <2>1, <2>2 DEF Read, Between
  <2>4. snapshot' = (snapshot \ {w}) \cup {x} /\ unresolved' \subseteq unresolved /\ phase' = phase
    BY <1>12 DEF Resolve
  <2> HIDE DEF x
  <2>5. \A v \in snapshot' \cup unresolved' : Read(v)
    BY <2>1, <2>3, <2>4 DEF Fresh
  <2>6. \A v : Read(v)' <=> Read(v)
    BY <1>0 DEF Read, Between
  <2> QED  BY <1>0, <2>1, <2>4, <2>5, <2>6 DEF Fresh, Between
<1>13. ASSUME NEW w \in unresolved, ResolveFails(w) PROVE Fresh'
  <2>1. snapshot' = snapshot /\ unresolved' \subseteq unresolved /\ phase' = phase
    BY <1>13 DEF ResolveFails
  <2> QED  BY <1>0, <2>1 DEF Fresh, Read, Between
<1> QED
  BY <1>0, <1>1, <1>2, <1>3, <1>4, <1>5, <1>6, <1>7, <1>8, <1>9, <1>10, <1>11, <1>12, <1>13
  DEF Call

LEMMA FreshScanReturns == Types /\ Fresh /\ ScanReturns => Fresh'
<1> SUFFICES ASSUME Types, Fresh, ScanReturns PROVE Fresh'  OBVIOUS
<1>1. /\ phase = "resolve" /\ phase' = "idle" /\ unresolved = {}
      /\ config' = Routes
      /\ UNCHANGED <<rev, startRev, snapshot, unresolved>>
  BY DEF ScanReturns, Finish, Finished, Loop!ScanReturns, world, history
<1>2. Routes \in SUBSET RouteType
  BY RoutesType DEF Types, ScanType
<1>3. ASSUME NEW w \in snapshot, Enabled(w) PROVE Between(Route(w))
  <2>1. w.rev # NoRev
    BY <1>3, ScannerAssumption DEF Enabled, NoRev
  <2> QED  BY <1>1, <2>1 DEF Fresh, Read, Between, Route
<1>4. \A r \in Routes : r \in RouteType /\ Between(r)
  BY <1>2, <1>3 DEF Routes
<1> QED  BY <1>1, <1>4 DEF Fresh, Between

LEMMA FreshNext == Types /\ Fresh /\ [Next]_vars => Fresh'
<1> SUFFICES ASSUME Types, Fresh, [Next]_vars PROVE Fresh'  OBVIOUS
<1> USE DEF scannerVars, world, scan, history
<1>1. CASE Provide \/ TakeTick
  BY <1>1, FreshBegin
<1>2. CASE WorldChanges
  BY <1>2, FreshWorld
<1>3. CASE ScanCall
  BY <1>3, FreshCall
<1>4. CASE ScanReturns
  BY <1>4, FreshScanReturns
<1>5. CASE ScanFails
  BY <1>5 DEF ScanFails, ListNodesFails, Refused, Loop!ScanFails, Loop!EndPublish,
     Loop!scanVars, Fresh, Read, Between
<1>6. CASE Build
  BY <1>6, FreshStutter DEF Build, Loop!Build, Loop!BuildChanged, Loop!BuildSame,
     Loop!EndPublish, Loop!scanVars
<1>7. CASE Send
  BY <1>7, FreshStutter DEF Send, Loop!Send, Loop!SendCanceled, Loop!EndPublish, Loop!scanVars
<1>8. CASE Tick \/ Stop \/ Receive
  BY <1>8, FreshStutter DEF Tick, Stop, Receive, Loop!Tick, Loop!Stop, Loop!Receive, Loop!scanVars
<1>9. CASE TakeDone
  BY <1>9, FreshStutter DEF TakeDone, Loop!TakeDone, Loop!scanVars
<1>10. CASE UNCHANGED vars
  BY <1>10, FreshStutter DEF vars, loopVars
<1> QED
  BY <1>1, <1>2, <1>3, <1>4, <1>5, <1>6, <1>7, <1>8, <1>9, <1>10 DEF Next

LEMMA Freshness == Spec => []Fresh
BY FreshInit, FreshNext, ScanTypeCorrectness, PTL DEF Spec

\* Nothing in a configuration on its way out is older than the scan it comes
\* from, for every cluster and every interleaving of the calls with changes.
THEOREM NothingStaleIsPublished == Spec => []NothingStale
<1>1. Fresh => NothingStale
  BY DEF Fresh, NothingStale, Between
<1> QED  BY <1>1, Freshness, PTL

-----------------------------------------------------------------------------
(* The system is an instance of the loop: its scans are scans of the loop,   *)
(* and nothing the scanner does in between shows there.                      *)

LEMMA NextIsLoopStep == Types /\ [Next]_vars => [Loop!Next]_(Loop!vars)
<1> SUFFICES ASSUME Types, [Next]_vars PROVE Loop!Next \/ UNCHANGED Loop!vars  OBVIOUS
<1> USE DEF Loop!Next
<1>1. CASE Provide \/ TakeTick
  BY <1>1 DEF Provide, TakeTick
<1>2. CASE WorldChanges
  <2>1. UNCHANGED canceled
    BY <1>2 DEF WorldChanges, World, Edit, Power, Migrate, NodeGoesOrComes, Change
  <2> QED  BY <1>2, <2>1 DEF WorldChanges, loopVars, Loop!vars
<1>3. CASE ScanCall
  <2>1. UNCHANGED canceled
    BY <1>3 DEF ScanCall, Call, ListCluster, ListClusterFails, ListNodes, SkipNode, ListVMs,
       ListVMsFails, ListContainers, ListContainersFails, FetchConfig, FetchConfigFails,
       EndBatch, Resolve, ResolveFails, Answered, Refused
  <2> QED  BY <1>3, <2>1 DEF ScanCall, loopVars, Loop!vars
<1>4. CASE ScanReturns
  <2>1. Routes \in SUBSET RouteType /\ Reported(trouble) \in Reports
    BY RoutesType DEF Types, ScanType, Reports
  <2> QED  BY <1>4, <2>1 DEF ScanReturns, Loop!Scan
<1>5. CASE ScanFails
  BY <1>5 DEF ScanFails, Loop!Scan
<1>6. CASE Build \/ Send \/ Tick \/ TakeDone \/ Stop \/ Receive
  BY <1>6 DEF Build, Send, Tick, TakeDone, Stop, Receive
<1>7. CASE UNCHANGED vars
  BY <1>7 DEF vars, loopVars, Loop!vars
<1> QED  BY <1>1, <1>2, <1>3, <1>4, <1>5, <1>6, <1>7 DEF Next

\* Whatever is proved of the polling loop for all scan results holds with the
\* scanner in it.
THEOREM SystemIsLoop == Spec => Loop!Spec
<1>1. Init => Loop!Init
  BY DEF Init
<1>2. Types /\ [Next]_vars => [Loop!Next]_(Loop!vars)
  BY NextIsLoopStep
<1> QED  BY <1>1, <1>2, ScanTypeCorrectness, PTL DEF Spec, Loop!Spec

-----------------------------------------------------------------------------
(* Phases: a batch is being read or there is none, and the loop waits for a  *)
(* scan exactly while there is one.                                          *)

Batching == {"configs", "vmconfigs", "ctconfigs"}

Phased ==
  /\ phase # "idle" <=> pc = "scanning"
  /\ batch # {} => phase \in Batching
  /\ unresolved # {} => phase = "resolve"
  /\ unresolved \subseteq snapshot

\* An answer was heard once the scan knows what to list.
Heard ==
  IncludedNodes = <<>> =>
    /\ phase \notin {"idle", "cluster", "nodes"} => answered
    /\ pc \in {"prepared", "sending"} => answered

LEMMA PhasedInit == Init => Phased /\ Heard
BY DEF Init, ScannerInit, Loop!Init, Phased, Heard

LEMMA PhasedNextNode ==
  ASSUME Phased, Heard, NextNode, phase \in Phases \ {"idle", "cluster", "nodes", "resolve"},
         batch = {}, UNCHANGED <<batch, snapshot, pc>>, answered => answered'
  PROVE  Phased' /\ Heard'
BY TargetsAreWorkloads DEF Phased, Heard, NextNode, ToResolve, Batching, Phases

LEMMA PhasedCall == Types /\ Phased /\ Heard /\ ScanCall => Phased' /\ Heard'
<1> SUFFICES ASSUME Types, Phased, Heard, ScanCall PROVE Phased' /\ Heard'  OBVIOUS
<1>0. pc = "scanning" /\ pc' = "scanning" /\ Call
  BY DEF ScanCall, loopVars
<1> USE TargetsAreWorkloads DEF Answered, Refused, history, Batching
<1>1. CASE ListCluster
  BY <1>0, <1>1 DEF ListCluster, Phased, Heard
<1>2. CASE ListClusterFails
  BY <1>0, <1>2 DEF ListClusterFails, Phased, Heard
<1>3. CASE ListNodes
  BY <1>0, <1>3 DEF ListNodes, Phased, Heard, ToResolve
<1>4. CASE SkipNode
  BY <1>0, <1>4, PhasedNextNode DEF SkipNode, Phased, Phases
<1>5. CASE ListVMs
  BY <1>0, <1>5 DEF ListVMs, Phased, Heard
<1>6. CASE ListVMsFails
  BY <1>0, <1>6 DEF ListVMsFails, Phased, Heard
<1>7. CASE ListContainers
  BY <1>0, <1>7 DEF ListContainers, Phased, Heard
<1>8. CASE ListContainersFails
  BY <1>0, <1>8, PhasedNextNode DEF ListContainersFails, Phased, Phases
<1>9. ASSUME NEW r \in batch, FetchConfig(r) \/ FetchConfigFails(r) PROVE Phased' /\ Heard'
  <2>1. /\ batch' \subseteq batch /\ snapshot \subseteq snapshot' /\ UNCHANGED <<phase, unresolved>>
        /\ answered => answered'
    BY <1>9 DEF FetchConfig, FetchConfigFails
  <2> QED  BY <1>0, <2>1 DEF Phased, Heard
<1>10. CASE EndBatch
  <2>1. batch = {} /\ UNCHANGED <<batch, snapshot, answered>>
    BY <1>10 DEF EndBatch
  <2>2. CASE phase = "configs"
    BY <1>0, <1>10, <2>1, <2>2 DEF EndBatch, ToResolve, Phased, Heard
  <2>3. CASE phase = "vmconfigs"
    BY <1>0, <1>10, <2>1, <2>3 DEF EndBatch, Phased, Heard
  <2>4. CASE phase = "ctconfigs"
    BY <1>0, <1>10, <2>1, <2>4, PhasedNextNode DEF EndBatch, Phases
  <2> QED  BY <1>10, <2>2, <2>3, <2>4 DEF EndBatch
<1>11. ASSUME NEW w \in unresolved, Resolve(w) PROVE Phased' /\ Heard'
  BY <1>0, <1>11 DEF Resolve, Phased, Heard
<1>12. ASSUME NEW w \in unresolved, ResolveFails(w) PROVE Phased' /\ Heard'
  BY <1>0, <1>12 DEF ResolveFails, Phased, Heard
<1> QED
  BY <1>0, <1>1, <1>2, <1>3, <1>4, <1>5, <1>6, <1>7, <1>8, <1>9, <1>10, <1>11, <1>12 DEF Call

LEMMA PhasedNext == Types /\ Phased /\ Heard /\ [Next]_vars => Phased' /\ Heard'
<1> SUFFICES ASSUME Types, Phased, Heard, [Next]_vars PROVE Phased' /\ Heard'  OBVIOUS
<1>1. CASE Provide \/ TakeTick
  <2>1. /\ Begin /\ pc' = "scanning" /\ phase = "idle"
        /\ pc \notin {"scanning", "prepared", "sending"}
    BY <1>1 DEF Provide, TakeTick, Loop!Provide, Loop!TakeTick, Begin
  <2> QED  BY <2>1 DEF Begin, Phased, Heard, Batching
<1>2. CASE WorldChanges
  <2>1. UNCHANGED <<phase, batch, snapshot, unresolved, answered, pc>>
    BY <1>2 DEF WorldChanges, World, Edit, Power, Migrate, NodeGoesOrComes, Change, scan, loopVars
  <2> QED  BY <2>1 DEF Phased, Heard
<1>3. CASE ScanCall
  BY <1>3, PhasedCall
<1>4. CASE ScanFails
  BY <1>4 DEF ScanFails, ListNodesFails, Refused, Loop!ScanFails, Loop!EndPublish, Phased, Heard,
     Batching
<1>5. CASE ScanReturns
  BY <1>5 DEF ScanReturns, Finish, Finished, Loop!ScanReturns, history, Phased, Heard, Batching
<1>6. CASE Build \/ Send \/ Tick \/ TakeDone \/ Stop \/ Receive
  <2>1. /\ UNCHANGED <<phase, batch, snapshot, unresolved, answered>>
        /\ pc = "scanning" <=> pc' = "scanning"
        /\ pc' \in {"prepared", "sending"} => pc \in {"prepared", "sending"}
    BY <1>6 DEF Build, Send, Tick, TakeDone, Stop, Receive, Loop!Build, Loop!BuildChanged,
       Loop!BuildSame, Loop!Send, Loop!SendCanceled, Loop!Tick, Loop!TakeDone, Loop!Stop,
       Loop!Receive, Loop!EndPublish, scannerVars, scan, history
  <2> QED  BY <2>1 DEF Phased, Heard
<1>7. CASE UNCHANGED vars
  BY <1>7 DEF vars, scannerVars, scan, history, loopVars, Phased, Heard
<1> QED  BY <1>1, <1>2, <1>3, <1>4, <1>5, <1>6, <1>7 DEF Next

LEMMA Phasing == Spec => [](Phased /\ Heard)
BY PhasedInit, PhasedNext, ScanTypeCorrectness, PTL DEF Spec

\* Without configured nodes, what a scan publishes rests on an answer: an
\* outage ends in an error of Scan (scanNodes), which publishes nothing.
THEOREM OutagesStayUnpublished == Spec => []OutageNotPublished
<1>1. Heard => OutageNotPublished
  BY DEF Heard, OutageNotPublished
<1> QED  BY <1>1, Phasing, PTL

-----------------------------------------------------------------------------
(* The types of the loop, of which the system is an instance.                *)

LEMMA LoopTypesInit == Loop!Init => Loop!TypeOK
<1> SUFFICES ASSUME Loop!Init PROVE Loop!TypeOK  OBVIOUS
<1>1. <<>> \in Seq(SUBSET RouteType) /\ Len(<<>>) = 0
  OBVIOUS
<1>2. cfgChan \in Seq(SUBSET RouteType) /\ Len(cfgChan) <= capacity
  BY <1>1, SystemAssumption DEF Loop!Init
<1>3. Loop!IsABag(Loop!EmptyBag) /\ Loop!BagToSet(Loop!EmptyBag) = {}
  BY DEF Loop!IsABag, Loop!BagToSet, Loop!EmptyBag, Loop!SetToBag
<1> QED  BY <1>2, <1>3 DEF Loop!Init, Loop!TypeOK, Loop!ProviderStates

LEMMA LoopTypesNext == Loop!TypeOK /\ [Loop!Next]_(Loop!vars) => Loop!TypeOK'
<1> SUFFICES ASSUME Loop!TypeOK, [Loop!Next]_(Loop!vars) PROVE Loop!TypeOK'  OBVIOUS
<1>0. capacity \in Nat \ {0}
  BY SystemAssumption DEF Loop!TypeOK
<1> USE DEF Loop!TypeOK, Loop!ProviderStates, Loop!EndPublish, Loop!scanVars, Loop!feedVars,
            Loop!logVars
<1>1. CASE Loop!Provide \/ Loop!Stop
  BY <1>1 DEF Loop!Provide, Loop!Stop
<1>2. CASE Loop!ScanFails
  BY <1>2 DEF Loop!ScanFails
<1>3. ASSUME NEW c \in SUBSET RouteType, NEW ps \in Reports, Loop!ScanReturns(c, ps)
      PROVE  Loop!TypeOK'
  <2>1. Loop!IsABag(ps) /\ Loop!BagToSet(ps) \subseteq Problems
    BY DEF Reports, Reported, Loop!IsABag, Loop!BagToSet
  <2> QED  BY <1>3, <2>1 DEF Loop!ScanReturns
<1>4. CASE Loop!BuildChanged \/ Loop!BuildSame
  <2>1. /\ Loop!IsABag(printed') /\ Loop!BagToSet(printed') \subseteq Problems
        /\ lastProblems' \in SUBSET Problems
    BY <1>4 DEF Loop!BuildChanged, Loop!BuildSame, Loop!LogProblems, Loop!NewProblems,
       Loop!IsABag, Loop!BagToSet
  <2> QED  BY <1>4, <2>1 DEF Loop!BuildChanged, Loop!BuildSame
<1>5. CASE Loop!Send
  <2>1. /\ config \in SUBSET RouteType /\ cfgChan' = Append(cfgChan, config)
        /\ Len(cfgChan) < capacity
    BY <1>5 DEF Loop!Send
  <2>2. cfgChan' \in Seq(SUBSET RouteType) /\ Len(cfgChan') = Len(cfgChan) + 1 /\ Len(cfgChan) \in Nat
    BY <2>1
  <2>3. Len(cfgChan') <= capacity
    BY <1>0, <2>1, <2>2
  <2> QED  BY <1>5, <2>1, <2>2, <2>3 DEF Loop!Send
<1>6. CASE Loop!HandOff
  BY <1>0, <1>6 DEF Loop!HandOff
<1>7. CASE Loop!SendCanceled
  BY <1>7 DEF Loop!SendCanceled
<1>8. CASE Loop!Tick \/ Loop!TakeTick \/ Loop!TakeDone
  BY <1>8 DEF Loop!Tick, Loop!TakeTick, Loop!TakeDone
<1>9. CASE Loop!Receive
  <2>1. cfgChan # <<>> /\ cfgChan' = Tail(cfgChan) /\ applied' = Head(cfgChan)
    BY <1>9 DEF Loop!Receive
  <2>2. /\ applied' \in SUBSET RouteType /\ cfgChan' \in Seq(SUBSET RouteType)
        /\ Len(cfgChan') = Len(cfgChan) - 1 /\ Len(cfgChan) \in Nat
    BY <2>1
  <2>3. Len(cfgChan') <= capacity
    BY <1>0, <2>2
  <2> QED  BY <1>9, <2>2, <2>3 DEF Loop!Receive
<1>10. CASE UNCHANGED Loop!vars
  BY <1>10 DEF Loop!vars
<1> QED
  BY <1>1, <1>2, <1>3, <1>4, <1>5, <1>6, <1>7, <1>8, <1>9, <1>10
  DEF Loop!Next, Loop!Scan, Loop!Build

LEMMA LoopTypes == Spec => []Loop!TypeOK
BY LoopTypesInit, LoopTypesNext, SystemIsLoop, PTL DEF Loop!Spec

-----------------------------------------------------------------------------
(* The bounds of the model *)

Bounded == changes \in 0 .. MaxChanges /\ failures \in 0 .. MaxFailures

LEMMA BoundedNext == Bounded /\ [Next]_vars => Bounded'
<1> SUFFICES ASSUME Bounded, [Next]_vars PROVE Bounded'  OBVIOUS
<1> USE ScannerAssumption DEF Bounded
<1>1. CASE WorldChanges
  BY <1>1 DEF WorldChanges, World, Edit, Power, Migrate, NodeGoesOrComes, Change
<1>2. CASE ScanCall \/ ScanFails \/ ScanReturns
  <2>1. changes' = changes /\ (failures' = failures \/ (failures < MaxFailures /\ failures' = failures + 1))
    BY <1>2 DEF ScanCall, ScanFails, ScanReturns, Call, ListCluster, ListClusterFails, ListNodes,
       ListNodesFails, SkipNode, ListVMs, ListVMsFails, ListContainers, ListContainersFails,
       FetchConfig, FetchConfigFails, EndBatch, Resolve, ResolveFails, Finish, Answered, Refused,
       world
  <2> QED  BY <2>1
<1>3. CASE Provide \/ TakeTick
  BY <1>3 DEF Provide, TakeTick, Begin, world
<1>4. CASE Build \/ Send \/ Tick \/ TakeDone \/ Stop \/ Receive \/ UNCHANGED vars
  BY <1>4 DEF Build, Send, Tick, TakeDone, Stop, Receive, vars, scannerVars, world
<1> QED  BY <1>1, <1>2, <1>3, <1>4 DEF Next

LEMMA Boundedness == Spec => []Bounded
<1>1. Init => Bounded
  BY ScannerAssumption DEF Init, ScannerInit, Bounded
<1> QED  BY <1>1, BoundedNext, PTL DEF Spec

\* The system keeps its types, and the phases of a scan agree with the loop:
\* one scan at a time, no workload left in the pool between batches, and none
\* to resolve that is not in the snapshot.
THEOREM TypeCorrectness == Spec => []TypeOK
<1>1. Types /\ Phased /\ Bounded /\ Loop!TypeOK => TypeOK
  BY DEF Types, Phased, Batching, Bounded, TypeOK
<1> QED  BY <1>1, ScanTypeCorrectness, Phasing, Boundedness, LoopTypes, PTL

-----------------------------------------------------------------------------
(* Labels never go back.  What was sent is not newer than the cluster was    *)
(* when the scan in hand began, and what that scan reads is not older.       *)

NotNewer(c, d) == \A r \in c, s \in d : r.guest = s.guest => r.rev <= s.rev

Busy == {"scanning", "prepared", "sending"}

Known(c) ==
  \A r \in c : /\ r \in RouteType
               /\ r.rev <= rev[r.guest]
               /\ pc \in Busy => r.rev <= startRev[r.guest]

LineInv ==
  /\ applied # None => Known(applied)
  /\ \A k \in 1 .. Len(cfgChan) : Known(cfgChan[k])
  /\ applied # None => \A k \in 1 .. Len(cfgChan) : NotNewer(applied, cfgChan[k])
  /\ \A j, k \in 1 .. Len(cfgChan) : j < k => NotNewer(cfgChan[j], cfgChan[k])

\* A step that sends and receives nothing, and after which what was sent is
\* still known.
LEMMA LineKept ==
  ASSUME LineInv, UNCHANGED <<applied, cfgChan>>,
         \A c : Known(c) => \A r \in c : /\ r.rev <= rev'[r.guest]
                                         /\ pc' \in Busy => r.rev <= startRev'[r.guest]
  PROVE  LineInv'
<1>1. ASSUME NEW c, Known(c)
      PROVE  \A r \in c : /\ r \in RouteType
                          /\ r.rev <= rev'[r.guest]
                          /\ pc' \in Busy => r.rev <= startRev'[r.guest]
  BY <1>1 DEF Known
<1>2. applied' # None => Known(applied)'
  BY <1>1 DEF LineInv, Known
<1>3. ASSUME NEW k \in 1 .. Len(cfgChan')  PROVE Known(cfgChan[k])'
  <2>1. Known(cfgChan[k]) /\ cfgChan'[k] = cfgChan[k]
    BY <1>3 DEF LineInv
  <2> QED  BY <1>1, <2>1 DEF Known
<1>4. /\ applied' # None => \A k \in 1 .. Len(cfgChan') : NotNewer(applied', cfgChan'[k])
      /\ \A j, k \in 1 .. Len(cfgChan') : j < k => NotNewer(cfgChan'[j], cfgChan'[k])
  BY DEF LineInv
<1>5. (\A c, d : NotNewer(c, d)' = NotNewer(c, d)) /\ None' = None
  BY DEF NotNewer
<1> QED  BY <1>2, <1>3, <1>4, <1>5 DEF LineInv

LEMMA LineStays ==
  ASSUME LineInv, UNCHANGED <<applied, cfgChan, rev, startRev>>, pc' \in Busy => pc \in Busy
  PROVE  LineInv'
<1>1. \A c : Known(c) => \A r \in c : /\ r.rev <= rev'[r.guest]
                                      /\ pc' \in Busy => r.rev <= startRev'[r.guest]
  BY DEF Known
<1> QED  BY <1>1, LineKept

LEMMA LineWorld ==
  ASSUME Types, LineInv, WorldChanges
  PROVE  LineInv'
<1>1. UNCHANGED <<applied, cfgChan, startRev, pc>>
  BY DEF WorldChanges, World, Edit, Power, Migrate, NodeGoesOrComes, Change, loopVars
<1>2. \A g \in Guests : rev[g] \in Nat /\ rev'[g] \in Nat /\ rev[g] <= rev'[g]
  <2>1. ASSUME NEW h \in Guests, Edit(h) PROVE rev' = [rev EXCEPT ![h] = rev[h] + 1]
    BY <2>1 DEF Edit
  <2>2. \/ \E h \in Guests : rev' = [rev EXCEPT ![h] = rev[h] + 1]
        \/ rev' = rev
    BY <2>1 DEF WorldChanges, World, Power, Migrate, NodeGoesOrComes
  <2> QED  BY <2>2 DEF Types, WorldType
<1>3. \A r \in RouteType : r.guest \in Guests /\ r.rev \in Nat
  BY ScannerAssumption DEF RouteType
<1>4. \A c : Known(c) => \A r \in c : /\ r.rev <= rev'[r.guest]
                                      /\ pc' \in Busy => r.rev <= startRev'[r.guest]
  BY <1>1, <1>2, <1>3 DEF Known
<1> QED  BY <1>1, <1>4, LineKept

LEMMA LineBegin ==
  ASSUME LineInv, Provide \/ TakeTick
  PROVE  LineInv'
<1>1. rev' = rev /\ startRev' = rev /\ UNCHANGED <<applied, cfgChan>>
  BY DEF Provide, TakeTick, Begin, world, Loop!Provide, Loop!TakeTick, Loop!feedVars
<1>2. \A c : Known(c) => \A r \in c : /\ r.rev <= rev'[r.guest]
                                      /\ pc' \in Busy => r.rev <= startRev'[r.guest]
  BY <1>1 DEF Known
<1> QED  BY <1>1, <1>2, LineKept

\* The configuration that is sent is known afterwards, and not older than
\* what was known before.
LEMMA ConfigIsNewer ==
  ASSUME Types, Fresh, pc = "sending"
  PROVE  /\ \A r \in config : r \in RouteType /\ r.rev <= rev[r.guest]
         /\ \A c : Known(c) => NotNewer(c, config)
<1>1. \A r \in RouteType : r.guest \in Guests /\ r.rev \in Nat
  BY ScannerAssumption DEF RouteType
<1>2. \A r \in config : r \in RouteType /\ Between(r)
  BY DEF Fresh
<1>3. \A g \in Guests : startRev[g] \in Nat /\ rev[g] \in Nat
  BY DEF Types, WorldType
<1>4. ASSUME NEW c, Known(c), NEW r \in c, NEW s \in config, r.guest = s.guest
      PROVE  r.rev <= s.rev
  <2>1. r \in RouteType /\ r.rev <= startRev[r.guest]
    BY <1>4 DEF Known, Busy
  <2>2. s \in RouteType /\ startRev[s.guest] <= s.rev
    BY <1>2 DEF Between
  <2> QED  BY <1>1, <1>3, <1>4, <2>1, <2>2
<1> QED  BY <1>2, <1>4 DEF NotNewer, Between

LEMMA LineSend ==
  ASSUME Types, Loop!TypeOK, Fresh, LineInv, Loop!Send, UNCHANGED scannerVars
  PROVE  LineInv'
<1> DEFINE n == Len(cfgChan)
<1>1. /\ n \in Nat /\ pc = "sending" /\ pc' = "waiting" /\ cfgChan' = Append(cfgChan, config)
      /\ UNCHANGED <<applied, rev, startRev, config>>
  BY DEF Loop!TypeOK, Loop!Send, Loop!EndPublish, Loop!scanVars, scannerVars, world, history
<1>2. /\ Len(cfgChan') = n + 1 /\ cfgChan'[n + 1] = config
      /\ \A k \in 1 .. n : cfgChan'[k] = cfgChan[k]
  BY <1>1 DEF Loop!TypeOK
<1>3. /\ \A r \in config : r \in RouteType /\ r.rev <= rev[r.guest]
      /\ \A c : Known(c) => NotNewer(c, config)
  BY <1>1, ConfigIsNewer
<1> HIDE DEF n
<1>4. applied' # None => Known(applied)'
  BY <1>1 DEF LineInv, Known, Busy
<1>5. ASSUME NEW k \in 1 .. Len(cfgChan')  PROVE Known(cfgChan[k])'
  <2>1. CASE k = n + 1
    <3>1. cfgChan'[k] = config
      BY <1>2, <2>1
    <3> QED  BY <1>1, <1>3, <3>1 DEF Known, Busy
  <2>2. CASE k # n + 1
    <3>1. k \in 1 .. n
      BY <1>1, <1>2, <2>2
    <3>2. Known(cfgChan[k]) /\ cfgChan'[k] = cfgChan[k]
      BY <1>2, <3>1 DEF LineInv, n
    <3> QED  BY <1>1, <3>2 DEF Known, Busy
  <2> QED  BY <2>1, <2>2
<1>6. applied # None => \A k \in 1 .. (n + 1) : NotNewer(applied, cfgChan'[k])
  <2>1. ASSUME applied # None, NEW k \in 1 .. (n + 1)  PROVE NotNewer(applied, cfgChan'[k])
    <3>1. CASE k = n + 1
      BY <1>2, <1>3, <2>1, <3>1 DEF LineInv
    <3>2. CASE k # n + 1
      <4>1. k \in 1 .. n
        BY <1>1, <3>2
      <4> QED  BY <1>2, <2>1, <4>1 DEF LineInv, n
    <3> QED  BY <3>1, <3>2
  <2> QED  BY <2>1
<1>7. \A j, k \in 1 .. (n + 1) : j < k => NotNewer(cfgChan'[j], cfgChan'[k])
  <2>1. ASSUME NEW j \in 1 .. (n + 1), NEW k \in 1 .. (n + 1), j < k
        PROVE  NotNewer(cfgChan'[j], cfgChan'[k])
    <3>1. j \in 1 .. n
      BY <1>1, <2>1
    <3>2. CASE k = n + 1
      <4>1. Known(cfgChan[j]) /\ cfgChan'[j] = cfgChan[j]
        BY <1>2, <3>1 DEF LineInv, n
      <4> QED  BY <1>2, <1>3, <3>2, <4>1
    <3>3. CASE k # n + 1
      <4>1. k \in 1 .. n
        BY <1>1, <3>3
      <4> QED  BY <1>2, <2>1, <3>1, <4>1 DEF LineInv, n
    <3> QED  BY <3>2, <3>3
  <2> QED  BY <2>1
<1>8. (\A c, d : NotNewer(c, d)' = NotNewer(c, d)) /\ applied' = applied
  BY <1>1 DEF NotNewer
<1> QED  BY <1>2, <1>4, <1>5, <1>6, <1>7, <1>8 DEF LineInv

LEMMA LineReceive ==
  ASSUME Loop!TypeOK, LineInv, Loop!Receive, UNCHANGED scannerVars
  PROVE  LineInv'
<1> DEFINE n == Len(cfgChan)
<1>1. /\ n \in Nat \ {0} /\ cfgChan' = Tail(cfgChan) /\ applied' = cfgChan[1]
      /\ UNCHANGED <<pc, rev, startRev>>
  BY DEF Loop!TypeOK, Loop!Receive, Loop!scanVars, scannerVars, world, history
<1>2. /\ Len(cfgChan') = n - 1
      /\ \A k \in 1 .. (n - 1) : cfgChan'[k] = cfgChan[k + 1] /\ k + 1 \in 1 .. n
  BY <1>1 DEF Loop!TypeOK
<1> HIDE DEF n
<1>3. 1 \in 1 .. n
  BY <1>1
<1>4. \A c : Known(c) => \A r \in c : /\ r \in RouteType
                                      /\ r.rev <= rev'[r.guest]
                                      /\ pc' \in Busy => r.rev <= startRev'[r.guest]
  BY <1>1 DEF Known
<1>5. Known(applied)'
  <2>1. Known(cfgChan[1])
    BY <1>3 DEF LineInv, n
  <2> QED  BY <1>1, <1>4, <2>1 DEF Known
<1>6. ASSUME NEW k \in 1 .. Len(cfgChan')  PROVE Known(cfgChan[k])'
  <2>1. Known(cfgChan[k + 1]) /\ cfgChan'[k] = cfgChan[k + 1]
    BY <1>2, <1>6 DEF LineInv, n
  <2> QED  BY <1>4, <2>1 DEF Known
<1>7. \A k \in 1 .. (n - 1) : NotNewer(applied', cfgChan'[k])
  <2>1. ASSUME NEW k \in 1 .. (n - 1)  PROVE NotNewer(cfgChan[1], cfgChan[k + 1])
    <3>1. k + 1 \in 1 .. n /\ 1 < k + 1
      BY <1>1, <2>1
    <3> QED  BY <1>3, <3>1 DEF LineInv, n
  <2> QED  BY <1>1, <1>2, <2>1
<1>8. \A j, k \in 1 .. (n - 1) : j < k => NotNewer(cfgChan'[j], cfgChan'[k])
  <2>1. ASSUME NEW j \in 1 .. (n - 1), NEW k \in 1 .. (n - 1), j < k
        PROVE  NotNewer(cfgChan[j + 1], cfgChan[k + 1])
    <3>1. j + 1 \in 1 .. n /\ k + 1 \in 1 .. n /\ j + 1 < k + 1
      BY <1>1, <2>1
    <3> QED  BY <3>1 DEF LineInv, n
  <2> QED  BY <1>2, <2>1
<1>9. \A c, d : NotNewer(c, d)' = NotNewer(c, d)
  BY DEF NotNewer
<1> QED  BY <1>2, <1>5, <1>6, <1>7, <1>8, <1>9 DEF LineInv

LEMMA LineNext ==
  Types /\ Loop!TypeOK /\ Fresh /\ LineInv /\ [Next]_vars => LineInv'
<1> SUFFICES ASSUME Types, Loop!TypeOK, Fresh, LineInv, [Next]_vars PROVE LineInv'  OBVIOUS
<1>1. CASE Provide \/ TakeTick
  BY <1>1, LineBegin
<1>2. CASE WorldChanges
  BY <1>2, LineWorld
<1>3. CASE ScanCall
  <2>1. UNCHANGED <<applied, cfgChan, rev, startRev, pc>>
    BY <1>3 DEF ScanCall, Call, ListCluster, ListClusterFails, ListNodes, SkipNode, ListVMs,
       ListVMsFails, ListContainers, ListContainersFails, FetchConfig, FetchConfigFails,
       EndBatch, Resolve, ResolveFails, Answered, Refused, history, world, loopVars
  <2> QED  BY <2>1, LineStays
<1>4. CASE ScanFails \/ ScanReturns
  <2>1. UNCHANGED <<applied, cfgChan, rev, startRev>> /\ pc = "scanning"
    BY <1>4 DEF ScanFails, ScanReturns, ListNodesFails, Refused, Finish, Loop!ScanFails,
       Loop!ScanReturns, Loop!feedVars, world, history
  <2> QED  BY <2>1, LineStays DEF Busy
<1>5. CASE Loop!Send /\ UNCHANGED scannerVars
  BY <1>5, LineSend
<1>6. CASE Receive
  BY <1>6, LineReceive DEF Receive
<1>7. CASE Build \/ (Loop!SendCanceled /\ UNCHANGED scannerVars) \/ Tick \/ TakeDone \/ Stop
  <2>1. UNCHANGED <<applied, cfgChan, rev, startRev>> /\ (pc' \in Busy => pc \in Busy)
    BY <1>7 DEF Build, Tick, TakeDone, Stop, Loop!Build, Loop!BuildChanged, Loop!BuildSame,
       Loop!SendCanceled, Loop!Tick, Loop!TakeDone, Loop!Stop, Loop!EndPublish, Loop!feedVars,
       scannerVars, world, history, Busy
  <2> QED  BY <2>1, LineStays
<1>8. CASE UNCHANGED vars
  BY <1>8, LineStays DEF vars, scannerVars, world, history, loopVars
<1> QED  BY <1>1, <1>2, <1>3, <1>4, <1>5, <1>6, <1>7, <1>8 DEF Next, Send

LEMMA LineInvariance == Spec => []LineInv
<1>1. Init => LineInv
  BY DEF Init, Loop!Init, LineInv
<1> QED  BY <1>1, LineNext, ScanTypeCorrectness, LoopTypes, Freshness, PTL DEF Spec

\* The places of what was applied, sent, and is about to be sent.
LEMMA LineElements ==
  ASSUME Loop!TypeOK, NEW k \in 1 .. Len(Line)
  PROVE  \/ k = 1 /\ Line[k] = applied
         \/ k - 1 \in 1 .. Len(cfgChan) /\ Line[k] = cfgChan[k - 1]
         \/ k = Len(cfgChan) + 2 /\ pc = "sending" /\ Line[k] = config
<1>1. cfgChan \in Seq(SUBSET RouteType) /\ Len(cfgChan) \in Nat
  BY DEF Loop!TypeOK
<1>2. CASE pc = "sending"
  BY <1>1, <1>2 DEF Line
<1>3. CASE pc # "sending"
  BY <1>1, <1>3 DEF Line
<1> QED  BY <1>2, <1>3

\* Traefik is never given older labels of a guest after newer ones, whatever
\* the guest does while it is scanned and however late Traefik receives.
THEOREM LabelsOnlyAdvance == Spec => []LabelsNeverGoBack
<1>1. ASSUME Types, Loop!TypeOK, Fresh, LineInv  PROVE LabelsNeverGoBack
  <2>1. SUFFICES ASSUME NEW j \in 1 .. Len(Line), NEW k \in 1 .. Len(Line), j < k, Line[j] # None
                 PROVE  NotNewer(Line[j], Line[k])
    BY DEF LabelsNeverGoBack, NotNewer
  <2>2. Len(cfgChan) \in Nat
    BY <1>1 DEF Loop!TypeOK
  <2>3. CASE j = 1 /\ Line[j] = applied
    <3>1. CASE k - 1 \in 1 .. Len(cfgChan) /\ Line[k] = cfgChan[k - 1]
      BY <1>1, <2>1, <2>3, <3>1 DEF LineInv
    <3>2. CASE pc = "sending" /\ Line[k] = config
      BY <1>1, <2>1, <2>3, <3>2, ConfigIsNewer DEF LineInv
    <3> QED  BY <1>1, <2>1, <2>3, <3>1, <3>2, LineElements
  <2>4. CASE j - 1 \in 1 .. Len(cfgChan) /\ Line[j] = cfgChan[j - 1]
    <3>1. CASE k - 1 \in 1 .. Len(cfgChan) /\ Line[k] = cfgChan[k - 1]
      BY <1>1, <2>1, <2>2, <2>4, <3>1 DEF LineInv
    <3>2. CASE pc = "sending" /\ Line[k] = config
      BY <1>1, <2>1, <2>4, <3>2, ConfigIsNewer DEF LineInv
    <3> QED  BY <1>1, <2>1, <2>2, <2>4, <3>1, <3>2, LineElements
  <2>5. CASE j = Len(cfgChan) + 2
    BY <1>1, <2>1, <2>2, <2>5, LineElements
  <2> QED  BY <1>1, <2>3, <2>4, <2>5, LineElements
<1> QED  BY <1>1, ScanTypeCorrectness, LoopTypes, Freshness, LineInvariance, PTL

-----------------------------------------------------------------------------
(* A guest that nothing happens to.  Whichever path the scan takes, such a   *)
(* guest is in the snapshot, in the batch that is being read, or on a node   *)
(* that is still to be listed.                                               *)

Res(g)   == [guest |-> g, node |-> home[g], up |-> Up(g)]
Wl(g, b) == Workload(Res(g), rev[g], b)

\* The guest passes the filters, and it can be read as well.
Listed(g) == Included(home[g]) /\ (SkipStopped => Up(g))
Keep(g)   == Listed(g) /\ home[g] \in online

\* Its address is to be asked for.
Target(g) == ~SkipIPResolution /\ Up(g) /\ rev[g] \in EnabledRevs

NodePhases == {"vms", "vmconfigs", "containers", "ctconfigs"}

\* The guest is still to be listed.
ToCome(g) ==
  \/ phase \in {"cluster", "nodes"}
  \/ /\ phase \in NodePhases
     /\ \E i \in 1 .. Len(queue) :
          /\ queue[i].name = home[g] /\ queue[i].up
          /\ i = 1 => \/ phase = "vms"
                      \/ phase \in {"vmconfigs", "containers"} /\ g \notin VMs

Found(g) ==
  /\ \A w \in snapshot : w.guest = g => w = Wl(g, "fallback") /\ Keep(g)
  /\ \A r \in batch : r.guest = g => r = Res(g) /\ Listed(g)
  /\ Keep(g) => Wl(g, "fallback") \in snapshot \/ Res(g) \in batch \/ ToCome(g)

Resolved(g) ==
  /\ \A w \in snapshot : w.guest = g =>
       /\ Keep(g)
       /\ w = Wl(g, "fallback") \/ (w = Wl(g, "ip") /\ Target(g))
  /\ \A w \in unresolved : w.guest = g => w = Wl(g, "fallback") /\ Target(g)
  /\ Keep(g) /\ ~Target(g) => Wl(g, "fallback") \in snapshot
  /\ Keep(g) /\ Target(g) =>
       \/ Wl(g, "fallback") \in unresolved
       \/ Wl(g, "ip") \in snapshot /\ Wl(g, "fallback") \notin snapshot

Exact(g) ==
  /\ \A r \in config : r.guest = g => r = CurrentRoute(g) /\ Published(g)
  /\ Published(g) => CurrentRoute(g) \in config

ScanInv ==
  /\ phase = "nodes" => IncludedNodes = <<>>
  /\ phase \in NodePhases => \A i \in 1 .. Len(queue) : Included(queue[i].name)
  /\ \A g \in Guests \ (touched \cup lost) :
       /\ phase \notin {"idle", "resolve"} => Found(g)
       /\ phase = "resolve" => Resolved(g)
       /\ pc = "prepared" => Exact(g)

\* What is said of a guest depends on what happens to it alone.
SameGuest(g) ==
  /\ home'[g] = home[g] /\ rev'[g] = rev[g]
  /\ g \in running' <=> g \in running
  /\ home[g] \in online' <=> home[g] \in online

LEMMA SameGuestSameFacts ==
  ASSUME NEW g, SameGuest(g)
  PROVE  /\ Res(g)' = Res(g) /\ (\A b : Wl(g, b)' = Wl(g, b))
         /\ Listed(g)' <=> Listed(g)
         /\ Keep(g)' <=> Keep(g)
         /\ Target(g)' <=> Target(g)
         /\ Published(g)' <=> Published(g)
         /\ CurrentRoute(g)' = CurrentRoute(g)
<1>1. Up(g)' <=> Up(g)
  BY DEF Up, SameGuest
<1>2. Up(g)' = Up(g)
  BY <1>1 DEF Up
<1>3. Res(g)' = Res(g)
  BY <1>2 DEF Res, SameGuest
<1>4. \A b : Wl(g, b)' = Wl(g, b)
  BY <1>3 DEF Wl, Workload, SameGuest
<1>5. Listed(g)' <=> Listed(g)
  BY <1>1 DEF Listed, Included, SameGuest
<1>6. Keep(g)' <=> Keep(g)
  BY <1>5 DEF Keep, SameGuest
<1>7. Target(g)' <=> Target(g)
  BY <1>1 DEF Target, SameGuest
<1>8. Published(g)' <=> Published(g)
  BY DEF Published, WantedNodes, SameGuest
<1>9. CurrentRoute(g)' = CurrentRoute(g)
  BY DEF CurrentRoute, SameGuest
<1> QED  BY <1>3, <1>4, <1>5, <1>6, <1>7, <1>8, <1>9

LEMMA GuestOf ==
  ASSUME NEW g, NEW b
  PROVE  Res(g).guest = g /\ Wl(g, b).guest = g /\ CurrentRoute(g).guest = g
BY DEF Res, Wl, Workload, CurrentRoute

\* A change that does not touch a guest leaves what is said of it.
LEMMA UntouchedIsSame ==
  ASSUME Types, World, NEW g \in Guests \ touched'
  PROVE  SameGuest(g) /\ g \notin touched
<1> USE DEF Change, SameGuest, Types, WorldType
<1>1. ASSUME NEW h \in Guests, Edit(h) PROVE SameGuest(g) /\ g \notin touched
  BY <1>1 DEF Edit
<1>2. ASSUME NEW h \in Guests, Power(h) PROVE SameGuest(g) /\ g \notin touched
  <2>1. g # h /\ g \notin touched
    BY <1>2 DEF Power
  <2> QED  BY <1>2, <2>1 DEF Power
<1>3. ASSUME NEW h \in Guests, NEW n \in Nodes, Migrate(h, n) PROVE SameGuest(g) /\ g \notin touched
  BY <1>3 DEF Migrate
<1>4. ASSUME NEW n \in Nodes, NodeGoesOrComes(n) PROVE SameGuest(g) /\ g \notin touched
  <2>1. home[g] # n /\ g \notin touched
    BY <1>4 DEF NodeGoesOrComes
  <2> QED  BY <1>4, <2>1 DEF NodeGoesOrComes
<1> QED  BY <1>1, <1>2, <1>3, <1>4 DEF World

LEMMA ScanInvWorld ==
  ASSUME Types, ScanInv, WorldChanges
  PROVE  ScanInv'
<1>1. UNCHANGED <<phase, queue, batch, snapshot, unresolved, lost, pc, config>>
  BY DEF WorldChanges, World, Edit, Power, Migrate, NodeGoesOrComes, Change, scan, loopVars
<1>2. /\ phase' = "nodes" => IncludedNodes = <<>>
      /\ phase' \in NodePhases => \A i \in 1 .. Len(queue') : Included(queue[i].name)'
  BY <1>1 DEF ScanInv, Included
<1>3. ASSUME NEW g \in Guests \ (touched' \cup lost')
      PROVE  /\ (phase' \notin {"idle", "resolve"} => Found(g)')
             /\ (phase' = "resolve" => Resolved(g)')
             /\ (pc' = "prepared" => Exact(g)')
  <2>1. SameGuest(g) /\ g \notin touched /\ g \notin lost
    BY <1>1, <1>3, UntouchedIsSame DEF WorldChanges
  <2>2. /\ Res(g)' = Res(g) /\ (\A b : Wl(g, b)' = Wl(g, b))
        /\ Listed(g)' <=> Listed(g)
        /\ Keep(g)' <=> Keep(g)
        /\ Target(g)' <=> Target(g)
        /\ Published(g)' <=> Published(g)
        /\ CurrentRoute(g)' = CurrentRoute(g)
    BY <2>1, SameGuestSameFacts
  <2>3. ToCome(g)' <=> ToCome(g)
    BY <1>1, <2>1 DEF ToCome, SameGuest
  <2>4. ASSUME Found(g)  PROVE Found(g)'
    BY <1>1, <2>2, <2>3, <2>4 DEF Found
  <2>5. ASSUME Resolved(g)  PROVE Resolved(g)'
    BY <1>1, <2>2, <2>5 DEF Resolved
  <2>6. ASSUME Exact(g)  PROVE Exact(g)'
    BY <1>1, <2>2, <2>6 DEF Exact
  <2> QED  BY <1>1, <2>1, <2>4, <2>5, <2>6 DEF ScanInv
<1> QED  BY <1>2, <1>3 DEF ScanInv

\* What a call leaves of the cluster: all of it, so nothing changes for a guest.
LEMMA WorldStays ==
  ASSUME UNCHANGED world, NEW g
  PROVE  /\ SameGuest(g)
         /\ Res(g)' = Res(g) /\ (\A b : Wl(g, b)' = Wl(g, b))
         /\ Listed(g)' <=> Listed(g)
         /\ Keep(g)' <=> Keep(g)
         /\ Target(g)' <=> Target(g)
         /\ Published(g)' <=> Published(g)
         /\ CurrentRoute(g)' = CurrentRoute(g)
<1>1. SameGuest(g)
  BY DEF world, SameGuest
<1> QED  BY <1>1, SameGuestSameFacts

\* What has to be shown of a step during the scan.
LEMMA ScanInvStep ==
  ASSUME ScanInv, pc' = "scanning", UNCHANGED touched, lost \subseteq lost',
         phase' = "nodes" => IncludedNodes = <<>>,
         phase' \in NodePhases => \A i \in 1 .. Len(queue') : Included(queue'[i].name),
         \A g \in Guests \ (touched \cup lost') :
            /\ phase' \notin {"idle", "resolve"} => Found(g)'
            /\ phase' = "resolve" => Resolved(g)'
  PROVE  ScanInv'
<1>1. \A n : Included(n)' <=> Included(n)
  BY DEF Included
<1> QED  BY <1>1 DEF ScanInv

LEMMA ListedAre ==
  ASSUME Types, NEW gs \in SUBSET Guests, NEW g \in Guests
  PROVE  /\ \A r \in Resources(gs) : r.guest = g => g \in gs /\ r = Res(g) /\ (SkipStopped => Up(g))
         /\ g \in gs /\ (SkipStopped => Up(g)) => Res(g) \in Resources(gs)
BY DEF Resources, Res

\* Once nothing is left to list and to read, the guest is as it should be
\* before the addresses are asked for.
LEMMA FoundIsResolved ==
  ASSUME NEW g, Found(g), batch = {}, ~ToCome(g), ToResolve, UNCHANGED <<world, snapshot>>
  PROVE  Resolved(g)'
<1>1. \A w : w \in unresolved' <=> w \in snapshot /\ ~SkipIPResolution /\ w.up /\ Enabled(w)
  BY DEF ToResolve, ResolutionTargets
<1>2. \A b : Wl(g, b).up = Up(g) /\ (Enabled(Wl(g, b)) <=> rev[g] \in EnabledRevs)
  BY DEF Wl, Workload, Res, Enabled
<1>3. /\ \A w \in snapshot : w.guest = g => w = Wl(g, "fallback") /\ Keep(g)
      /\ Keep(g) => Wl(g, "fallback") \in snapshot
  BY DEF Found
<1>4. \A w \in unresolved' : w.guest = g => w = Wl(g, "fallback") /\ Target(g)
  BY <1>1, <1>2, <1>3 DEF Target
<1>5. Keep(g) /\ Target(g) => Wl(g, "fallback") \in unresolved'
  BY <1>1, <1>2, <1>3 DEF Target
<1> QED  BY <1>3, <1>4, <1>5, WorldStays DEF Resolved

\* The guest is on the node the scan is about to leave, and was not listed.
Leaving(g) ==
  /\ queue[1].name = home[g] /\ queue[1].up
  /\ \/ phase = "vms"
     \/ phase \in {"vmconfigs", "containers"} /\ g \notin VMs

LEMMA ScanInvNextNode ==
  ASSUME Types, ScanInv, NextNode, phase \in NodePhases, batch = {}, pc' = "scanning",
         UNCHANGED <<world, touched, batch, snapshot>>, lost \subseteq lost',
         \A g \in Guests \ (touched \cup lost') : ~Leaving(g)
  PROVE  ScanInv'
<1> DEFINE n == Len(queue)
<1>1. /\ n \in Nat \ {0} /\ queue' = Tail(queue)
      /\ queue' = <<>> => n = 1 /\ ToResolve
      /\ queue' # <<>> => phase' = "vms"
  <2>1. queue \in Seq([name : Nodes, up : BOOLEAN]) /\ queue # <<>> /\ queue' = Tail(queue)
    BY DEF Types, ScanType, NextNode, NodePhases
  <2>2. n \in Nat \ {0}
    BY <2>1
  <2>3. Len(Tail(queue)) = n - 1
    BY <2>1
  <2>4. Tail(queue) = <<>> => n = 1
    <3> SUFFICES ASSUME Tail(queue) = <<>> PROVE n = 1  OBVIOUS
    <3>1. Len(<<>>) = 0
      OBVIOUS
    <3> HIDE DEF n
    <3>2. n - 1 = 0
      BY <2>3, <3>1, Zenon
    <3> QED  BY <2>2, <3>2
  <2> QED  BY <2>1, <2>2, <2>4 DEF NextNode
<1>2. /\ Len(queue') = n - 1
      /\ \A k \in 1 .. (n - 1) : queue'[k] = queue[k + 1] /\ k + 1 \in 1 .. n
  BY <1>1 DEF Types, ScanType
<1>3. phase' # "nodes" /\ phase' # "idle"
  BY <1>1 DEF ToResolve
<1>4. ASSUME NEW i \in 1 .. Len(queue')  PROVE Included(queue'[i].name)
  BY <1>2, <1>4 DEF ScanInv
<1>5. ASSUME NEW g \in Guests \ (touched \cup lost')
      PROVE  /\ phase' \notin {"idle", "resolve"} => Found(g)'
             /\ phase' = "resolve" => Resolved(g)'
  <2>1. Found(g)
    BY <1>5 DEF ScanInv, NodePhases
  <2>2. ASSUME ToCome(g)
        PROVE  \E k \in 1 .. (n - 1) : queue'[k].name = home[g] /\ queue'[k].up
    <3>1. PICK i \in 1 .. n :
            /\ queue[i].name = home[g] /\ queue[i].up
            /\ i = 1 => \/ phase = "vms"
                        \/ phase \in {"vmconfigs", "containers"} /\ g \notin VMs
      BY <2>2 DEF ToCome, NodePhases
    <3>2. i # 1
      BY <1>5, <3>1 DEF Leaving
    <3> HIDE DEF n
    <3>3. i - 1 \in 1 .. (n - 1) /\ (i - 1) + 1 = i
      BY <1>1, <3>1, <3>2
    <3>4. queue'[i - 1] = queue[i]
      BY <1>2, <3>3
    <3> QED  BY <3>1, <3>3, <3>4
  <2>3. CASE queue' = <<>>
    <3>1. ~ToCome(g)
      BY <1>1, <2>2, <2>3
    <3>2. Resolved(g)'
      BY <1>1, <2>1, <2>3, <3>1, FoundIsResolved
    <3> QED  BY <1>1, <2>3, <3>2 DEF ToResolve
  <2>4. CASE queue' # <<>>
    <3>1. phase' = "vms"
      BY <1>1, <2>4
    <3>2. ToCome(g) => ToCome(g)'
      BY <1>2, <2>2, <3>1 DEF ToCome, NodePhases, world
    <3>3. Found(g)'
      BY <2>1, <3>2, WorldStays DEF Found
    <3> QED  BY <3>1, <3>3
  <2> QED  BY <2>3, <2>4
<1> QED  BY <1>3, <1>4, <1>5, ScanInvStep

\* The nodes of a new queue: each is listed, and those in up are worth it.
LEMMA EntriesAre ==
  ASSUME NEW nodes \in Seq(Nodes), NEW up, queue' = Entries(nodes, up)
  PROVE  /\ Len(queue') = Len(nodes)
         /\ \A i \in 1 .. Len(nodes) :
              queue'[i].name = nodes[i] /\ (queue'[i].up <=> nodes[i] \in up)
<1> DEFINE e(i) == [name |-> nodes[i], up |-> nodes[i] \in up]
<1>1. queue' = [i \in 1 .. Len(nodes) |-> e(i)] /\ Len(nodes) \in Nat
  BY DEF Entries
<1>2. \A i : e(i).name = nodes[i] /\ (e(i).up <=> nodes[i] \in up)
  OBVIOUS
<1>3. Len(queue') = Len(nodes) /\ \A i \in 1 .. Len(nodes) : queue'[i] = e(i)
  <2> HIDE DEF e
  <2> QED  BY <1>1
<1> QED  BY <1>2, <1>3

LEMMA ScanInvListCluster ==
  ASSUME Types, Phased, ScanInv, ListCluster, pc' = "scanning"
  PROVE  ScanInv'
<1> DEFINE gs == {g \in Guests : Included(home[g])}
<1>1. /\ phase = "cluster" /\ phase' = "configs" /\ batch' = Resources(gs)
      /\ UNCHANGED <<world, touched, lost, snapshot>>
  BY DEF ListCluster, Answered
<1>2. ASSUME NEW g \in Guests \ (touched \cup lost)  PROVE Found(g)'
  <2>1. Found(g)
    BY <1>1, <1>2 DEF ScanInv
  <2>2. /\ \A r \in batch' : r.guest = g => r = Res(g) /\ Listed(g)
        /\ Listed(g) => Res(g) \in batch'
    BY <1>1, ListedAre DEF Listed
  <2>3. Keep(g) => Listed(g)
    BY DEF Keep
  <2> QED  BY <1>1, <2>1, <2>2, <2>3, WorldStays DEF Found
<1> QED  BY <1>1, <1>2, ScanInvStep DEF NodePhases

LEMMA ScanInvListClusterFails ==
  ASSUME Types, Phased, ScanInv, ListClusterFails, pc' = "scanning"
  PROVE  ScanInv'
<1>1. /\ phase = "cluster" /\ queue' = Entries(IncludedNodes, Nodes) /\ lost' = lost
      /\ phase' = IF IncludedNodes = <<>> THEN "nodes" ELSE "vms"
      /\ UNCHANGED <<world, touched, snapshot, batch>>
  BY DEF ListClusterFails, Refused
<1>2. /\ Len(queue') = Len(IncludedNodes)
      /\ \A i \in 1 .. Len(IncludedNodes) : queue'[i].name = IncludedNodes[i] /\ queue'[i].up
      /\ \A i \in 1 .. Len(IncludedNodes) : IncludedNodes[i] \in Nodes
  <2>1. \A i \in 1 .. Len(IncludedNodes) : IncludedNodes[i] \in Nodes
    BY ScannerAssumption
  <2> QED  BY <1>1, <2>1, EntriesAre, ScannerAssumption
<1>3. \A i \in 1 .. Len(queue') : Included(queue'[i].name)
  BY <1>2 DEF Included, ToSet
<1>4. ASSUME NEW g \in Guests \ (touched \cup lost)  PROVE Found(g)'
  <2>1. Found(g) /\ batch = {}
    BY <1>1, <1>4 DEF ScanInv, Phased, Batching
  <2>2. ASSUME Keep(g), IncludedNodes # <<>>
        PROVE  \E i \in 1 .. Len(queue') : queue'[i].name = home[g] /\ queue'[i].up
    <3>1. home[g] \in ToSet(IncludedNodes)
      BY <2>2 DEF Keep, Listed, Included
    <3>2. PICK i \in 1 .. Len(IncludedNodes) : IncludedNodes[i] = home[g]
      BY <3>1 DEF ToSet
    <3> QED  BY <1>2, <3>2
  <2>3. Keep(g) => ToCome(g)'
    BY <1>1, <2>2 DEF ToCome, NodePhases, world
  <2> QED  BY <1>1, <2>1, <2>3, WorldStays DEF Found
<1> QED  BY <1>1, <1>3, <1>4, ScanInvStep

LEMMA ScanInvListNodes ==
  ASSUME Types, Phased, ScanInv, ListNodes, pc' = "scanning"
  PROVE  ScanInv'
<1>1. /\ phase = "nodes" /\ queue' = Entries(NodeList, online) /\ IncludedNodes = <<>>
      /\ UNCHANGED <<world, touched, lost, snapshot, batch>>
      /\ queue' = <<>> => ToResolve
      /\ queue' # <<>> => phase' = "vms"
  BY DEF ListNodes, Answered, ScanInv
<1>2. /\ Len(queue') = Len(NodeList)
      /\ \A i \in 1 .. Len(NodeList) :
           queue'[i].name = NodeList[i] /\ (queue'[i].up <=> NodeList[i] \in online)
  BY <1>1, EntriesAre, ScannerAssumption
<1>3. ASSUME NEW g \in Guests \ (touched \cup lost)
      PROVE  /\ Found(g) /\ batch = {}
             /\ Keep(g) => \E i \in 1 .. Len(queue') : queue'[i].name = home[g] /\ queue'[i].up
  <2>1. Found(g) /\ batch = {}
    BY <1>1, <1>3 DEF ScanInv, Phased, Batching
  <2>2. home[g] \in ToSet(NodeList)
    BY DEF Types, WorldType, Nodes
  <2>3. PICK i \in 1 .. Len(NodeList) : NodeList[i] = home[g]
    BY <2>2 DEF ToSet
  <2> QED  BY <1>2, <2>1, <2>3 DEF Keep
<1>4. CASE queue' = <<>>
  <2>0. Len(queue') = 0
    BY <1>4
  <2>1. ASSUME NEW g \in Guests \ (touched \cup lost)  PROVE Resolved(g)'
    <3>1. ~Keep(g)
      BY <1>3, <2>0, <2>1
    <3>2. Found(g) /\ batch = {}
      BY <1>3, <2>1
    <3>3. \A w \in snapshot' : w.guest # g
      BY <1>1, <3>1, <3>2 DEF Found
    <3>4. unresolved' \subseteq snapshot'
      BY <1>1, <1>4, TargetsAreWorkloads DEF ToResolve
    <3> QED  BY <1>1, <3>1, <3>3, <3>4, WorldStays DEF Resolved
  <2>2. phase' = "resolve"
    BY <1>1, <1>4 DEF ToResolve
  <2> QED  BY <1>1, <2>1, <2>2, ScanInvStep DEF NodePhases
<1>5. CASE queue' # <<>>
  <2>1. phase' = "vms"
    BY <1>1, <1>5
  <2>2. ASSUME NEW g \in Guests \ (touched \cup lost)  PROVE Found(g)'
    <3>1. Keep(g) => ToCome(g)'
      BY <1>1, <1>3, <2>1, <2>2 DEF ToCome, NodePhases, world
    <3> QED  BY <1>1, <1>3, <2>2, <3>1, WorldStays DEF Found
  <2>3. \A n : Included(n)
    BY <1>1 DEF Included
  <2> QED  BY <1>1, <2>1, <2>2, <2>3, ScanInvStep
<1> QED  BY <1>4, <1>5

\* The virtual machines of a node are listed, or cannot be.
LEMMA ScanInvListVMs ==
  ASSUME Types, Phased, ScanInv, ListVMs \/ ListVMsFails, pc' = "scanning"
  PROVE  ScanInv'
<1> DEFINE gs == {g \in VMs : home[g] = Node}
<1>1. /\ phase = "vms" /\ Head(queue) = queue[1] /\ queue[1].up /\ Node = queue[1].name
      /\ UNCHANGED <<world, touched, queue, snapshot>>
  BY DEF ListVMs, ListVMsFails, Answered, Refused, Node, Types, ScanType
<1>2. \/ phase' = "vmconfigs" /\ batch' = Resources(gs) /\ lost' = lost
      \/ phase' = "containers" /\ batch' = batch /\ lost' = lost \cup gs
  BY DEF ListVMs, ListVMsFails, Refused
<1>3. queue # <<>> /\ Len(queue) \in Nat /\ Included(queue[1].name) /\ batch = {}
  <2>1. queue \in Seq([name : Nodes, up : BOOLEAN]) /\ queue # <<>> /\ batch = {}
    BY <1>1 DEF Types, ScanType, Phased, Batching
  <2>2. 1 \in 1 .. Len(queue)
    BY <2>1
  <2> QED  BY <1>1, <2>1, <2>2 DEF ScanInv, NodePhases
<1>4. gs \in SUBSET Guests
  BY ScannerAssumption
<1>5. ASSUME NEW g \in Guests \ (touched \cup lost')  PROVE Found(g)'
  <2>1. Found(g)
    BY <1>1, <1>2, <1>5 DEF ScanInv
  <2>2. \A r \in batch' : r.guest = g => r = Res(g) /\ Listed(g)
    BY <1>1, <1>2, <1>3, <1>4, ListedAre DEF Listed
  <2>3. Keep(g) /\ g \in gs => Res(g) \in batch'
    BY <1>2, <1>4, <1>5, ListedAre DEF Keep, Listed
  <2>4. ToCome(g) /\ g \notin gs => ToCome(g)'
    <3> SUFFICES ASSUME ToCome(g), g \notin gs PROVE ToCome(g)'  OBVIOUS
    <3>1. PICK i \in 1 .. Len(queue) : queue[i].name = home[g] /\ queue[i].up
      BY <1>1 DEF ToCome
    <3>2. i = 1 => g \notin VMs
      BY <1>1, <3>1
    <3> QED  BY <1>1, <1>2, <3>1, <3>2 DEF ToCome, NodePhases, world
  <2> QED  BY <1>1, <1>3, <2>1, <2>2, <2>3, <2>4, WorldStays DEF Found
<1>6. \A i \in 1 .. Len(queue') : Included(queue'[i].name)
  BY <1>1 DEF ScanInv, NodePhases
<1> QED  BY <1>1, <1>2, <1>5, <1>6, ScanInvStep

LEMMA ScanInvListContainers ==
  ASSUME Types, Phased, ScanInv, ListContainers, pc' = "scanning"
  PROVE  ScanInv'
<1> DEFINE gs == {g \in Guests \ VMs : home[g] = Node}
<1>1. /\ phase = "containers" /\ phase' = "ctconfigs" /\ Node = queue[1].name
      /\ batch' = Resources(gs)
      /\ UNCHANGED <<world, touched, lost, queue, snapshot>>
  BY DEF ListContainers, Answered, Node, Types, ScanType
<1>3. Included(queue[1].name) /\ batch = {}
  <2>1. queue \in Seq([name : Nodes, up : BOOLEAN]) /\ queue # <<>> /\ batch = {}
    BY <1>1 DEF Types, ScanType, Phased, Batching
  <2>2. 1 \in 1 .. Len(queue)
    BY <2>1
  <2> QED  BY <1>1, <2>1, <2>2 DEF ScanInv, NodePhases
<1>5. ASSUME NEW g \in Guests \ (touched \cup lost)  PROVE Found(g)'
  <2>1. Found(g)
    BY <1>1, <1>5 DEF ScanInv
  <2>2. \A r \in batch' : r.guest = g => r = Res(g) /\ Listed(g)
    BY <1>1, <1>3, ListedAre DEF Listed
  <2>3. Keep(g) /\ g \in gs => Res(g) \in batch'
    BY <1>1, ListedAre DEF Keep, Listed
  <2>4. ToCome(g) /\ g \notin gs => ToCome(g)'
    <3> SUFFICES ASSUME ToCome(g), g \notin gs PROVE ToCome(g)'  OBVIOUS
    <3>1. PICK i \in 1 .. Len(queue) :
            queue[i].name = home[g] /\ queue[i].up /\ (i = 1 => g \notin VMs)
      BY <1>1 DEF ToCome
    <3>2. i # 1
      BY <1>1, <1>5, <3>1
    <3> QED  BY <1>1, <3>1, <3>2 DEF ToCome, NodePhases, world
  <2> QED  BY <1>1, <1>3, <2>1, <2>2, <2>3, <2>4, WorldStays DEF Found
<1>6. \A i \in 1 .. Len(queue') : Included(queue'[i].name)
  BY <1>1 DEF ScanInv, NodePhases
<1> QED  BY <1>1, <1>5, <1>6, ScanInvStep

\* The nodes that are passed over: one that is offline, and one whose
\* containers cannot be listed.
LEMMA ScanInvPassNode ==
  ASSUME Types, Phased, ScanInv, SkipNode \/ ListContainersFails, pc' = "scanning"
  PROVE  ScanInv'
<1>1. queue \in Seq([name : Nodes, up : BOOLEAN]) /\ queue # <<>> /\ batch = {}
  BY DEF SkipNode, ListContainersFails, Types, ScanType, Phased, Batching
<1>2. Head(queue) = queue[1] /\ Node = queue[1].name
  BY <1>1 DEF Node
<1>3. /\ NextNode /\ phase \in NodePhases /\ lost \subseteq lost'
      /\ UNCHANGED <<world, touched, batch, snapshot>>
  BY DEF SkipNode, ListContainersFails, Refused, NodePhases, history
<1>4. \A g \in Guests \ (touched \cup lost') : ~Leaving(g)
  BY <1>2 DEF SkipNode, ListContainersFails, Refused, Leaving
<1> QED  BY <1>1, <1>3, <1>4, ScanInvNextNode

\* The configurations of the batch are read, in any order.
LEMMA ScanInvFetch ==
  ASSUME Types, Phased, ScanInv, NEW x \in batch, FetchConfig(x) \/ FetchConfigFails(x),
         pc' = "scanning"
  PROVE  ScanInv'
<1>1. /\ batch' = batch \ {x} /\ phase \in Batching
      /\ UNCHANGED <<world, touched, queue, phase>>
  BY DEF FetchConfig, FetchConfigFails, Answered, Refused, Phased
<1>2. \/ /\ Reachable(x) /\ lost' = lost
         /\ snapshot' = snapshot \cup {Workload(x, rev[x.guest], "fallback")}
      \/ /\ lost' = lost \cup {x.guest}
         /\ snapshot' = snapshot \cup {Workload(x, NoRev, "fallback")}
  BY DEF FetchConfig, FetchConfigFails, Refused
<1>3. ASSUME NEW g \in Guests \ (touched \cup lost')  PROVE Found(g)'
  <2>1. Found(g)
    BY <1>1, <1>2, <1>3 DEF ScanInv, Batching
  <2>2. ToCome(g) => ToCome(g)'
    BY <1>1 DEF ToCome, world
  <2>3. CASE x.guest = g
    <3>1. x = Res(g) /\ Listed(g) /\ Reachable(x)
      BY <1>2, <1>3, <2>1, <2>3 DEF Found
    <3>2. snapshot' = snapshot \cup {Wl(g, "fallback")}
      BY <1>2, <1>3, <2>3, <3>1 DEF Wl
    <3>3. Keep(g)
      BY <2>3, <3>1 DEF Keep, Reachable, Res
    <3> QED  BY <1>1, <2>1, <2>2, <3>2, <3>3, WorldStays DEF Found
  <2>4. CASE x.guest # g
    <3>1. \A w \in snapshot' : w.guest = g => w \in snapshot
      BY <1>2, <2>4 DEF Workload
    <3>2. x # Res(g) /\ snapshot \subseteq snapshot'
      BY <1>2, <2>4, GuestOf
    <3> QED  BY <1>1, <2>1, <2>2, <3>1, <3>2, WorldStays DEF Found
  <2> QED  BY <2>3, <2>4
<1>4. /\ lost \subseteq lost'
      /\ phase' \in NodePhases => \A i \in 1 .. Len(queue') : Included(queue'[i].name)
      /\ phase' \notin {"nodes", "idle", "resolve"}
  BY <1>1, <1>2 DEF ScanInv, Batching
<1> QED  BY <1>1, <1>3, <1>4, ScanInvStep

LEMMA ScanInvEndBatch ==
  ASSUME Types, Phased, ScanInv, EndBatch, pc' = "scanning"
  PROVE  ScanInv'
<1>1. batch = {} /\ UNCHANGED <<world, touched, lost, batch, snapshot>>
  BY DEF EndBatch, history
<1>2. CASE phase = "configs"
  <2>1. ToResolve /\ phase' = "resolve"
    BY <1>2 DEF EndBatch, ToResolve
  <2>2. ASSUME NEW g \in Guests \ (touched \cup lost)  PROVE Resolved(g)'
    <3>1. Found(g) /\ ~ToCome(g)
      BY <1>2, <2>2 DEF ScanInv, ToCome, NodePhases
    <3> QED  BY <1>1, <2>1, <3>1, FoundIsResolved
  <2> QED  BY <1>1, <2>1, <2>2, ScanInvStep DEF NodePhases
<1>3. CASE phase = "vmconfigs"
  <2>1. phase' = "containers" /\ queue' = queue
    BY <1>3 DEF EndBatch
  <2>2. ASSUME NEW g \in Guests \ (touched \cup lost)  PROVE Found(g)'
    <3>1. Found(g) /\ (ToCome(g) => ToCome(g)')
      BY <1>1, <1>3, <2>1, <2>2 DEF ScanInv, ToCome, NodePhases, world
    <3> QED  BY <1>1, <3>1, WorldStays DEF Found
  <2>3. \A i \in 1 .. Len(queue') : Included(queue'[i].name)
    BY <1>3, <2>1 DEF ScanInv, NodePhases
  <2> QED  BY <1>1, <2>1, <2>2, <2>3, ScanInvStep
<1>4. CASE phase = "ctconfigs"
  <2>1. NextNode
    BY <1>4 DEF EndBatch
  <2> QED  BY <1>1, <1>4, <2>1, ScanInvNextNode DEF Leaving, NodePhases
<1> QED  BY <1>2, <1>3, <1>4 DEF EndBatch

\* The addresses of the workloads are asked for, in any order.
LEMMA ScanInvResolve ==
  ASSUME Types, Phased, ScanInv, NEW x \in unresolved, Resolve(x) \/ ResolveFails(x),
         pc' = "scanning"
  PROVE  ScanInv'
<1> DEFINE y == [x EXCEPT !.backend = "ip"]
<1>1. /\ unresolved' = unresolved \ {x} /\ phase = "resolve" /\ phase' = phase
      /\ UNCHANGED <<world, touched>>
  BY DEF Resolve, ResolveFails, Answered, Refused, Phased
<1>2. \/ lost' = lost /\ snapshot' = (snapshot \ {x}) \cup {y}
      \/ lost' = lost \cup {x.guest} /\ snapshot' = snapshot
  BY DEF Resolve, ResolveFails, Refused
<1>3. x \in WorkloadType /\ y.guest = x.guest
  BY DEF Types, ScanType, WorkloadType
<1>4. ASSUME NEW g \in Guests \ (touched \cup lost')  PROVE Resolved(g)'
  <2>1. Resolved(g)
    BY <1>1, <1>2, <1>4 DEF ScanInv
  <2>2. CASE x.guest = g
    <3>1. x = Wl(g, "fallback") /\ Target(g)
      BY <2>1, <2>2 DEF Resolved
    <3>2. y = Wl(g, "ip") /\ Wl(g, "ip") # Wl(g, "fallback")
      BY <3>1 DEF Wl, Workload
    <3>3. snapshot' = (snapshot \ {Wl(g, "fallback")}) \cup {Wl(g, "ip")}
      BY <1>2, <1>4, <2>2, <3>1, <3>2
    <3>4. Keep(g)
      <4>1. x \in snapshot
        BY DEF Phased
      <4> QED  BY <2>1, <2>2, <4>1 DEF Resolved
    <3> HIDE DEF y
    <3> QED  BY <1>1, <2>1, <3>1, <3>2, <3>3, <3>4, WorldStays DEF Resolved
  <2>3. CASE x.guest # g
    <3>1. \A b : Wl(g, b) # x /\ Wl(g, b) # y
      BY <1>3, <2>3, GuestOf
    <3>2. /\ \A w \in snapshot' : w.guest = g => w \in snapshot
          /\ \A b : Wl(g, b) \in snapshot' <=> Wl(g, b) \in snapshot
      BY <1>2, <1>3, <2>3, <3>1
    <3> HIDE DEF y
    <3> QED  BY <1>1, <2>1, <3>1, <3>2, WorldStays DEF Resolved
  <2> QED  BY <2>2, <2>3
<1> HIDE DEF y
<1>5. lost \subseteq lost'
  BY <1>2
<1> QED  BY <1>1, <1>4, <1>5, ScanInvStep DEF NodePhases

LEMMA ScanInvCall ==
  ASSUME Types, Phased, ScanInv, ScanCall
  PROVE  ScanInv'
<1>1. Call /\ pc' = "scanning"
  BY DEF ScanCall, loopVars
<1> QED
  BY <1>1, ScanInvListCluster, ScanInvListClusterFails, ScanInvListNodes, ScanInvListVMs,
     ScanInvListContainers, ScanInvPassNode, ScanInvFetch, ScanInvEndBatch, ScanInvResolve
  DEF Call

\* What the scan leads to: the routes of the guest are those it should have.
LEMMA ResolvedIsExact ==
  ASSUME NEW g, Resolved(g), unresolved = {}, UNCHANGED world, config' = Routes,
         home[g] \in Nodes
  PROVE  Exact(g)'
<1>1. \A b : /\ Route(Wl(g, b)) = [guest |-> g, node |-> home[g], rev |-> rev[g], backend |-> b]
             /\ Enabled(Wl(g, b)) <=> rev[g] \in EnabledRevs
  BY DEF Route, Wl, Workload, Res, Enabled
<1>2. Keep(g) => (Up(g) <=> g \in running)
  BY DEF Keep, Up
<1>3. Keep(g) /\ rev[g] \in EnabledRevs <=> Published(g)
  BY <1>2 DEF Keep, Listed, Included, Published, WantedNodes, Up
<1>4. Published(g) =>
        CurrentRoute(g) = Route(Wl(g, IF Target(g) THEN "ip" ELSE "fallback"))
  BY <1>1, <1>2, <1>3 DEF CurrentRoute, Target
<1>5. \A w \in snapshot : w.guest = g /\ Enabled(w) =>
        Published(g) /\ w = Wl(g, IF Target(g) THEN "ip" ELSE "fallback")
  <2>1. ASSUME NEW w \in snapshot, w.guest = g, Enabled(w)
        PROVE  Published(g) /\ w = Wl(g, IF Target(g) THEN "ip" ELSE "fallback")
    <3>1. Keep(g) /\ (w = Wl(g, "fallback") \/ (w = Wl(g, "ip") /\ Target(g)))
      BY <2>1 DEF Resolved
    <3>2. Published(g)
      BY <1>1, <1>3, <2>1, <3>1
    <3>3. Target(g) => w # Wl(g, "fallback")
      BY <2>1, <3>1 DEF Resolved
    <3> QED  BY <3>1, <3>2, <3>3
  <2> QED  BY <2>1
<1>6. Published(g) => Wl(g, IF Target(g) THEN "ip" ELSE "fallback") \in snapshot
  BY <1>3 DEF Resolved
<1>7. ASSUME NEW r \in Routes, r.guest = g  PROVE r = CurrentRoute(g) /\ Published(g)
  <2>1. PICK w \in snapshot : Enabled(w) /\ r = Route(w)
    BY <1>7 DEF Routes
  <2>2. w.guest = g
    BY <1>7, <2>1 DEF Route
  <2> QED  BY <1>4, <1>5, <2>1, <2>2
<1>8. Published(g) => CurrentRoute(g) \in Routes
  BY <1>1, <1>3, <1>4, <1>6 DEF Routes
<1> QED  BY <1>7, <1>8, WorldStays DEF Exact

LEMMA ScanInvNext ==
  ASSUME Types, Phased, ScanInv, [Next]_vars
  PROVE  ScanInv'
<1>1. CASE Provide \/ TakeTick
  <2>1. Begin /\ pc' = "scanning"
    BY <1>1 DEF Provide, TakeTick, Loop!Provide, Loop!TakeTick
  <2>2. phase' = "cluster" /\ snapshot' = {} /\ batch' = {}
    BY <2>1 DEF Begin, Phased, Batching
  <2>3. \A g \in Guests : Found(g)'
    BY <2>2 DEF Found, ToCome
  <2> QED  BY <2>1, <2>2, <2>3 DEF ScanInv, NodePhases
<1>2. CASE WorldChanges
  BY <1>2, ScanInvWorld
<1>3. CASE ScanCall
  BY <1>3, ScanInvCall
<1>4. CASE ScanFails
  <2>1. phase' = "idle" /\ lost' = lost \cup Guests
    BY <1>4 DEF ScanFails, ListNodesFails, Refused
  <2> QED  BY <2>1 DEF ScanInv, NodePhases
<1>5. CASE ScanReturns
  <2>1. /\ phase = "resolve" /\ unresolved = {} /\ phase' = "idle" /\ config' = Routes
        /\ UNCHANGED <<world, touched, lost>>
    BY <1>5 DEF ScanReturns, Finish, Finished, Loop!ScanReturns, history
  <2>2. ASSUME NEW g \in Guests \ (touched \cup lost)  PROVE Exact(g)'
    <3>1. Resolved(g) /\ home[g] \in Nodes
      BY <2>1, <2>2 DEF ScanInv, Types, WorldType
    <3> QED  BY <2>1, <3>1, ResolvedIsExact
  <2> QED  BY <2>1, <2>2 DEF ScanInv, NodePhases
<1>6. CASE Build \/ Send \/ Tick \/ TakeDone \/ Stop \/ Receive \/ UNCHANGED vars
  <2>1. /\ UNCHANGED <<world, phase, queue, batch, snapshot, unresolved, touched, lost>>
        /\ pc' = "prepared" => pc = "prepared" /\ config' = config
    BY <1>6 DEF Build, Send, Tick, TakeDone, Stop, Receive, Loop!Build, Loop!BuildChanged,
       Loop!BuildSame, Loop!Send, Loop!SendCanceled, Loop!Tick, Loop!TakeDone, Loop!Stop,
       Loop!Receive, Loop!EndPublish, Loop!scanVars, scannerVars, scan, history, vars, loopVars
  <2>2. ASSUME NEW g
        PROVE  /\ Found(g) => Found(g)'
               /\ Resolved(g) => Resolved(g)'
               /\ pc' = "prepared" /\ Exact(g) => Exact(g)'
    <3>1. ToCome(g)' <=> ToCome(g)
      BY <2>1 DEF ToCome, world
    <3>2. Found(g) => Found(g)'
      BY <2>1, <3>1, WorldStays DEF Found
    <3>3. Resolved(g) => Resolved(g)'
      BY <2>1, WorldStays DEF Resolved
    <3>4. pc' = "prepared" /\ Exact(g) => Exact(g)'
      BY <2>1, WorldStays DEF Exact
    <3> QED  BY <3>2, <3>3, <3>4
  <2>3. \A n : Included(n)' <=> Included(n)
    BY DEF Included
  <2> QED  BY <2>1, <2>2, <2>3 DEF ScanInv
<1> QED  BY <1>1, <1>2, <1>3, <1>4, <1>5, <1>6 DEF Next

LEMMA ScanInvariance == Spec => []ScanInv
<1>1. Init => ScanInv
  BY DEF Init, ScannerInit, Loop!Init, ScanInv, NodePhases
<1> QED  BY <1>1, ScanInvNext, ScanTypeCorrectness, Phasing, PTL DEF Spec

\* A guest that nothing happened to since the scan began, and about which no
\* call failed, is published exactly as it is, on whichever path the scan went.
THEOREM UndisturbedGuestsAreExact == Spec => []UndisturbedGuestIsExact
<1>1. ASSUME ScanInv  PROVE UndisturbedGuestIsExact
  <2>1. SUFFICES ASSUME pc = "prepared", NEW g \in Guests \ (touched \cup lost)
                 PROVE  {r \in config : r.guest = g}
                          = IF Published(g) THEN {CurrentRoute(g)} ELSE {}
    BY DEF UndisturbedGuestIsExact
  <2>2. Exact(g)
    BY <1>1, <2>1 DEF ScanInv
  <2> QED  BY <2>2, GuestOf DEF Exact
<1> QED  BY <1>1, ScanInvariance, PTL
=============================================================================
