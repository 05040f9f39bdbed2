-------------------------------- MODULE System --------------------------------
(***************************************************************************)
(* The provider at work: the polling loop of Provider with the scan of     *)
(* Scanner in it, against a cluster that changes and calls that fail.      *)
(***************************************************************************)
EXTENDS Scanner

CONSTANTS
  Capacities,  \* what the capacity of cfgChan may be
  None         \* what Traefik has before the first configuration

VARIABLES capacity, pc, ticker, config, problems, lastPayload, lastProblems, printed, cfgChan, applied

\* The configurations and problem messages there can be.
RouteType == [guest : Guests, node : Nodes, rev : EnabledRevs, backend : {"ip", "fallback"}]

\* The problems of a scan itself, each of which occurs once; what is said of
\* labels is left out.
Problems == Nodes \X (Guests \cup {"vm", "ct"}) \X {"list", "config", "interfaces"}
Reported(found) == [p \in found |-> 1]
Reports == {Reported(found) : found \in SUBSET Problems}

ASSUME SystemAssumption ==
  /\ Capacities \subseteq Nat \ {0}
  /\ \A c \in SUBSET RouteType : c # None

Loop == INSTANCE Provider WITH
  Configs  <- SUBSET RouteType,
  Messages <- Problems

scannerVars == <<world, failures, scan, history>>
loopVars    == <<capacity, pc, ticker, config, problems, lastPayload, lastProblems,
                 printed, cfgChan, applied>>
vars        == <<scannerVars, canceled, loopVars>>

Init == ScannerInit /\ Loop!Init

\* publish begins with a scan.
Provide  == Loop!Provide /\ Begin
TakeTick == Loop!TakeTick /\ Begin

WorldChanges == World /\ UNCHANGED loopVars
ScanCall     == pc = "scanning" /\ Call /\ UNCHANGED loopVars

ScanFails   == ListNodesFails /\ Loop!ScanFails
ScanReturns == Finish /\ Loop!ScanReturns(Routes, Reported(trouble))

\* The steps of the loop that make no call.
Build    == Loop!Build /\ UNCHANGED scannerVars
Send     == (Loop!Send \/ Loop!SendCanceled) /\ UNCHANGED scannerVars
Tick     == Loop!Tick /\ UNCHANGED scannerVars
TakeDone == Loop!TakeDone /\ UNCHANGED scannerVars
Stop     == Loop!Stop /\ UNCHANGED scannerVars
Receive  == Loop!Receive /\ UNCHANGED scannerVars

Next ==
  \/ Provide \/ Stop \/ WorldChanges
  \/ ScanCall \/ ScanFails \/ ScanReturns
  \/ Build \/ Send \/ Tick \/ TakeTick \/ TakeDone
  \/ Receive

Spec == Init /\ [][Next]_vars

\* As in Provider: calls end, the goroutine and the clock go on. Traefik keeps
\* receiving.  Nothing makes the cluster change or a call fail.
Fairness ==
  /\ WF_vars(Provide)
  /\ WF_vars(ScanCall \/ ScanFails \/ ScanReturns)
  /\ WF_vars(Build)
  /\ WF_vars(Send)
  /\ WF_vars(Tick)
  /\ WF_vars(TakeTick)
  /\ SF_vars(TakeDone)
  /\ WF_vars(Receive)

FairSpec == Spec /\ Fairness

-----------------------------------------------------------------------------
\* The types of the cluster and of the scan.
WorldType ==
  /\ home \in [Guests -> Nodes]
  /\ rev \in [Guests -> Nat]
  /\ startRev \in [Guests -> Nat]
  /\ running \subseteq Guests
  /\ online \subseteq Nodes

ResourceType == [guest : Guests, node : Nodes, up : BOOLEAN]

WorkloadType ==
  [guest : Guests, node : Nodes, up : BOOLEAN, rev : Nat \cup {NoRev},
   backend : {"ip", "fallback"}]

ScanType ==
  /\ phase \in Phases
  /\ queue \in Seq([name : Nodes, up : BOOLEAN])
  /\ phase \in {"vms", "vmconfigs", "containers", "ctconfigs"} => queue # <<>>
  /\ batch \subseteq ResourceType
  /\ snapshot \subseteq WorkloadType
  /\ unresolved \subseteq WorkloadType
  /\ trouble \subseteq Problems

\* A scan is under way exactly when the loop waits for one; the pool is empty
\* between batches and every workload to resolve is in the snapshot.
TypeOK ==
  /\ WorldType
  /\ ScanType
  /\ changes \in 0 .. MaxChanges
  /\ failures \in 0 .. MaxFailures
  /\ phase # "idle" <=> pc = "scanning"
  /\ batch # {} => phase \in {"configs", "vmconfigs", "ctconfigs"}
  /\ unresolved # {} => phase = "resolve"
  /\ unresolved \subseteq snapshot
  /\ Loop!TypeOK

\* A guest that nothing happened to since the scan began, and about which no
\* call failed, is in the configuration exactly as it is in the cluster: once
\* if it is to be published and not at all if it is not.  This holds on the
\* cluster path, on the path over the nodes and when the first falls back to
\* the second, whatever happens meanwhile to other guests.
UndisturbedGuestIsExact ==
  pc = "prepared" =>
    \A g \in Guests \ (touched \cup lost) :
      {r \in config : r.guest = g} = IF Published(g) THEN {CurrentRoute(g)} ELSE {}

\* Nothing in a configuration on its way out is older than the scan it comes
\* from: no entry outlives the scan that found it.
NothingStale ==
  pc \in {"prepared", "sending"} =>
    \A r \in config : startRev[r.guest] <= r.rev /\ r.rev <= rev[r.guest]

\* What Traefik has, will have, and is about to be offered, in order.
Line == <<applied>> \o cfgChan \o (IF pc = "sending" THEN <<config>> ELSE <<>>)

\* Traefik never goes back to older labels of a guest than it was given, not
\* even if Traefik is slow and the guest is found twice while it migrates.
LabelsNeverGoBack ==
  \A j, k \in 1 .. Len(Line) :
    (j < k /\ Line[j] # None) =>
      \A r \in Line[j], s \in Line[k] : r.guest = s.guest => r.rev <= s.rev

\* With no nodes configured, a scan no call of which was answered publishes
\* nothing: an unreachable cluster leaves Traefik with what it has.
OutageNotPublished ==
  IncludedNodes = <<>> => (pc \in {"prepared", "sending"} => answered)

\* Once the cluster and the calls settle, Traefik gets and keeps the
\* configuration of the cluster as it is, unless the provider is stopped.
Converges == <>canceled \/ <>[](applied = Current)
=============================================================================
