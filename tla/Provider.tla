------------------------------- MODULE Provider -------------------------------
(***************************************************************************)
(* The polling loop of the provider (provider.go): Provide starts one      *)
(* goroutine that scans, builds a configuration, sends it to Traefik when  *)
(* it differs from the last one sent, and waits for the next tick or for   *)
(* Stop.                                                                   *)
(*                                                                         *)
(* What a scan finds is left open here: any configuration, with any        *)
(* problems to log.  System puts the scanner in the place of ScanReturns.  *)
(* Provide is called once per provider, as Traefik does.                   *)
(*                                                                         *)
(* The problem messages of a scan are a sorted list in which a message may *)
(* occur several times, which is a bag of messages.                        *)
(***************************************************************************)
EXTENDS Integers, Sequences, Bags

CONSTANTS
  Configs,   \* the marshaled configurations a scan may lead to
  Messages,  \* the problem messages there are
  Reports,   \* the bags of them that a scan may lead to
  Capacities,\* what the capacity of cfgChan may be; 0 is an unbuffered channel
  None       \* the nil lastPayload, and what Traefik has before the first one

ASSUME ProviderAssumption ==
  /\ None \notin Configs
  /\ Capacities \subseteq Nat
  /\ \A r \in Reports : IsABag(r) /\ BagToSet(r) \subseteq Messages

VARIABLES
  capacity,      \* of the channel Provide is called with
  pc,            \* where the goroutine of run is
  canceled,      \* ctx is done
  ticker,        \* "off", or whether a tick is waiting in ticker.C
  config,        \* the configuration of the scan in hand
  problems,      \* the problem messages of the scan in hand, a bag
  lastPayload,   \* Provider.lastPayload
  lastProblems,  \* Provider.lastProblems
  printed,       \* what the last logProblems wrote to the log, a bag
  cfgChan,       \* sent and not yet received by Traefik
  applied        \* the last configuration Traefik received

vars == <<capacity, pc, canceled, ticker, config, problems, lastPayload, lastProblems,
          printed, cfgChan, applied>>

scanVars == <<config, problems>>
feedVars == <<lastPayload, cfgChan, applied>>
logVars  == <<lastProblems, printed>>

ProviderStates == {"new", "scanning", "prepared", "sending", "waiting", "returned"}

Init ==
  /\ capacity \in Capacities
  /\ pc = "new"
  /\ canceled = FALSE
  /\ ticker = "off"
  /\ config = None
  /\ problems = EmptyBag
  /\ lastPayload = None
  /\ lastProblems = {}
  /\ printed = EmptyBag
  /\ cfgChan = <<>>
  /\ applied = None

-----------------------------------------------------------------------------
(* The two calls Traefik makes *)

Provide ==
  /\ pc = "new"
  /\ pc' = "scanning"
  /\ UNCHANGED <<capacity, canceled, ticker, scanVars, logVars, feedVars>>

\* Before Provide there is no cancel function and Stop does nothing; a second
\* Stop cancels what is canceled.
Stop ==
  /\ pc # "new"
  /\ ~canceled
  /\ canceled' = TRUE
  /\ UNCHANGED <<capacity, pc, ticker, scanVars, logVars, feedVars>>

-----------------------------------------------------------------------------
(* publish *)

EndPublishNoTicker ==
  /\ pc' = "waiting"
  /\ ticker' = ticker

\* publish returns to run, which makes the ticker after the first publish.
EndPublish ==
  /\ pc' = "waiting"
  /\ ticker' = IF ticker = "off" THEN "empty" ELSE ticker

\* Scan returns an error: logged, and nothing else happens.
ScanFails ==
  /\ pc = "scanning"
  /\ EndPublish
  /\ UNCHANGED <<capacity, canceled, scanVars, logVars, feedVars>>

\* Scan returns a snapshot, Prepare reads its labels and ResolveIPs its
\* addresses: a configuration c and its problems ps are settled.
ScanReturns(c, ps) ==
  /\ pc = "scanning"
  /\ pc' = "prepared"
  /\ config' = c
  /\ problems' = ps
  /\ UNCHANGED <<capacity, canceled, ticker, logVars, feedVars>>

NewProblems == BagToSet(problems) \ lastProblems

LogProblemsForgetful ==
  /\ printed' = [m \in NewProblems |-> problems[m]]
  /\ lastProblems' = NewProblems

\* logProblems writes the messages that the last built scan did not have, each
\* as often as the list has it: it is looked for in the old set only.
LogProblems ==
  /\ printed' = [m \in NewProblems |-> problems[m]]
  /\ lastProblems' = BagToSet(problems)

BuildChangedEager ==
  /\ pc = "prepared"
  /\ LogProblems
  /\ config # lastPayload
  /\ pc' = "sending"
  /\ lastPayload' = config
  /\ UNCHANGED <<capacity, canceled, ticker, scanVars, cfgChan, applied>>

\* The configuration is built, its problems are logged, and it is marshaled;
\* it differs from the last one sent.
BuildChanged ==
  /\ pc = "prepared"
  /\ LogProblems
  /\ config # lastPayload
  /\ pc' = "sending"
  /\ UNCHANGED <<capacity, canceled, ticker, scanVars, feedVars>>

\* ... or it does not, and publish is over.
BuildSame ==
  /\ pc = "prepared"
  /\ LogProblems
  /\ config = lastPayload
  /\ EndPublish
  /\ UNCHANGED <<capacity, canceled, scanVars, feedVars>>

SendUnrecorded ==
  /\ pc = "sending"
  /\ Len(cfgChan) < capacity
  /\ cfgChan' = Append(cfgChan, config)
  /\ EndPublish
  /\ UNCHANGED <<capacity, canceled, scanVars, logVars, lastPayload, applied>>

\* The send arm of the select; lastPayload is recorded before anyone looks.
Send ==
  /\ pc = "sending"
  /\ Len(cfgChan) < capacity
  /\ cfgChan' = Append(cfgChan, config)
  /\ lastPayload' = config
  /\ EndPublish
  /\ UNCHANGED <<capacity, canceled, scanVars, logVars, applied>>

\* The same on an unbuffered channel: Traefik is there to receive.
HandOff ==
  /\ pc = "sending"
  /\ capacity = 0
  /\ applied' = config
  /\ lastPayload' = config
  /\ EndPublish
  /\ UNCHANGED <<capacity, canceled, scanVars, logVars, cfgChan>>

SendBlocks ==
  /\ pc = "sending"
  /\ canceled
  /\ Len(cfgChan) < capacity
  /\ EndPublish
  /\ UNCHANGED <<capacity, canceled, scanVars, logVars, feedVars>>

SendGivesUp ==
  /\ pc = "sending"
  /\ EndPublish
  /\ UNCHANGED <<capacity, canceled, scanVars, logVars, feedVars>>

\* The ctx.Done arm: the configuration is dropped and lastPayload kept.
SendCanceled ==
  /\ pc = "sending"
  /\ canceled
  /\ EndPublish
  /\ UNCHANGED <<capacity, canceled, scanVars, logVars, feedVars>>

-----------------------------------------------------------------------------
(* run *)

\* A tick finds ticker.C full or empty; it is dropped if it is full.
Tick ==
  /\ ticker = "empty"
  /\ ticker' = "full"
  /\ UNCHANGED <<capacity, pc, canceled, scanVars, logVars, feedVars>>

\* The select of run takes any arm that is ready, the tick even after Stop.
TakeTick ==
  /\ pc = "waiting"
  /\ ticker = "full"
  /\ pc' = "scanning"
  /\ ticker' = "empty"
  /\ UNCHANGED <<capacity, canceled, scanVars, logVars, feedVars>>

TakeDone ==
  /\ pc = "waiting"
  /\ canceled
  /\ pc' = "returned"
  /\ ticker' = "off"
  /\ UNCHANGED <<capacity, canceled, scanVars, logVars, feedVars>>

-----------------------------------------------------------------------------
(* Traefik *)

Receive ==
  /\ cfgChan # <<>>
  /\ applied' = Head(cfgChan)
  /\ cfgChan' = Tail(cfgChan)
  /\ UNCHANGED <<capacity, pc, canceled, ticker, scanVars, logVars, lastPayload>>

-----------------------------------------------------------------------------
Scan == ScanFails \/ \E c \in Configs, ps \in Reports : ScanReturns(c, ps)

Build == BuildChanged \/ BuildSame

Next ==
  \/ Provide
  \/ Stop
  \/ Scan
  \/ Build
  \/ Send
  \/ HandOff
  \/ SendCanceled
  \/ Tick
  \/ TakeTick
  \/ TakeDone
  \/ Receive

Spec == Init /\ [][Next]_vars

\* Every API call ends (the HTTP client has a timeout), the clock ticks, the
\* goroutine runs, and a select that finds the Done arm ready again and again
\* takes it some time, since it chooses among the ready arms at random.
\* Nothing is assumed of Traefik.
Fairness ==
  /\ WF_vars(Scan)
  /\ WF_vars(Build)
  /\ WF_vars(Send)
  /\ WF_vars(SendCanceled)
  /\ WF_vars(Tick)
  /\ WF_vars(TakeTick)
  /\ SF_vars(TakeDone)

FairSpec == Spec /\ Fairness

\* Traefik keeps receiving; a property says so where it needs it.
TraefikReceives == WF_vars(Receive) /\ WF_vars(HandOff)

-----------------------------------------------------------------------------
\* The configurations Traefik has received last and will receive, in order.
Feed == <<applied>> \o cfgChan

\* The types of the variables; there is a tick only while run is in its loop.
TypeOK ==
  /\ capacity \in Capacities
  /\ pc \in ProviderStates
  /\ canceled \in BOOLEAN
  /\ ticker \in {"off", "empty", "full"}
  /\ pc = "waiting" => ticker # "off"
  /\ config \in Configs \cup {None}
  /\ pc \in {"prepared", "sending"} => config \in Configs
  /\ IsABag(problems) /\ BagToSet(problems) \subseteq Messages
  /\ lastPayload \in Configs \cup {None}
  /\ lastProblems \in SUBSET Messages
  /\ IsABag(printed) /\ BagToSet(printed) \subseteq Messages
  /\ cfgChan \in Seq(Configs)
  /\ Len(cfgChan) <= capacity
  /\ applied \in Configs \cup {None}

\* lastPayload is what Traefik has, or will have once it has emptied the
\* channel, whatever sends were canceled and whatever scans failed: a
\* configuration that never went out is never taken for the current one.
NewestRecorded == lastPayload = Feed[Len(Feed)]

\* Traefik never receives the configuration it received just before.
NoRepublish == \A k \in 1 .. Len(cfgChan) : Feed[k] # Feed[k + 1]

\* What makes the two inductive: a configuration is only ever on its way out
\* after it was found to differ from the last one recorded.
FeedInv ==
  /\ TypeOK
  /\ NewestRecorded
  /\ NoRepublish
  /\ pc = "sending" => config # lastPayload

\* Stop ends the goroutine even if Traefik never receives again.
StopReturns == canceled ~> pc = "returned"

\* A changed configuration reaches Traefik, if it keeps receiving, unless the
\* provider is stopped.
ChangeReachesTraefik ==
  TraefikReceives =>
    \A c \in Configs : (pc = "sending" /\ config = c) ~> (applied = c \/ canceled)

\* Polling goes on until Stop: no failed scan and no slow receiver ends it.
PollsUntilStopped ==
  TraefikReceives =>
    /\ (pc = "scanning" ~> (canceled \/ pc = "waiting"))
    /\ (pc = "waiting" ~> (canceled \/ pc = "scanning"))

FeedPromise == INSTANCE ConfigFeed WITH
  queue  <- cfgChan,
  closed <- (pc = "returned")

\* The loop implements the configuration feed.
ImplementsConfigFeed == FeedPromise!Spec
=============================================================================
