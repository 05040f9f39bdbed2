# Verification of the Traefik provider for Proxmox VE

This directory holds TLA+ models of the provider, the configurations with which
TLC checks them on small instances, and theorems about them that TLAPS proves
for every value of the constants. Paths below are relative to the root of the
repository; the table of definitions and the lines they stand for is in
`PROJECT.json`.

## The system

Traefik loads the provider as a Yaegi plugin, calls `New`, `Init`, `Provide` and,
when it ends, `Stop`. One goroutine polls a Proxmox VE cluster: it lists the
guests (virtual machines and containers), reads the notes and addresses of each,
reads Traefik labels out of the notes, builds a dynamic configuration, and sends
it to Traefik over a channel when it differs from the last one sent.

    Traefik <--cfgChan-- run/publish (provider.go)
                           |  Scan        -> scanner -> worker pool -> client -> Proxmox VE
                           |  Prepare     -> label extraction -> parsing and schema -> label set
                           |  ResolveIPs  -> scanner -> worker pool -> client -> Proxmox VE
                           |  BuildPrepared -> names, claims, merging -> configuration

| Component | Source | State it keeps | Operations |
|---|---|---|---|
| Polling loop | `provider.go` | `cancel`, `lastPayload`, `lastProblems`, the ticker, the channel | `Provide`, `Stop`, `run`, `publish`, `publishConfiguration`, `logProblems` |
| Worker pool | `scanner/workloads.go`, `ip_resolution.go` | semaphore, wait group, result slots | `scanWorkloads`, `ResolveIPs` |
| Scanner | `scanner/scanner.go`, `workloads.go`, `filters.go` | options; per scan: nodes, resources, workloads, problems | `Scan`, the cluster path, the path over the nodes |
| Address resolution | `scanner/ip_resolution.go`, `glob.go`, `traefik/backend.go` | the addresses and problems of a workload | `applyConfig`, `ResolveIPs`, `matchGlob`, `backendAddresses` |
| Label extraction | `traefik/labels/extract.go` | fence state while it scans a note | `Extract` |
| Label preparation | `traefik/prepare.go`, `generated_names.go` | none | `prepareWorkload`, the default name of a guest |
| Label schema | `traefik/labels/schema/` | the compiled rows | `Match`, `Compile`, `validate` |
| Label set | `traefik/labels/set.go`, `index.go`, `parse.go`, `protocol.go`, `values.go` | indexes of labels by protocol, object and name | `ParseWithSources`, the typed readers |
| Configuration builder | `traefik/config.go`, `workload.go`, `object_names.go`, `generated_names.go`, `http_merge.go` | claimed names, objects, diagnostics | `BuildPrepared` and one `add...Workload` per protocol |
| Objects | `traefik/http.go`, `tcp.go`, `udp.go`, `tls.go`, `transport.go` | none | one `build...` per kind of object |
| Client | `proxmox/client.go` | the HTTP client | one method per API call, `do` |
| Options | `config.go`, `New`, `scanner.New`, `NewClient` | none | checks, defaults, normalization |

How they interact: the loop calls the others in sequence; only the pool and
`Stop` run concurrently with it. The components share no memory besides the
snapshot, which the pool writes slot by slot. What the outside does at any time:
guests are edited, moved, started and stopped, nodes come and go, calls fail,
Traefik receives or does not, `Stop` is called.

### What is hard, and what has to hold

- **Polling loop.** `Stop` while a send is blocked; a send canceled after the
  configuration was compared but before it was recorded; ticks that come while
  `publish` is blocked; problems logged over scans that fail or change nothing.
  What is recorded as sent must be the newest thing Traefik has or will get; no
  configuration is sent twice in a row; `Stop` ends the goroutine; a change
  arrives; a problem is logged when it appears and not while it stands.
- **Worker pool.** Tokens and wait counts are given back in deferred functions
  while the caller still spawns. Never more than `maxConcurrency` calls; all
  results there, each in its slot, when the pool returns; it always returns.
- **Scanner.** A snapshot is put together from calls at different moments, some
  of which fail, on one of two paths. Guests to which nothing happens must not
  suffer from what happens to others; nothing of an earlier scan may be left;
  labels must not go back; an unreachable cluster must not look like an empty
  one; when things settle, the configuration must become the cluster's. A guest
  that the options ask for must not be missing without a problem, whichever
  path was taken and however nodes and tags are spelt.
- **Addresses.** Two sources with their own filters, replaced or kept by rules
  that depend on each other, and labels before all of them.
- **Names.** Guests are added one after the other and compete for names, default
  ones give way, HTTP services may be shared, a guest may give up half way.
  Default guests are served, references resolve, no guest's traffic lands in a
  service it has nothing to do with, nothing published is taken back.
- **Labels.** Precedence of explicit and shorthand labels, the default name that
  another label changes, fences in notes. A row of the schema and the reader of
  its value are far apart: every accepted label must reach an object.

`PROJECT.json` lists each hazard at its line with the properties that watch it.

## Modules

| Module | Models | Notes |
|---|---|---|
| `BoundedMap` | what a bounded parallel map promises | abstract specification |
| `WorkerPool` | `scanWorkloads` and the same code in `ResolveIPs` | implements `BoundedMap` |
| `ConfigFeed` | what a feed of configurations promises | abstract specification |
| `Provider` | `provider.go`, with any scan result possible | implements `ConfigFeed` |
| `ProviderLog` | `Provider` with a history of reports and log lines | for the log only |
| `Options` | the configuration of the plugin, its defaults and what is made of it | operators, no state |
| `Inventory` | from a raw configuration to one snapshot: `New`, listings, filters, order, fields | uses `Options`; a cluster that stays as it is |
| `Scanner` | one scan, call by call, and the changing cluster under it | actions only |
| `System` | `Scanner` in the place of `Provider`'s scans | implements `Provider` |
| `Glob` | interface patterns, and what they mean | |
| `IPResolution` | one guest from its configuration to its servers | uses `Glob` |
| `Names` | generated names | operators |
| `LabelSchema` | the 104 rows of the label schema, `Match`, `Compile`, `validate` | a table and operators |
| `LabelSet` | values, objects and marks of a label set; parsing a label; the typed readers | uses `Names`, `LabelSchema` |
| `Objects` | every field of routers, services and transports, from a label set | uses `LabelSet` |
| `Preparation` | `prepareWorkload`: `Extract`, the generated names, `ParseWithSources` | uses `Objects` |
| `ConfigBuilder` | `BuildPrepared` over a snapshot, object by object | uses `Objects` |
| `MC*` | small instances for TLC | |
| `Numbers` | induction over numbers | lemmas for the proofs |
| `*Proofs` | the theorems | |

**WorkerPool.** `count` and `maxConcurrency` are fixed when the pool starts. The
caller is `Enter`, then either `SequentialCall`/`SequentialStore`/
`SequentialReturn` or `Spawn`, `EndLoop`, `Wait`; a goroutine is `Call`, `Store`,
`Release` (`<-sem`), `Done` (`wg.Done`), in the order in which Go runs deferred
functions. The result of item *i* is *i*, so a misplaced result can be seen.
`sem <- struct{}{}`, `wg.Add` and the `go` statement are one step: nobody else
can act on what lies between them, since a `Done` comes only from a goroutine
already started.

**Provider.** `pc` follows `run` and `publish`: scanning, prepared (a scan is in
hand), sending (blocked in the select), waiting (blocked in the select of
`run`), returned. The ticker is a one-place buffer that drops ticks. Each arm of
a select is an action of its own, enabled when the arm is ready, so a tick may
be taken after `Stop`. `cfgChan` has the capacity it was made with, zero
included (`HandOff`: Traefik is there to receive). A send and the assignment to `lastPayload` after it are one step:
only this goroutine reads the field. Configurations are compared as values, which
stands for the comparison of their JSON.

**Scanner and System.** The cluster is `home`, `rev` (the revision of a guest's
notes), `running`, `online`; its changes are actions at any moment, at most
`MaxChanges`. A call that is answered shows the cluster of that moment; one fails
if the context is done, if its subject is gone, or up to `MaxFailures` times for
no reason. A batch of guests is read in any order, which is what the pool allows,
one call at a time being enough: calls only read the cluster. `startRev`,
`touched`, `lost`, `answered` are history and influence nothing. `System` joins
the start of a scan to `Provide` or `TakeTick`, its end to the loop's
`ScanReturns` or `ScanFails`, and runs everything else beside the loop.
`Routes` is what `BuildPrepared` makes of a snapshot as far as the scan goes: an
entry for each enabled guest with its revision and kind of backend.

**Options and Inventory.** The same two paths as `Scanner`, from the other side:
the cluster does not change, but the configuration is the raw one and the
listings hold what the code filters. A text is a word and how it is spelt (with
capitals, with blanks around it, as it is), which is all that trimming, folding
and comparing tell apart. `Accepted` is the check of `New`, `OptionsOf` what
provider, scanner and client work with afterwards. Every call ends in an error,
with no data (`null`, an empty body) or with the data, if the request is about
something that is there; the calls of a batch end in one step. `Hang` is a
server that does not answer, `Cancel` the end of the context. `path` and
`silent` are history and influence nothing.

**ConfigBuilder.** One action per step of `BuildPrepared`: `BeginGuest`,
`ClaimNames`, one `Add...Service` per service, one `Add...Router` per router, for
each protocol of each guest in the order of the snapshot. A name is a sequence of
pieces, cut to `MaxNameLength` pieces when it gets a suffix. Names and protocols
still to be handled are sets, taken in the order of the code (`IsFirst`, `Turn`):
a sorted list without duplicates is its set. The input of a guest
is a label set as `Preparation` makes it with the default name it was parsed
under, and `BuilderAssumption` asks of it what `SetFitsBuilder` shows there:
`MCConfigBuilder` writes labels and parses them. What is put into a router, a
service or a transport is what `Objects` says of the label set, all fields
included; the hosts of a guest are one, the guest itself, so that a server
belongs to someone. Unset and empty are kept apart as far as the code does.

**IPResolution.** `ApplyConfig`, `Resolve` (or its failure, or nothing to
resolve) and `BuildServers` for one guest, under every option. Addresses are
abstract: which are IPv4 and which can be reached by others is given.

**LabelSchema, LabelSet, Names, Objects.** A row has a source and a target, as in
the text of the schema, split at the dots; a path is a sequence of segments, and
a segment a sequence of pieces, so that names can have several and
`domains[1]` is one segment. `MatchingRows` is `Match`, `Target` what `Compile`
makes of a row and a path, `ValidRow` what `validate` panics about; that all rows
are valid and no two of them match one path is an assumption TLC evaluates. In
`LabelSet` a value sits at a place with the origin, explicit or shorthand, that
decides between two; `objects` says for each object whether an explicit label
names it, and `marks` holds the flags that send the builder to a protocol. The
readers convert: the values of `<<"false">>`, of a list with empty items or of a
number that is none are what the code reads. `Objects` has one operator per
`build...` function.

**Preparation.** One guest from its notes to its label set. `OpenFence`,
`CloseOtherFence`, `CloseTraefikFence`, `TakeLine`, `EndInTraefikFence` and
`EndFenced` are the iterations of `extractFenced` and its end, `ReadBlockLine`
and `EndBlock` those of `extractFencedBlock`. `BeginLooseLine`,
`ReadLooseFragment` and `EndLooseLine` are `extractLooseLine`, one label at a
time, and `EndLoose` is the end of `extractLoose`. `GenerateNames` settles the default name and drops or normalizes
the name label; `ParseLabel` is an iteration of `ParseWithSources`,
`ApplyNameOverride` its last step. A line is a sequence of words, so that the
same line can be read as a fence line (all of it is one label) and loosely (a
label starts at each word with a prefix). Case, quotes and blanks around keys and
values are taken as normalized. So is the index of a domain, a number, as
`ParseDomainIndex` reads it: `domains[0]` and `domains[00]` are one word.

The problem messages of a scan are a sorted list, which `logProblems` compares,
one by one, with the messages of the scan before. A message can be in it several
times, since a line of a note can hold the same text twice, and is then printed as
often. So `problems` and `printed` are bags and `lastProblems` is a set, as in the
code. In `System` they are the problems of the scan itself, each of which occurs
once; what is said of labels is left out there.

**ProviderLog.** `Provider` with the problems of the first `MaxReports` scans
that were built and the lines that each of them wrote to the log; when the history
is full the loop goes on without it, so it takes no behaviour away. `Onsets` says
which messages are new, from the reports alone.

## Runs

`builder` checks for deadlock: the search for a free name always ends, and the
built configuration (`Finished`) is the only state without another step. The
other runs say `CHECK_DEADLOCK FALSE`: the pool returns, a stopped provider is
over, the servers and the label set of a guest are final.

| Run | Instance | Shows |
|---|---|---|
| `pool` | 0-4 items; settings 0 (default 4), 1, 2, 3 | `TypeOK`, `AtMostMaxConcurrency`, `ReturnsAllInOrder`, the inductive `IInv`; `Terminates`; `ImplementsBoundedMap` |
| `loop` | 2 configurations, 2 messages of which one may be reported twice, an unbuffered channel and one of 2, the first 3 reports | `NewestRecorded`, `NoRepublish`, `LoggedAtOnset`, `ImplementsConfigFeed`; `StopReturns` with nothing assumed of Traefik, `ChangeReachesTraefik` and `PollsUntilStopped` if it receives |
| `inventory` | some 70 configurations (each option by itself, the filters in combination) and 9 clusters of up to 3 guests on 2 nodes, every outcome of every call | `SnapshotAsDocumented`, `EveryScanEnds` |
| `system_cluster` | 2 guests, 2 nodes of which 1 is configured, 2 changes, 1 failure | `UndisturbedGuestIsExact`, `NothingStale`, `Converges` on the cluster path and its fall back |
| `system_nodes` | the same, all nodes, no usable cluster listing, stopped guests published | `UndisturbedGuestIsExact`, `LabelsNeverGoBack`, `OutageNotPublished` |
| `builder` | 3 guests, 27 label sets each, with a name label and a disabled set among them | `DefaultGuestServed`, `ReferencesResolve`, `NoStrangers`, `OwnersOnly`, `PublishedStays` |
| `addresses` | all options, 4 addresses, 5 interface sets, 10 pattern sets | `ServersAsDocumented`, `NoUnreachableServer`, `PatternsMean` |
| `labels` | the notes of up to 4 lines in 3 modes, the sets of 2 to 4 of 16 labels under 3 guest names, a label for each of the 104 rows alone and beside each of 12 others | `LabelsOfTheNote`, `NothingLostSilently`, `ObjectsAsLabelled`, `SetFitsBuilder`, `EveryLabelCounts` |
| `addresses_mode` | as `addresses` | finding: `ModeWithoutEffect` is violated |
| `labels_ip` | a note with an `ip` label beside a port or a name label | finding: `IPLabelOverrides` is violated |
| `builder_port` | 3 guests, HTTP labels | finding: `ShorthandPortKept` is violated |
| `builder_skipped` | 3 guests, HTTP labels | finding: `SkippedIsSkipped` is violated |

Why the bounds are enough:

- *pool*: with four items over two tokens the caller blocks, a token is handed
  on while an earlier result is still being stored, and the last goroutines
  finish after the loop; the limit is `count` or `maxConcurrency` in turn. The
  proofs cover all sizes.
- *loop*: two configurations allow a change and a change back; two places in the
  channel let a configuration be recorded that is neither received nor the
  newest. In three reports a problem can appear, go and come back, or stay, and
  one that stands can be reported more often or less than it was. The safety part,
  the log included, is proved for all sizes.
- *inventory*: options act one by one, except for nodes, tags and the status,
  which are filters over the same guests and are combined. Three guests on two
  nodes put a virtual machine and a container on one node and a stopped guest on
  the other; one node is offline or has no status in some clusters, a listing is
  incomplete in others.
- *system*: two changes and a failure put an edit and a migration, or two
  migrations, between any two calls of a scan, beside a guest that nothing
  happens to; a scan that starts afterwards is covered, since nothing limits
  their number. For `Converges` the two changes can be a node that goes and comes
  back, or an edit and a migration between the calls of a scan, with a failed call.
- *builder*: a collision takes two guests; a third meets the names that are left
  by a guest that gave up and by one that was renamed, and the label sets take
  all candidates for its name in advance. Names of three pieces make the cut of
  generated names bite with one, two and three pieces of suffix. What is in an
  object is covered by `labels`, so the sets here differ in names, in the fields
  that make services incompatible, and in transports.
- *addresses*: every combination of the abstract inputs, so nothing is bounded
  but the number of interfaces and the length of their names.

- *labels*: four lines let a fence be opened inside another and closed by a
  marker that says traefik, stay open, or be followed by a second one, with
  labels before, inside and after. Four labels put a name label, a shorthand and
  an explicit one about the same value and an invalid one together. Every row is
  parsed, and read into the objects of the guest, alone and beside the labels
  that can make it void, unreached or replaced.

### Fairness

`WorkerPool!Fairness`: the Go scheduler runs every goroutine that can run, and
calls end, since the HTTP client has a timeout. `Provider!Fairness`: the same for
the polling goroutine; the clock ticks; and strong fairness for the `Done` arm of
the select in `run`, because Go chooses among ready arms at random, so an arm
that is ready again and again is taken some time. Nothing is assumed of Traefik
except where a property says so (`TraefikReceives`). `System!Fairness` adds that
Traefik receives. No fairness is assumed of the changes of the cluster, of
failing calls, or of `Stop`. `ProviderLog!LogSpec` has `Provider`'s fairness.
`Inventory!Spec` has weak fairness of `Step` alone: the goroutine runs, and a
call that hangs ends when its timeout does or the context is done, and not
otherwise. A negative `pve.timeout` is accepted by `New` and leaves calls without
a timeout: `EveryScanEnds` then claims an end only after `Stop`, and the liveness
of the other modules is not claimed for it.

## Proofs

| Theorem | Says, for every value of the constants |
|---|---|
| `WorkerPoolProofs!Invariance`, `TypeCorrectness` | the bookkeeping of the pool; no counter goes below zero |
| `WorkerPoolProofs!ConcurrencyBound` | never more than `maxConcurrency` calls in flight |
| `WorkerPoolProofs!ResultsComplete` | results are complete and in their slots, no goroutine is left |
| `WorkerPoolProofs!PoolRefinesMap` | the pool implements `BoundedMap` (its safety part) |
| `ProviderProofs!TypeCorrectness`, `FeedInvariance` | the invariant of the loop |
| `ProviderProofs!PayloadIsNewest`, `NothingRepublished` | `NewestRecorded`, `NoRepublish` |
| `ProviderProofs!LoopRefinesFeed` | the loop implements `ConfigFeed` |
| `ProviderProofs!ProblemsAreLoggedAtOnset` | `LoggedAtOnset`, for any reports and any length of the history |
| `ProviderProofs!HistoryOnlyWatches` | `ProviderLog` implements `Provider`, so what is proved of the loop holds of it |
| `SystemProofs!ScanTypeCorrectness` | types of cluster and scan |
| `SystemProofs!NothingStaleIsPublished` | `NothingStale` |
| `SystemProofs!SystemIsLoop` | the system implements `Provider`, so what is proved of the loop holds of it |
| `SystemProofs!TypeCorrectness` | `TypeOK`: types, and how the phases of a scan agree with the loop |
| `SystemProofs!UndisturbedGuestsAreExact` | `UndisturbedGuestIsExact`, on both paths and the fall back |
| `SystemProofs!LabelsOnlyAdvance` | `LabelsNeverGoBack`, for a buffered channel of any capacity |
| `SystemProofs!OutagesStayUnpublished` | `OutageNotPublished` |
| `ConfigBuilderProofs!BuilderInvariance`, `OrderInvariance`, `TypeCorrectness` | the invariants of the builder, `TypeOK` |
| `ConfigBuilderProofs!NoStrangersServed` | `NoStrangers` |
| `ConfigBuilderProofs!OwnersKeepTheirObjects` | `OwnersOnly` |
| `ConfigBuilderProofs!NothingIsTakenBack` | `PublishedStays` |
| `ConfigBuilderProofs!DefaultGuestsAreServed` | `DefaultGuestServed` |
| `ConfigBuilderProofs!ReferencesAreResolved` | `ReferencesResolve` |
| `PreparationProofs!TypeCorrectness` | `TypeOK` |
| `PreparationProofs!NoteGivesLabels` | `LabelsOfTheNote` |
| `PreparationProofs!NoLabelIsLost` | `NothingLostSilently` |
| `PreparationProofs!LabelsMakeObjects` | `ObjectsAsLabelled` |
| `PreparationProofs!SetsFitBuilder` | `SetFitsBuilder`: what the builder assumes of label sets |
| `PreparationProofs!EveryLabelHasEffect` | `EveryLabelCounts`, for any notes: no valid label is accepted and then ignored, but for the exceptions it names |
| `InventoryProofs!TypeCorrectness` | `TypeOK`: what accepted options are to the ticker, the client, the pool and the filters |
| `InventoryProofs!SnapshotsAreAsDocumented` | `SnapshotAsDocumented`, whatever the calls answer |
| `IPResolutionProofs!TypeCorrectness` | `TypeOK` |
| `IPResolutionProofs!OnlyReachableServers` | `NoUnreachableServer` |
| `IPResolutionProofs!PatternsMatchTheirMeaning` | `PatternsMean`, for patterns and names of any length |
| `IPResolutionProofs!ServedAsDocumented` | `ServersAsDocumented`: the `server.url` or `server.ip` of a label, else the addresses the README describes |

Assumptions are the `ASSUME`s of the modules (`PoolAssumption`,
`ProviderAssumption`, `ScannerAssumption`, `SystemAssumption`, `InventoryAssumption`,
`NamesAssumption`, `SchemaAssumption`, `BuilderAssumption`,
`PreparationAssumption`, `ValuesAssumption`, `ResolutionAssumption`), which say what kind of thing
each constant is and, for `System`, that the channel is buffered (`HandOff`
belongs to `Provider` alone). `SchemaAssumption` is about the rows of the schema,
which are no parameter: TLC evaluates all of it. `ValuesAssumption` asks for two
numbers and two pieces of a name, so that there are two values to compare. What `BuilderAssumption` asks of
a label set is no restriction, since `SetsFitBuilder` proves it of every label set
that preparation makes of any note; what it asks of the order of guests and names
is that nothing occurs twice. `InventoryAssumption` asks that the guests of a
cluster have ids of their own and its nodes names of their own, as in Proxmox VE;
of the configuration it asks nothing but the kinds of its values. `ResolutionAssumption` leaves out the empty pattern,
which `normalizedInterfacePatterns` and `normalizedDefaultInterfaces` leave out.

The prover has no induction over data. Where a function goes through a sequence
(`Normalized`, `Rebuilt`, `matched` in `Glob`, `NodeNames`, `Those`) the proofs take the least number at
which a claim about it would fail: the order of the numbers is well-founded, so
there is one, and the step before it is a contradiction (`LeastNumber`,
`NumbersUpTo` and `FromTheEnd` of `Numbers`, which the proof modules share). That is why these are recursive functions over numbers and not
RECURSIVE operators.

*The pool.* `AtMostMaxConcurrency` does not follow from itself: that a goroutine
may start a call depends on the token it holds. `IInv` counts: `sem` is the
number of goroutines that have not given their token back, `wg` the number of
those that have not called `Done`; `Stored` ties slots to goroutines, `Phases`
says which goroutines can be where given where the caller is. Calls in flight
are a subset of the token holders, hence the bound; a wait group at zero when
the loop is over leaves no goroutine but finished ones, hence completeness.

*The loop.* `NewestRecorded` is kept by a send because the recorded value and the
end of the channel change together, and `NoRepublish` only because what is being
sent differs from what was recorded, which `FeedInv` adds. Since nobody else
writes `lastPayload`, that stays true while the goroutine is blocked. The proof
speaks of the channel's last element (`ChannelInv`) and moves to `Feed` in
lemmas.

*The log.* As long as the history has room, `lastProblems` is the set of the
messages of its last report (`LogInv`), so what is printed next are the messages
that begin with the next report, as often as it has them.

*The system.* `Fresh` says that every revision in the snapshot, among the
workloads to resolve and in the configuration on its way lies between the one at
the beginning of the scan and the one now. It needs that a scan starts with an
empty snapshot: with what an earlier scan left, the start revision moves past it.
`SystemIsLoop` is a step by step match; the scanner's own steps are stutters.
`Phased` and `Heard` tie the phase of a scan to the loop, the batch and the
answers heard. For `LabelsNeverGoBack`, `LineInv` adds to `Fresh` that what was
sent is not newer than the start of the scan in hand, which is why what is sent
next cannot be older. For `UndisturbedGuestIsExact`, `ScanInv` follows one guest
through a scan: it is in the snapshot, in the batch, or on a node that is still to
be listed (`Found`); then in the snapshot once, and among the workloads to resolve
if its address is to be asked for (`Resolved`); then in the configuration as it is
(`Exact`). A change of the cluster keeps all of it for a guest that it does not
touch (`UntouchedIsSame`), a call for a guest that is not lost.

*The builder.* `Inv` says that the objects of a protocol have owners (`Owned`),
that what is queued for the current guest was claimed by it or, for HTTP services,
named in its labels (`Queued`), and what the two properties say. That a step takes
nothing back needs more: the names claimed for TCP and UDP are not those of objects
that exist already, because a guest comes to a protocol once (`Apart`, `Unbegun`)
and owned no name of it before (`Fresh`), so that a name it owns is one it has just
claimed (`InTurn`). This is also why the names to handle are sets: what a sorted
sequence of them contains would need an induction.

*Who is served.* `DefaultGuestServed` speaks of the end, and on the way there a
guest that asks for nothing in particular is in one of these places: it has not
had its turn, it has claimed its names and its service or router is queued, or it
is served (`OnTheWay`, `OneOnTheWay`). It never gives up, because the search for a
free name ends: the candidates with a suffix differ from each other although long
names are cut, there is one for every number, and only finitely many names are
taken, so one is left. Once it is served it stays so (`AllServed`), since only
servers are added to a service (`PublishedStays`). For `ReferencesResolve`,
`Referring` says that a service a router took by default is there or is queued
behind it (`ServicesOnTheWay`), and that an attached transport is there and still
skips the verification (`AttachedStay`), which a transport of the same name from
another guest's labels could undo.

*The labels.* A label set is described by the assignments it was made of,
whatever their order (`Describes`): each place has the value of the strongest of
those about it, each object the mark whether an explicit one names it. `Indexed`
keeps this as it adds one (that all assignments of one place, seen under one name,
have one origin or two different ones is the point), and `Rebuilt` has it after
the last by induction. `ParsedSoFar` ties the assignments to the labels that are no
longer to be parsed, under the default name; after a name label moved the
shorthand ones they are what the labels say under the new name, so `ObjectsAsLabelled`
and `SetFitsBuilder` hold. For the notes, `HasRead` is the set of fragments that are
behind the reader, and `Says` relates what was extracted to it: of several with one
key the last is stored with its line, the others are reported. `FencesSeen` and
`BlockFound` tie the fence the reader is in to the number of markers before it, and
its block to the first traefik fence. `ReadOK` joins them; `LabelsOfTheNote` and
`NothingLostSilently` are what it says when everything was read.

*What a label changes.* `EveryLabelHasEffect` follows a label from its row to the
object that is built. It needs more of the label set than which value is the
strongest: `OrderOK` says which assignment holds each place, that of the highest
origin and among those the last (`HolderOf`), in the set that is being filled and
in one that is rebuilt. So a set rebuilt with one assignment changed differs from
`set` in the places of that assignment alone (`OneLabelDiffers`), and there only if
nothing replaces it; what every reader finds is then known (`Told`), and the names
of the objects are the same (`SameNames`). The other half is the table:
`EveryRowIsRead` goes through the rows and shows for each that its value is looked
for, in the place where it is put and as the kind that it is parsed to
(`RouterRead`, `ServerRead`, `BalancerRead`, `TransportRead`, `EntryRead`). This is
what a row with the wrong kind or a misspelt target would break. The lemmas whose
names end in `ReadsValue` say in which field the value is found, unless the label
is void; with two values that field differs, hence the object, hence what is built
(`ObjectsDiffer`), since the object of a label that is reached is among those that
are built (`ObjectOfLabelIsBuilt`). Two labels are apart: `tls`, where only its
presence shows, is compared with its absence, and `insecureskipverify` shows in the
transport that is attached. Indexed domains are listed in the order of their
numbers: there is one place for each, since only finitely many labels name one and
no two have one number (`DomainsInTurn`).

*The inventory.* A guest that is wanted is, at every step of a scan, in the
snapshot, in the batch, on a node and of a kind that is still to be listed
(`IsToCome`), behind a problem, or `Unseen`: `NoneMissing`, which is the last part
of `SnapshotAsDocumented` once nothing is to come. That it is there once needs the
other direction: of what is in the batch or the snapshot, the node and the kind are
no longer to be listed (`ToCome` in `BatchOK` and `WorkloadsOK`), since no node is
twice in the queue (`QueueOK`) whether it comes from the configuration, where nodes
may be repeated in other spellings (`NodeNamesNormalized`), or from the cluster.
That only wanted guests are there, also where the nodes are those of the
configuration and nobody filters by node any more, is `QueueOK` again. The order on
the cluster path is that of a sorted batch (`OrderOK`): any finite set of guests of
a usable listing can be put in it (`SortedList`), and as no two of them compare
equal it does not matter that `sort.Slice` is not stable. The options are compared with the words of the configuration by
`Spelling`: two texts are the same once trimmed and folded exactly if their words
are.

*The servers.* `StepByStep` says what the addresses are at each step as a function
of the input, and the servers are compared with the documented ones from there.
Matching goes through a pattern from its end: `matched[i]` is the set of places at
which the name can be cut so that the rest of it fits the rest of the pattern
(`CutsFrom`), which `FromTheEnd` shows down to the beginning.

What the proofs changed: two branches of a CASE in `LabelSchema`, and two in
`ListNodes` of `Inventory`, overlapped, which in TLA+ is a choice of either and
made a step of the proof false; they are now IFs, in the order of the code. The
clause of `SnapshotAsDocumented` about names asked for a name; on the path over the
nodes a guest may have none, in its listing or its configuration, and the run now
has such a guest. `SplitTags` keeps its tags trimmed, as the code does. `SchemaAssumption` names the facts about the rows that
the parsing of names rests on. `TLSDomains` takes the domains by rank
(`NthDomain`), which is what sorting their numbers gives, and no longer by a sort
that the prover cannot look into; that their indexes are numbers is said of the
words of a note (`IsWord`), where it was silent before.

Only model-checked: everything about liveness (`Terminates`, `StopReturns`,
`ChangeReachesTraefik`, `PollsUntilStopped`, `Converges`, `EveryScanEnds`), which
is out of the prover's reach under fairness. Every safety invariant of a passing
run and every action property is stated by a theorem.

## Findings

- `addresses_mode`: `README.md:140` says `ipMode` has no effect when
  `skipIPResolution` is true; `applyConfig` filters the static addresses by it.
- `labels_ip`: `README.md:181-183` counts a label `ip` among those that override
  automatic resolution; the shorthand rows (`schema.go:50-56`) have none for it, so
  it is rejected and the guest is sent to at the addresses that were resolved.
  `ServersAsDocumented` speaks of the two labels of that sentence that there are.
- `builder_port`: shorthand labels are stored under the default name of a guest
  before it is known whether the name is free. If it is not, the objects get
  another name and the labels (`port`, documented at `README.md:98`) are not
  found.
- `builder_skipped`: a router or service whose name is claimed by a guest that
  gave up is reported as "skipping duplicate" (`object_names.go:84`) and is
  published.

Behaviour noted and not claimed wrong: with `pve.nodes` configured an outage of
all nodes publishes an empty configuration, since no call of the path over the
nodes ends a scan; a failed configuration call withdraws a guest until the next
scan. `tls.domains[0]` and `tls.domains[1]` without a field share one key, and the
later one replaces the other. `port` and the other HTTP shorthand labels do not
mark HTTP as wanted, so beside a TCP or UDP label they have no effect. In loose
mode a label may start after any blank, in a comment too (`extract_test.go:144`),
while `README.md:119` speaks of the beginning of a line. `tls=false` turns TLS on,
since the label is looked for and not read. An explicit label with an empty text
hides the shorthand one for the same field, and neither counts. These are what
`EveryLabelCounts` exempts (`IsVoid`, `IsUnreached`, `IsReplaced`): it claims that
an accepted label has no effect in no other way, and says nothing for or against
the exempted ones. A message that a scan has several times is written to the log
that often when it appears. `README.md:65` speaks of fences that contain `traefik`
in the info string, while `extract.go:118` asks for an info string that is
`traefik` in any case; in `Preparation` the info of a marker is that or something
else, as in the code. Who shares an HTTP service depends on the order of the
guests: one with an explicit service joins a default service of that name, while a
default guest that comes after an explicit one is renamed (`NoStrangers` holds in
every order). An answer with `null` is an empty listing, and guests
are missing without a problem (`Unseen`). Node names in another case than the
cluster's match on the cluster path, and on the path over the nodes are asked for
as they are written. A snapshot is sorted on the cluster path only, so a listing
that fails may change which of two guests keeps a default name.

## Not modelled, and why

- HTTP, JSON, escaping and error texts of the client: input and output. What is
  asked, and how a call ends for its caller, is modelled.
- Logging texts and the wording of diagnostics. Which names are reported as
  skipped, and the line and kind of a problem in a note, are modelled.
- Options that are only handed on (`tokenID`, `token`, `insecureSkipVerify` of the
  client); `skipIPResolution` and the default domain are in `IPResolution`,
  `Scanner` and `Objects`.
- The splitting of the rows of the schema at their dots, and of a note into lines
  and words: the rows and the notes are given split.
- `Stop` before or concurrent with `Provide`: Traefik calls them in order.
- The library under `vendor/`: third-party types.

## Plan

Written, in this order: `WorkerPool`, `Provider`, `System`, `ConfigBuilder`,
`IPResolution`, `LabelSchema` and `Preparation`; then `Options` and `Inventory`,
`LabelSet` and `Objects` with `ConfigBuilder` on the label sets of `Preparation`,
the proofs about the builder, the scan, the servers and the log, and then those
about the labels, the names that guests compete for, the patterns, the snapshot
of `Inventory` and the effect of each label.

Left:

1. `Inventory`'s filters, tags and order in the changing cluster of `Scanner`.
