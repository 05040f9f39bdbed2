------------------------------- MODULE Options -------------------------------
(***************************************************************************)
(* The configuration of the plugin: its defaults (config.go), the check in *)
(* New (provider.go), and what the scanner and the client make of it       *)
(* (scanner.New, proxmox.NewClient).                                       *)
(*                                                                         *)
(* A text is a word and how it is spelt: with capitals, with blanks around *)
(* it, or as it is.  What is parsed is a sequence with the result, an      *)
(* empty one for an error.                                                 *)
(***************************************************************************)
EXTENDS Integers, Sequences, SequencesExt, FiniteSetsExt

CONSTANTS
  Seconds  \* the words that are durations, and which

Text(word) == [word |-> word, spelt |-> {}]
Spelt(word, how) == [word |-> word, spelt |-> {how}]
NoText == Text("")

TrimSpace(t) == [t EXCEPT !.spelt = @ \ {"blanks"}]
ToLower(t) == [t EXCEPT !.spelt = @ \ {"capitals"}]
IsBlank(t) == TrimSpace(t) = NoText

IsText(t) ==
  /\ t = [word |-> t.word, spelt |-> t.spelt]
  /\ t.spelt \subseteq {"blanks", "capitals"}
  /\ t.word = "" => "capitals" \notin t.spelt

IsList(s) == s \in Seq(ToSet(s))

Failed == <<>>

-----------------------------------------------------------------------------
(* CreateConfig: what the configuration is where nothing else is said *)

DefaultPatterns == {Text("eth*"), Text("enp*"), Text("eno*"), Text("ens*")}

\* endpoint and interfaces need not be given.
CreateConfig ==
  [pollInterval |-> Text("1m0s"), metadataMode |-> Text("fenced"), timeout |-> Text("30s"),
   endpoint |-> <<>>, tokens |-> {}, skipStopped |-> TRUE, ipMode |-> Text("ipv4"),
   interfaces |-> <<DefaultPatterns>>, nodes |-> <<>>, requiredTags |-> <<>>,
   maxConcurrency |-> 4]

-----------------------------------------------------------------------------
(* Parsing *)

\* time.ParseDuration takes neither capitals nor blanks.
ParseDuration(t, fallback) ==
  CASE t = NoText -> <<fallback>>
    [] t.spelt = {} /\ t.word \in DOMAIN Seconds -> <<Seconds[t.word]>>
    [] OTHER -> Failed

\* A mode is one of some words, given by what they mean.
ParseMode(t, default, modes) ==
  IF t = NoText THEN <<default>>
  ELSE LET meant == {m \in DOMAIN modes : ToLower(TrimSpace(t)) \in {Text(w) : w \in modes[m]}} IN
       IF meant = {} THEN Failed ELSE <<CHOOSE m \in meant : TRUE>>

IPModes ==
  [m \in {"ipv4", "ipv6", "ipv4/6"} |->
     CASE m = "ipv4" -> {"ipv4", "4"}
       [] m = "ipv6" -> {"ipv6", "6"}
       [] OTHER -> {"ipv4/6", "dualstack", "dual-stack", "both", "all", "ipv4+ipv6", "ipv4,ipv6"}]

ParseIPMode(t) == ParseMode(t, "ipv4", IPModes)

ParseExtractMode(t) ==
  ParseMode(t, "fenced", [m \in {"fenced", "loose", "auto"} |-> {m}])

-----------------------------------------------------------------------------
(* NewClient *)

APIPath == <<"api2", "json">>

\* The path of an endpoint is the sequence of what is between its slashes.
WithoutSlashes(path) ==
  SubSeq(path, 1, Max({0} \cup {i \in DOMAIN path : path[i] # ""}))

BasePath(path) ==
  LET trimmed == WithoutSlashes(path) IN
  IF IsSuffix(APIPath, trimmed) THEN trimmed ELSE trimmed \o APIPath

\* parseBaseURL
ParseBaseURL(endpoint) ==
  IF endpoint.scheme = "" \/ endpoint.host = "" THEN Failed ELSE <<BasePath(endpoint.path)>>

TimeoutAsGiven(timeout) == timeout

\* No timeout of its own is the default one; a negative one is none at all.
ClientTimeout(timeout) == IF timeout = 0 THEN 30 ELSE timeout

-----------------------------------------------------------------------------
(* scanner.New *)

\* normalizedNodeNames: as they are written, the first of those that differ
\* in capitals only.
NodeNames(values) ==
  LET names[i \in 0 .. Len(values)] ==
        IF i = 0 THEN <<>>
        ELSE LET name == TrimSpace(values[i]) IN
             IF name = NoText \/ \E n \in ToSet(names[i - 1]) : ToLower(n) = ToLower(name)
             THEN names[i - 1] ELSE Append(names[i - 1], name)
  IN names[Len(values)]

\* normalizedSet and normalizedList
Normalized(values) == {ToLower(TrimSpace(v)) : v \in {x \in ToSet(values) : ~IsBlank(x)}}

MaxConcurrency(value) == IF value <= 0 THEN 4 ELSE value

\* normalizedDefaultInterfaces
DefaultInterfaces(patterns) ==
  IF patterns = <<>> THEN DefaultPatterns
  ELSE {TrimSpace(p) : p \in {x \in patterns[1] : ~IsBlank(x)}}

-----------------------------------------------------------------------------
(* New *)

MinPollInterval == 5

PollInterval(config) == ParseDuration(config.pollInterval, 60)
Timeout(config) == ParseDuration(config.timeout, 30)

AcceptedAnyInterval(config) ==
  /\ PollInterval(config) # Failed
  /\ Timeout(config) # Failed
  /\ ParseIPMode(config.ipMode) # Failed
  /\ ParseExtractMode(config.metadataMode) # Failed
  /\ config.endpoint # <<>> /\ config.tokens = {"tokenID", "token"}
  /\ ParseBaseURL(config.endpoint[1]) # Failed

Accepted(config) ==
  /\ PollInterval(config) # Failed
  /\ PollInterval(config)[1] >= MinPollInterval
  /\ Timeout(config) # Failed
  /\ ParseIPMode(config.ipMode) # Failed
  /\ ParseExtractMode(config.metadataMode) # Failed
  /\ config.endpoint # <<>> /\ config.tokens = {"tokenID", "token"}
  /\ ParseBaseURL(config.endpoint[1]) # Failed

\* What the provider, its scanner and its client work with.
OptionsOf(config) ==
  [pollInterval |-> PollInterval(config)[1],
   timeout |-> ClientTimeout(Timeout(config)[1]),
   path |-> ParseBaseURL(config.endpoint[1])[1],
   ipMode |-> ParseIPMode(config.ipMode)[1],
   extractMode |-> ParseExtractMode(config.metadataMode)[1],
   skipStopped |-> config.skipStopped,
   interfaces |-> DefaultInterfaces(config.interfaces),
   includedNodeNames |-> NodeNames(config.nodes),
   includedNodes |-> Normalized(config.nodes),
   requiredTags |-> Normalized(config.requiredTags),
   maxConcurrency |-> MaxConcurrency(config.maxConcurrency)]
=============================================================================
