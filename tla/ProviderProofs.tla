---------------------------- MODULE ProviderProofs ----------------------------
(***************************************************************************)
(* Proofs about Provider, for every set of configurations and messages,    *)
(* every channel capacity and every sequence of scan results: what         *)
(* lastPayload means, that nothing is published twice in a row, that the   *)
(* loop implements ConfigFeed, and, of the loop with its history, that a   *)
(* problem is logged when it appears and not while it stands.              *)
(***************************************************************************)
EXTENDS ProviderLog, TLAPS

\* The newest configuration of the feed, without the concatenation.
NewestOfFeed == IF cfgChan = <<>> THEN applied ELSE cfgChan[Len(cfgChan)]

\* Position k of the feed: what was applied, then the channel.
LEMMA FeedElements ==
  ASSUME TypeOK
  PROVE  /\ Len(Feed) = Len(cfgChan) + 1
         /\ Feed[1] = applied
         /\ \A k \in 1 .. Len(cfgChan) : Feed[k + 1] = cfgChan[k]
BY DEF TypeOK, Feed

LEMMA NewestIsLast ==
  ASSUME TypeOK
  PROVE  Feed[Len(Feed)] = NewestOfFeed
<1>1. CASE cfgChan = <<>>
  BY <1>1, FeedElements DEF NewestOfFeed
<1>2. CASE cfgChan # <<>>
  <2>1. Len(cfgChan) \in 1 .. Len(cfgChan)
    BY <1>2 DEF TypeOK
  <2>2. Feed[Len(cfgChan) + 1] = cfgChan[Len(cfgChan)]
    BY <2>1, FeedElements
  <2> QED  BY <1>2, <2>2, FeedElements DEF NewestOfFeed
<1> QED  BY <1>1, <1>2

\* NoRepublish in terms of the channel alone.
Differs ==
  /\ cfgChan # <<>> => cfgChan[1] # applied
  /\ \A k \in 1 .. (Len(cfgChan) - 1) : cfgChan[k] # cfgChan[k + 1]

LEMMA NoRepublishIsDiffers ==
  ASSUME TypeOK
  PROVE  NoRepublish <=> Differs
<1> Len(cfgChan) \in Nat
  BY DEF TypeOK
<1>1. ASSUME NoRepublish PROVE Differs
  <2>1. ASSUME cfgChan # <<>> PROVE cfgChan[1] # applied
    <3>1. 1 \in 1 .. Len(cfgChan)
      BY <2>1 DEF TypeOK
    <3> QED  BY <1>1, <3>1, FeedElements DEF NoRepublish
  <2>2. ASSUME NEW k \in 1 .. (Len(cfgChan) - 1) PROVE cfgChan[k] # cfgChan[k + 1]
    <3>1. k \in 1 .. Len(cfgChan) /\ k + 1 \in 1 .. Len(cfgChan)
      OBVIOUS
    <3> QED  BY <1>1, <3>1, FeedElements DEF NoRepublish
  <2> QED  BY <2>1, <2>2 DEF Differs
<1>2. ASSUME Differs PROVE NoRepublish
  <2>1. ASSUME NEW k \in 1 .. Len(cfgChan) PROVE Feed[k] # Feed[k + 1]
    <3>1. CASE k = 1
      BY <1>2, <3>1, FeedElements DEF Differs
    <3>2. CASE k # 1
      <4>1. k - 1 \in 1 .. (Len(cfgChan) - 1) /\ k - 1 \in 1 .. Len(cfgChan)
        BY <3>2
      <4>2. Feed[(k - 1) + 1] = cfgChan[k - 1] /\ Feed[k + 1] = cfgChan[k]
        BY <4>1, FeedElements
      <4>3. cfgChan[k - 1] # cfgChan[(k - 1) + 1]
        BY <1>2, <4>1 DEF Differs
      <4> QED  BY <4>2, <4>3
    <3> QED  BY <3>1, <3>2
  <2> QED  BY <2>1 DEF NoRepublish
<1> QED  BY <1>1, <1>2

-----------------------------------------------------------------------------
\* What is printed is a bag, since it is a part of one.
LEMMA PrintedIsABag ==
  ASSUME IsABag(problems), BagToSet(problems) \subseteq Messages, LogProblems
  PROVE  /\ IsABag(printed') /\ BagToSet(printed') \subseteq Messages
         /\ lastProblems' \in SUBSET Messages
BY DEF IsABag, BagToSet, LogProblems, NewProblems

LEMMA EmptyBagIsABag == IsABag(EmptyBag) /\ BagToSet(EmptyBag) = {}
BY DEF IsABag, BagToSet, EmptyBag, SetToBag

LEMMA TypeInit == Init => TypeOK
<1> SUFFICES ASSUME Init PROVE TypeOK  OBVIOUS
<1>1. <<>> \in Seq(Configs) /\ Len(<<>>) = 0
  OBVIOUS
<1>2. cfgChan \in Seq(Configs) /\ Len(cfgChan) <= capacity
  BY <1>1, ProviderAssumption DEF Init
<1> QED  BY <1>2, EmptyBagIsABag DEF Init, TypeOK, ProviderStates

LEMMA TypeNext == TypeOK /\ [Next]_vars => TypeOK'
<1> SUFFICES ASSUME TypeOK, [Next]_vars PROVE TypeOK'  OBVIOUS
<1> USE DEF TypeOK, ProviderStates, EndPublish, scanVars, feedVars, logVars
<1>1. CASE Provide  BY <1>1 DEF Provide
<1>2. CASE Stop  BY <1>2 DEF Stop
<1>3. CASE ScanFails  BY <1>3 DEF ScanFails
<1>4. ASSUME NEW c \in Configs, NEW ps \in Reports, ScanReturns(c, ps) PROVE TypeOK'
  BY <1>4, ProviderAssumption DEF ScanReturns
<1>5. CASE BuildChanged  BY <1>5, PrintedIsABag DEF BuildChanged
<1>6. CASE BuildSame  BY <1>6, PrintedIsABag DEF BuildSame
<1>7. CASE Send
  <2>1. config \in Configs /\ cfgChan' \in Seq(Configs) /\ Len(cfgChan') = Len(cfgChan) + 1
    BY <1>7 DEF Send
  <2>2. Len(cfgChan') <= capacity
    BY <1>7, <2>1, ProviderAssumption DEF Send
  <2> QED  BY <1>7, <2>1, <2>2 DEF Send
<1>8. CASE HandOff  BY <1>8 DEF HandOff
<1>9. CASE SendCanceled  BY <1>9 DEF SendCanceled
<1>10. CASE Tick  BY <1>10 DEF Tick
<1>11. CASE TakeTick  BY <1>11 DEF TakeTick
<1>12. CASE TakeDone  BY <1>12 DEF TakeDone
<1>13. CASE Receive
  <2>1. Head(cfgChan) \in Configs /\ Tail(cfgChan) \in Seq(Configs)
        /\ Len(Tail(cfgChan)) = Len(cfgChan) - 1
    BY <1>13 DEF Receive
  <2>2. Len(cfgChan') <= capacity
    BY <1>13, <2>1, ProviderAssumption DEF Receive
  <2> QED  BY <1>13, <2>1, <2>2 DEF Receive
<1>14. CASE UNCHANGED vars  BY <1>14 DEF vars
<1> QED
  BY <1>1, <1>2, <1>3, <1>4, <1>5, <1>6, <1>7, <1>8, <1>9, <1>10, <1>11, <1>12,
     <1>13, <1>14 DEF Next, Scan, Build

\* The variables of the loop keep their types, the channel never holds more
\* than its capacity, and the loop never waits without its ticker.
THEOREM TypeCorrectness == Spec => []TypeOK
BY TypeInit, TypeNext, PTL DEF Spec

-----------------------------------------------------------------------------
(* The same invariant, said of the channel. *)
ChannelInv ==
  /\ lastPayload = NewestOfFeed
  /\ Differs
  /\ pc = "sending" => config # lastPayload

LEMMA FeedInvIsChannelInv ==
  ASSUME TypeOK
  PROVE  FeedInv <=> ChannelInv
BY NewestIsLast, NoRepublishIsDiffers DEF FeedInv, ChannelInv, NewestRecorded

LEMMA ChannelInit == Init => ChannelInv
BY DEF Init, ChannelInv, NewestOfFeed, Differs

LEMMA SendKeepsChannel ==
  ASSUME TypeOK, ChannelInv, Send
  PROVE  ChannelInv'
<1> DEFINE n == Len(cfgChan)
<1>1. /\ n \in Nat /\ config \in Configs
      /\ cfgChan' = Append(cfgChan, config) /\ Len(cfgChan') = n + 1
      /\ cfgChan' # <<>>
  BY DEF TypeOK, Send
<1>2. cfgChan'[n + 1] = config /\ \A k \in 1 .. n : cfgChan'[k] = cfgChan[k]
  BY <1>1 DEF TypeOK
<1>3. lastPayload' = NewestOfFeed'
  BY <1>1, <1>2 DEF Send, NewestOfFeed
<1>4. config # NewestOfFeed
  BY DEF Send, ChannelInv
<1>5. cfgChan'[1] # applied'
  <2>1. CASE cfgChan = <<>>
    BY <1>2, <1>4, <2>1 DEF NewestOfFeed, Send
  <2>2. CASE cfgChan # <<>>
    <3>1. 1 \in 1 .. n
      BY <2>2 DEF TypeOK
    <3> QED  BY <1>2, <2>2, <3>1 DEF ChannelInv, Differs, Send
  <2> QED  BY <2>1, <2>2
<1>6. ASSUME NEW k \in 1 .. (Len(cfgChan') - 1) PROVE cfgChan'[k] # cfgChan'[k + 1]
  <2>1. k \in 1 .. n
    BY <1>1, <1>6
  <2>2. CASE k = n
    BY <1>1, <1>2, <1>4, <2>1, <2>2 DEF NewestOfFeed
  <2>3. CASE k # n
    <3>1. k \in 1 .. (n - 1) /\ k + 1 \in 1 .. n
      BY <1>1, <2>1, <2>3
    <3> QED  BY <1>2, <2>1, <3>1 DEF ChannelInv, Differs
  <2> QED  BY <2>2, <2>3
<1>7. pc' # "sending"
  BY DEF Send, EndPublish
<1> QED  BY <1>3, <1>5, <1>6, <1>7 DEF ChannelInv, Differs

LEMMA ReceiveKeepsChannel ==
  ASSUME TypeOK, ChannelInv, Receive
  PROVE  ChannelInv'
<1> DEFINE n == Len(cfgChan)
<1>1. /\ n \in Nat \ {0} /\ cfgChan' = Tail(cfgChan) /\ Len(cfgChan') = n - 1
      /\ applied' = cfgChan[1]
  BY DEF TypeOK, Receive
<1>2. \A k \in 1 .. (n - 1) : cfgChan'[k] = cfgChan[k + 1]
  BY <1>1 DEF TypeOK
<1>3. UNCHANGED <<lastPayload, pc, config>>
  BY DEF Receive, scanVars
<1>4. lastPayload = cfgChan[n]
  BY DEF ChannelInv, NewestOfFeed, Receive
<1>5. NewestOfFeed' = cfgChan[n]
  <2>1. CASE n = 1
    BY <1>1, <2>1 DEF NewestOfFeed, TypeOK
  <2>2. CASE n # 1
    <3>1. n - 1 \in 1 .. (n - 1) /\ cfgChan' # <<>>
      BY <1>1, <2>2
    <3> QED  BY <1>1, <1>2, <3>1 DEF NewestOfFeed
  <2> QED  BY <2>1, <2>2
<1>6. Differs'
  <2>1. ASSUME cfgChan' # <<>> PROVE cfgChan'[1] # applied'
    <3>1. 1 \in 1 .. (n - 1)
      BY <1>1, <2>1 DEF TypeOK
    <3> QED  BY <1>1, <1>2, <3>1 DEF ChannelInv, Differs
  <2>2. ASSUME NEW k \in 1 .. (Len(cfgChan') - 1) PROVE cfgChan'[k] # cfgChan'[k + 1]
    <3>1. k \in 1 .. (n - 1) /\ k + 1 \in 1 .. (n - 1)
      BY <1>1
    <3> QED  BY <1>2, <3>1 DEF ChannelInv, Differs
  <2> QED  BY <2>1, <2>2 DEF Differs
<1> QED  BY <1>3, <1>4, <1>5, <1>6 DEF ChannelInv

LEMMA ChannelNext == TypeOK /\ ChannelInv /\ [Next]_vars => ChannelInv'
<1> SUFFICES ASSUME TypeOK, ChannelInv, [Next]_vars PROVE ChannelInv'  OBVIOUS
<1> USE DEF ChannelInv, NewestOfFeed, Differs, EndPublish, scanVars, feedVars, logVars
<1>1. CASE Provide  BY <1>1 DEF Provide
<1>2. CASE Stop  BY <1>2 DEF Stop
<1>3. CASE ScanFails  BY <1>3 DEF ScanFails
<1>4. ASSUME NEW c \in Configs, NEW ps \in Reports, ScanReturns(c, ps) PROVE ChannelInv'
  BY <1>4 DEF ScanReturns
<1>5. CASE BuildChanged  BY <1>5 DEF BuildChanged
<1>6. CASE BuildSame  BY <1>6 DEF BuildSame
<1>7. CASE Send  BY <1>7, SendKeepsChannel
<1>8. CASE HandOff
  <2>1. cfgChan = <<>>
    BY <1>8 DEF HandOff, TypeOK
  <2> QED  BY <1>8, <2>1 DEF HandOff
<1>9. CASE SendCanceled  BY <1>9 DEF SendCanceled
<1>10. CASE Tick  BY <1>10 DEF Tick
<1>11. CASE TakeTick  BY <1>11 DEF TakeTick
<1>12. CASE TakeDone  BY <1>12 DEF TakeDone
<1>13. CASE Receive  BY <1>13, ReceiveKeepsChannel
<1>14. CASE UNCHANGED vars  BY <1>14 DEF vars
<1> QED
  BY <1>1, <1>2, <1>3, <1>4, <1>5, <1>6, <1>7, <1>8, <1>9, <1>10, <1>11, <1>12,
     <1>13, <1>14 DEF Next, Scan, Build

LEMMA ChannelInvariance == Spec => []ChannelInv
BY ChannelInit, ChannelNext, TypeCorrectness, PTL DEF Spec

\* The inductive invariant of the loop, as the module states it.
THEOREM FeedInvariance == Spec => []FeedInv
<1>1. TypeOK /\ ChannelInv => FeedInv
  BY FeedInvIsChannelInv
<1> QED  BY <1>1, TypeCorrectness, ChannelInvariance, PTL

\* lastPayload is the newest configuration Traefik has been sent, across
\* failed scans and canceled sends.
THEOREM PayloadIsNewest == Spec => []NewestRecorded
<1>1. FeedInv => NewestRecorded
  BY DEF FeedInv
<1> QED  BY <1>1, FeedInvariance, PTL

\* Traefik is never sent the same configuration twice in a row.
THEOREM NothingRepublished == Spec => []NoRepublish
<1>1. FeedInv => NoRepublish
  BY DEF FeedInv
<1> QED  BY <1>1, FeedInvariance, PTL

-----------------------------------------------------------------------------
LEMMA FeedInitRefines == Init => FeedPromise!Init
BY DEF Init, FeedPromise!Init

LEMMA FeedStutters ==
  ASSUME UNCHANGED <<cfgChan, applied>>, (pc = "returned")' = (pc = "returned")
  PROVE  UNCHANGED FeedPromise!vars
BY DEF FeedPromise!vars

LEMMA FeedNextRefines ==
  TypeOK /\ ChannelInv /\ [Next]_vars => [FeedPromise!Next]_(FeedPromise!vars)
<1> SUFFICES ASSUME TypeOK, ChannelInv, [Next]_vars
             PROVE  FeedPromise!Next \/ UNCHANGED FeedPromise!vars
  OBVIOUS
<1>0. FeedPromise!Newest = NewestOfFeed
  BY DEF FeedPromise!Newest, NewestOfFeed
<1> USE DEF EndPublish, scanVars, feedVars, logVars
<1>1. CASE Provide  BY <1>1, FeedStutters DEF Provide
<1>2. CASE Stop  BY <1>2, FeedStutters DEF Stop
<1>3. CASE ScanFails  BY <1>3, FeedStutters DEF ScanFails
<1>4. ASSUME NEW c \in Configs, NEW ps \in Reports, ScanReturns(c, ps)
      PROVE  FeedPromise!Next \/ UNCHANGED FeedPromise!vars
  BY <1>4, FeedStutters DEF ScanReturns
<1>5. CASE BuildChanged  BY <1>5, FeedStutters DEF BuildChanged
<1>6. CASE BuildSame  BY <1>6, FeedStutters DEF BuildSame
<1>7. CASE Send
  <2>1. config \in Configs /\ config # NewestOfFeed
    BY <1>7 DEF Send, TypeOK, ChannelInv
  <2>2. FeedPromise!Publish(config)
    BY <1>0, <1>7, <2>1 DEF Send, FeedPromise!Publish
  <2> QED  BY <2>1, <2>2 DEF FeedPromise!Next
<1>8. CASE HandOff
  <2>1. config \in Configs /\ config # NewestOfFeed /\ cfgChan = <<>>
    BY <1>8 DEF HandOff, TypeOK, ChannelInv
  <2>2. FeedPromise!HandOver(config)
    BY <1>0, <1>8, <2>1 DEF HandOff, FeedPromise!HandOver
  <2> QED  BY <2>1, <2>2 DEF FeedPromise!Next
<1>9. CASE SendCanceled  BY <1>9, FeedStutters DEF SendCanceled
<1>10. CASE Tick  BY <1>10, FeedStutters DEF Tick
<1>11. CASE TakeTick  BY <1>11, FeedStutters DEF TakeTick
<1>12. CASE TakeDone
  BY <1>12 DEF TakeDone, FeedPromise!Close, FeedPromise!Next
<1>13. CASE Receive
  BY <1>13 DEF Receive, FeedPromise!Deliver, FeedPromise!Next
<1>14. CASE UNCHANGED vars  BY <1>14, FeedStutters DEF vars
<1> QED
  BY <1>1, <1>2, <1>3, <1>4, <1>5, <1>6, <1>7, <1>8, <1>9, <1>10, <1>11, <1>12,
     <1>13, <1>14 DEF Next, Scan, Build

\* Every behaviour of the loop is one of the configuration feed: ordered,
\* nothing lost once sent, nothing repeated, nothing after the goroutine ends.
THEOREM LoopRefinesFeed == Spec => ImplementsConfigFeed
<1>1. Init => FeedPromise!Init
  BY FeedInitRefines
<1>2. TypeOK /\ ChannelInv /\ [Next]_vars => [FeedPromise!Next]_(FeedPromise!vars)
  BY FeedNextRefines
<1> QED
  BY <1>1, <1>2, TypeCorrectness, ChannelInvariance, PTL
  DEF Spec, ImplementsConfigFeed, FeedPromise!Spec

-----------------------------------------------------------------------------
(* The log, for any messages and any length of the history: the history     *)
(* takes no behaviour from the loop beyond its fairness.                    *)

\* The loop with its history is the loop: what is proved of Provider holds of
\* it (ProviderProofs).
THEOREM HistoryOnlyWatches == LogSpec => Spec
<1>1. LogInit => Init
  BY DEF LogInit
<1>2. [LogNext]_<<vars, logHistory>> => [Next]_vars
  BY DEF LogNext, LoggingBuild, Silent, Next
<1> QED  BY <1>1, <1>2, PTL DEF LogSpec, Spec

-----------------------------------------------------------------------------
(* The log.  While the history has room, lastProblems is what the last built *)
(* scan reported, so the messages printed next are the onsets of the next.   *)

LastReport == IF reports = <<>> THEN {} ELSE BagToSet(reports[Len(reports)])

\* The bags of messages, as a set.
MessageBags == UNION {[S -> Nat \ {0}] : S \in SUBSET Messages}

LEMMA MessageBagsAreBags ==
  ASSUME NEW b
  PROVE  b \in MessageBags <=> IsABag(b) /\ BagToSet(b) \subseteq Messages
<1>1. IsABag(b) <=> b \in [DOMAIN b -> Nat \ {0}]
  <2>1. {n \in Nat : n > 0} = Nat \ {0}
    OBVIOUS
  <2> QED  BY <2>1 DEF IsABag
<1>2. ASSUME b \in MessageBags PROVE IsABag(b) /\ BagToSet(b) \subseteq Messages
  <2>1. PICK S \in SUBSET Messages : b \in [S -> Nat \ {0}]
    BY <1>2 DEF MessageBags
  <2> QED  BY <1>1, <2>1 DEF BagToSet
<1>3. ASSUME IsABag(b), BagToSet(b) \subseteq Messages PROVE b \in MessageBags
  BY <1>1, <1>3 DEF BagToSet, MessageBags
<1> QED  BY <1>2, <1>3

LogInv ==
  /\ problems \in MessageBags
  /\ reports \in Seq(MessageBags) /\ lines \in Seq(MessageBags)
  /\ Len(reports) < MaxReports => lastProblems = LastReport
  /\ LoggedAtOnset

\* A report leaves the onsets of those before it as they were, and begins an
\* episode of the messages that the last one did not have.
LEMMA OnsetsOfReport ==
  ASSUME reports \in Seq(MessageBags), NEW r \in MessageBags
  PROVE  LET list == Append(reports, r) IN
         /\ \A k \in 1 .. Len(reports) :
              list[k] = reports[k] /\ Onsets(list, k) = Onsets(reports, k)
         /\ list[Len(reports) + 1] = r
         /\ Onsets(list, Len(reports) + 1) = BagToSet(r) \ LastReport
<1> DEFINE n == Len(reports)
           list == Append(reports, r)
<1>1. /\ n \in Nat /\ list[n + 1] = r
      /\ \A k \in 1 .. n : list[k] = reports[k]
      /\ reports = <<>> <=> n = 0
  OBVIOUS
<1>2. LastReport = IF n = 0 THEN {} ELSE BagToSet(reports[n])
  BY <1>1 DEF LastReport
<1> HIDE DEF n, list
<1>3. ASSUME NEW k \in 1 .. n PROVE Onsets(list, k) = Onsets(reports, k)
  <2>1. k # 1 => k - 1 \in 1 .. n
    BY <1>1
  <2>2. list[k] = reports[k] /\ (k # 1 => list[k - 1] = reports[k - 1])
    BY <1>1, <2>1
  <2> QED  BY <2>2 DEF Onsets
<1>4. Onsets(list, n + 1) = BagToSet(r) \ LastReport
  <2>1. CASE n = 0
    BY <1>1, <1>2, <2>1 DEF Onsets
  <2>2. CASE n # 0
    <3>1. n + 1 # 1 /\ (n + 1) - 1 = n /\ n \in 1 .. n
      BY <1>1, <2>2
    <3> QED  BY <1>1, <1>2, <2>2, <3>1 DEF Onsets
  <2> QED  BY <2>1, <2>2
<1> QED  BY <1>1, <1>3, <1>4 DEF n, list

LEMMA LogInvInit == LogInit => LogInv
<1> SUFFICES ASSUME LogInit PROVE LogInv  OBVIOUS
<1>1. reports = <<>> /\ lines = <<>> /\ lastProblems = {} /\ problems = EmptyBag
  BY DEF LogInit, Init
<1>2. problems \in MessageBags
  BY <1>1, EmptyBagIsABag, MessageBagsAreBags
<1>3. LoggedAtOnset
  BY <1>1 DEF LoggedAtOnset
<1> QED  BY <1>1, <1>2, <1>3 DEF LogInv, LastReport

LEMMA LogInvSilent ==
  ASSUME LogInv, UNCHANGED logHistory, problems' \in MessageBags,
         lastProblems' = lastProblems \/ ~(Len(reports) < MaxReports)
  PROVE  LogInv'
<1>1. reports' = reports /\ lines' = lines
  BY DEF logHistory
<1>2. LoggedAtOnset' /\ LastReport' = LastReport
  BY <1>1 DEF LogInv, LoggedAtOnset, LastReport
<1> QED  BY <1>1, <1>2 DEF LogInv

LEMMA LogInvBuild == LogInv /\ LoggingBuild => LogInv'
<1> SUFFICES ASSUME LogInv, LoggingBuild PROVE LogInv'  OBVIOUS
<1>1. LogProblems /\ problems' = problems
  BY DEF LoggingBuild, Build, BuildChanged, BuildSame, scanVars
<1>2. lastProblems' = BagToSet(problems) /\ printed' \in MessageBags
  BY <1>1, PrintedIsABag, MessageBagsAreBags DEF LogInv, LogProblems
<1>3. CASE Len(reports) < MaxReports
  <2> DEFINE n == Len(reports)
  <2>1. reports' = Append(reports, problems) /\ lines' = Append(lines, printed')
    BY <1>3 DEF LoggingBuild
  <2>2. /\ n \in Nat /\ Len(lines) = n /\ Len(reports') = n + 1 /\ Len(lines') = n + 1
        /\ reports' \in Seq(MessageBags) /\ lines' \in Seq(MessageBags)
        /\ reports' # <<>> /\ lines'[n + 1] = printed'
        /\ \A k \in 1 .. n : lines'[k] = lines[k]
    BY <1>2, <2>1 DEF LogInv, LoggedAtOnset
  <2>3. /\ \A k \in 1 .. n :
             reports'[k] = reports[k] /\ Onsets(reports', k) = Onsets(reports, k)
        /\ reports'[n + 1] = problems
        /\ Onsets(reports', n + 1) = BagToSet(problems) \ LastReport
    BY <2>1, OnsetsOfReport DEF LogInv
  <2>4. LastReport' = BagToSet(problems)
    BY <2>2, <2>3 DEF LastReport
  <2>5. printed' = [m \in Onsets(reports', n + 1) |-> problems[m]]
    BY <1>1, <1>3, <2>3 DEF LogProblems, NewProblems, LogInv
  <2> HIDE DEF n
  <2>6. ASSUME NEW k \in 1 .. (n + 1)
        PROVE  lines'[k] = [m \in Onsets(reports', k) |-> reports'[k][m]]
    <3>1. CASE k = n + 1
      BY <2>2, <2>3, <2>5, <3>1
    <3>2. CASE k # n + 1
      <4>1. k \in 1 .. n
        BY <2>2, <3>2
      <4>2. lines[k] = [m \in Onsets(reports, k) |-> reports[k][m]]
        BY <4>1 DEF LogInv, LoggedAtOnset, n
      <4> QED  BY <2>2, <2>3, <4>1, <4>2
    <3> QED  BY <3>1, <3>2
  <2>7. LoggedAtOnset'
    BY <2>2, <2>6 DEF LoggedAtOnset
  <2> QED  BY <1>1, <1>2, <2>2, <2>4, <2>7 DEF LogInv
<1>4. CASE ~(Len(reports) < MaxReports)
  BY <1>1, <1>4, LogInvSilent DEF LoggingBuild, LogInv
<1> QED  BY <1>3, <1>4

LEMMA LogInvNext == LogInv /\ [LogNext]_<<vars, logHistory>> => LogInv'
<1> SUFFICES ASSUME LogInv, [LogNext]_<<vars, logHistory>> PROVE LogInv'  OBVIOUS
<1>1. CASE LoggingBuild
  BY <1>1, LogInvBuild
<1>2. CASE Silent
  <2>1. ~Build
    BY <1>2 DEF Silent, Build, BuildChanged, BuildSame, EndPublish
  <2>2. \A r \in Reports : r \in MessageBags
    BY ProviderAssumption, MessageBagsAreBags
  <2>3. lastProblems' = lastProblems /\ problems' \in MessageBags
    BY <1>2, <2>1, <2>2 DEF Silent, Next, Provide, Stop, Scan, ScanFails, ScanReturns, Send,
       HandOff, SendCanceled, Tick, TakeTick, TakeDone, Receive, EndPublish, logVars, scanVars,
       LogInv
  <2> QED  BY <1>2, <2>3, LogInvSilent DEF Silent
<1>3. CASE UNCHANGED <<vars, logHistory>>
  BY <1>3, LogInvSilent DEF vars, LogInv
<1> QED  BY <1>1, <1>2, <1>3 DEF LogNext

\* What logProblems writes is, scan by scan, the messages that begin to be
\* reported, each as often as the scan has it: a standing problem is not logged
\* again after a failed scan, a canceled publish or a configuration that did not
\* change, and no new one is swallowed.
THEOREM ProblemsAreLoggedAtOnset == LogSpec => []LoggedAtOnset
<1>1. LogInv => LoggedAtOnset
  BY DEF LogInv
<1> QED  BY <1>1, LogInvInit, LogInvNext, PTL DEF LogSpec
=============================================================================
