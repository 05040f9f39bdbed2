-------------------------- MODULE IPResolutionProofs --------------------------
(***************************************************************************)
(* Proofs about IPResolution, for every set of addresses, interfaces and   *)
(* patterns: the types, that no unreachable address is sent to, that       *)
(* patterns match what they stand for, and that traffic goes to the server *)
(* a label of the service gives or to the addresses the README describes.  *)
(***************************************************************************)
EXTENDS IPResolution, Numbers

LEMMA UsableIsAllowed ==
  ASSUME NEW as, mode \in Modes
  PROVE  Usable(as) = as \cap Routable \cap WantedVersions
BY ResolutionAssumption DEF Usable, Allows, WantedVersions, Modes

\* What is known of the input and of the addresses on the way to the servers.
Inputs ==
  /\ mode \in Modes
  /\ guest \in GuestType
  /\ interfaces \in InterfaceSets

Addressed == ips \subseteq Routable \cap WantedVersions

LEMMA FirstAddresses == Inputs => Usable(guest.ipconfigs) \subseteq Routable \cap WantedVersions
BY UsableIsAllowed DEF Inputs

LEMMA FoundAddresses == Inputs => FromInterfaces \subseteq Routable \cap WantedVersions
BY UsableIsAllowed DEF Inputs, FromInterfaces

IInv == TypeOK /\ Inputs /\ Addressed /\ NoUnreachableServer

LEMMA TypeOfServers ==
  ASSUME ips \subseteq Addresses, guest \in GuestType
  PROVE  Servers # {}
BY DEF Servers

LEMMA ReachableServers ==
  ASSUME Addressed, guest \in GuestType
  PROVE  (Servers \ {LabelIP}) \cap Addresses \subseteq Routable \cap WantedVersions
<1>1. {FallbackHost, LabelURL} \cap Addresses = {}
  BY ResolutionAssumption
<1>2. guest.url \in {Unset, LabelURL} /\ guest.ip \in {Unset, LabelIP}
  BY DEF GuestType
<1>3. CASE guest.url # Unset
  BY <1>1, <1>2, <1>3 DEF Servers
<1>4. CASE guest.url = Unset /\ guest.ip # Unset
  BY <1>2, <1>4 DEF Servers
<1>5. CASE guest.url = Unset /\ guest.ip = Unset
  BY <1>1, <1>5 DEF Servers, Addressed
<1> QED  BY <1>3, <1>4, <1>5

LEMMA InvInit == Init => IInv
<1> SUFFICES ASSUME Init PROVE IInv  OBVIOUS
<1>1. TypeOK
  BY DEF Init, TypeOK
<1> QED  BY <1>1 DEF Init, IInv, Inputs, Addressed, NoUnreachableServer

\* What is settled is what was found or what the configuration gave.
LEMMA SettleKeeps ==
  ASSUME IInv, NEW found, found \subseteq Routable \cap WantedVersions,
         Settle(found), UNCHANGED <<input, servers>>,
         problems' \subseteq {"config", "interfaces"}
  PROVE  IInv'
<1>1. ips' \subseteq Routable \cap WantedVersions
  BY DEF Settle, IInv, Addressed
<1>2. Inputs' /\ WantedVersions' = WantedVersions
  BY DEF IInv, Inputs, input, WantedVersions
<1>3. TypeOK'
  BY <1>1, ResolutionAssumption DEF IInv, TypeOK, Settle
<1> QED  BY <1>1, <1>2, <1>3 DEF IInv, Addressed, NoUnreachableServer

LEMMA InvNext == IInv /\ [Next]_vars => IInv'
<1> SUFFICES ASSUME IInv, [Next]_vars PROVE IInv'  OBVIOUS
<1>0. UNCHANGED input /\ Inputs' /\ WantedVersions' = WantedVersions
  BY DEF IInv, Inputs, Next, vars, input, WantedVersions, ApplyConfig, ConfigFails, ResolveNothing,
     Resolve, ResolveFails, BuildServers
<1>1. CASE ApplyConfig
  <2>1. ips' \subseteq Routable \cap WantedVersions
    BY <1>1, FirstAddresses DEF IInv, ApplyConfig
  <2>2. TypeOK'
    BY <1>1, <2>1, ResolutionAssumption DEF IInv, TypeOK, ApplyConfig
  <2> QED  BY <1>0, <1>1, <2>1, <2>2 DEF IInv, ApplyConfig, Addressed, NoUnreachableServer
<1>2. CASE ConfigFails
  BY <1>0, <1>2 DEF IInv, ConfigFails, TypeOK, Addressed, NoUnreachableServer
<1>3. CASE ResolveNothing
  BY <1>0, <1>3 DEF IInv, ResolveNothing, TypeOK, Addressed, NoUnreachableServer
<1>4. CASE Resolve
  BY <1>4, SettleKeeps, FoundAddresses DEF IInv, Resolve, TypeOK
<1>5. CASE ResolveFails
  BY <1>5, SettleKeeps DEF IInv, ResolveFails, TypeOK
<1>6. CASE BuildServers
  <2>1. Servers # {} /\ (Servers \ {LabelIP}) \cap Addresses \subseteq Routable \cap WantedVersions
    BY TypeOfServers, ReachableServers DEF IInv, TypeOK, Inputs
  <2> QED  BY <1>0, <1>6, <2>1 DEF IInv, BuildServers, TypeOK, Addressed, NoUnreachableServer
<1>7. CASE UNCHANGED vars
  BY <1>0, <1>7 DEF vars, IInv, TypeOK, Addressed, NoUnreachableServer
<1> QED  BY <1>1, <1>2, <1>3, <1>4, <1>5, <1>6, <1>7 DEF Next

LEMMA Invariance == Spec => []IInv
BY InvInit, InvNext, PTL DEF Spec

\* The variables keep their types, and there are servers once they are built.
THEOREM TypeCorrectness == Spec => []TypeOK
BY Invariance, PTL DEF IInv

\* Whatever a guest is configured with and answers, no traffic is sent to an
\* address of the wrong version or one only the guest itself can reach.
THEOREM OnlyReachableServers == Spec => []NoUnreachableServer
BY Invariance, PTL DEF IInv

-----------------------------------------------------------------------------
(* Patterns: what is so of the end of a pattern and of one more character  *)
(* each time is so of all of it.                                           *)

\* The places of a value from which a character of a pattern leads to others.
Before(c, value, places) ==
  IF c = "*" THEN {j \in 0 .. Len(value) : \E k \in j .. Len(value) : k \in places}
  ELSE {j \in 0 .. Len(value) - 1 : c \in {"?", value[j + 1]} /\ j + 1 \in places}

\* What GlobParts computes for the end of a pattern.
MatchedFrom(f, pattern, value, n) ==
  f = [i \in n .. Len(pattern) |->
        IF i = Len(pattern) THEN {Len(value)}
        ELSE IF pattern[i + 1] = "*"
        THEN {j \in 0 .. Len(value) : \E k \in j .. Len(value) : k \in f[i + 1]}
        ELSE {j \in 0 .. Len(value) - 1 :
                pattern[i + 1] \in {"?", value[j + 1]} /\ j + 1 \in f[i + 1]}]

LEMMA MatchedStep ==
  ASSUME NEW f, NEW pattern, NEW value, Len(pattern) \in Nat, NEW n \in 0 .. Len(pattern),
         MatchedFrom(f, pattern, value, n)
  PROVE  /\ f[Len(pattern)] = {Len(value)}
         /\ \A i \in n .. Len(pattern) - 1 : f[i] = Before(pattern[i + 1], value, f[i + 1])
<1> DEFINE m == Len(pattern)
<1>1. \A i \in n .. m : f[i] =
        IF i = m THEN {Len(value)}
        ELSE IF pattern[i + 1] = "*"
        THEN {j \in 0 .. Len(value) : \E k \in j .. Len(value) : k \in f[i + 1]}
        ELSE {j \in 0 .. Len(value) - 1 :
                pattern[i + 1] \in {"?", value[j + 1]} /\ j + 1 \in f[i + 1]}
  BY DEF MatchedFrom
<1>2. \A i \in n .. m : f[i] =
        IF i = m THEN {Len(value)} ELSE Before(pattern[i + 1], value, f[i + 1])
  BY <1>1 DEF Before
<1>3. m \in n .. m /\ \A i \in n .. m - 1 : i \in n .. m /\ i # m
  OBVIOUS
<1> HIDE DEF m
<1>4. f[m] = {Len(value)} /\ \A i \in n .. m - 1 : f[i] = Before(pattern[i + 1], value, f[i + 1])
  BY <1>2, <1>3
<1> QED  BY <1>4 DEF m

LEMMA SomeMatched ==
  ASSUME NEW pattern, NEW value, Len(pattern) \in Nat
  PROVE  \E f : MatchedFrom(f, pattern, value, 0)
<1> DEFINE m == Len(pattern)
           last == {Len(value)}
           Body(f, i) == IF i = m THEN last ELSE Before(pattern[i + 1], value, f[i + 1])
           Table(f, n) == f = [i \in n .. m |-> Body(f, i)]
           T == {n \in 0 .. m : \E f : Table(f, n)}
<1>1. \A f, n : MatchedFrom(f, pattern, value, n) <=> Table(f, n)
  BY DEF MatchedFrom, Before
<1>2. m \in T
  <2>1. Table([i \in m .. m |-> last], m)
    OBVIOUS
  <2> HIDE DEF Table, m
  <2>2. m \in 0 .. m
    BY DEF m
  <2> QED  BY <2>1, <2>2
<1>3. ASSUME NEW n \in 0 .. m - 1, n + 1 \in T  PROVE n \in T
  <2>1. PICK g : Table(g, n + 1)
    BY <1>3
  <2> DEFINE first == Before(pattern[n + 1], value, g[n + 1])
             f == [i \in n .. m |-> IF i = n THEN first ELSE g[i]]
  <2> HIDE DEF last
  <2>2. ASSUME NEW i \in n .. m  PROVE f[i] = Body(f, i)
    <3>1. CASE i = n
      <4>1. n + 1 \in n .. m /\ n + 1 # n /\ i # m
        BY <1>3, <3>1
      <4>2. f[n + 1] = g[n + 1]
        BY <4>1
      <4>3. f[i] = first
        BY <3>1
      <4> QED  BY <3>1, <4>1, <4>2, <4>3
    <3>2. CASE i # n
      <4>1. i \in n + 1 .. m /\ f[i] = g[i]
        BY <3>2
      <4>2. CASE i = m
        BY <2>1, <4>1, <4>2
      <4>3. CASE i # m
        <5>1. i + 1 \in n .. m /\ i + 1 # n
          BY <4>1, <4>3
        <5>2. f[i + 1] = g[i + 1]
          BY <5>1
        <5>3. g[i] = Before(pattern[i + 1], value, g[i + 1])
          BY <2>1, <4>1, <4>3
        <5> HIDE DEF f
        <5> QED  BY <4>1, <4>3, <5>2, <5>3
      <4> QED  BY <4>2, <4>3
    <3> QED  BY <3>1, <3>2
  <2>3. Table(f, n)
    <3>1. f = [i \in n .. m |-> f[i]]
      OBVIOUS
    <3> HIDE DEF f
    <3>2. [i \in n .. m |-> f[i]] = [i \in n .. m |-> Body(f, i)]
      BY <2>2
    <3> QED  BY <3>1, <3>2
  <2> HIDE DEF Table, f
  <2>4. n \in 0 .. m
    OBVIOUS
  <2> QED  BY <2>3, <2>4
<1> HIDE DEF T
<1>4. 0 \in T
  BY <1>2, <1>3, FromTheEnd
<1> QED  BY <1>1, <1>4 DEF T

\* A way to cut the value from a place on for what is left of the pattern.
IsCut(cut, pattern, value, i, j) ==
  /\ cut \in [i .. Len(pattern) -> 0 .. Len(value)]
  /\ cut[i] = j
  /\ cut[Len(pattern)] = Len(value)
  /\ \A n \in i + 1 .. Len(pattern) :
       IF pattern[n] = "*" THEN cut[n - 1] <= cut[n]
       ELSE /\ cut[n] = cut[n - 1] + 1
            /\ pattern[n] \in {"?", value[cut[n]]}

CutsFrom(pattern, value, i) == {j \in 0 .. Len(value) : \E cut : IsCut(cut, pattern, value, i, j)}

LEMMA LastCut ==
  ASSUME NEW pattern, NEW value, Len(pattern) \in Nat, Len(value) \in Nat
  PROVE  CutsFrom(pattern, value, Len(pattern)) = {Len(value)}
<1> DEFINE m == Len(pattern)
           l == Len(value)
           cut == [n \in m .. m |-> l]
<1>1. IsCut(cut, pattern, value, m, l)
  BY DEF IsCut
<1>2. \A j, c : IsCut(c, pattern, value, m, j) => j = l
  BY DEF IsCut
<1> HIDE DEF cut
<1> QED  BY <1>1, <1>2 DEF CutsFrom

LEMMA OneMoreCut ==
  ASSUME NEW pattern, NEW value, Len(pattern) \in Nat, Len(value) \in Nat,
         NEW i \in 0 .. Len(pattern) - 1
  PROVE  CutsFrom(pattern, value, i)
           = Before(pattern[i + 1], value, CutsFrom(pattern, value, i + 1))
<1> DEFINE m == Len(pattern)
           l == Len(value)
           c == pattern[i + 1]
           rest == CutsFrom(pattern, value, i + 1)
           Leads(j, k) == IF c = "*" THEN j <= k ELSE k = j + 1 /\ c \in {"?", value[k]}
<1>1. ASSUME NEW j \in 0 .. l, NEW k \in rest, Leads(j, k)
      PROVE  j \in CutsFrom(pattern, value, i)
  <2>1. PICK t : IsCut(t, pattern, value, i + 1, k)
    BY DEF CutsFrom
  <2> DEFINE cut == [n \in i .. m |-> IF n = i THEN j ELSE t[n]]
  <2>2. t \in [i + 1 .. m -> 0 .. l] /\ t[i + 1] = k /\ t[m] = l
    BY <2>1 DEF IsCut
  <2>3. cut \in [i .. m -> 0 .. l]
    <3>1. \A n \in i .. m : n # i => n \in i + 1 .. m
      OBVIOUS
    <3> QED  BY <2>2, <3>1
  <2>4. cut[i] = j /\ \A n \in i + 1 .. m : cut[n] = t[n]
    OBVIOUS
  <2> HIDE DEF cut
  <2>5. cut[m] = l
    BY <2>2, <2>4
  <2>6. ASSUME NEW n \in i + 1 .. m
        PROVE  IF pattern[n] = "*" THEN cut[n - 1] <= cut[n]
               ELSE cut[n] = cut[n - 1] + 1 /\ pattern[n] \in {"?", value[cut[n]]}
    <3>1. CASE n = i + 1
      <4>1. cut[n] = k /\ cut[n - 1] = j /\ pattern[n] = c
        BY <2>2, <2>4, <3>1
      <4> HIDE DEF c
      <4> QED  BY <1>1, <4>1
    <3>2. CASE n # i + 1
      <4>1. n \in (i + 1) + 1 .. m /\ cut[n] = t[n] /\ cut[n - 1] = t[n - 1]
        BY <2>4, <3>2
      <4> QED  BY <2>1, <4>1 DEF IsCut
    <3> QED  BY <3>1, <3>2
  <2>7. IsCut(cut, pattern, value, i, j)
    BY <2>3, <2>4, <2>5, <2>6 DEF IsCut
  <2> QED  BY <2>7 DEF CutsFrom
<1>2. ASSUME NEW j \in CutsFrom(pattern, value, i)
      PROVE  j \in 0 .. l /\ \E k \in rest : k \in 0 .. l /\ Leads(j, k)
  <2>1. PICK cut : IsCut(cut, pattern, value, i, j)
    BY DEF CutsFrom
  <2> DEFINE k == cut[i + 1]
             t == [n \in i + 1 .. m |-> cut[n]]
  <2>2. /\ cut \in [i .. m -> 0 .. l] /\ cut[i] = j /\ cut[m] = l
        /\ \A n \in i + 1 .. m :
             IF pattern[n] = "*" THEN cut[n - 1] <= cut[n]
             ELSE cut[n] = cut[n - 1] + 1 /\ pattern[n] \in {"?", value[cut[n]]}
    BY <2>1 DEF IsCut
  <2>3. i + 1 \in i + 1 .. m /\ (i + 1) - 1 = i /\ i + 1 .. m \subseteq i .. m
    OBVIOUS
  <2>4. Leads(j, k) /\ k \in 0 .. l
    BY <2>2, <2>3
  <2>5. t \in [i + 1 .. m -> 0 .. l] /\ t[i + 1] = k /\ t[m] = l
    BY <2>2, <2>3
  <2>6. ASSUME NEW n \in (i + 1) + 1 .. m
        PROVE  IF pattern[n] = "*" THEN t[n - 1] <= t[n]
               ELSE t[n] = t[n - 1] + 1 /\ pattern[n] \in {"?", value[t[n]]}
    <3>1. n \in i + 1 .. m /\ t[n] = cut[n] /\ t[n - 1] = cut[n - 1]
      OBVIOUS
    <3> HIDE DEF t
    <3> QED  BY <2>2, <3>1
  <2> HIDE DEF t
  <2>7. IsCut(t, pattern, value, i + 1, k)
    BY <2>5, <2>6 DEF IsCut
  <2>8. k \in rest
    BY <2>4, <2>7 DEF CutsFrom
  <2>9. j \in 0 .. l
    BY DEF CutsFrom
  <2> QED  BY <2>4, <2>8, <2>9
<1>3. rest \subseteq 0 .. l
  BY DEF CutsFrom
<1> HIDE DEF c, rest
<1>4. ASSUME NEW j  PROVE j \in CutsFrom(pattern, value, i) <=> j \in Before(c, value, rest)
  <2>1. CASE c = "*"
    <3>1. j \in Before(c, value, rest) <=> j \in 0 .. l /\ \E k \in rest : k \in j .. l
      BY <2>1 DEF Before
    <3>2. j \in CutsFrom(pattern, value, i) <=> j \in 0 .. l /\ \E k \in rest : j <= k /\ k \in 0 .. l
      BY <1>1, <1>2, <1>3, <2>1
    <3> QED  BY <3>1, <3>2
  <2>2. CASE c # "*"
    <3>1. j \in Before(c, value, rest) <=>
            j \in 0 .. l - 1 /\ c \in {"?", value[j + 1]} /\ j + 1 \in rest
      BY <2>2 DEF Before
    <3>2. j \in CutsFrom(pattern, value, i) <=>
            j \in 0 .. l /\ j + 1 \in rest /\ c \in {"?", value[j + 1]} /\ j + 1 \in 0 .. l
      BY <1>1, <1>2, <1>3, <2>2
    <3> QED  BY <3>1, <3>2
  <2> QED  BY <2>1, <2>2
<1> QED  BY <1>4 DEF c, rest

\* matchGlobParts finds what a pattern stands for.
LEMMA PartsMean ==
  ASSUME NEW pattern, NEW value, Len(pattern) \in Nat, Len(value) \in Nat
  PROVE  GlobParts(pattern, value) <=> Denotes(pattern, value)
<1> DEFINE m == Len(pattern)
           f == CHOOSE g : MatchedFrom(g, pattern, value, 0)
<1>1. GlobParts(pattern, value) <=> 0 \in f[0]
  BY DEF GlobParts, MatchedFrom
<1>2. MatchedFrom(f, pattern, value, 0)
  BY SomeMatched
<1> HIDE DEF f
<1>3. /\ f[m] = {Len(value)}
      /\ \A i \in 0 .. m - 1 : f[i] = Before(pattern[i + 1], value, f[i + 1])
  <2>1. 0 \in 0 .. m
    OBVIOUS
  <2> QED  BY <1>2, <2>1, MatchedStep
<1> DEFINE T == {i \in 0 .. m : f[i] = CutsFrom(pattern, value, i)}
<1>4. m \in T
  <2>1. f[m] = CutsFrom(pattern, value, m)
    BY <1>3, LastCut
  <2> QED  BY <2>1
<1>5. ASSUME NEW n \in 0 .. m - 1, n + 1 \in T  PROVE n \in T
  <2>1. f[n + 1] = CutsFrom(pattern, value, n + 1)
    BY <1>5
  <2>2. f[n] = CutsFrom(pattern, value, n)
    BY <1>3, <2>1, OneMoreCut
  <2> QED  BY <2>2
<1>6. 0 \in T
  <2> HIDE DEF T
  <2> QED  BY <1>4, <1>5, FromTheEnd
<1>7. 0 \in CutsFrom(pattern, value, 0) <=> Denotes(pattern, value)
  BY DEF CutsFrom, IsCut, Denotes
<1> QED  BY <1>1, <1>6, <1>7

LEMMA NameItself ==
  ASSUME NEW name, Len(name) \in Nat
  PROVE  Denotes(name, name)
<1> DEFINE cut == [i \in 0 .. Len(name) |-> i]
<1>1. cut \in [0 .. Len(name) -> 0 .. Len(name)] /\ cut[0] = 0 /\ cut[Len(name)] = Len(name)
  OBVIOUS
<1>2. \A i \in 1 .. Len(name) : cut[i] = i /\ cut[i - 1] = i - 1
  OBVIOUS
<1> HIDE DEF cut
<1> QED  BY <1>1, <1>2 DEF Denotes

LEMMA MatchesMean ==
  ASSUME NEW pattern, NEW value, IsText(pattern), IsText(value)
  PROVE  Matches(pattern, value) <=> (pattern # <<>> /\ Denotes(pattern, value))
<1>1. Len(pattern) \in Nat /\ Len(value) \in Nat
  BY DEF IsText
<1> QED  BY <1>1, PartsMean, NameItself DEF Matches

LEMMA InputPatternsMean == Inputs => PatternsMean
<1> SUFFICES ASSUME Inputs, NEW i \in interfaces, NEW pat \in guest.patterns \cup DefaultInterfaces
             PROVE  Matches(pat, i.name) <=> (pat # <<>> /\ Denotes(pat, i.name))
  BY DEF PatternsMean
<1>1. IsText(i.name) /\ IsText(pat)
  BY ResolutionAssumption DEF Inputs, GuestType
<1> QED  BY <1>1, MatchesMean

\* Whatever the patterns and the names of interfaces are, matchGlob finds that
\* a name matches when it is one the pattern stands for (glob.go).
THEOREM PatternsMatchTheirMeaning == Spec => []PatternsMean
BY Invariance, InputPatternsMean, PTL DEF IInv

-----------------------------------------------------------------------------
(* Where traffic goes *)

\* What the addresses are at each step, once and for all.
Found == IF "interfaces" \in problems THEN {} ELSE FromInterfaces

SettledOn ==
  IF Found # {} THEN Found
  ELSE IF guest.patterns # {} THEN {} ELSE Usable(guest.ipconfigs)

StepByStep ==
  /\ pc = "listed" => problems = {}
  /\ pc = "configured" => problems = {} /\ ips = Usable(guest.ipconfigs)
  /\ pc \in {"resolved", "built"} /\ Resolves => ips = SettledOn
  /\ pc = "built" => servers = Servers

LEMMA StepsInit == Init => StepByStep
BY DEF Init, StepByStep

LEMMA StepsNext == StepByStep /\ [Next]_vars => StepByStep'
<1> SUFFICES ASSUME StepByStep, [Next]_vars PROVE StepByStep'  OBVIOUS
<1>0. UNCHANGED input
  BY DEF Next, vars, ApplyConfig, ConfigFails, ResolveNothing, Resolve, ResolveFails, BuildServers
<1>1. /\ FromInterfaces' = FromInterfaces
      /\ Usable(guest.ipconfigs)' = Usable(guest.ipconfigs)
      /\ Resolves' = Resolves
      /\ guest' = guest
  BY <1>0 DEF input, FromInterfaces, Usable, Allows, Allowed, Patterns, Resolves
<1>2. CASE ApplyConfig
  BY <1>1, <1>2 DEF ApplyConfig, StepByStep
<1>3. CASE ConfigFails
  BY <1>3 DEF ConfigFails, StepByStep
<1>4. CASE ResolveNothing
  BY <1>1, <1>4 DEF ResolveNothing, StepByStep
<1>5. CASE Resolve
  <2>1. ips' = SettledOn'
    BY <1>1, <1>5 DEF Resolve, Settle, SettledOn, Found, StepByStep
  <2> QED  BY <1>5, <2>1 DEF Resolve, Settle, StepByStep
<1>6. CASE ResolveFails
  <2>1. ips' = SettledOn'
    BY <1>1, <1>6 DEF ResolveFails, Settle, SettledOn, Found, StepByStep
  <2> QED  BY <1>6, <2>1 DEF ResolveFails, Settle, StepByStep
<1>7. CASE BuildServers
  <2>1. SettledOn' = SettledOn /\ Servers' = Servers
    BY <1>1, <1>7 DEF BuildServers, SettledOn, Found, Servers
  <2> QED  BY <1>1, <1>7, <2>1 DEF BuildServers, StepByStep
<1>8. CASE UNCHANGED vars
  <2>1. SettledOn' = SettledOn /\ Servers' = Servers
    BY <1>1, <1>8 DEF vars, SettledOn, Found, Servers
  <2> QED  BY <1>1, <1>8, <2>1 DEF vars, StepByStep
<1> QED  BY <1>2, <1>3, <1>4, <1>5, <1>6, <1>7, <1>8 DEF Next

LEMMA FoundAsDocumented ==
  ASSUME Inputs
  PROVE  FromInterfaces = {a \in Routable \cap WantedVersions : \E i \in Considered : a \in i.addresses}
<1>1. ASSUME NEW i \in interfaces PROVE Allowed(i.name) <=> i \in Considered
  <2>1. \A pat \in guest.patterns \cup DefaultInterfaces :
          Matches(pat, i.name) <=> Denotes(pat, i.name)
    BY InputPatternsMean, ResolutionAssumption DEF PatternsMean, Inputs, GuestType
  <2> QED  BY <2>1 DEF Allowed, Patterns, Considered
<1>2. {j \in interfaces : Allowed(j.name)} = Considered
  BY <1>1 DEF Considered
<1> QED  BY <1>2, UsableIsAllowed DEF FromInterfaces, Inputs

LEMMA SettledAsDocumented ==
  ASSUME Inputs
  PROVE  Documented = IF SettledOn # {} THEN SettledOn ELSE {FallbackHost}
<1>1. Usable(guest.ipconfigs) = guest.ipconfigs \cap Routable \cap WantedVersions
  BY UsableIsAllowed DEF Inputs
<1> QED  BY <1>1, FoundAsDocumented DEF Documented, SettledOn, Found

\* Traffic goes to the server.url or server.ip that a label of the service
\* gives, and otherwise to the addresses the README describes, for every guest,
\* every set of interfaces and any patterns (applyConfig, ResolveIPs, buildHTTPServers,
\* backendAddresses).
THEOREM ServedAsDocumented == Spec => []ServersAsDocumented
<1>1. IInv /\ StepByStep => ServersAsDocumented
  <2> SUFFICES ASSUME IInv, StepByStep, pc = "built", Resolves
               PROVE  servers = IF guest.url # Unset THEN {LabelURL}
                                ELSE IF guest.ip # Unset THEN {LabelIP}
                                ELSE Documented
    BY DEF ServersAsDocumented
  <2>1. Inputs /\ guest.url \in {Unset, LabelURL} /\ guest.ip \in {Unset, LabelIP}
    BY DEF IInv, Inputs, GuestType
  <2>2. servers = Servers /\ ips = SettledOn
    BY DEF StepByStep
  <2> QED  BY <2>1, <2>2, SettledAsDocumented DEF Servers
<1>2. Spec => []StepByStep
  BY StepsInit, StepsNext, PTL DEF Spec
<1> QED  BY <1>1, <1>2, Invariance, PTL
=============================================================================
