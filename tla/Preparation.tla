----------------------------- MODULE Preparation -----------------------------
(***************************************************************************)
(* How the notes of a guest become its labels and the names of its objects *)
(* (traefik/prepare.go, generated_names.go, traefik/labels): labels are    *)
(* read from the first traefik fence or from the whole note, then the      *)
(* default name is settled, then each label is taken to its place in the   *)
(* label set, and the shorthand ones move when there is a name label.      *)
(*                                                                         *)
(* A line is a fence or a sequence of words.  A word has the prefix        *)
(* "traefik", "pve" or none, the path that follows and, when there is an   *)
(* "=" in it, a value.  A label whose value goes on after the first word   *)
(* has More as the last piece of its value.                                *)
(***************************************************************************)
EXTENDS Objects

CONSTANTS
  Inputs,         \* the notes and the name of a guest, and the metadataMode
  Fallback,       \* workloadFallbackName: the kind and the id
  KeyOrder,       \* the keys of labels in the order of their texts
  NoValue, More

Modes == {"fenced", "loose", "auto"}
Hash == <<"#">>

IsFence(line) == line.fence # "no"

\* What a fragment says: the first "=" ends the key, and a key of several
\* words, or without anything after its prefix, is invalid.
KeyOf(fragment) ==
  [prefix |-> IF fragment[1].prefix = "pve" THEN "pve" ELSE "traefik", path |-> fragment[1].path]
ValueOf(fragment) ==
  fragment[1].value \o IF Len(fragment) > 1 THEN <<More>> ELSE <<>>
HasValue(fragment) == \E i \in DOMAIN fragment : fragment[i].value # NoValue
HasValidKey(fragment) == fragment[1].value # NoValue /\ fragment[1].path # <<>>

IsList(s) == s \in Seq(Range(s))

\* The index of a domain is a number.
IsWord(word) ==
  /\ IsList(word.path)
  /\ \A i \in DOMAIN word.path :
       LET segment == word.path[i] IN
       IsDomainIndex(segment) => segment = <<"domains[", segment[2], "]">> /\ segment[2] \in Nat
  /\ word.value # NoValue => IsList(word.value)

IsLine(text) ==
  /\ text.fence \in {"no", "traefik", "other"}
  /\ IsFence(text) => text.words = <<>>
  /\ IsList(text.words) /\ \A i \in DOMAIN text.words : IsWord(text.words[i])

ASSUME PreparationAssumption ==
  /\ Fallback \in Seq(NamePieces) /\ Len(Fallback) \in 1 .. MaxNameLength
  /\ IsInjective(KeyOrder)
  /\ \A input \in Inputs :
       /\ input.mode \in Modes
       /\ IsList(input.name)
       /\ IsList(input.note) /\ \A i \in DOMAIN input.note : IsLine(input.note[i])

VARIABLES
  note, mode, guestName,  \* the guest's notes and name, and the metadataMode
  pc,
  line,                   \* the next line of the note
  fence,                  \* the fence the line is in
  block,                  \* the lines of the traefik fence, those not yet read
  seenTraefikFence,
  starts,                 \* where labels start in a loose line, those not yet read
  extracted,              \* the labels found, the line of each, what was reported
  base,                   \* the name of the objects of the guest without a name label
  labels,                 \* the labels to parse
  todo,                   \* their keys still to be parsed
  assignments,            \* the labels that were parsed, in order
  set,                    \* the label set
  rejected                \* the keys reported as invalid or unsupported

given == <<note, mode, guestName>>
scan  == <<line, fence, block, seenTraefikFence, starts>>
parse == <<todo, assignments, set, rejected>>
vars  == <<given, pc, scan, extracted, base, labels, parse>>

Init ==
  /\ \E input \in Inputs :
       /\ note = input.note
       /\ mode = input.mode
       /\ guestName = input.name
  /\ pc = IF mode = "loose" THEN "loose" ELSE "fenced"
  /\ line = 1
  /\ fence = "none"
  /\ block = <<>>
  /\ seenTraefikFence = FALSE
  /\ starts = {}
  /\ extracted = [labels |-> Empty, sources |-> Empty, diagnostics |-> {}]
  /\ base = <<>>
  /\ labels = Empty
  /\ todo = {}
  /\ assignments = <<>>
  /\ set = EmptySet
  /\ rejected = {}

-----------------------------------------------------------------------------
(* Reading a fragment: a line of a fence, or the part of a line from one   *)
(* label to the next                                                       *)

Report(result, number, message) ==
  [result EXCEPT !.diagnostics = @ \cup {[line |-> number, message |-> message]}]

StoreWithoutSource(result, number, key, value) ==
  [result EXCEPT !.labels = With(@, key, value)]

\* storeLabel
Store(result, number, key, value) ==
  LET known == IF key \in DOMAIN result.labels THEN Report(result, number, "duplicate")
               ELSE result IN
  [known EXCEPT !.labels = With(@, key, value), !.sources = With(@, key, number)]

SkipWithoutEquals(result, number, fragment) ==
  IF ~HasValidKey(fragment) THEN result
  ELSE Store(result, number, KeyOf(fragment), ValueOf(fragment))

ReadFragment(result, number, fragment) ==
  IF ~HasValue(fragment) THEN Report(result, number, "missing '='")
  ELSE IF ~HasValidKey(fragment) THEN Report(result, number, "invalid label key")
  ELSE Store(result, number, KeyOf(fragment), ValueOf(fragment))

\* Blank lines and comments of a fence are left out.
IsLeftOut(words) ==
  words = <<>> \/ (words[1].prefix = "" /\ words[1].path # <<>> /\ words[1].path[1] = Hash)

ReadFencedLine(result, number) ==
  IF IsLeftOut(note[number].words) THEN result
  ELSE ReadFragment(result, number, note[number].words)

\* labelStarts: a label starts at the start of a line or after a blank.
Starts(words) == {i \in DOMAIN words : words[i].prefix # ""}

FragmentFrom(words, start) ==
  LET later == {i \in Starts(words) : i > start} IN
  SubSeq(words, start, IF later = {} THEN Len(words) ELSE Min(later) - 1)

-----------------------------------------------------------------------------
(* Extract, line by line                                                   *)

Line == note[line]

OpenFence ==
  /\ pc = "fenced" /\ line <= Len(note)
  /\ IsFence(Line) /\ fence = "none"
  /\ fence' = Line.fence
  /\ seenTraefikFence' = (seenTraefikFence \/ Line.fence = "traefik")
  /\ line' = line + 1
  /\ UNCHANGED <<given, pc, block, starts, extracted, base, labels, parse>>

\* Whatever follows the marker, a fence closes a fence.
CloseOtherFence ==
  /\ pc = "fenced" /\ line <= Len(note)
  /\ IsFence(Line) /\ fence = "other"
  /\ fence' = "none"
  /\ line' = line + 1
  /\ UNCHANGED <<given, pc, block, seenTraefikFence, starts, extracted, base, labels, parse>>

CloseAndGoOn ==
  /\ pc = "fenced" /\ line <= Len(note)
  /\ IsFence(Line) /\ fence = "traefik"
  /\ fence' = "none"
  /\ line' = line + 1
  /\ UNCHANGED <<given, pc, block, seenTraefikFence, starts, extracted, base, labels, parse>>

\* The rest of the note is not read.
CloseTraefikFence ==
  /\ pc = "fenced" /\ line <= Len(note)
  /\ IsFence(Line) /\ fence = "traefik"
  /\ pc' = "block"
  /\ UNCHANGED <<given, scan, extracted, base, labels, parse>>

TakeLine ==
  /\ pc = "fenced" /\ line <= Len(note)
  /\ ~IsFence(Line)
  /\ block' = IF fence = "traefik" THEN Append(block, line) ELSE block
  /\ line' = line + 1
  /\ UNCHANGED <<given, pc, fence, seenTraefikFence, starts, extracted, base, labels, parse>>

\* The end of the note closes a traefik fence, and the line that opened it is
\* reported.
EndInTraefikFence ==
  /\ pc = "fenced" /\ line > Len(note) /\ fence = "traefik"
  /\ extracted' = Report(extracted, Len(note) - Len(block), "unterminated")
  /\ pc' = "block"
  /\ UNCHANGED <<given, scan, base, labels, parse>>

\* Without a traefik fence, auto reads the note again for loose labels.
EndFenced ==
  /\ pc = "fenced" /\ line > Len(note) /\ fence # "traefik"
  /\ IF mode = "auto" /\ ~seenTraefikFence THEN pc' = "loose" /\ line' = 1
     ELSE pc' = "names" /\ line' = line
  /\ UNCHANGED <<given, fence, block, seenTraefikFence, starts, extracted, base, labels, parse>>

\* extractFencedBlock
ReadBlockLine ==
  /\ pc = "block" /\ block # <<>>
  /\ extracted' = ReadFencedLine(extracted, Head(block))
  /\ block' = Tail(block)
  /\ UNCHANGED <<given, pc, line, fence, seenTraefikFence, starts, base, labels, parse>>

EndBlock ==
  /\ pc = "block" /\ block = <<>>
  /\ pc' = "names"
  /\ UNCHANGED <<given, scan, extracted, base, labels, parse>>

\* extractLooseLine
BeginLooseLine ==
  /\ pc = "loose" /\ line <= Len(note)
  /\ starts' = Starts(Line.words)
  /\ pc' = "line"
  /\ UNCHANGED <<given, line, fence, block, seenTraefikFence, extracted, base, labels, parse>>

ReadLooseFragment ==
  /\ pc = "line"
  /\ \E start \in starts :
       /\ \A later \in starts : start <= later
       /\ extracted' = ReadFragment(extracted, line, FragmentFrom(Line.words, start))
       /\ starts' = starts \ {start}
  /\ UNCHANGED <<given, pc, line, fence, block, seenTraefikFence, base, labels, parse>>

EndLooseLine ==
  /\ pc = "line" /\ starts = {}
  /\ line' = line + 1
  /\ pc' = "loose"
  /\ UNCHANGED <<given, fence, block, seenTraefikFence, starts, extracted, base, labels, parse>>

EndLoose ==
  /\ pc = "loose" /\ line > Len(note)
  /\ pc' = "names"
  /\ UNCHANGED <<given, scan, extracted, base, labels, parse>>

-----------------------------------------------------------------------------
(* The default name                                                        *)

GeneratedName(name) == IF Normalized(name) = <<>> THEN Fallback ELSE Normalized(name)

NameKey == [prefix |-> "traefik", path |-> << <<"name">> >>]

\* labelsForGeneratedNames: a name label that names nothing is dropped.
LabelsForGeneratedNames(raw) ==
  IF NameKey \notin DOMAIN raw THEN raw
  ELSE IF Normalized(raw[NameKey]) = <<>> THEN [k \in DOMAIN raw \ {NameKey} |-> raw[k]]
  ELSE [raw EXCEPT ![NameKey] = Normalized(@)]

\* labelSegments: only the labels of Traefik are parsed.
KeysToParse(raw) == {key \in DOMAIN raw : key.prefix = "traefik"}

\* sortedKeys
FirstKey(keys) == Head(SelectSeq(KeyOrder, LAMBDA key : key \in keys))

GenerateNames ==
  /\ pc = "names"
  /\ base' = GeneratedName(guestName)
  /\ labels' = LabelsForGeneratedNames(extracted.labels)
  /\ todo' = KeysToParse(labels')
  /\ pc' = "parse"
  /\ UNCHANGED <<given, scan, extracted, assignments, set, rejected>>

-----------------------------------------------------------------------------
(* ParseWithSources, label by label                                        *)

ParseLabel ==
  /\ pc = "parse"
  /\ \E key \in todo :
       /\ key = FirstKey(todo)
       /\ LET observed == [set EXCEPT !.marks = @ \cup MarksOf(key.path)]
              said == AssignmentsOf(key.path, labels[key], base) IN
          IF said = {} THEN
            /\ rejected' = rejected \cup {key}
            /\ set' = observed
            /\ UNCHANGED assignments
          ELSE \E a \in said :
            /\ assignments' = Append(assignments, a)
            /\ set' = Indexed(observed, a)
            /\ UNCHANGED rejected
       /\ todo' = todo \ {key}
  /\ UNCHANGED <<given, pc, scan, extracted, base, labels>>

\* applyNameOverride
ApplyNameOverride ==
  /\ pc = "parse" /\ todo = {}
  /\ assignments' = AfterNameOverride(assignments, set, base)
  /\ set' = IF assignments' = assignments THEN set ELSE Rebuilt(assignments', set.marks)
  /\ pc' = "done"
  /\ UNCHANGED <<given, scan, extracted, base, labels, todo, rejected>>

Next ==
  \/ OpenFence \/ CloseOtherFence \/ CloseTraefikFence \/ TakeLine
  \/ EndInTraefikFence \/ EndFenced \/ ReadBlockLine \/ EndBlock
  \/ BeginLooseLine \/ ReadLooseFragment \/ EndLooseLine \/ EndLoose
  \/ GenerateNames
  \/ ParseLabel \/ ApplyNameOverride

Spec == Init /\ [][Next]_vars
-----------------------------------------------------------------------------
(* Properties *)

\* The variables have their types: what was found is of the note, and what
\* was parsed is of the labels found.
TypeOK ==
  /\ pc \in {"fenced", "block", "loose", "line", "names", "parse", "done"}
  /\ line \in 1 .. Len(note) + 1
  /\ fence \in {"none", "other", "traefik"}
  /\ seenTraefikFence \in BOOLEAN
  /\ fence = "traefik" \/ block # <<>> => seenTraefikFence
  /\ block \in Seq(1 .. line - 1)
  /\ pc = "line" => line <= Len(note) /\ starts \subseteq Starts(Line.words)
  /\ \A key \in DOMAIN extracted.labels :
       /\ key.prefix \in {"traefik", "pve"} /\ key = [prefix |-> key.prefix, path |-> key.path]
       /\ IsList(key.path) /\ IsList(extracted.labels[key])
  /\ DOMAIN extracted.sources = DOMAIN extracted.labels
  /\ DOMAIN labels \subseteq DOMAIN extracted.labels
  /\ todo \cup rejected \subseteq DOMAIN labels

Done == pc = "done"

\* What a reader of the README expects of a note.  A fence is opened by every
\* other marker.  The lines up to the next marker are those of the fence.
Markers(n) == {i \in 1 .. n : IsFence(note[i])}
TraefikOpenings ==
  {i \in DOMAIN note : note[i].fence = "traefik" /\ Cardinality(Markers(i - 1)) % 2 = 0}
FirstFence == Min(TraefikOpenings)
FencedLines ==
  {i \in DOMAIN note : i > FirstFence /\ \A j \in FirstFence + 1 .. i : ~IsFence(note[j])}

ReadsFence == mode = "fenced" \/ (mode = "auto" /\ TraefikOpenings # {})

\* What is to be read: lines of the first fence, or the text between starts.
Fragments ==
  IF ReadsFence THEN
    IF TraefikOpenings = {} THEN {}
    ELSE {[line |-> i, start |-> 1, words |-> note[i].words] :
            i \in {j \in FencedLines : ~IsLeftOut(note[j].words)}}
  ELSE UNION {{[line |-> i, start |-> k, words |-> FragmentFrom(note[i].words, k)] :
                 k \in Starts(note[i].words)} : i \in DOMAIN note}

IsLabel(f) == HasValue(f.words) /\ HasValidKey(f.words)
Later(f, g) == g.line > f.line \/ (g.line = f.line /\ g.start > f.start)

\* README.md:72 and 127-130: the labels of a guest are those of the first
\* traefik fence of its note, or of the whole note in loose mode and in auto
\* mode when there is no such fence; of several with one key, the last.
LabelsOfTheNote ==
  Done =>
    LET last == {f \in Fragments : IsLabel(f) /\ ~\E g \in Fragments :
                   IsLabel(g) /\ KeyOf(g.words) = KeyOf(f.words) /\ Later(f, g)} IN
    /\ DOMAIN extracted.labels = {KeyOf(f.words) : f \in last}
    /\ \A f \in last : /\ extracted.labels[KeyOf(f.words)] = ValueOf(f.words)
                       /\ extracted.sources[KeyOf(f.words)] = f.line

\* The name that the objects of the guest are to have by default.
ExpectedName ==
  IF NameKey \in DOMAIN extracted.labels /\ Normalized(extracted.labels[NameKey]) # <<>>
  THEN Normalized(extracted.labels[NameKey])
  ELSE GeneratedName(guestName)

\* The labels that are valid, as what they say under that name.
Valid == UNION {AssignmentsOf(k.path, labels[k], ExpectedName) :
                  k \in {key \in DOMAIN labels : key.prefix = "traefik"}}

\* No label is lost without a word: a piece of text that is read is reported,
\* or it is overwritten by a later one that is reported, or it is rejected, or
\* what it says is among the assignments.  Only pve labels, and a name that
\* names nothing, are no part of this.
NothingLostSilently ==
  Done => \A f \in Fragments :
    LET key == KeyOf(f.words)
        later == {g \in Fragments : IsLabel(g) /\ KeyOf(g.words) = key /\ Later(f, g)} IN
    IF ~IsLabel(f)
    THEN \E d \in extracted.diagnostics : d.line = f.line /\ d.message # "duplicate"
    ELSE IF later # {}
    THEN \A g \in later : [line |-> g.line, message |-> "duplicate"] \in extracted.diagnostics
    ELSE \/ key.prefix = "pve"
         \/ key \in rejected
         \/ key = NameKey /\ key \notin DOMAIN labels
         \/ Range(assignments) \cap AssignmentsOf(key.path, labels[key], ExpectedName) # {}

\* README.md:97 and set_test.go:48,70,113: the label set is what the valid
\* labels say with the final name as the default name, as if it had been that
\* from the start: an explicit label wins over a shorthand one in whatever
\* order they come, no object is left under the name that was overridden
\* unless an explicit label names it, and the builder looks for the shorthand
\* ones under the name where they are.
ObjectsAsLabelled ==
  Done => LET valid == Valid IN
    /\ DefaultObjectName(set, base) = ExpectedName
    /\ DOMAIN set.values = UNION {Places(a.target) : a \in valid}
    /\ \A p \in DOMAIN set.values :
         LET here == {a \in valid : p \in Places(a.target)}
             best == {a \in here : \A b \in here : b.origin <= a.origin} IN
         set.values[p].value \in {a.value : a \in best}
    /\ DOMAIN set.objects = {ObjectOf(a.target) : a \in {b \in valid : ~IsRoot(b.target)}}
    /\ \A o \in DOMAIN set.objects :
         set.objects[o] <=> \E a \in valid : ObjectOf(a.target) = o /\ a.origin = Explicit

\* The configuration builder takes the label set as BuilderAssumption of
\* ConfigBuilder says, so that it gets to every object that a label names,
\* whatever was rejected or renamed on the way.
SetFitsBuilder ==
  Done => WellFormed(set, base) /\ DefaultObjectName(set, base) \in Seq(NamePieces) \ {<<>>}

\* What a label set gives its guest when no other guest is there.
NamesOf(s, protocol, collection) ==
  IF ExplicitNames(s, protocol, collection) # {} THEN ExplicitNames(s, protocol, collection)
  ELSE IF <<protocol, collection>> \in s.marks THEN {}
  ELSE {DefaultObjectName(s, base)}

Alone(s) ==
  [p \in ProtocolsOf(s) |->
     LET named(collection) == {Object(p, collection, n) : n \in NamesOf(s, p, collection)}
         rs == named("routers")
         ss == named("services")
         hosts == {base} IN
     IF rs = {} \/ ss = {} THEN <<>>
     ELSE << [o \in rs |-> Router(s, o, Unset)],
             [o \in ss |-> Service(s, o, hosts)],
             {o \in ss : InsecureSkipVerify(s, o) /\ Service(s, o, hosts).serversTransport = Unset},
             [n \in ExplicitNames(s, p, "serverstransports") |->
                ServersTransport(s, Object(p, "serverstransports", n))] >>]

\* The values a label may give, enough of them that one is not the default.
SomeValues(kind) ==
  CASE kind = "bool" -> {<<"true">>, <<"false">>}
    [] kind = "int"  -> {<<n>> : n \in Numbers}
    [] OTHER         -> {<<n>> : n \in NamePieces}

ASSUME ValuesAssumption == \A pieces \in {Numbers, NamePieces} : \E m, n \in pieces : m # n

\* The i-th label has a say when what is built depends on its value.
HasASay(i) ==
  LET valued(v) == Alone(Rebuilt([assignments EXCEPT ![i].value = v], set.marks))
      without == Alone(Rebuilt([assignments EXCEPT ![i].kind = "none"], set.marks)) IN
  \E v \in SomeValues(assignments[i].kind) : valued(v) # without

\* Another label about the same thing comes before it.
IsReplaced(i) ==
  \E j \in DOMAIN assignments \ {i} :
    LET a == assignments[i] b == assignments[j] IN
    a.target = b.target /\ (b.origin > a.origin \/ (b.origin = a.origin /\ j > i))

\* Nothing is built that it could be about: explicit objects take the place
\* of the default one, HTTP is not wanted beside TCP or UDP, or none of the
\* labels for the routers or services of the protocol is valid.
IsUnreached(a) ==
  LET p == a.target.protocol IN
  \/ a.origin = Shorthand /\ <<p, a.target.collection>> \in set.marks
       /\ a.target.name \notin ExplicitNames(set, p, a.target.collection)
  \/ p = "http" /\ <<p>> \notin set.marks /\ {<<"tcp">>, <<"udp">>} \cap set.marks # {}
  \/ \E c \in {"routers", "services"} : <<p, c>> \in set.marks /\ ExplicitNames(set, p, c) = {}

\* Another label of the object makes it void, or one it needs is missing.
IsVoid(a) ==
  LET o == ObjectOf(a.target)
      key == a.target.key
      Has(k) == StringValue(set, o, k) # Unset
      server == {LBServer("ip"), LBServer("port")}
      under(part) == Len(key) > 2 /\ key[2] = part IN
  \/ key = <<"tls">> /\ (AnySet(TLSFields(set, o)) \/ BoolValue(set, o, <<"tls", "passthrough">>) # Unset)
  \/ key = <<"entrypoint">> /\ ListValue(set, o, <<"entrypoints">>) # Unset
  \/ key = <<"tls", "domains">> /\ TLSDomains(set, o, <<"tls">>) # <<>>
  \/ key \in server \cup {LBServer("scheme")} /\ Has(LBServer("url"))
  \/ key \in server /\ Has(LBServer("address"))
  \/ key = <<"loadbalancer", "insecureskipverify">> /\ Has(<<"loadbalancer", "serverstransport">>)
  \/ under("healthcheck") /\ ~Has(<<"loadbalancer", "healthcheck", "path">>)
  \/ under("sticky") /\ ~Has(<<"loadbalancer", "sticky", "cookie", "name">>)

\* No label is accepted and then has no effect: what is built for the guest
\* depends on the value of each valid label, through the row that parses it,
\* the place it is put, the kind of value its reader asks for and the field
\* that is read, save where a label that is there says otherwise.
EveryLabelCounts ==
  Done => \A i \in DOMAIN assignments : LET a == assignments[i] IN
    IsRoot(a.target) \/ IsReplaced(i) \/ IsUnreached(a) \/ IsVoid(a) \/ HasASay(i)

\* README.md:181-183 counts a label "ip" among those that override automatic
\* resolution: a guest that has one is not sent to where it was found to be,
\* for which its own name stands here.
IPKey == [prefix |-> "traefik", path |-> << <<"ip">> >>]
IPLabelOverrides ==
  (Done /\ Enabled(set) /\ IPKey \in DOMAIN labels) =>
    \A server \in HTTPServers(set, Object("http", "services", DefaultObjectName(set, base)), {base}) :
      server.host # base
=============================================================================
