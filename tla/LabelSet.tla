------------------------------- MODULE LabelSet -------------------------------
(***************************************************************************)
(* What the labels of one guest say (traefik/labels): a label is parsed to *)
(* an assignment, assignments are indexed in a label set, and readers take *)
(* values of one kind out of it.  Operators only; Preparation fills a set  *)
(* label by label, Objects and ConfigBuilder read from it.                 *)
(*                                                                         *)
(* A value is a sequence of pieces whatever its kind: one piece for a      *)
(* boolean or a number, the items of a list.  Unset stands for what is     *)
(* missing, and also for an empty text and an empty list, which readers    *)
(* take for missing.                                                       *)
(***************************************************************************)
EXTENDS LabelSchema, Names, SequencesExt, FiniteSetsExt

CONSTANT Numbers  \* the pieces that are integers

True == {"true", "1", "yes", "on"}
False == {"false", "0", "no", "off"}
Comma == ","
Unset == <<>>

Empty == [k \in {} |-> k]
With(f, k, v) == [x \in DOMAIN f \cup {k} |-> IF x = k THEN v ELSE f[x]]

\* values at their places, objects with whether an explicit label names them,
\* and marks, the protocols and collections that labels are about.
EmptySet == [values |-> Empty, objects |-> Empty, marks |-> {}]

-----------------------------------------------------------------------------
(* Parsing a label *)

\* parseValue succeeds.
Parses(value, kind) ==
  CASE kind = "bool" -> Len(value) = 1 /\ value[1] \in True \cup False
    [] kind = "int"  -> Len(value) = 1 /\ value[1] \in Numbers
    [] OTHER         -> TRUE

Parsed(value, kind) ==
  CASE kind = "bool" -> IF value[1] \in True THEN <<"true">> ELSE <<"false">>
    [] kind = "csv"  -> SelectSeq(value, LAMBDA item : item # Comma)
    [] OTHER         -> value

\* parseAssignment: what a label says, and nothing when it is unsupported or
\* its value is invalid.  There is one row at most.
AssignmentsOf(path, value, defaultName) ==
  {[target |-> Target(row, path, defaultName), kind |-> row.kind,
    value |-> Parsed(value, row.kind), origin |-> row.origin] :
     row \in {r \in MatchingRows(path) : Parses(value, r.kind)}}

MarksOfExplicit(path) ==
  IF Len(path) < 3 THEN {}
  ELSE {<<p>> : p \in {q \in Protocols : path[1] = <<q>>}}
    \cup {m \in Protocols \X Collections : path[1] = <<m[1]>> /\ path[2] = <<m[2]>>}

\* observeSegments: of any label, be it valid or not.
MarksOf(path) ==
  {<<p>> : p \in {q \in Protocols : path # <<>> /\ path[1] = <<q>>}}
  \cup {m \in Protocols \X Collections :
          Len(path) >= 3 /\ path[1] = <<m[1]>> /\ path[2] = <<m[2]>>}

-----------------------------------------------------------------------------
(* Indexing an assignment *)

IsRoot(target) == target.protocol = ""

Object(protocol, collection, name) ==
  [protocol |-> protocol, collection |-> collection, name |-> name]
ObjectOf(target) == Object(target.protocol, target.collection, target.name)

\* The places of a value: under its key, and for an entry under that as well.
Places(target) == {target, [target EXCEPT !.entry = NoEntry]}

Held(a) == [value |-> a.value, kind |-> a.kind, origin |-> a.origin]

LastLabelWins(s, a) ==
  [s EXCEPT
     !.values = [p \in DOMAIN @ \cup Places(a.target) |->
                   IF p \in Places(a.target) THEN Held(a) ELSE @[p]],
     !.objects = IF IsRoot(a.target) THEN @
                 ELSE With(@, ObjectOf(a.target), a.origin = Explicit)]

\* indexAssignment: a value stays only before one of lower origin.
Indexed(s, a) ==
  LET taken == {p \in Places(a.target) :
                  p \in DOMAIN s.values => s.values[p].origin <= a.origin}
      object == ObjectOf(a.target) IN
  [s EXCEPT
     !.values = [p \in DOMAIN @ \cup taken |-> IF p \in taken THEN Held(a) ELSE @[p]],
     !.objects = IF IsRoot(a.target) THEN @
                 ELSE With(@, object, \/ a.origin = Explicit
                                      \/ object \in DOMAIN @ /\ @[object])]

\* rebuildResourceIndexes, assignment by assignment
Rebuilt(assignments, marks) ==
  LET built[i \in 0 .. Len(assignments)] ==
        IF i = 0 THEN [EmptySet EXCEPT !.marks = marks]
        ELSE Indexed(built[i - 1], assignments[i])
  IN built[Len(assignments)]

-----------------------------------------------------------------------------
(* Readers: each finds a value of its own kind and no other. *)

ValueAt(s, o, key, entry, kind) ==
  LET p == [protocol |-> o.protocol, collection |-> o.collection, name |-> o.name,
            key |-> key, entry |-> entry] IN
  IF p \in DOMAIN s.values /\ s.values[p].kind = kind THEN s.values[p].value ELSE Unset

StringValue(s, o, key) == ValueAt(s, o, key, NoEntry, "string")
BoolValue(s, o, key) == ValueAt(s, o, key, NoEntry, "bool")
IntValue(s, o, key) == ValueAt(s, o, key, NoEntry, "int")
ListValue(s, o, key) == ValueAt(s, o, key, NoEntry, "csv")

\* The entries under a key.
Entries(s, o, key) ==
  {p.entry : p \in {q \in DOMAIN s.values :
                      ObjectOf(q) = o /\ q.key = key /\ q.entry # NoEntry}}

Headers(s, o, key) ==
  [entry \in Entries(s, o, key) |-> ValueAt(s, o, key, entry, "string")]

\* The n-th of some domains in the order of their indexes.
NthDomain(domains, n) ==
  CHOOSE d \in domains : Cardinality({e \in domains : e[2] < d[2]}) = n - 1

TLSDomains(s, o, prefix) ==
  LET main == prefix \o <<"domains", "main">>
      sans == prefix \o <<"domains", "sans">>
      domains == Entries(s, o, main) \cup Entries(s, o, sans) IN
  [n \in 1 .. Cardinality(domains) |->
     [main |-> ValueAt(s, o, main, NthDomain(domains, n), "string"),
      sans |-> ValueAt(s, o, sans, NthDomain(domains, n), "csv")]]

Root == Object("", "", <<>>)

Enabled(s) == BoolValue(s, Root, <<"enable">>) = <<"true">>

NameOverride(s) == StringValue(s, Root, <<"name">>)

\* defaultObjectName: the name under which the builder looks for what the
\* shorthand labels say.
DefaultObjectName(s, base) == IF NameOverride(s) # Unset THEN NameOverride(s) ELSE base

\* RouterNames, ServiceNames and ServersTransportNames, as a set.
ExplicitNames(s, protocol, collection) ==
  {o.name : o \in {x \in DOMAIN s.objects :
                     /\ x.protocol = protocol /\ x.collection = collection
                     /\ s.objects[x]}}

-----------------------------------------------------------------------------
(* ParseWithSources for a list of labels, all of them in one step *)

\* renamedDefaultTarget
Renamed(a, from, to) ==
  IF a.origin = Shorthand /\ a.target.name = from THEN [a EXCEPT !.target.name = to] ELSE a

\* applyNameOverride: the shorthand labels move to the objects with the name
\* of the name label, and all of the set but the marks is built again.
AfterNameOverride(assignments, s, base) ==
  LET name == NameOverride(s) IN
  IF name \in {Unset, base} THEN assignments
  ELSE [i \in DOMAIN assignments |-> Renamed(assignments[i], base, name)]

\* Labels are given in the order of their texts, as paths with values.
Parse(list, base) ==
  LET said == FlattenSeq([i \in DOMAIN list |->
                SetToSeq(AssignmentsOf(list[i][1], list[i][2], base))])
      marks == UNION {MarksOf(list[i][1]) : i \in DOMAIN list} IN
  Rebuilt(AfterNameOverride(said, Rebuilt(said, marks), base), marks)

\* What the builder relies on: an explicit object is in a collection that is
\* marked, and a marked collection or an object of TCP or UDP has its
\* protocol marked, so that the builder gets to it; what a label says about an
\* object makes the object, shorthand labels make those of the default name
\* only, and only HTTP has transports.
WellFormed(s, base) ==
  /\ \A o \in DOMAIN s.objects :
       /\ s.objects[o] => <<o.protocol, o.collection>> \in s.marks
       /\ ~s.objects[o] => o.name = DefaultObjectName(s, base)
       /\ o.protocol \in {"tcp", "udp"} => <<o.protocol>> \in s.marks
       /\ o.collection = "serverstransports" => o.protocol = "http"
  /\ \A p \in DOMAIN s.values : ~IsRoot(p) => ObjectOf(p) \in DOMAIN s.objects
  /\ \A m \in s.marks : <<m[1]>> \in s.marks
=============================================================================
