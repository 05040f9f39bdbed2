-------------------------- MODULE PreparationProofs --------------------------
(***************************************************************************)
(* Proofs about Preparation, for any notes and any labels: what a label    *)
(* set holds after labels have been indexed in it, whatever their order;   *)
(* that no label is lost without a word; that the set is what the          *)
(* configuration builder relies on; and that what is built depends on      *)
(* every label.                                                            *)
(***************************************************************************)
EXTENDS Preparation, Numbers, SequenceTheorems, FiniteSetTheorems

-----------------------------------------------------------------------------
(* Names *)

\* The pieces kept of a name after so many of them.
KeptUpTo(f, name, n) ==
  f = [i \in 0 .. n |->
        IF i = 0 THEN <<>>
        ELSE IF name[i] \in NamePieces THEN Append(f[i - 1], name[i])
        ELSE f[i - 1]]

LEMMA SomeKept ==
  ASSUME NEW name, NEW m \in Nat
  PROVE  \E f : KeptUpTo(f, name, m)
<1> DEFINE T == {n \in 0 .. m : \E f : KeptUpTo(f, name, n)}
<1>1. 0 \in T
  <2>1. KeptUpTo([i \in 0 .. 0 |-> <<>>], name, 0)
    BY DEF KeptUpTo
  <2> QED  BY <2>1
<1>2. ASSUME NEW n \in 1 .. m, n - 1 \in T  PROVE n \in T
  <2>1. PICK g : KeptUpTo(g, name, n - 1)
    BY <1>2
  <2> DEFINE f == [i \in 0 .. n |->
                     IF i < n THEN g[i]
                     ELSE IF name[n] \in NamePieces THEN Append(g[n - 1], name[n])
                     ELSE g[n - 1]]
  <2>2. ASSUME NEW i \in 0 .. n
        PROVE  f[i] = IF i = 0 THEN <<>>
                      ELSE IF name[i] \in NamePieces THEN Append(f[i - 1], name[i])
                      ELSE f[i - 1]
    <3>1. CASE i = 0
      BY <2>1, <3>1 DEF KeptUpTo
    <3>2. CASE i # 0 /\ i < n
      <4>1. i \in 0 .. n - 1 /\ i - 1 \in 0 .. n
        BY <3>2
      <4>2. f[i] = g[i] /\ f[i - 1] = g[i - 1]
        BY <3>2, <4>1
      <4> HIDE DEF f
      <4> QED  BY <2>1, <3>2, <4>1, <4>2 DEF KeptUpTo
    <3>3. CASE i = n
      <4>1. f[n - 1] = g[n - 1]
        OBVIOUS
      <4> QED  BY <3>3, <4>1
    <3> QED  BY <3>1, <3>2, <3>3
  <2>3. KeptUpTo(f, name, n)
    <3>1. f = [i \in 0 .. n |-> f[i]]
      OBVIOUS
    <3> HIDE DEF f
    <3> QED  BY <2>2, <3>1 DEF KeptUpTo
  <2> QED  BY <2>3
<1> HIDE DEF T
<1>3. m \in T
  BY <1>1, <1>2, NumbersUpTo
<1> QED  BY <1>3 DEF T

LEMMA KeptOneByOne ==
  ASSUME NEW f, NEW name, NEW n \in Nat, KeptUpTo(f, name, n)
  PROVE  /\ f[0] = <<>>
         /\ \A i \in 1 .. n :
              f[i] = IF name[i] \in NamePieces THEN Append(f[i - 1], name[i]) ELSE f[i - 1]
<1>1. \A i \in 0 .. n :
        f[i] = IF i = 0 THEN <<>>
               ELSE IF name[i] \in NamePieces THEN Append(f[i - 1], name[i])
               ELSE f[i - 1]
  BY DEF KeptUpTo
<1> QED  BY <1>1

\* A name is made of letters and digits.
LEMMA NormalizedName ==
  ASSUME NEW name, Len(name) \in Nat
  PROVE  Normalized(name) \in Seq(NamePieces)
<1> DEFINE n == Len(name)
           kept == CHOOSE f : KeptUpTo(f, name, n)
<1>1. Normalized(name) = Cut(kept[n], MaxNameLength)
  BY DEF Normalized, KeptUpTo
<1>2. KeptUpTo(kept, name, n) /\ n \in Nat
  BY SomeKept
<1> DEFINE T == {i \in 0 .. n : kept[i] \in Seq(NamePieces)}
<1> HIDE DEF kept, n
<1>3. 0 \in T
  <2>1. kept[0] = <<>> /\ 0 \in 0 .. n
    BY <1>2, KeptOneByOne
  <2>2. <<>> \in Seq(NamePieces)
    BY EmptySeq
  <2>3. kept[0] \in Seq(NamePieces)
    BY <2>1, <2>2
  <2> QED  BY <2>1, <2>3
<1>4. ASSUME NEW i \in 1 .. n, i - 1 \in T  PROVE i \in T
  <2>1. kept[i] = IF name[i] \in NamePieces THEN Append(kept[i - 1], name[i]) ELSE kept[i - 1]
    BY <1>2, KeptOneByOne
  <2>2. kept[i - 1] \in Seq(NamePieces) /\ i \in 0 .. n
    BY <1>2, <1>4
  <2>3. kept[i] \in Seq(NamePieces)
    BY <2>1, <2>2
  <2> QED  BY <2>2, <2>3
<1>5. n \in T
  <2> HIDE DEF T
  <2> QED  BY <1>2, <1>3, <1>4, NumbersUpTo
<1> QED  BY <1>1, <1>5, NamesAssumption DEF Cut

-----------------------------------------------------------------------------
(* What a label says *)

\* There is one row for a label at most.
LEMMA OneRow ==
  ASSUME NEW path, IsList(path), NEW r \in MatchingRows(path), NEW s \in MatchingRows(path)
  PROVE  r = s
<1> SUFFICES ASSUME r # s PROVE FALSE
  OBVIOUS
<1>1. /\ r \in SchemaRows /\ s \in SchemaRows
      /\ Len(r.source) = Len(path) /\ Len(s.source) = Len(path)
      /\ \A i \in DOMAIN path : Fits(r.source[i], path[i]) /\ Fits(s.source[i], path[i])
  BY DEF MatchingRows
<1>2. ~Overlap(r, s) /\ r.source \in Seq(STRING)
  BY <1>1, SchemaAssumption
<1>3. PICK i \in DOMAIN r.source :
        /\ r.source[i] \notin StringCaptures \cup {Default}
        /\ s.source[i] \notin StringCaptures \cup {Default}
        /\ r.source[i] # s.source[i]
  BY <1>1, <1>2 DEF Overlap
<1>4. i \in DOMAIN path
  BY <1>1, <1>2, <1>3 DEF IsList
<1> DEFINE x == r.source[i]
           y == s.source[i]
<1>5. Fits(x, path[i]) /\ Fits(y, path[i])
  BY <1>1, <1>4
<1> HIDE DEF x, y
<1>6. ASSUME NEW z \in {x, y}, z # DomainIndex  PROVE path[i] = <<z>>
  BY <1>3, <1>5, <1>6 DEF Fits, IsCapture, x, y
<1>7. ASSUME NEW z \in {x, y}, z = DomainIndex  PROVE Len(path[i]) = 3
  <2>1. Fits(DomainIndex, path[i])
    BY <1>5, <1>7
  <2> QED  BY <2>1 DEF Fits, IsDomainIndex
<1>8. x = DomainIndex \/ y = DomainIndex
  BY <1>3, <1>6 DEF x, y
<1>9. \E z \in {x, y} : z # DomainIndex
  BY <1>3 DEF x, y
<1> QED  BY <1>6, <1>7, <1>8, <1>9

LEMMA OneAssignment ==
  ASSUME NEW path, IsList(path), NEW value, NEW name,
         NEW a \in AssignmentsOf(path, value, name), NEW b \in AssignmentsOf(path, value, name)
  PROVE  a = b
BY OneRow DEF AssignmentsOf

\* The rows of the schema, as far as it matters here.
LEMMA TargetOfRow ==
  ASSUME NEW row \in SchemaRows
  PROVE  /\ row.source \in Seq(STRING) \ {<<>>} /\ row.target \in Seq(STRING)
         /\ row.origin \in {Shorthand, Explicit}
         /\ IsResource(row) => Len(row.target) > 3
         /\ row.origin = Explicit => row.target = row.source
         /\ row.origin = Explicit /\ IsResource(row) => row.target[3] # Default
         /\ row.origin = Shorthand => IsResource(row) /\ row.target[3] = Default
         /\ row.target[1] \in {"tcp", "udp"} => row.source[1] = row.target[1]
         /\ IsResource(row) => row.target[2] \in Collections
         /\ IsResource(row) /\ row.target[2] = "serverstransports" => row.target[1] = "http"
<1>1. /\ row.source \in Seq(STRING) \ {<<>>} /\ row.target \in Seq(STRING)
      /\ row.origin \in {Shorthand, Explicit}
      /\ Default \notin {row.source[i] : i \in DOMAIN row.source}
      /\ ValidRow(row) /\ IsPlainOrShorthand(row)
  BY SchemaAssumption
<1>2. ASSUME IsResource(row)  PROVE Len(row.target) > 3
  <2>1. KeyParts(row) # <<>>
    BY <1>1, <1>2 DEF ValidRow
  <2>2. ASSUME NEW n \in Int, n < 4  PROVE SubSeq(row.target, 4, n) = <<>>
    BY <2>2, <1>1
  <2>3. PICK n \in {0, 1} : KeyParts(row) = SubSeq(row.target, 4, Len(row.target) - n)
    BY DEF KeyParts
  <2>4. Len(row.target) \in Nat
    BY <1>1
  <2>5. ~(Len(row.target) - n < 4)
    <3> SUFFICES ASSUME Len(row.target) - n < 4 PROVE FALSE
      OBVIOUS
    <3> QED  BY <2>1, <2>2, <2>3, <2>4
  <2> QED  BY <2>4, <2>5
<1>3. ASSUME row.origin = Explicit, IsResource(row)  PROVE row.target[3] # Default
  <2>1. row.target = row.source /\ 3 \in DOMAIN row.source
    BY <1>1, <1>2, <1>3 DEF IsPlainOrShorthand
  <2> QED  BY <1>1, <2>1
<1> QED  BY <1>1, <1>2, <1>3 DEF ValidRow, IsPlainOrShorthand

\* What a label says by a row.
SaidBy(row, path, value, name) ==
  [target |-> Target(row, path, name), kind |-> row.kind,
   value |-> Parsed(value, row.kind), origin |-> row.origin]

LEMMA AssignmentsAreSaid ==
  ASSUME NEW path, NEW value, NEW name
  PROVE  AssignmentsOf(path, value, name) =
           {SaidBy(row, path, value, name) : row \in {r \in MatchingRows(path) : Parses(value, r.kind)}}
BY DEF AssignmentsOf, SaidBy

\* A word that is no capture stands for itself.
LEMMA FitsWord ==
  ASSUME NEW word \in Protocols \cup Collections \cup {"name"}, NEW segment, Fits(word, segment)
  PROVE  segment = <<word>>
BY DEF Fits, IsCapture, StringCaptures, Default, DomainIndex, Protocols, Collections

LEMMA RowOfPath ==
  ASSUME NEW path, IsList(path), NEW row \in MatchingRows(path)
  PROVE  /\ row \in SchemaRows /\ Len(path) \in Nat /\ Len(path) = Len(row.source)
         /\ DOMAIN path = 1 .. Len(path)
         /\ \A i \in 1 .. Len(path) : Fits(row.source[i], path[i])
BY DEF MatchingRows, IsList

LEMMA MarkedByPath ==
  ASSUME NEW path, IsList(path), NEW p \in Protocols, NEW c \in Collections,
         path # <<>>, path[1] = <<p>>
  PROVE  /\ <<p>> \in MarksOf(path)
         /\ Len(path) >= 3 /\ path[2] = <<c>> => <<p, c>> \in MarksOf(path)
<1>1. <<p>> \in MarksOf(path)
  BY DEF MarksOf
<1>2. ASSUME Len(path) >= 3, path[2] = <<c>>  PROVE <<p, c>> \in MarksOf(path)
  <2>1. <<p, c>> \in Protocols \X Collections /\ <<p, c>>[1] = p /\ <<p, c>>[2] = c
    OBVIOUS
  <2> QED  BY <2>1, <1>2 DEF MarksOf
<1> QED  BY <1>1, <1>2

LEMMA MarksClosed ==
  ASSUME NEW path, NEW m \in MarksOf(path)
  PROVE  <<m[1]>> \in MarksOf(path)
<1>1. CASE \E q \in Protocols : path # <<>> /\ path[1] = <<q>> /\ m = <<q>>
  BY <1>1
<1>2. CASE /\ m \in Protocols \X Collections
           /\ Len(path) >= 3 /\ path[1] = <<m[1]>> /\ path[2] = <<m[2]>>
  <2>1. path # <<>>
    BY <1>2
  <2> QED  BY <1>2, <2>1 DEF MarksOf
<1> QED  BY <1>1, <1>2 DEF MarksOf

\* What a row is about, where it is about an object and where not.
LEMMA TargetByRow ==
  ASSUME NEW row \in SchemaRows, NEW path, NEW name
  PROVE  /\ IsRoot(Target(row, path, name)) <=> ~IsResource(row)
         /\ ~IsResource(row) => /\ Target(row, path, name).protocol \notin Protocols
                                /\ Target(row, path, name).collection \notin Collections
                                /\ row.origin = Explicit
         /\ IsResource(row) => /\ Target(row, path, name).protocol = row.target[1]
                               /\ Target(row, path, name).collection = row.target[2]
                               /\ Target(row, path, name).name = NameIn(row, path, name)
                               /\ row.target[1] \in Protocols
                               /\ row.target[2] \in Collections
<1> DEFINE target == Target(row, path, name)
<1>1. /\ ~IsResource(row) => target.protocol = "" /\ target.collection = ""
      /\ IsResource(row) => /\ target.protocol = row.target[1]
                            /\ target.collection = row.target[2]
                            /\ target.name = NameIn(row, path, name)
  BY DEF Target
<1> HIDE DEF target
<1>2. ASSUME ~IsResource(row)  PROVE row.origin = Explicit
  BY <1>2, TargetOfRow
<1>3. ASSUME IsResource(row)
      PROVE  row.target[1] \in Protocols /\ row.target[2] \in Collections
  BY <1>3, TargetOfRow DEF IsResource
<1>4. "" \notin Protocols \cup Collections
  BY DEF Protocols, Collections
<1>5. IsRoot(target) <=> ~IsResource(row)
  BY <1>1, <1>3, <1>4 DEF IsRoot
<1>6. ~IsResource(row) => target.protocol \notin Protocols /\ target.collection \notin Collections
  BY <1>1, <1>4
<1>7. IsResource(row) => /\ target.protocol = row.target[1]
                         /\ target.collection = row.target[2]
                         /\ target.name = NameIn(row, path, name)
  BY <1>1
<1> QED  BY <1>2, <1>3, <1>5, <1>6, <1>7 DEF target

\* What the labels of a guest say is about objects that are marked, or about
\* the object of the default name.
LEMMA TargetMarked ==
  ASSUME NEW path, IsList(path), NEW row \in MatchingRows(path), NEW name,
         NEW t, t = Target(row, path, name)
  PROVE  /\ row.origin \in {Shorthand, Explicit}
         /\ ~IsRoot(t) /\ row.origin = Explicit => <<t.protocol, t.collection>> \in MarksOf(path)
         /\ row.origin = Shorthand => ~IsRoot(t) /\ t.name = name
         /\ t.protocol \in {"tcp", "udp"} => <<t.protocol>> \in MarksOf(path)
         /\ t.collection = "serverstransports" => t.protocol = "http"
<1>1. row \in SchemaRows
  BY RowOfPath
<1>2. row.origin \in {Shorthand, Explicit} /\ Shorthand # Explicit
  BY <1>1, TargetOfRow DEF Shorthand, Explicit
<1>3. CASE ~IsResource(row)
  <2>1. /\ IsRoot(t) /\ row.origin = Explicit
        /\ t.protocol \notin Protocols /\ t.collection \notin Collections
    BY <1>1, <1>3, TargetByRow
  <2>2. {"tcp", "udp"} \subseteq Protocols /\ "serverstransports" \in Collections
    BY DEF Protocols, Collections
  <2> QED  BY <1>2, <2>1, <2>2
<1>4. CASE IsResource(row)
  <2> DEFINE p == row.target[1]
             c == row.target[2]
  <2>1. /\ ~IsRoot(t)
        /\ t.protocol = p /\ p \in Protocols
        /\ t.collection = c /\ c \in Collections
        /\ t.name = NameIn(row, path, name)
    BY <1>1, <1>4, TargetByRow
  <2> HIDE DEF p, c
  <2>2. Len(path) \in Nat /\ Len(path) = Len(row.source) /\ path \in Seq(Range(path))
    BY RowOfPath DEF IsList
  <2>3. ASSUME row.source[1] = p, Len(path) > 0  PROVE path # <<>> /\ path[1] = <<p>>
    <3>1. Fits(p, path[1])
      BY <2>2, <2>3, RowOfPath
    <3>2. path[1] = <<p>>
      BY <2>1, <3>1, FitsWord
    <3> QED  BY <2>2, <2>3, <3>2
  <2>4. ASSUME row.origin = Explicit  PROVE <<p, c>> \in MarksOf(path)
    <3>1. row.target = row.source /\ Len(path) > 3
      BY <1>1, <1>4, <2>2, <2>4, TargetOfRow
    <3>2. Fits(c, path[2])
      BY <2>2, <3>1, RowOfPath DEF c
    <3>3. path[2] = <<c>>
      BY <2>1, <3>2, FitsWord
    <3>4. path # <<>> /\ path[1] = <<p>>
      BY <2>2, <2>3, <3>1 DEF p
    <3>5. Len(path) >= 3
      BY <2>2, <3>1
    <3> QED  BY <2>1, <3>3, <3>4, <3>5, MarkedByPath
  <2>5. ASSUME row.origin = Shorthand  PROVE t.name = name
    BY <1>1, <2>1, <2>5, TargetOfRow DEF NameIn
  <2>6. ASSUME p \in {"tcp", "udp"}  PROVE <<p>> \in MarksOf(path)
    <3>1. row.source[1] = p
      BY <1>1, <2>6, TargetOfRow DEF p
    <3>2. Len(path) > 0
      BY <1>1, <2>2, TargetOfRow
    <3> QED  BY <2>1, <2>3, <3>1, <3>2, MarkedByPath
  <2>7. c = "serverstransports" => p = "http"
    BY <1>1, <1>4, TargetOfRow DEF p, c
  <2> QED  BY <1>2, <2>1, <2>4, <2>5, <2>6, <2>7
<1> QED  BY <1>3, <1>4

LEMMA SaidOfObjects ==
  ASSUME NEW path, IsList(path), NEW value, NEW name,
         NEW a \in AssignmentsOf(path, value, name)
  PROVE  /\ a.origin \in {Shorthand, Explicit}
         /\ ~IsRoot(a.target) /\ a.origin = Explicit =>
              <<a.target.protocol, a.target.collection>> \in MarksOf(path)
         /\ a.origin = Shorthand => ~IsRoot(a.target) /\ a.target.name = name
         /\ a.target.protocol \in {"tcp", "udp"} => <<a.target.protocol>> \in MarksOf(path)
         /\ a.target.collection = "serverstransports" => a.target.protocol = "http"
<1>1. PICK row \in MatchingRows(path) : a = SaidBy(row, path, value, name)
  BY AssignmentsAreSaid
<1> DEFINE t == a.target
<1>2. t = Target(row, path, name) /\ a.origin = row.origin
  BY <1>1 DEF SaidBy
<1> HIDE DEF t
<1> QED  BY <1>2, TargetMarked DEF t

\* The default name is the name of the shorthand labels' object, and nothing
\* else depends on it.
LEMMA TargetRenamed ==
  ASSUME NEW row \in SchemaRows, NEW path, NEW n, NEW m
  PROVE  /\ row.origin = Explicit => Target(row, path, m) = Target(row, path, n)
         /\ row.origin = Shorthand =>
              /\ Target(row, path, n).name = n
              /\ Target(row, path, m) = [Target(row, path, n) EXCEPT !.name = m]
<1>1. ASSUME row.origin = Explicit  PROVE Target(row, path, m) = Target(row, path, n)
  <2>1. IsResource(row) => NameIn(row, path, m) = NameIn(row, path, n)
    BY <1>1, TargetOfRow DEF NameIn
  <2> QED  BY <2>1 DEF Target
<1>2. ASSUME row.origin = Shorthand
      PROVE  /\ Target(row, path, n).name = n
             /\ Target(row, path, m) = [Target(row, path, n) EXCEPT !.name = m]
  <2>1. IsResource(row) /\ NameIn(row, path, m) = m /\ NameIn(row, path, n) = n
    BY <1>2, TargetOfRow DEF NameIn
  <2> QED  BY <2>1 DEF Target
<1> QED  BY <1>1, <1>2

LEMMA SaidRenamed ==
  ASSUME NEW row \in SchemaRows, NEW path, NEW value, NEW n, NEW m
  PROVE  SaidBy(row, path, value, m) = Renamed(SaidBy(row, path, value, n), n, m)
<1>1. CASE row.origin = Explicit
  <2>1. Target(row, path, m) = Target(row, path, n)
    BY <1>1, TargetRenamed
  <2>2. SaidBy(row, path, value, m) = SaidBy(row, path, value, n)
    BY <2>1 DEF SaidBy
  <2>3. SaidBy(row, path, value, n).origin # Shorthand
    BY <1>1 DEF SaidBy, Shorthand, Explicit
  <2> QED  BY <2>2, <2>3 DEF Renamed
<1>2. CASE row.origin = Shorthand
  <2>1. /\ Target(row, path, n).name = n
        /\ Target(row, path, m) = [Target(row, path, n) EXCEPT !.name = m]
    BY <1>2, TargetRenamed
  <2> DEFINE t == Target(row, path, n)
             u == Target(row, path, m)
  <2> HIDE DEF t, u
  <2>2. t.name = n /\ u = [t EXCEPT !.name = m]
    BY <2>1 DEF t, u
  <2>3. /\ SaidBy(row, path, value, n) = [target |-> t, kind |-> row.kind,
                                value |-> Parsed(value, row.kind), origin |-> row.origin]
        /\ SaidBy(row, path, value, m) = [target |-> u, kind |-> row.kind,
                                value |-> Parsed(value, row.kind), origin |-> row.origin]
    BY DEF SaidBy, t, u
  <2> QED  BY <1>2, <2>2, <2>3 DEF Renamed
<1> QED  BY <1>1, <1>2, TargetOfRow

LEMMA AssignmentsRenamed ==
  ASSUME NEW path, NEW value, NEW n, NEW m
  PROVE  AssignmentsOf(path, value, m) = {Renamed(a, n, m) : a \in AssignmentsOf(path, value, n)}
<1> DEFINE rows == {r \in MatchingRows(path) : Parses(value, r.kind)}
<1>1. \A row \in rows : SaidBy(row, path, value, m) = Renamed(SaidBy(row, path, value, n), n, m)
  BY SaidRenamed DEF MatchingRows
<1>2. /\ AssignmentsOf(path, value, m) = {SaidBy(row, path, value, m) : row \in rows}
      /\ AssignmentsOf(path, value, n) = {SaidBy(row, path, value, n) : row \in rows}
  BY AssignmentsAreSaid
<1> HIDE DEF rows
<1>3. {Renamed(a, n, m) : a \in {SaidBy(row, path, value, n) : row \in rows}}
        = {Renamed(SaidBy(row, path, value, n), n, m) : row \in rows}
  OBVIOUS
<1> QED  BY <1>1, <1>2, <1>3

-----------------------------------------------------------------------------
(* A label set, from the assignments that have been indexed in it          *)

IsSet(s) == s = [values |-> s.values, objects |-> s.objects, marks |-> s.marks]

ValuesDescribed(s, said) ==
  /\ DOMAIN s.values = UNION {Places(a.target) : a \in said}
  /\ \A p \in DOMAIN s.values : \E a \in said :
       /\ p \in Places(a.target) /\ s.values[p] = Held(a)
       /\ \A b \in said : p \in Places(b.target) => b.origin <= a.origin

ObjectsDescribed(s, said) ==
  /\ DOMAIN s.objects = {ObjectOf(a.target) : a \in {b \in said : ~IsRoot(b.target)}}
  /\ \A o \in DOMAIN s.objects :
       s.objects[o] <=> \E a \in said : ObjectOf(a.target) = o /\ a.origin = Explicit

Describes(s, said) == ValuesDescribed(s, said) /\ ObjectsDescribed(s, said)

NothingIndexed(marks) == [EmptySet EXCEPT !.marks = marks]

LEMMA EmptyDescribes ==
  ASSUME NEW marks, NEW s, s = NothingIndexed(marks)
  PROVE  IsSet(s) /\ Describes(s, {}) /\ s.marks = marks
<1>1. s = [values |-> Empty, objects |-> Empty, marks |-> marks]
  BY DEF EmptySet, NothingIndexed
<1>2. DOMAIN Empty = {}
  BY DEF Empty
<1>3. IsSet(s) /\ s.marks = marks /\ s.values = Empty /\ s.objects = Empty
  <2>1. s.marks = marks /\ s.values = Empty /\ s.objects = Empty
    BY <1>1
  <2>2. IsSet(s)
    BY <1>1, <2>1, Zenon DEF IsSet
  <2> QED  BY <2>1, <2>2
<1>4. ValuesDescribed(s, {})
  BY <1>2, <1>3 DEF ValuesDescribed
<1>5. ObjectsDescribed(s, {})
  BY <1>2, <1>3 DEF ObjectsDescribed
<1> QED  BY <1>3, <1>4, <1>5 DEF Describes

LEMMA IndexedValues ==
  ASSUME NEW s, IsSet(s), NEW said, ValuesDescribed(s, said),
         \A b \in said : b.origin \in {Shorthand, Explicit},
         NEW a, a.origin \in {Shorthand, Explicit}
  PROVE  ValuesDescribed(Indexed(s, a), said \cup {a})
<1> DEFINE t == Indexed(s, a)
           taken == {p \in Places(a.target) :
                       p \in DOMAIN s.values => s.values[p].origin <= a.origin}
<1>1. t.values = [p \in DOMAIN s.values \cup taken |-> IF p \in taken THEN Held(a) ELSE s.values[p]]
  BY DEF Indexed, IsSet
<1>2. \A b \in said \cup {a} : b.origin \in Int
  BY DEF Shorthand, Explicit
<1>3. \A p \in taken : p \in Places(a.target) /\ (p \in DOMAIN s.values => s.values[p].origin <= a.origin)
  OBVIOUS
<1>4. \A p \in Places(a.target) \ taken : p \in DOMAIN s.values /\ ~(s.values[p].origin <= a.origin)
  OBVIOUS
<1> HIDE DEF t, taken
<1>5. DOMAIN t.values = DOMAIN s.values \cup taken
  BY <1>1
<1>6. DOMAIN t.values = UNION {Places(b.target) : b \in said \cup {a}}
  <2>1. DOMAIN s.values = UNION {Places(b.target) : b \in said}
    BY DEF ValuesDescribed
  <2>2. DOMAIN s.values \cup taken = DOMAIN s.values \cup Places(a.target)
    BY <1>3, <1>4
  <2> QED  BY <1>5, <2>1, <2>2
<1>7. ASSUME NEW p \in DOMAIN t.values
      PROVE  \E b \in said \cup {a} :
               /\ p \in Places(b.target) /\ t.values[p] = Held(b)
               /\ \A c \in said \cup {a} : p \in Places(c.target) => c.origin <= b.origin
  <2>1. CASE p \notin DOMAIN s.values
    <3>1. p \in taken /\ t.values[p] = Held(a) /\ p \in Places(a.target)
      BY <1>1, <1>3, <1>5, <2>1
    <3>2. \A c \in said : p \notin Places(c.target)
      BY <2>1 DEF ValuesDescribed
    <3> QED  BY <1>2, <3>1, <3>2
  <2>2. CASE p \in DOMAIN s.values
    <3>1. PICK b \in said : /\ p \in Places(b.target) /\ s.values[p] = Held(b)
                            /\ \A c \in said : p \in Places(c.target) => c.origin <= b.origin
      BY <2>2 DEF ValuesDescribed
    <3>2. s.values[p].origin = b.origin
      BY <3>1 DEF Held
    <3>3. CASE p \in taken
      <4>1. b.origin <= a.origin /\ t.values[p] = Held(a) /\ p \in Places(a.target)
        BY <1>1, <1>3, <2>2, <3>2, <3>3
      <4>2. \A c \in said \cup {a} : p \in Places(c.target) => c.origin <= a.origin
        BY <1>2, <3>1, <4>1
      <4> QED  BY <4>1, <4>2
    <3>4. CASE p \notin taken
      <4>1. t.values[p] = Held(b)
        BY <1>1, <2>2, <3>1, <3>4
      <4>2. p \in Places(a.target) => a.origin <= b.origin
        BY <1>2, <1>4, <3>2, <3>4
      <4> QED  BY <3>1, <4>1, <4>2
    <3> QED  BY <3>3, <3>4
  <2> QED  BY <2>1, <2>2
<1> QED  BY <1>6, <1>7 DEF ValuesDescribed, t

LEMMA IndexedObjects ==
  ASSUME NEW s, IsSet(s), NEW said, ObjectsDescribed(s, said), NEW a,
         \A b \in said \cup {a} : IsRoot(b.target) => b.origin = Explicit /\ ObjectOf(b.target) = Root,
         \A b \in said \cup {a} : ~IsRoot(b.target) => ObjectOf(b.target) # Root
  PROVE  ObjectsDescribed(Indexed(s, a), said \cup {a})
<1> DEFINE t == Indexed(s, a)
           object == ObjectOf(a.target)
<1>1. t.objects = IF IsRoot(a.target) THEN s.objects
                  ELSE With(s.objects, object, \/ a.origin = Explicit
                                               \/ object \in DOMAIN s.objects /\ s.objects[object])
  BY DEF Indexed, IsSet
<1> HIDE DEF t, object
<1>2. CASE IsRoot(a.target)
  <2>1. t.objects = s.objects
    BY <1>1, <1>2
  <2>2. \A o \in DOMAIN s.objects : o # Root
    BY DEF ObjectsDescribed
  <2>3. object = Root
    BY <1>2 DEF object
  <2> QED  BY <1>2, <2>1, <2>2, <2>3 DEF ObjectsDescribed, t, object
<1>3. CASE ~IsRoot(a.target)
  <2>1. /\ DOMAIN t.objects = DOMAIN s.objects \cup {object}
        /\ t.objects[object] <=> \/ a.origin = Explicit
                                 \/ object \in DOMAIN s.objects /\ s.objects[object]
        /\ \A o \in DOMAIN s.objects \ {object} : t.objects[o] = s.objects[o]
    BY <1>1, <1>3 DEF With
  <2>2. DOMAIN t.objects = {ObjectOf(b.target) : b \in {c \in said \cup {a} : ~IsRoot(c.target)}}
    BY <1>3, <2>1 DEF ObjectsDescribed, object
  <2>3. ASSUME NEW o \in DOMAIN t.objects
        PROVE  t.objects[o] <=> \E b \in said \cup {a} : ObjectOf(b.target) = o /\ b.origin = Explicit
    <3>1. CASE o = object
      <4>1. object \notin DOMAIN s.objects =>
              ~\E b \in said : ObjectOf(b.target) = object /\ ~IsRoot(b.target)
        BY DEF ObjectsDescribed
      <4>2. object # Root
        BY <1>3 DEF object
      <4>3. \A b \in said : ObjectOf(b.target) = object => ~IsRoot(b.target)
        BY <4>2
      <4>4. object \in DOMAIN s.objects =>
              (s.objects[object] <=> \E b \in said : ObjectOf(b.target) = object /\ b.origin = Explicit)
        BY DEF ObjectsDescribed
      <4> QED  BY <2>1, <3>1, <4>1, <4>3, <4>4 DEF object
    <3>2. CASE o # object
      <4>1. o \in DOMAIN s.objects /\ t.objects[o] = s.objects[o]
        BY <2>1, <3>2
      <4>2. s.objects[o] <=> \E b \in said : ObjectOf(b.target) = o /\ b.origin = Explicit
        BY <4>1 DEF ObjectsDescribed
      <4> QED  BY <3>2, <4>1, <4>2 DEF object
    <3> QED  BY <3>1, <3>2
  <2> QED  BY <2>2, <2>3 DEF ObjectsDescribed, t
<1> QED  BY <1>2, <1>3

\* An assignment that a label set can take: it has one of the two origins,
\* and it is about the root or about an object.
IsAssignment(a) ==
  /\ a.origin \in {Shorthand, Explicit}
  /\ IsRoot(a.target) <=> ObjectOf(a.target) = Root
  /\ IsRoot(a.target) => a.origin = Explicit

LEMMA IndexedDescribes ==
  ASSUME NEW s, IsSet(s), NEW said, Describes(s, said),
         NEW a, \A b \in said \cup {a} : IsAssignment(b)
  PROVE  /\ IsSet(Indexed(s, a)) /\ Indexed(s, a).marks = s.marks
         /\ Describes(Indexed(s, a), said \cup {a})
<1>1. IsSet(Indexed(s, a)) /\ Indexed(s, a).marks = s.marks
  <2>1. \E values, objects :
          Indexed(s, a) = [s EXCEPT !.values = values, !.objects = objects]
    BY DEF Indexed
  <2>2. PICK values, objects :
          Indexed(s, a) = [values |-> values, objects |-> objects, marks |-> s.marks]
    BY <2>1 DEF IsSet
  <2> QED  BY <2>2 DEF IsSet
<1>2. ValuesDescribed(Indexed(s, a), said \cup {a})
  BY IndexedValues DEF IsAssignment, Describes
<1>3. ObjectsDescribed(Indexed(s, a), said \cup {a})
  BY IndexedObjects DEF IsAssignment, Describes
<1> QED  BY <1>1, <1>2, <1>3 DEF Describes

\* The label sets on the way to the one that is built again.
BuiltUpTo(f, list, marks, n) ==
  f = [i \in 0 .. n |->
        IF i = 0 THEN NothingIndexed(marks)
        ELSE Indexed(f[i - 1], list[i])]

LEMMA SomeBuilt ==
  ASSUME NEW list, NEW marks, NEW m \in Nat
  PROVE  \E f : BuiltUpTo(f, list, marks, m)
<1> DEFINE T == {n \in 0 .. m : \E f : BuiltUpTo(f, list, marks, n)}
<1>1. 0 \in T
  <2>1. BuiltUpTo([i \in 0 .. 0 |-> NothingIndexed(marks)], list, marks, 0)
    BY DEF BuiltUpTo
  <2> QED  BY <2>1
<1>2. ASSUME NEW n \in 1 .. m, n - 1 \in T  PROVE n \in T
  <2>1. PICK g : BuiltUpTo(g, list, marks, n - 1)
    BY <1>2
  <2> DEFINE f == [i \in 0 .. n |-> IF i < n THEN g[i] ELSE Indexed(g[n - 1], list[n])]
  <2>2. ASSUME NEW i \in 0 .. n
        PROVE  f[i] = IF i = 0 THEN NothingIndexed(marks)
                      ELSE Indexed(f[i - 1], list[i])
    <3>1. CASE i = 0
      BY <2>1, <3>1 DEF BuiltUpTo
    <3>2. CASE i # 0 /\ i < n
      <4>1. i \in 0 .. n - 1 /\ i - 1 \in 0 .. n
        BY <3>2
      <4>2. f[i] = g[i] /\ f[i - 1] = g[i - 1]
        BY <3>2, <4>1
      <4> HIDE DEF f
      <4> QED  BY <2>1, <3>2, <4>1, <4>2 DEF BuiltUpTo
    <3>3. CASE i = n
      <4>1. f[n - 1] = g[n - 1]
        OBVIOUS
      <4> QED  BY <3>3, <4>1
    <3> QED  BY <3>1, <3>2, <3>3
  <2>3. BuiltUpTo(f, list, marks, n)
    <3>1. f = [i \in 0 .. n |-> f[i]]
      OBVIOUS
    <3> HIDE DEF f
    <3> QED  BY <2>2, <3>1 DEF BuiltUpTo
  <2> QED  BY <2>3
<1> HIDE DEF T
<1>3. m \in T
  BY <1>1, <1>2, NumbersUpTo
<1> QED  BY <1>3 DEF T

LEMMA BuiltOneByOne ==
  ASSUME NEW f, NEW list, NEW marks, NEW n \in Nat, BuiltUpTo(f, list, marks, n)
  PROVE  /\ f[0] = NothingIndexed(marks)
         /\ \A i \in 1 .. n : f[i] = Indexed(f[i - 1], list[i])
<1>1. \A i \in 0 .. n :
        f[i] = IF i = 0 THEN NothingIndexed(marks)
               ELSE Indexed(f[i - 1], list[i])
  BY DEF BuiltUpTo
<1> QED  BY <1>1

LEMMA RebuiltDescribes ==
  ASSUME NEW list, IsList(list), NEW marks, \A a \in Range(list) : IsAssignment(a)
  PROVE  LET s == Rebuilt(list, marks) IN
         IsSet(s) /\ s.marks = marks /\ Describes(s, Range(list))
<1> DEFINE n == Len(list)
           built == CHOOSE f : BuiltUpTo(f, list, marks, n)
           First(i) == {list[j] : j \in 1 .. i}
           T == {i \in 0 .. n : /\ IsSet(built[i]) /\ built[i].marks = marks
                                /\ Describes(built[i], First(i))}
<1>1. Rebuilt(list, marks) = built[n]
  BY DEF Rebuilt, BuiltUpTo, NothingIndexed
<1>2. n \in Nat /\ DOMAIN list = 1 .. n /\ Range(list) = First(n)
  BY DEF IsList, Range
<1>3. BuiltUpTo(built, list, marks, n)
  BY <1>2, SomeBuilt
<1> HIDE DEF n, built
<1>4. /\ built[0] = NothingIndexed(marks)
      /\ \A i \in 1 .. n : built[i] = Indexed(built[i - 1], list[i])
  <2> HIDE DEF T, First
  <2> QED  BY <1>2, <1>3, BuiltOneByOne
<1>5. 0 \in T
  <2>1. built[0] = NothingIndexed(marks)
    BY <1>4
  <2>2. First(0) = {} /\ 0 \in 0 .. n
    BY <1>2
  <2> HIDE DEF First
  <2>3. IsSet(built[0]) /\ built[0].marks = marks /\ Describes(built[0], First(0))
    BY <2>1, <2>2, EmptyDescribes
  <2> QED  BY <2>2, <2>3
<1>6. ASSUME NEW i \in 1 .. n, i - 1 \in T  PROVE i \in T
  <2>1. built[i] = Indexed(built[i - 1], list[i])
    BY <1>4
  <2>2. First(i) = First(i - 1) \cup {list[i]}
    BY <1>2
  <2>3. First(i) \subseteq Range(list)
    BY <1>2 DEF Range
  <2> HIDE DEF First
  <2>4. /\ IsSet(built[i - 1]) /\ built[i - 1].marks = marks
        /\ Describes(built[i - 1], First(i - 1))
    BY <1>6
  <2>5. /\ IsSet(built[i]) /\ built[i].marks = marks
        /\ Describes(built[i], First(i))
    BY <2>1, <2>2, <2>3, <2>4, IndexedDescribes
  <2> QED  BY <2>5
<1>7. n \in T
  <2> HIDE DEF T
  <2> QED  BY <1>2, <1>5, <1>6, NumbersUpTo
<1> QED  BY <1>1, <1>2, <1>7

-----------------------------------------------------------------------------
(* What the labels of a guest say together *)

SaidUnder(keys, name) == UNION {AssignmentsOf(k.path, labels[k], name) : k \in keys}
MarkedUnder(keys) == UNION {MarksOf(k.path) : k \in keys}

LEMMA SaidIsAssigned ==
  ASSUME NEW path, IsList(path), NEW value, NEW name,
         NEW a \in AssignmentsOf(path, value, name)
  PROVE  IsAssignment(a)
<1>1. PICK row \in MatchingRows(path) : a = SaidBy(row, path, value, name)
  BY AssignmentsAreSaid
<1> DEFINE t == a.target
<1>2. t = Target(row, path, name) /\ a.origin = row.origin /\ row \in SchemaRows
  BY <1>1, RowOfPath DEF SaidBy
<1> HIDE DEF t
<1>3. a.origin \in {Shorthand, Explicit}
  BY <1>2, TargetOfRow
<1>4. IsRoot(t) <=> ObjectOf(t) = Root
  <2>1. CASE IsResource(row)
    <3>1. t.protocol \in Protocols /\ ~IsRoot(t)
      BY <1>2, <2>1, TargetByRow
    <3>2. ObjectOf(t).protocol = t.protocol /\ Root.protocol \notin Protocols
      BY DEF ObjectOf, Object, Root, Protocols
    <3> QED  BY <3>1, <3>2
  <2>2. CASE ~IsResource(row)
    <3>1. t.protocol = "" /\ t.collection = "" /\ t.name = <<>>
      BY <1>2, <2>2 DEF Target
    <3> QED  BY <3>1 DEF IsRoot, ObjectOf, Root
  <2> QED  BY <2>1, <2>2
<1>5. IsRoot(t) => a.origin = Explicit
  BY <1>2, TargetByRow
<1> QED  BY <1>3, <1>4, <1>5 DEF IsAssignment, t

\* The place of the name of a guest is that of its name label alone.
NamePlace ==
  [protocol |-> Root.protocol, collection |-> Root.collection, name |-> Root.name,
   key |-> <<"name">>, entry |-> NoEntry]
NamePath == << <<"name">> >>
NameRow == [source |-> <<"name">>, target |-> <<"name">>, kind |-> "string", origin |-> Explicit]

LEMMA NameRowMatches ==
  NameRow \in MatchingRows(NamePath) /\ IsList(NamePath)
<1>1. NameRow \in SchemaRows
  <2> DEFINE keys == [bool |-> {<<"enable">>}, string |-> {<<"name">>}]
  <2>1. "string" \in DOMAIN keys /\ <<"name">> \in keys["string"]
    OBVIOUS
  <2>2. <<>> \o <<"name">> = <<"name">>
    OBVIOUS
  <2> HIDE DEF keys
  <2>3. [source |-> <<>> \o <<"name">>, target |-> <<>> \o <<"name">>, kind |-> "string",
         origin |-> Explicit] \in Rows(<<>>, <<>>, keys)
    BY <2>1 DEF Rows
  <2>4. NameRow \in Rows(<<>>, <<>>, keys)
    BY <2>2, <2>3 DEF NameRow
  <2> QED  BY <2>4 DEF SchemaRows, RootRows, Plain, keys
<1>2. Fits("name", <<"name">>)
  BY DEF Fits, IsCapture, StringCaptures, Default, DomainIndex
<1>3. /\ NameRow.source = <<"name">> /\ Len(NamePath) = 1 /\ DOMAIN NamePath = {1}
      /\ NamePath[1] = <<"name">>
  BY DEF NameRow, NamePath
<1>4. IsList(NamePath)
  BY DEF IsList, NamePath, Range
<1>5. Len(NameRow.source) = 1 /\ NameRow.source[1] = "name"
  BY <1>3
<1> QED  BY <1>1, <1>2, <1>3, <1>4, <1>5 DEF MatchingRows

LEMMA NamePlaceOfLabel ==
  ASSUME NEW path, IsList(path), NEW value, NEW name,
         NEW a \in AssignmentsOf(path, value, name), NamePlace \in Places(a.target)
  PROVE  path = NamePath /\ a.kind = "string" /\ a.value = value
<1>1. PICK row \in MatchingRows(path) : a = SaidBy(row, path, value, name)
  BY AssignmentsAreSaid
<1> DEFINE t == a.target
<1>2. t = Target(row, path, name) /\ row \in SchemaRows
  BY <1>1, RowOfPath DEF SaidBy
<1> HIDE DEF t
<1>3. t.protocol = Root.protocol /\ t.key = <<"name">>
  <2>1. \E p, c, n, k, e : t = [protocol |-> p, collection |-> c, name |-> n, key |-> k, entry |-> e]
    BY <1>2 DEF Target
  <2>2. NamePlace = t \/ NamePlace = [t EXCEPT !.entry = NoEntry]
    BY DEF Places, t
  <2> QED  BY <2>1, <2>2 DEF NamePlace
<1>4. ~IsResource(row)
  <2>1. Root.protocol \notin Protocols
    BY DEF Root, Object, Protocols
  <2> QED  BY <1>2, <1>3, <2>1, TargetByRow
<1>5. row.target = <<"name">> /\ row.source = row.target
  <2>1. t.key = row.target
    BY <1>2, <1>4 DEF Target
  <2>2. row.origin = Explicit
    BY <1>2, <1>4, TargetByRow
  <2> QED  BY <1>2, <1>3, <2>1, <2>2, TargetOfRow
<1>6. path = NamePath
  <2>1. Len(path) = 1 /\ DOMAIN path = 1 .. 1 /\ Fits("name", path[1])
    <3>1. Len(row.source) = 1 /\ row.source[1] = "name"
      BY <1>5
    <3>2. Len(path) = 1 /\ DOMAIN path = 1 .. 1
      BY <3>1, RowOfPath
    <3>3. Fits(row.source[1], path[1])
      BY <3>2, RowOfPath
    <3> QED  BY <3>1, <3>2, <3>3
  <2>2. path[1] = <<"name">>
    BY <2>1, FitsWord
  <2>3. path \in Seq(Range(path))
    BY DEF IsList
  <2> QED  BY <2>1, <2>2, <2>3 DEF NamePath
<1>7. row = NameRow
  BY <1>6, OneRow, NameRowMatches
<1>8. a.kind = "string" /\ a.value = Parsed(value, "string")
  BY <1>1, <1>7 DEF SaidBy, NameRow
<1> QED  BY <1>6, <1>8 DEF Parsed

LEMMA NameLabelHasItsPlace ==
  ASSUME NEW value, NEW name
  PROVE  \E a \in AssignmentsOf(NamePath, value, name) : NamePlace \in Places(a.target)
<1> DEFINE a == SaidBy(NameRow, NamePath, value, name)
<1>1. Parses(value, NameRow.kind)
  BY DEF NameRow, Parses
<1>2. a \in AssignmentsOf(NamePath, value, name)
  BY <1>1, NameRowMatches, AssignmentsAreSaid
<1>3. a.target = Target(NameRow, NamePath, name)
  BY DEF SaidBy
<1>4. ~IsResource(NameRow) /\ NameRow.target = <<"name">>
  BY DEF NameRow, IsResource, Protocols
<1>5. a.target = NamePlace
  BY <1>3, <1>4 DEF Target, NamePlace, Root, Object
<1> QED  BY <1>2, <1>5 DEF Places

-----------------------------------------------------------------------------
(* The labels to parse                                                     *)

GivenOK ==
  /\ mode \in Modes
  /\ IsList(guestName)
  /\ IsList(note) /\ \A i \in DOMAIN note : IsLine(note[i])

Keys == KeysToParse(labels)

\* The labels of a guest as they are parsed.
LabelsOK ==
  /\ base = GeneratedName(guestName)
  /\ labels = LabelsForGeneratedNames(extracted.labels)

LEMMA ListsOfPieces ==
  ASSUME NEW s, NEW S, s \in Seq(S)
  PROVE  IsList(s) /\ Len(s) \in Nat
BY DEF IsList, Range

LEMMA GeneratedNameIsName ==
  ASSUME NEW name, IsList(name)
  PROVE  GeneratedName(name) \in Seq(NamePieces) \ {<<>>}
<1>1. Fallback \in Seq(NamePieces) \ {<<>>}
  <2>1. Fallback \in Seq(NamePieces) /\ Len(Fallback) \in 1 .. MaxNameLength
    BY PreparationAssumption
  <2>2. Fallback # <<>>
    BY <2>1, NamesAssumption
  <2> QED  BY <2>1, <2>2
<1>2. Normalized(name) \in Seq(NamePieces)
  BY NormalizedName, ListsOfPieces DEF IsList
<1> QED  BY <1>1, <1>2 DEF GeneratedName

LEMMA SequenceOfMore ==
  ASSUME NEW S, NEW T, S \subseteq T, NEW s \in Seq(S)
  PROVE  s \in Seq(T)
<1>1. \A i \in 1 .. Len(s) : s[i] \in T
  OBVIOUS
<1> QED  BY <1>1

LEMMA LongerList ==
  ASSUME NEW s, IsList(s), NEW e
  PROVE  IsList(Append(s, e)) /\ Range(Append(s, e)) = Range(s) \cup {e}
<1> DEFINE S == Range(s) \cup {e}
<1>1. s \in Seq(Range(s)) /\ Range(s) \subseteq S /\ e \in S
  BY DEF IsList
<1> HIDE DEF S
<1>2. s \in Seq(S)
  <2>1. \A i \in DOMAIN s : s[i] \in S
    BY <1>1
  <2> QED  BY <1>1, <2>1
<1>3. Append(s, e) \in Seq(S)
  BY <1>1, <1>2
<1>4. Range(Append(s, e)) = Range(s) \cup {e}
  <2> DEFINE t == Append(s, e)
             n == Len(s)
  <2>1. /\ n \in Nat /\ DOMAIN s = 1 .. n /\ DOMAIN t = 1 .. n + 1
        /\ t[n + 1] = e /\ \A i \in 1 .. n : t[i] = s[i]
    BY <1>2
  <2> HIDE DEF t, n
  <2>2. {t[i] : i \in DOMAIN t} = {s[i] : i \in DOMAIN s} \cup {e}
    <3>1. DOMAIN t = DOMAIN s \cup {n + 1}
      BY <2>1
    <3> QED  BY <2>1, <3>1
  <2> QED  BY <2>2 DEF Range, t
<1> QED  BY <1>3, <1>4, ListsOfPieces

\* Labels to parse are lists at paths that are lists.
LEMMA LabelsToParse ==
  ASSUME TypeOK, LabelsOK
  PROVE  /\ DOMAIN labels \subseteq DOMAIN extracted.labels
         /\ \A key \in Keys : /\ IsList(key.path) /\ IsList(labels[key])
                              /\ key = [prefix |-> "traefik", path |-> key.path]
<1>1. DOMAIN labels \subseteq DOMAIN extracted.labels
  BY DEF TypeOK
<1>2. ASSUME NEW key \in Keys
      PROVE  /\ IsList(key.path) /\ IsList(labels[key])
             /\ key = [prefix |-> "traefik", path |-> key.path]
  <2>1. key \in DOMAIN extracted.labels /\ key \in DOMAIN labels /\ key.prefix = "traefik"
    BY <1>1 DEF Keys, KeysToParse
  <2>2. /\ IsList(key.path) /\ IsList(extracted.labels[key])
        /\ key = [prefix |-> key.prefix, path |-> key.path]
    BY <2>1 DEF TypeOK
  <2>3. \/ labels[key] = extracted.labels[key]
        \/ key = NameKey /\ labels[key] = Normalized(extracted.labels[NameKey])
    BY <2>1 DEF LabelsOK, LabelsForGeneratedNames
  <2>4. Normalized(extracted.labels[key]) \in Seq(NamePieces)
    BY <2>2, NormalizedName, ListsOfPieces DEF IsList
  <2> QED  BY <2>1, <2>2, <2>3, <2>4, ListsOfPieces
<1> QED  BY <1>1, <1>2

\* The name label is parsed when there is one that names something.
LEMMA NameLabel ==
  ASSUME TypeOK, LabelsOK
  PROVE  /\ NameKey \in Keys <=> NameKey \in DOMAIN labels
         /\ NameKey \in Keys => ExpectedName = labels[NameKey] /\ ExpectedName # <<>>
         /\ NameKey \notin Keys => ExpectedName = base
<1>1. NameKey.prefix = "traefik"
  BY DEF NameKey
<1>2. NameKey \in Keys <=> NameKey \in DOMAIN labels
  BY <1>1 DEF Keys, KeysToParse
<1> DEFINE raw == extracted.labels
<1>3. CASE NameKey \notin DOMAIN raw
  <2>1. NameKey \notin DOMAIN labels
    BY <1>3 DEF LabelsOK, LabelsForGeneratedNames
  <2> QED  BY <1>2, <1>3, <2>1 DEF ExpectedName, LabelsOK
<1>4. CASE NameKey \in DOMAIN raw /\ Normalized(raw[NameKey]) = <<>>
  <2>1. NameKey \notin DOMAIN labels
    BY <1>4 DEF LabelsOK, LabelsForGeneratedNames
  <2> QED  BY <1>2, <1>4, <2>1 DEF ExpectedName, LabelsOK
<1>5. CASE NameKey \in DOMAIN raw /\ Normalized(raw[NameKey]) # <<>>
  <2>1. labels[NameKey] = Normalized(raw[NameKey]) /\ NameKey \in DOMAIN labels
    BY <1>5 DEF LabelsOK, LabelsForGeneratedNames
  <2> QED  BY <1>2, <1>5, <2>1 DEF ExpectedName
<1> QED  BY <1>3, <1>4, <1>5

LEMMA ExpectedNameIsName ==
  ASSUME TypeOK, LabelsOK, GivenOK
  PROVE  ExpectedName \in Seq(NamePieces) \ {<<>>} /\ base \in Seq(NamePieces) \ {<<>>}
<1>1. base \in Seq(NamePieces) \ {<<>>} /\ base = GeneratedName(guestName)
  BY GeneratedNameIsName DEF LabelsOK, GivenOK
<1>2. ASSUME NameKey \in DOMAIN extracted.labels
      PROVE  Normalized(extracted.labels[NameKey]) \in Seq(NamePieces)
  <2>1. IsList(extracted.labels[NameKey])
    BY <1>2 DEF TypeOK
  <2> QED  BY <2>1, NormalizedName, ListsOfPieces DEF IsList
<1> QED  BY <1>1, <1>2 DEF ExpectedName

\* A set that says what all labels say, under whatever default name, has the
\* name of the guest.
LEMMA NameOfSet ==
  ASSUME TypeOK, LabelsOK, NEW s, NEW name,
         Describes(s, SaidUnder(Keys, name))
  PROVE  /\ DefaultObjectName(s, base) = ExpectedName
         /\ NameOverride(s) = IF NameKey \in Keys THEN ExpectedName ELSE Unset
<1> DEFINE said == SaidUnder(Keys, name)
<1>1. NameOverride(s) = IF NamePlace \in DOMAIN s.values /\ s.values[NamePlace].kind = "string"
                        THEN s.values[NamePlace].value ELSE Unset
  BY DEF NameOverride, StringValue, ValueAt, NamePlace
<1>2. ASSUME NEW a \in said, NamePlace \in Places(a.target)
      PROVE  NameKey \in Keys /\ a.kind = "string" /\ a.value = labels[NameKey]
  <2>1. PICK key \in Keys : a \in AssignmentsOf(key.path, labels[key], name)
    BY DEF SaidUnder
  <2>2. key.path = NamePath /\ a.kind = "string" /\ a.value = labels[key]
    BY <1>2, <2>1, LabelsToParse, NamePlaceOfLabel
  <2>3. key = NameKey
    BY <2>2, LabelsToParse DEF NameKey, NamePath
  <2> QED  BY <2>2, <2>3
<1>3. NameKey \in Keys => NamePlace \in DOMAIN s.values
  <2> SUFFICES ASSUME NameKey \in Keys PROVE NamePlace \in DOMAIN s.values
    OBVIOUS
  <2>1. NameKey.path = NamePath
    BY DEF NameKey, NamePath
  <2>2. PICK a \in AssignmentsOf(NamePath, labels[NameKey], name) : NamePlace \in Places(a.target)
    BY NameLabelHasItsPlace
  <2>3. a \in said
    BY <2>1, <2>2 DEF SaidUnder
  <2> HIDE DEF said
  <2> QED  BY <2>2, <2>3 DEF Describes, ValuesDescribed, said
<1>4. NamePlace \in DOMAIN s.values =>
        /\ NameKey \in Keys
        /\ s.values[NamePlace].kind = "string" /\ s.values[NamePlace].value = labels[NameKey]
  <2> SUFFICES ASSUME NamePlace \in DOMAIN s.values
               PROVE  /\ NameKey \in Keys
                      /\ s.values[NamePlace].kind = "string"
                      /\ s.values[NamePlace].value = labels[NameKey]
    OBVIOUS
  <2> HIDE DEF said
  <2>1. PICK a \in said : NamePlace \in Places(a.target) /\ s.values[NamePlace] = Held(a)
    BY DEF Describes, ValuesDescribed, said
  <2> QED  BY <1>2, <2>1 DEF Held
<1>5. NameOverride(s) = IF NameKey \in Keys THEN labels[NameKey] ELSE Unset
  BY <1>1, <1>3, <1>4
<1> QED  BY <1>5, NameLabel DEF DefaultObjectName, Unset

-----------------------------------------------------------------------------
(* Parsing, label by label                                                 *)

ParsedSoFar ==
  LET parsed == Keys \ todo
      name == IF pc = "done" THEN ExpectedName ELSE base IN
  /\ LabelsOK
  /\ todo \subseteq Keys
  /\ IsList(assignments) /\ Range(assignments) = SaidUnder(parsed, name)
  /\ IsSet(set) /\ set.marks = MarkedUnder(parsed) /\ Describes(set, Range(assignments))
  /\ rejected = {k \in parsed : AssignmentsOf(k.path, labels[k], base) = {}}

ParseOK ==
  /\ pc \in {"parse", "done"} => ParsedSoFar
  /\ pc = "done" => todo = {}
  /\ pc \notin {"parse", "done"} =>
       todo = {} /\ assignments = <<>> /\ set = EmptySet /\ rejected = {}

LEMMA NoMarks ==
  ASSUME TRUE
  PROVE  EmptySet = NothingIndexed({})
<1>1. EmptySet.marks = {}
  BY DEF EmptySet
<1>2. EmptySet = [values |-> EmptySet.values, objects |-> EmptySet.objects, marks |-> EmptySet.marks]
  BY DEF EmptySet
<1> QED  BY <1>1, <1>2 DEF NothingIndexed

LEMMA MarksDoNotMatter ==
  ASSUME NEW s, IsSet(s), NEW said, Describes(s, said), NEW marks
  PROVE  LET t == [s EXCEPT !.marks = marks] IN
         IsSet(t) /\ t.marks = marks /\ Describes(t, said)
<1> DEFINE t == [s EXCEPT !.marks = marks]
<1>1. t = [values |-> s.values, objects |-> s.objects, marks |-> marks]
  BY DEF IsSet
<1> HIDE DEF t
<1>2. t.values = s.values /\ t.objects = s.objects /\ t.marks = marks
  BY <1>1
<1>3. IsSet(t)
  BY <1>1, <1>2 DEF IsSet
<1>4. Describes(t, said)
  BY <1>2 DEF Describes, ValuesDescribed, ObjectsDescribed
<1> QED  BY <1>2, <1>3, <1>4 DEF t

LEMMA SaidByKeys ==
  ASSUME TypeOK, LabelsOK, NEW name, NEW a \in SaidUnder(Keys, name)
  PROVE  IsAssignment(a)
<1>1. PICK key \in Keys : a \in AssignmentsOf(key.path, labels[key], name)
  BY DEF SaidUnder
<1> QED  BY <1>1, LabelsToParse, SaidIsAssigned

LEMMA SaidUnderAnotherName ==
  ASSUME NEW keys, NEW n, NEW m
  PROVE  SaidUnder(keys, m) = {Renamed(a, n, m) : a \in SaidUnder(keys, n)}
<1>1. \A key \in keys :
        AssignmentsOf(key.path, labels[key], m)
          = {Renamed(a, n, m) : a \in AssignmentsOf(key.path, labels[key], n)}
  BY AssignmentsRenamed
<1> DEFINE Said(key, name) == AssignmentsOf(key.path, labels[key], name)
<1>2. \A key \in keys : Said(key, m) = {Renamed(a, n, m) : a \in Said(key, n)}
  BY <1>1
<1>3. /\ SaidUnder(keys, m) = UNION {Said(key, m) : key \in keys}
      /\ SaidUnder(keys, n) = UNION {Said(key, n) : key \in keys}
  BY DEF SaidUnder
<1> HIDE DEF Said
<1> QED  BY <1>2, <1>3

LEMMA NamesGenerated ==
  ASSUME TypeOK, GenerateNames, ParseOK
  PROVE  ParseOK'
<1>1. pc = "names" /\ pc' = "parse"
  BY DEF GenerateNames
<1>2. /\ todo = {} /\ assignments = <<>> /\ set = EmptySet /\ rejected = {}
      /\ assignments' = <<>> /\ set' = EmptySet /\ rejected' = {}
  BY <1>1 DEF ParseOK, GenerateNames
<1>3. LabelsOK' /\ todo' = Keys'
  BY DEF GenerateNames, LabelsOK, Keys, given
<1>4. Keys' \ todo' = {}
  BY <1>3
<1>5. IsList(<<>>) /\ Range(<<>>) = {}
  BY DEF IsList, Range
<1>6. IsSet(EmptySet) /\ Describes(EmptySet, {}) /\ EmptySet.marks = {}
  BY NoMarks, EmptyDescribes
<1>7. /\ SaidUnder({}, base)' = {}
      /\ MarkedUnder({}) = {}
  BY DEF SaidUnder, MarkedUnder
<1>8. ParsedSoFar'
  BY <1>1, <1>2, <1>3, <1>4, <1>5, <1>6, <1>7 DEF ParsedSoFar, SaidUnder, MarkedUnder
<1> QED  BY <1>1, <1>8 DEF ParseOK

LEMMA LabelParsed ==
  ASSUME TypeOK, ParseLabel, ParseOK
  PROVE  ParseOK'
<1>1. pc = "parse" /\ pc' = "parse"
  BY DEF ParseLabel
<1>2. ParsedSoFar
  BY <1>1 DEF ParseOK
<1>3. /\ LabelsOK' /\ Keys' = Keys /\ labels' = labels /\ base' = base
  BY <1>2 DEF ParseLabel, ParsedSoFar, LabelsOK, Keys, given
<1> DEFINE parsed == Keys \ todo
<1>4. /\ LabelsOK /\ todo \subseteq Keys
      /\ IsList(assignments) /\ Range(assignments) = SaidUnder(parsed, base)
      /\ IsSet(set) /\ set.marks = MarkedUnder(parsed) /\ Describes(set, Range(assignments))
      /\ rejected = {k \in parsed : AssignmentsOf(k.path, labels[k], base) = {}}
  BY <1>1, <1>2 DEF ParsedSoFar
<1>5. PICK key \in todo :
        /\ todo' = todo \ {key}
        /\ LET observed == [set EXCEPT !.marks = @ \cup MarksOf(key.path)]
               said == AssignmentsOf(key.path, labels[key], base) IN
           IF said = {} THEN
             /\ rejected' = rejected \cup {key}
             /\ set' = observed
             /\ UNCHANGED assignments
           ELSE \E a \in said :
             /\ assignments' = Append(assignments, a)
             /\ set' = Indexed(observed, a)
             /\ UNCHANGED rejected
  BY DEF ParseLabel
<1> DEFINE observed == [set EXCEPT !.marks = set.marks \cup MarksOf(key.path)]
           said == AssignmentsOf(key.path, labels[key], base)
           now == parsed \cup {key}
<1>6. Keys' \ todo' = now
  BY <1>3, <1>4, <1>5
<1>7. /\ SaidUnder(now, base) = SaidUnder(parsed, base) \cup said
      /\ MarkedUnder(now) = MarkedUnder(parsed) \cup MarksOf(key.path)
      /\ {k \in now : AssignmentsOf(k.path, labels[k], base) = {}}
           = rejected \cup (IF said = {} THEN {key} ELSE {})
  BY <1>4 DEF SaidUnder, MarkedUnder
<1>8. IsSet(observed) /\ observed.marks = MarkedUnder(now) /\ Describes(observed, Range(assignments))
  <2>1. /\ IsSet(observed) /\ observed.marks = set.marks \cup MarksOf(key.path)
        /\ Describes(observed, Range(assignments))
    BY <1>4, MarksDoNotMatter
  <2> HIDE DEF observed
  <2> QED  BY <1>4, <1>7, <2>1
<1>9. /\ IsList(assignments') /\ Range(assignments') = SaidUnder(now, base)
      /\ IsSet(set') /\ set'.marks = MarkedUnder(now) /\ Describes(set', Range(assignments'))
      /\ rejected' = {k \in now : AssignmentsOf(k.path, labels[k], base) = {}}
  <2>1. CASE said = {}
    <3>1. rejected' = rejected \cup {key} /\ set' = observed /\ assignments' = assignments
      BY <1>5, <2>1
    <3>2. SaidUnder(now, base) = SaidUnder(parsed, base)
      BY <1>7, <2>1
    <3> HIDE DEF observed, now, said, parsed
    <3> QED  BY <1>4, <1>7, <1>8, <2>1, <3>1, <3>2
  <2>2. CASE said # {}
    <3>1. PICK a \in said : /\ assignments' = Append(assignments, a)
                            /\ set' = Indexed(observed, a)
                            /\ rejected' = rejected
      BY <1>5, <2>2
    <3>2. IsList(assignments') /\ Range(assignments') = Range(assignments) \cup {a}
      BY <1>4, <3>1, LongerList
    <3>3. said = {a}
      <4>1. IsList(key.path)
        BY <1>4, LabelsToParse
      <4> QED  BY <3>1, <4>1, OneAssignment
    <3>4. Range(assignments') = SaidUnder(now, base)
      BY <1>4, <1>7, <3>2, <3>3
    <3>5. \A b \in Range(assignments) \cup {a} : IsAssignment(b)
      <4>1. now \subseteq Keys
        BY <1>4
      <4>2. SaidUnder(now, base) \subseteq SaidUnder(Keys, base)
        BY <4>1 DEF SaidUnder
      <4> QED  BY <1>4, <3>2, <3>4, <4>2, SaidByKeys
    <3> HIDE DEF observed, now, said, parsed
    <3>6. /\ IsSet(set') /\ set'.marks = observed.marks
          /\ Describes(set', Range(assignments) \cup {a})
      BY <1>8, <3>1, <3>5, IndexedDescribes
    <3>7. rejected \cup (IF said = {} THEN {key} ELSE {}) = rejected
      BY <2>2
    <3> QED  BY <1>4, <1>7, <1>8, <2>2, <3>1, <3>2, <3>4, <3>6, <3>7
  <2> QED  BY <2>1, <2>2
<1>10. ParsedSoFar'
  <2>1. todo' \subseteq Keys'
    BY <1>3, <1>4, <1>5
  <2>2. SaidUnder(Keys \ todo, base)' = SaidUnder(now, base)
    BY <1>3, <1>6 DEF SaidUnder
  <2>3. MarkedUnder(Keys \ todo)' = MarkedUnder(now)
    BY <1>6
  <2>4. {k \in Keys \ todo : AssignmentsOf(k.path, labels[k], base) = {}}'
          = {k \in now : AssignmentsOf(k.path, labels[k], base) = {}}
    BY <1>3, <1>6
  <2> HIDE DEF now
  <2> QED  BY <1>1, <1>3, <1>9, <2>1, <2>2, <2>3, <2>4 DEF ParsedSoFar
<1> QED  BY <1>1, <1>10 DEF ParseOK

LEMMA RenamedList ==
  ASSUME NEW s, IsList(s), NEW n, NEW m,
         NEW t, t = [i \in DOMAIN s |-> Renamed(s[i], n, m)]
  PROVE  IsList(t) /\ Range(t) = {Renamed(a, n, m) : a \in Range(s)}
<1>1. s \in Seq(Range(s))
  BY DEF IsList
<1>2. DOMAIN s = 1 .. Len(s) /\ Len(s) \in Nat
  BY <1>1
<1>3. Range(t) = {Renamed(a, n, m) : a \in Range(s)}
  BY DEF Range
<1>4. \A i \in 1 .. Len(s) : t[i] \in Range(t)
  BY <1>2 DEF Range
<1>5. t \in [1 .. Len(s) -> Range(t)]
  BY <1>2, <1>4
<1>6. t \in Seq(Range(t))
  BY <1>2, <1>5
<1> QED  BY <1>3, <1>6 DEF IsList

LEMMA NameOverridden ==
  ASSUME TypeOK, ApplyNameOverride, ParseOK
  PROVE  ParseOK'
<1>1. pc = "parse" /\ pc' = "done" /\ todo = {} /\ todo' = {} /\ rejected' = rejected
  BY DEF ApplyNameOverride
<1>2. ParsedSoFar
  BY <1>1 DEF ParseOK
<1>3. /\ LabelsOK' /\ Keys' = Keys /\ labels' = labels /\ base' = base
      /\ ExpectedName' = ExpectedName
  BY <1>2 DEF ApplyNameOverride, ParsedSoFar, LabelsOK, Keys, given, ExpectedName
<1>4. Keys \ todo = Keys
  BY <1>1
<1>5. /\ LabelsOK
      /\ IsList(assignments) /\ Range(assignments) = SaidUnder(Keys, base)
      /\ IsSet(set) /\ set.marks = MarkedUnder(Keys) /\ Describes(set, Range(assignments))
      /\ rejected = {k \in Keys : AssignmentsOf(k.path, labels[k], base) = {}}
  BY <1>1, <1>2, <1>4 DEF ParsedSoFar
<1>6. /\ assignments' = AfterNameOverride(assignments, set, base)
      /\ set' = IF assignments' = assignments THEN set ELSE Rebuilt(assignments', set.marks)
  BY DEF ApplyNameOverride
<1>7. NameOverride(set) = IF NameKey \in Keys THEN ExpectedName ELSE Unset
  BY <1>5, NameOfSet
<1>8. IsList(assignments') /\ Range(assignments') = SaidUnder(Keys, ExpectedName)
  <2>1. CASE NameOverride(set) \in {Unset, base}
    <3>1. assignments' = assignments
      BY <1>6, <2>1 DEF AfterNameOverride
    <3>2. ExpectedName = base
      BY <1>5, <1>7, <2>1, NameLabel DEF Unset
    <3> QED  BY <1>5, <3>1, <3>2
  <2>2. CASE NameOverride(set) \notin {Unset, base}
    <3>1. NameOverride(set) = ExpectedName
      BY <1>7, <2>2
    <3>2. assignments' = [i \in DOMAIN assignments |-> Renamed(assignments[i], base, ExpectedName)]
      BY <1>6, <2>2, <3>1 DEF AfterNameOverride
    <3>3. /\ IsList(assignments')
          /\ Range(assignments') = {Renamed(a, base, ExpectedName) : a \in Range(assignments)}
      BY <1>5, <3>2, RenamedList
    <3> QED  BY <1>5, <3>3, SaidUnderAnotherName
  <2> QED  BY <2>1, <2>2
<1>9. IsSet(set') /\ set'.marks = MarkedUnder(Keys) /\ Describes(set', Range(assignments'))
  <2>1. CASE assignments' = assignments
    BY <1>5, <1>6, <2>1
  <2>2. CASE assignments' # assignments
    <3>1. set' = Rebuilt(assignments', set.marks)
      BY <1>6, <2>2
    <3>2. \A a \in Range(assignments') : IsAssignment(a)
      BY <1>5, <1>8, SaidByKeys
    <3> QED  BY <1>5, <1>8, <3>1, <3>2, RebuiltDescribes
  <2> QED  BY <2>1, <2>2
<1>10. ParsedSoFar'
  <2>1. /\ SaidUnder(Keys \ todo, ExpectedName)' = SaidUnder(Keys, ExpectedName)
        /\ MarkedUnder(Keys \ todo)' = MarkedUnder(Keys)
        /\ {k \in Keys \ todo : AssignmentsOf(k.path, labels[k], base) = {}}'
             = {k \in Keys : AssignmentsOf(k.path, labels[k], base) = {}}
    BY <1>1, <1>3 DEF SaidUnder
  <2>2. todo' \subseteq Keys'
    BY <1>1
  <2> QED  BY <1>1, <1>3, <1>5, <1>8, <1>9, <2>1, <2>2 DEF ParsedSoFar
<1> QED  BY <1>1, <1>10 DEF ParseOK

-----------------------------------------------------------------------------
(* What the parsed labels amount to                                        *)

LEMMA PlacesOfObject ==
  ASSUME NEW path, IsList(path), NEW value, NEW name,
         NEW a \in AssignmentsOf(path, value, name), NEW p \in Places(a.target)
  PROVE  ObjectOf(p) = ObjectOf(a.target) /\ (IsRoot(p) <=> IsRoot(a.target))
<1>1. PICK row \in MatchingRows(path) : a = SaidBy(row, path, value, name)
  BY AssignmentsAreSaid
<1> DEFINE t == a.target
<1>2. \E q, c, n, k, e : t = [protocol |-> q, collection |-> c, name |-> n, key |-> k, entry |-> e]
  BY <1>1 DEF SaidBy, Target
<1>3. p = t \/ p = [t EXCEPT !.entry = NoEntry]
  BY DEF Places
<1> HIDE DEF t
<1>4. p.protocol = t.protocol /\ p.collection = t.collection /\ p.name = t.name
  BY <1>2, <1>3
<1> QED  BY <1>4 DEF ObjectOf, IsRoot, t

LEMMA SetIsAsLabelled ==
  ASSUME TypeOK, ParseOK
  PROVE  ObjectsAsLabelled
<1> SUFFICES ASSUME Done PROVE ObjectsAsLabelled
  BY DEF ObjectsAsLabelled
<1>1. ParsedSoFar /\ todo = {} /\ pc = "done"
  BY DEF ParseOK, Done
<1>2. Keys \ todo = Keys
  BY <1>1
<1>3. /\ LabelsOK /\ Range(assignments) = SaidUnder(Keys, ExpectedName)
      /\ Describes(set, Range(assignments))
  BY <1>1, <1>2 DEF ParsedSoFar
<1>4. Valid = SaidUnder(Keys, ExpectedName)
  BY DEF Valid, SaidUnder, Keys, KeysToParse
<1> DEFINE valid == Valid
<1>5. Describes(set, valid) /\ DefaultObjectName(set, base) = ExpectedName
  BY <1>3, <1>4, NameOfSet
<1> HIDE DEF valid
<1>6. ASSUME NEW p \in DOMAIN set.values
      PROVE  LET here == {a \in valid : p \in Places(a.target)}
                 best == {a \in here : \A b \in here : b.origin <= a.origin} IN
             set.values[p].value \in {a.value : a \in best}
  <2>1. PICK a \in valid : /\ p \in Places(a.target) /\ set.values[p] = Held(a)
                           /\ \A b \in valid : p \in Places(b.target) => b.origin <= a.origin
    BY <1>5 DEF Describes, ValuesDescribed
  <2>2. set.values[p].value = a.value
    BY <2>1 DEF Held
  <2> QED  BY <2>1, <2>2
<1>7. /\ DOMAIN set.values = UNION {Places(a.target) : a \in valid}
      /\ DOMAIN set.objects = {ObjectOf(a.target) : a \in {b \in valid : ~IsRoot(b.target)}}
      /\ \A o \in DOMAIN set.objects :
           set.objects[o] <=> \E a \in valid : ObjectOf(a.target) = o /\ a.origin = Explicit
  BY <1>5 DEF Describes, ValuesDescribed, ObjectsDescribed
<1> QED  BY <1>5, <1>6, <1>7 DEF ObjectsAsLabelled, valid

LEMMA SetFits ==
  ASSUME TypeOK, ParseOK, GivenOK
  PROVE  SetFitsBuilder
<1> SUFFICES ASSUME Done PROVE SetFitsBuilder
  BY DEF SetFitsBuilder
<1>1. ParsedSoFar /\ todo = {} /\ pc = "done"
  BY DEF ParseOK, Done
<1>2. Keys \ todo = Keys
  BY <1>1
<1> DEFINE said == SaidUnder(Keys, ExpectedName)
<1>3. /\ LabelsOK /\ Range(assignments) = said /\ set.marks = MarkedUnder(Keys)
      /\ Describes(set, said)
  BY <1>1, <1>2 DEF ParsedSoFar
<1>4. DefaultObjectName(set, base) = ExpectedName /\ ExpectedName \in Seq(NamePieces) \ {<<>>}
  BY <1>3, NameOfSet, ExpectedNameIsName
<1>5. ASSUME NEW a \in said
      PROVE  /\ IsAssignment(a)
             /\ ~IsRoot(a.target) /\ a.origin = Explicit =>
                  <<a.target.protocol, a.target.collection>> \in set.marks
             /\ a.origin = Shorthand => a.target.name = ExpectedName
             /\ a.target.protocol \in {"tcp", "udp"} => <<a.target.protocol>> \in set.marks
             /\ a.target.collection = "serverstransports" => a.target.protocol = "http"
             /\ \A p \in Places(a.target) :
                  ObjectOf(p) = ObjectOf(a.target) /\ (IsRoot(p) <=> IsRoot(a.target))
  <2>1. PICK key \in Keys : a \in AssignmentsOf(key.path, labels[key], ExpectedName)
    BY DEF SaidUnder
  <2>2. IsList(key.path)
    BY <1>3, LabelsToParse
  <2>3. MarksOf(key.path) \subseteq set.marks
    BY <1>3 DEF MarkedUnder
  <2> QED  BY <2>1, <2>2, <2>3, SaidIsAssigned, SaidOfObjects, PlacesOfObject
<1> HIDE DEF said
<1>6. ASSUME NEW o \in DOMAIN set.objects
      PROVE  /\ set.objects[o] => <<o.protocol, o.collection>> \in set.marks
             /\ ~set.objects[o] => o.name = ExpectedName
             /\ o.protocol \in {"tcp", "udp"} => <<o.protocol>> \in set.marks
             /\ o.collection = "serverstransports" => o.protocol = "http"
  <2>1. PICK b \in said : ~IsRoot(b.target) /\ o = ObjectOf(b.target)
    BY <1>3 DEF Describes, ObjectsDescribed
  <2>2. set.objects[o] <=> \E a \in said : ObjectOf(a.target) = o /\ a.origin = Explicit
    BY <1>3 DEF Describes, ObjectsDescribed
  <2>3. \A t : /\ ObjectOf(t).protocol = t.protocol /\ ObjectOf(t).collection = t.collection
               /\ ObjectOf(t).name = t.name
    BY DEF ObjectOf, Object
  <2>4. ASSUME set.objects[o]  PROVE <<o.protocol, o.collection>> \in set.marks
    <3>1. PICK a \in said : ObjectOf(a.target) = o /\ a.origin = Explicit
      BY <2>2, <2>4
    <3>2. ~IsRoot(a.target)
      BY <1>5, <2>1, <3>1 DEF IsAssignment
    <3> QED  BY <1>5, <2>3, <3>1, <3>2
  <2>5. ASSUME ~set.objects[o]  PROVE o.name = ExpectedName
    <3>1. b.origin # Explicit
      BY <2>1, <2>2, <2>5
    <3>2. b.origin = Shorthand
      BY <1>5, <3>1 DEF IsAssignment
    <3> QED  BY <1>5, <2>1, <2>3, <3>2
  <2>6. b.target.protocol = o.protocol /\ b.target.collection = o.collection
    BY <2>1, <2>3
  <2> QED  BY <1>5, <2>4, <2>5, <2>6
<1>7. ASSUME NEW p \in DOMAIN set.values, ~IsRoot(p)  PROVE ObjectOf(p) \in DOMAIN set.objects
  <2>1. PICK a \in said : p \in Places(a.target)
    BY <1>3 DEF Describes, ValuesDescribed
  <2>2. ~IsRoot(a.target) /\ ObjectOf(p) = ObjectOf(a.target)
    BY <1>5, <1>7, <2>1
  <2> QED  BY <1>3, <2>2 DEF Describes, ObjectsDescribed
<1>8. ASSUME NEW m \in set.marks  PROVE <<m[1]>> \in set.marks
  <2>1. PICK key \in Keys : m \in MarksOf(key.path)
    BY <1>3 DEF MarkedUnder
  <2> QED  BY <1>3, <2>1, MarksClosed DEF MarkedUnder
<1>9. WellFormed(set, base)
  BY <1>4, <1>6, <1>7, <1>8 DEF WellFormed
<1> QED  BY <1>4, <1>9 DEF SetFitsBuilder

-----------------------------------------------------------------------------
(* Reading a fragment                                                      *)

IsExtraction(r) ==
  r = [labels |-> r.labels, sources |-> r.sources, diagnostics |-> r.diagnostics]

IsFound(r) ==
  /\ IsExtraction(r)
  /\ \A key \in DOMAIN r.labels :
       /\ key.prefix \in {"traefik", "pve"} /\ key = [prefix |-> key.prefix, path |-> key.path]
       /\ IsList(key.path) /\ IsList(r.labels[key])
  /\ DOMAIN r.sources = DOMAIN r.labels

IsFragment(words) == IsList(words) /\ words # <<>> /\ \A i \in DOMAIN words : IsWord(words[i])

LEMMA Reported ==
  ASSUME NEW r, IsExtraction(r), NEW number, NEW message, NEW t, t = Report(r, number, message)
  PROVE  /\ IsExtraction(t) /\ t.labels = r.labels /\ t.sources = r.sources
         /\ t.diagnostics = r.diagnostics \cup {[line |-> number, message |-> message]}
<1> DEFINE d == r.diagnostics \cup {[line |-> number, message |-> message]}
<1> HIDE DEF d
<1>1. t = [labels |-> r.labels, sources |-> r.sources, diagnostics |-> d]
  <2>1. t = [r EXCEPT !.diagnostics = d]
    BY DEF Report, d
  <2> QED  BY <2>1 DEF IsExtraction
<1>2. t.labels = r.labels /\ t.sources = r.sources /\ t.diagnostics = d
  BY <1>1
<1>3. IsExtraction(t)
  BY <1>1, <1>2 DEF IsExtraction
<1> QED  BY <1>2, <1>3 DEF d

LEMMA Stored ==
  ASSUME NEW r, IsExtraction(r), NEW number, NEW key, NEW value,
         NEW t, t = Store(r, number, key, value)
  PROVE  /\ IsExtraction(t)
         /\ t.labels = With(r.labels, key, value) /\ t.sources = With(r.sources, key, number)
<1> DEFINE known == IF key \in DOMAIN r.labels THEN Report(r, number, "duplicate") ELSE r
           labels0 == With(r.labels, key, value)
           sources0 == With(r.sources, key, number)
<1>1. IsExtraction(known) /\ known.labels = r.labels /\ known.sources = r.sources
  BY Reported
<1>2. t = [known EXCEPT !.labels = With(known.labels, key, value),
                        !.sources = With(known.sources, key, number)]
  BY DEF Store
<1> HIDE DEF known
<1>3. t = [known EXCEPT !.labels = labels0, !.sources = sources0]
  BY <1>1, <1>2
<1> HIDE DEF labels0, sources0
<1>4. t = [labels |-> labels0, sources |-> sources0, diagnostics |-> known.diagnostics]
  BY <1>1, <1>3 DEF IsExtraction
<1>5. t.labels = labels0 /\ t.sources = sources0 /\ t.diagnostics = known.diagnostics
  BY <1>4
<1>6. IsExtraction(t)
  BY <1>4, <1>5 DEF IsExtraction
<1> QED  BY <1>5, <1>6 DEF labels0, sources0

LEMMA StoredReports ==
  ASSUME NEW r, IsExtraction(r), NEW number, NEW key, NEW value,
         NEW t, t = Store(r, number, key, value)
  PROVE  /\ r.diagnostics \subseteq t.diagnostics
         /\ key \in DOMAIN r.labels =>
              [line |-> number, message |-> "duplicate"] \in t.diagnostics
<1> DEFINE known == IF key \in DOMAIN r.labels THEN Report(r, number, "duplicate") ELSE r
<1>1. /\ IsExtraction(known) /\ r.diagnostics \subseteq known.diagnostics
      /\ key \in DOMAIN r.labels =>
           [line |-> number, message |-> "duplicate"] \in known.diagnostics
  BY Reported
<1>2. \E ls, ss : t = [known EXCEPT !.labels = ls, !.sources = ss]
  BY DEF Store
<1> HIDE DEF known
<1>3. t.diagnostics = known.diagnostics
  BY <1>1, <1>2 DEF IsExtraction
<1> QED  BY <1>1, <1>3

LEMMA WithOne ==
  ASSUME NEW f, NEW k, NEW v
  PROVE  DOMAIN With(f, k, v) = DOMAIN f \cup {k} /\ With(f, k, v)[k] = v
BY DEF With

LEMMA WithOthers ==
  ASSUME NEW f, NEW k, NEW v, NEW x \in DOMAIN f, x # k
  PROVE  With(f, k, v)[x] = f[x]
BY DEF With

\* What becomes of a fragment: it is a label, or it is reported.
LEMMA LabelRead ==
  ASSUME NEW r, IsExtraction(r), NEW number, NEW words, HasValue(words), HasValidKey(words),
         NEW t, t = ReadFragment(r, number, words)
  PROVE  /\ IsExtraction(t)
         /\ t.labels = With(r.labels, KeyOf(words), ValueOf(words))
         /\ t.sources = With(r.sources, KeyOf(words), number)
<1>1. t = Store(r, number, KeyOf(words), ValueOf(words))
  BY DEF ReadFragment
<1> QED  BY <1>1, Stored

LEMMA LabelReported ==
  ASSUME NEW r, IsExtraction(r), NEW number, NEW words, HasValue(words), HasValidKey(words),
         NEW t, t = ReadFragment(r, number, words)
  PROVE  /\ r.diagnostics \subseteq t.diagnostics
         /\ KeyOf(words) \in DOMAIN r.labels =>
              [line |-> number, message |-> "duplicate"] \in t.diagnostics
<1>1. t = Store(r, number, KeyOf(words), ValueOf(words))
  BY DEF ReadFragment
<1> QED  BY <1>1, StoredReports

LEMMA FragmentReported ==
  ASSUME NEW r, IsExtraction(r), NEW number, NEW words, ~(HasValue(words) /\ HasValidKey(words)),
         NEW t, t = ReadFragment(r, number, words)
  PROVE  /\ IsExtraction(t) /\ r.diagnostics \subseteq t.diagnostics
         /\ t.labels = r.labels /\ t.sources = r.sources
         /\ \E d \in t.diagnostics : d.line = number /\ d.message # "duplicate"
<1>1. PICK message : message # "duplicate" /\ t = Report(r, number, message)
  <2>1. t = Report(r, number, "missing '='") \/ t = Report(r, number, "invalid label key")
    BY DEF ReadFragment
  <2>2. "missing '='" # "duplicate" /\ "invalid label key" # "duplicate"
    OBVIOUS
  <2> QED  BY <2>1, <2>2
<1>2. /\ IsExtraction(t) /\ t.labels = r.labels /\ t.sources = r.sources
      /\ t.diagnostics = r.diagnostics \cup {[line |-> number, message |-> message]}
  BY <1>1, Reported
<1>3. [line |-> number, message |-> message] \in t.diagnostics
  BY <1>2
<1>4. /\ [line |-> number, message |-> message].line = number
      /\ [line |-> number, message |-> message].message = message
  OBVIOUS
<1> QED  BY <1>1, <1>2, <1>3, <1>4

\* The label that a fragment gives.
LEMMA LabelOfFragment ==
  ASSUME NEW words, IsFragment(words), HasValidKey(words), NEW key, key = KeyOf(words)
  PROVE  /\ key.prefix \in {"traefik", "pve"} /\ key = [prefix |-> key.prefix, path |-> key.path]
         /\ IsList(key.path) /\ IsList(ValueOf(words))
<1>1. 1 \in DOMAIN words
  BY DEF IsFragment, IsList
<1>2. IsList(words[1].path) /\ IsList(words[1].value)
  BY <1>1 DEF IsFragment, IsWord, HasValidKey
<1>3. /\ key.prefix \in {"traefik", "pve"} /\ key.path = words[1].path
      /\ key = [prefix |-> key.prefix, path |-> key.path]
  BY DEF KeyOf
<1>4. ValueOf(words) \in Seq(Range(words[1].value) \cup {More})
  <2> DEFINE value == words[1].value
             S == Range(value) \cup {More}
             rest == IF Len(words) > 1 THEN <<More>> ELSE <<>>
  <2>1. value \in Seq(Range(value))
    BY <1>2 DEF IsList
  <2>2. rest \in Seq(S)
    <3>1. <<>> \in Seq(S) /\ <<More>> \in Seq(S)
      BY EmptySeq
    <3> QED  BY <3>1
  <2>3. value \in Seq(S)
    <3> HIDE DEF value
    <3>1. \A i \in DOMAIN value : value[i] \in S
      BY <2>1
    <3> HIDE DEF S
    <3> QED  BY <2>1, <3>1
  <2>4. ValueOf(words) = value \o rest
    BY DEF ValueOf
  <2> HIDE DEF value, rest, S
  <2>5. value \o rest \in Seq(S)
    BY <2>2, <2>3
  <2> QED  BY <2>4, <2>5 DEF S, value
<1> QED  BY <1>2, <1>3, <1>4, ListsOfPieces

LEMMA FoundByFragment ==
  ASSUME NEW r, IsFound(r), NEW number, NEW words, IsFragment(words),
         NEW t, t = ReadFragment(r, number, words)
  PROVE  IsFound(t) /\ DOMAIN r.labels \subseteq DOMAIN t.labels
<1>1. IsExtraction(r)
  BY DEF IsFound
<1>2. CASE ~(HasValue(words) /\ HasValidKey(words))
  <2>1. IsExtraction(t) /\ t.labels = r.labels /\ t.sources = r.sources
    BY <1>1, <1>2, FragmentReported
  <2> QED  BY <2>1 DEF IsFound
<1>3. CASE HasValue(words) /\ HasValidKey(words)
  <2> DEFINE key == KeyOf(words)
             value == ValueOf(words)
  <2>1. /\ IsExtraction(t) /\ t.labels = With(r.labels, key, value)
        /\ t.sources = With(r.sources, key, number)
    BY <1>1, <1>3, LabelRead
  <2>2. /\ key.prefix \in {"traefik", "pve"} /\ key = [prefix |-> key.prefix, path |-> key.path]
        /\ IsList(key.path) /\ IsList(value)
    BY <1>3, LabelOfFragment
  <2> HIDE DEF key, value
  <2>3. /\ DOMAIN t.labels = DOMAIN r.labels \cup {key} /\ DOMAIN t.sources = DOMAIN r.sources \cup {key}
        /\ t.labels[key] = value
    <3>1. \A f, v : DOMAIN With(f, key, v) = DOMAIN f \cup {key} /\ With(f, key, v)[key] = v
      BY WithOne
    <3> QED  BY <2>1, <3>1
  <2>4. ASSUME NEW k \in DOMAIN r.labels, k # key  PROVE t.labels[k] = r.labels[k]
    BY <2>1, <2>4, WithOthers
  <2> QED  BY <2>1, <2>2, <2>3, <2>4 DEF IsFound
<1> QED  BY <1>2, <1>3

LEMMA StartsOfLine ==
  ASSUME NEW words
  PROVE  Starts(words) \subseteq DOMAIN words
BY DEF Starts

\* From the start of a label to the next.
LEMMA FragmentOfLine ==
  ASSUME NEW words, IsList(words), \A i \in DOMAIN words : IsWord(words[i]),
         NEW start \in Starts(words)
  PROVE  IsFragment(FragmentFrom(words, start))
<1> DEFINE later == {i \in Starts(words) : i > start}
           end == IF later = {} THEN Len(words) ELSE Min(later) - 1
<1>1. words \in Seq(Range(words)) /\ start \in 1 .. Len(words) /\ Len(words) \in Nat
  BY StartsOfLine DEF IsList
<1>2. end \in start .. Len(words)
  <2>1. CASE later = {}
    BY <1>1, <2>1
  <2>2. CASE later # {}
    <3>1. later \subseteq start + 1 .. Len(words)
      BY <1>1, StartsOfLine
    <3>2. later \subseteq Nat
      BY <1>1, <3>1
    <3>3. end = Min(later) - 1
      BY <2>2
    <3> HIDE DEF later, end
    <3>4. \E i \in later : \A j \in later : i <= j
      BY <2>2, <3>2, LeastNumber
    <3>5. Min(later) \in later
      BY <3>4 DEF Min
    <3>6. Min(later) \in start + 1 .. Len(words)
      BY <3>1, <3>5
    <3> QED  BY <1>1, <3>3, <3>6
  <2> QED  BY <2>1, <2>2
<1>3. FragmentFrom(words, start) = SubSeq(words, start, end)
  BY DEF FragmentFrom
<1> DEFINE fragment == FragmentFrom(words, start)
<1> HIDE DEF end, fragment
<1>4. /\ fragment \in Seq(Range(words)) /\ Len(fragment) = end - start + 1
      /\ \A i \in 1 .. Len(fragment) : fragment[i] = words[start + i - 1]
  BY <1>1, <1>2, <1>3 DEF fragment
<1>5. fragment # <<>>
  BY <1>1, <1>2, <1>4
<1>6. \A i \in DOMAIN fragment : IsWord(fragment[i])
  <2>1. \A w \in Range(words) : IsWord(w)
    BY DEF Range
  <2> QED  BY <1>4, <2>1
<1>7. IsList(fragment)
  BY <1>4, ListsOfPieces
<1> QED  BY <1>5, <1>6, <1>7 DEF IsFragment, fragment

-----------------------------------------------------------------------------
(* Types                                                                   *)

ScanOK ==
  /\ pc \in {"fenced", "block", "loose", "line", "names", "parse", "done"}
  /\ line \in 1 .. Len(note) + 1
  /\ fence \in {"none", "other", "traefik"}
  /\ seenTraefikFence \in BOOLEAN
  /\ fence = "traefik" \/ block # <<>> => seenTraefikFence
  /\ block \in Seq(1 .. line - 1)
  /\ pc = "line" => line <= Len(note) /\ starts \subseteq Starts(Line.words)

KeysOK ==
  /\ DOMAIN labels \subseteq DOMAIN extracted.labels
  /\ todo \cup rejected \subseteq DOMAIN labels

TypesOK == GivenOK /\ ScanOK /\ IsFound(extracted) /\ KeysOK

LEMMA TypesAreTypeOK ==
  ASSUME TypesOK
  PROVE  TypeOK
BY DEF TypesOK, TypeOK, ScanOK, KeysOK, IsFound

LEMMA LineOfNote ==
  ASSUME GivenOK, NEW i \in 1 .. Len(note)
  PROVE  /\ IsLine(note[i]) /\ IsList(note[i].words)
         /\ \A w \in DOMAIN note[i].words : IsWord(note[i].words[w])
BY DEF GivenOK, IsLine, IsList

LEMMA NoteLength ==
  ASSUME GivenOK
  PROVE  Len(note) \in Nat /\ DOMAIN note = 1 .. Len(note)
BY DEF GivenOK, IsList

LEMMA TypesAtFirst ==
  ASSUME Init
  PROVE  TypesOK
<1>1. GivenOK
  BY PreparationAssumption DEF Init, GivenOK
<1>2. ScanOK
  <2>1. <<>> \in Seq(1 .. 0)
    BY EmptySeq
  <2>2. line = 1 /\ block = <<>> /\ 1 - 1 = 0
    BY DEF Init
  <2>3. block \in Seq(1 .. line - 1)
    BY <2>1, <2>2
  <2>4. pc \in {"fenced", "loose"} /\ fence = "none" /\ seenTraefikFence = FALSE
    BY DEF Init
  <2>5. line \in 1 .. Len(note) + 1
    BY <1>1, <2>2, NoteLength
  <2> QED  BY <2>2, <2>3, <2>4, <2>5 DEF ScanOK
<1>3. IsFound(extracted)
  <2>1. DOMAIN Empty = {}
    BY DEF Empty
  <2>2. extracted = [labels |-> Empty, sources |-> Empty, diagnostics |-> {}]
    BY DEF Init
  <2> QED  BY <2>1, <2>2 DEF IsFound, IsExtraction
<1>4. KeysOK
  <2>1. DOMAIN Empty = {}
    BY DEF Empty
  <2> QED  BY <2>1 DEF Init, KeysOK
<1> QED  BY <1>1, <1>2, <1>3, <1>4 DEF TypesOK

LEMMA ScanSteps ==
  ASSUME TypesOK, [Next]_vars
  PROVE  ScanOK'
<1>1. GivenOK /\ ScanOK /\ Len(note) \in Nat /\ UNCHANGED given
  BY NoteLength DEF TypesOK, Next, vars, given, OpenFence, CloseOtherFence, CloseTraefikFence,
     TakeLine, EndInTraefikFence, EndFenced, ReadBlockLine, EndBlock, BeginLooseLine,
     ReadLooseFragment, EndLooseLine, EndLoose, GenerateNames, ParseLabel, ApplyNameOverride
<1>2. line \in Nat /\ note' = note /\ block \in Seq(1 .. line - 1)
  BY <1>1 DEF ScanOK, given
<1>3. ASSUME line <= Len(note)  PROVE Line.fence \in {"no", "traefik", "other"}
  BY <1>1, <1>2, <1>3, LineOfNote DEF ScanOK, Line, IsLine
<1>4. ASSUME NEW n \in Nat, line <= n  PROVE block \in Seq(1 .. n)
  <2>1. 1 .. line - 1 \subseteq 1 .. n
    BY <1>2, <1>4
  <2> QED  BY <1>2, <2>1, SequenceOfMore
<1>5. block \in Seq(1 .. (line + 1) - 1)
  BY <1>2, <1>4
<1>6. CASE OpenFence
  <2>1. Line.fence \in {"other", "traefik"}
    BY <1>3, <1>6 DEF OpenFence, IsFence
  <2>2. /\ line' = line + 1 /\ fence' = Line.fence /\ block' = block /\ pc' = pc /\ pc = "fenced"
        /\ seenTraefikFence' = (seenTraefikFence \/ Line.fence = "traefik") /\ line <= Len(note)
    BY <1>6 DEF OpenFence
  <2>3. seenTraefikFence' \in BOOLEAN
    BY <2>2
  <2>4. fence' = "traefik" \/ block' # <<>> => seenTraefikFence'
    BY <1>1, <2>2 DEF ScanOK
  <2>5. line' \in 1 .. Len(note) + 1 /\ block' \in Seq(1 .. line' - 1)
    BY <1>1, <1>2, <1>5, <2>2
  <2> QED  BY <1>1, <1>2, <2>1, <2>2, <2>3, <2>4, <2>5 DEF ScanOK
<1>7. CASE CloseOtherFence
  BY <1>1, <1>2, <1>5, <1>7 DEF CloseOtherFence, ScanOK
<1>8. CASE CloseTraefikFence
  BY <1>1, <1>2, <1>8 DEF CloseTraefikFence, ScanOK, scan
<1>9. CASE TakeLine
  <2>1. line \in 1 .. (line + 1) - 1
    BY <1>1 DEF ScanOK
  <2>2. Append(block, line) \in Seq(1 .. (line + 1) - 1)
    BY <1>5, <2>1
  <2>3. block' \in Seq(1 .. line' - 1) /\ (block' # <<>> => seenTraefikFence')
    BY <1>1, <1>5, <1>9, <2>2 DEF TakeLine, ScanOK
  <2> QED  BY <1>1, <1>2, <1>9, <2>3 DEF TakeLine, ScanOK
<1>10. CASE EndInTraefikFence
  BY <1>1, <1>2, <1>10 DEF EndInTraefikFence, ScanOK, scan
<1>11. CASE EndFenced
  <2>1. CASE mode = "auto" /\ ~seenTraefikFence
    <3>1. block = <<>> /\ <<>> \in Seq(1 .. 0)
      BY <1>1, <2>1, EmptySeq DEF ScanOK
    <3>2. line' = 1 /\ block' = block /\ pc' = "loose" /\ 1 - 1 = 0
      BY <1>11, <2>1 DEF EndFenced
    <3> QED  BY <1>1, <1>2, <1>11, <3>1, <3>2 DEF EndFenced, ScanOK
  <2>2. CASE ~(mode = "auto" /\ ~seenTraefikFence)
    BY <1>1, <1>2, <1>11, <2>2 DEF EndFenced, ScanOK
  <2> QED  BY <2>1, <2>2
<1>12. CASE ReadBlockLine
  <2>1. block # <<>> /\ block' = Tail(block) /\ line' = line
    BY <1>12 DEF ReadBlockLine
  <2>2. Tail(block) \in Seq(1 .. line - 1)
    BY <1>2, <2>1
  <2> QED  BY <1>1, <1>2, <1>12, <2>1, <2>2 DEF ReadBlockLine, ScanOK
<1>13. CASE EndBlock
  BY <1>1, <1>2, <1>13 DEF EndBlock, ScanOK, scan
<1>14. CASE BeginLooseLine
  BY <1>1, <1>2, <1>14 DEF BeginLooseLine, ScanOK, Line
<1>15. CASE ReadLooseFragment
  BY <1>1, <1>2, <1>15 DEF ReadLooseFragment, ScanOK, Line
<1>16. CASE EndLooseLine
  BY <1>1, <1>2, <1>5, <1>16 DEF EndLooseLine, ScanOK
<1>17. CASE EndLoose
  BY <1>1, <1>2, <1>17 DEF EndLoose, ScanOK, scan
<1>18. CASE GenerateNames
  BY <1>1, <1>2, <1>18 DEF GenerateNames, ScanOK, scan
<1>19. CASE ParseLabel
  BY <1>1, <1>2, <1>19 DEF ParseLabel, ScanOK, scan
<1>20. CASE ApplyNameOverride
  BY <1>1, <1>2, <1>20 DEF ApplyNameOverride, ScanOK, scan
<1>21. CASE UNCHANGED vars
  BY <1>1, <1>2, <1>21 DEF vars, ScanOK, scan, Line
<1> QED  BY <1>6, <1>7, <1>8, <1>9, <1>10, <1>11, <1>12, <1>13, <1>14, <1>15, <1>16, <1>17,
            <1>18, <1>19, <1>20, <1>21 DEF Next

LEMMA FoundSteps ==
  ASSUME TypesOK, [Next]_vars
  PROVE  IsFound(extracted)' /\ DOMAIN extracted.labels \subseteq DOMAIN extracted'.labels
<1>1. GivenOK /\ ScanOK /\ IsFound(extracted) /\ IsExtraction(extracted)
  BY DEF TypesOK, IsFound
<1>2. CASE extracted' = extracted
  BY <1>1, <1>2 DEF IsFound, IsExtraction
<1>3. CASE EndInTraefikFence
  <2>1. extracted' = Report(extracted, Len(note) - Len(block), "unterminated")
    BY <1>3 DEF EndInTraefikFence
  <2>2. /\ IsExtraction(extracted') /\ extracted'.labels = extracted.labels
        /\ extracted'.sources = extracted.sources
    BY <1>1, <2>1, Reported
  <2> QED  BY <1>1, <2>2 DEF IsFound, IsExtraction
<1>4. CASE ReadBlockLine
  <2>1. PICK number \in 1 .. Len(note) : extracted' = ReadFencedLine(extracted, number)
    <3>1. Head(block) \in 1 .. line - 1 /\ line \in 1 .. Len(note) + 1
      BY <1>1, <1>4 DEF ReadBlockLine, ScanOK
    <3> QED  BY <1>1, <1>4, <3>1, NoteLength DEF ReadBlockLine
  <2>2. CASE IsLeftOut(note[number].words)
    BY <1>2, <2>1, <2>2 DEF ReadFencedLine
  <2>3. CASE ~IsLeftOut(note[number].words)
    <3>1. extracted' = ReadFragment(extracted, number, note[number].words)
      BY <2>1, <2>3 DEF ReadFencedLine
    <3>2. IsFragment(note[number].words)
      BY <1>1, <2>3, LineOfNote DEF IsFragment, IsLeftOut
    <3> QED  BY <1>1, <3>1, <3>2, FoundByFragment DEF IsFound, IsExtraction
  <2> QED  BY <2>2, <2>3
<1>5. CASE ReadLooseFragment
  <2>1. PICK start \in starts :
          extracted' = ReadFragment(extracted, line, FragmentFrom(Line.words, start))
    BY <1>5 DEF ReadLooseFragment
  <2>2. start \in Starts(Line.words) /\ line \in 1 .. Len(note)
    BY <1>1, <1>5, NoteLength DEF ReadLooseFragment, ScanOK
  <2>3. IsFragment(FragmentFrom(Line.words, start))
    BY <1>1, <2>2, LineOfNote, FragmentOfLine DEF Line
  <2> QED  BY <1>1, <2>1, <2>3, FoundByFragment DEF IsFound, IsExtraction
<1> QED  BY <1>2, <1>3, <1>4, <1>5 DEF Next, vars, OpenFence, CloseOtherFence, CloseTraefikFence,
     TakeLine, EndFenced, EndBlock, BeginLooseLine, EndLooseLine, EndLoose, GenerateNames,
     ParseLabel, ApplyNameOverride

LEMMA KeysSteps ==
  ASSUME TypesOK, ParseOK, [Next]_vars
  PROVE  KeysOK'
<1>1. KeysOK /\ DOMAIN extracted.labels \subseteq DOMAIN extracted'.labels
  BY FoundSteps DEF TypesOK
<1>2. CASE GenerateNames
  <2>1. DOMAIN LabelsForGeneratedNames(extracted.labels) \subseteq DOMAIN extracted.labels
    BY DEF LabelsForGeneratedNames
  <2>2. /\ labels' = LabelsForGeneratedNames(extracted.labels) /\ todo' = KeysToParse(labels')
        /\ rejected' = rejected /\ extracted' = extracted
    BY <1>2 DEF GenerateNames
  <2>3. rejected = {}
    BY <1>2 DEF TypesOK, ParseOK, GenerateNames
  <2>4. todo' \subseteq DOMAIN labels'
    BY <2>2 DEF KeysToParse
  <2> QED  BY <2>1, <2>2, <2>3, <2>4 DEF KeysOK
<1>3. CASE ParseLabel
  <2>1. PICK key \in todo : todo' = todo \ {key} /\ rejected' \in {rejected, rejected \cup {key}}
    BY <1>3 DEF ParseLabel
  <2>2. labels' = labels /\ extracted' = extracted
    BY <1>3 DEF ParseLabel
  <2> QED  BY <1>1, <2>1, <2>2 DEF KeysOK
<1>4. CASE UNCHANGED <<labels, todo, rejected>>
  BY <1>1, <1>4 DEF KeysOK
<1> QED  BY <1>2, <1>3, <1>4 DEF Next, vars, parse, OpenFence, CloseOtherFence, CloseTraefikFence,
     TakeLine, EndInTraefikFence, EndFenced, ReadBlockLine, EndBlock, BeginLooseLine,
     ReadLooseFragment, EndLooseLine, EndLoose, ApplyNameOverride

LEMMA ParseSteps ==
  ASSUME TypesOK, ParseOK, [Next]_vars
  PROVE  ParseOK'
<1>1. TypeOK
  BY TypesAreTypeOK
<1>2. CASE GenerateNames
  BY <1>1, <1>2, NamesGenerated
<1>3. CASE ParseLabel
  BY <1>1, <1>3, LabelParsed
<1>4. CASE ApplyNameOverride
  BY <1>1, <1>4, NameOverridden
<1>5. CASE UNCHANGED <<parse, labels>> /\ pc \notin {"parse", "done"} /\ pc' \notin {"parse", "done"}
  BY <1>5 DEF ParseOK, parse
<1>6. CASE UNCHANGED vars
  <2>1. UNCHANGED <<pc, guestName, extracted, base, labels, todo, assignments, set, rejected>>
    BY <1>6 DEF vars, given, parse
  <2>2. ParsedSoFar' <=> ParsedSoFar
    BY <2>1 DEF ParsedSoFar, LabelsOK, Keys, SaidUnder, ExpectedName
  <2> QED  BY <2>1, <2>2 DEF ParseOK
<1> QED  BY <1>2, <1>3, <1>4, <1>5, <1>6 DEF Next, OpenFence, CloseOtherFence, CloseTraefikFence,
     TakeLine, EndInTraefikFence, EndFenced, ReadBlockLine, EndBlock, BeginLooseLine,
     ReadLooseFragment, EndLooseLine, EndLoose

LEMMA GivenSteps ==
  ASSUME TypesOK, [Next]_vars
  PROVE  GivenOK' /\ UNCHANGED given
<1>1. UNCHANGED given
  BY DEF Next, vars, OpenFence, CloseOtherFence, CloseTraefikFence,
     TakeLine, EndInTraefikFence, EndFenced, ReadBlockLine, EndBlock, BeginLooseLine,
     ReadLooseFragment, EndLooseLine, EndLoose, GenerateNames, ParseLabel, ApplyNameOverride
<1> QED  BY <1>1 DEF TypesOK, GivenOK, given

LEMMA ParseInvariance ==
  Spec => [](TypesOK /\ ParseOK)
<1>1. Init => TypesOK /\ ParseOK
  BY TypesAtFirst DEF Init, ParseOK
<1>2. TypesOK /\ ParseOK /\ [Next]_vars => (TypesOK /\ ParseOK)'
  BY GivenSteps, ScanSteps, FoundSteps, KeysSteps, ParseSteps DEF TypesOK
<1> QED  BY <1>1, <1>2, PTL DEF Spec

-----------------------------------------------------------------------------
(* The theorems about the label set                                        *)

\* The preparation of a guest keeps its variables within their types: what is
\* found is of the note and what is parsed is of the labels found
\* (traefik/labels/extract.go, parse.go).
THEOREM TypeCorrectness == Spec => []TypeOK
BY ParseInvariance, TypesAreTypeOK, PTL

\* The label set is what the valid labels say with the final name as the
\* default name, in whatever order they were parsed and however the name
\* label moved the shorthand ones (parse.go, set.go, applyNameOverride).
THEOREM LabelsMakeObjects == Spec => []ObjectsAsLabelled
<1>1. TypesOK /\ ParseOK => ObjectsAsLabelled
  BY TypesAreTypeOK, SetIsAsLabelled
<1> QED  BY <1>1, ParseInvariance, PTL

\* Every label set is one that the configuration builder can take
\* (traefik/config.go reads it as BuilderAssumption says).
THEOREM SetsFitBuilder == Spec => []SetFitsBuilder
<1>1. TypesOK /\ ParseOK => SetFitsBuilder
  BY TypesAreTypeOK, SetFits DEF TypesOK
<1> QED  BY <1>1, ParseInvariance, PTL

-----------------------------------------------------------------------------
(* Reading the note: the fences                                            *)

IncreasingSeq(s) == \A i, j \in DOMAIN s : i < j => s[i] < s[j]

\* While fences are looked for.
FencesSeen ==
  /\ mode # "loose"
  /\ fence = "none" <=> Cardinality(Markers(line - 1)) % 2 = 0
  /\ seenTraefikFence <=> fence = "traefik"
  /\ ~seenTraefikFence => block = <<>> /\ \A i \in TraefikOpenings : i >= line
  /\ seenTraefikFence =>
       /\ FirstFence \in TraefikOpenings /\ FirstFence < line
       /\ Range(block) = FirstFence + 1 .. line - 1 /\ IncreasingSeq(block)
       /\ \A i \in FirstFence + 1 .. line - 1 : ~IsFence(note[i])

\* When the lines of the first fence are known.
BlockFound ==
  /\ ReadsFence /\ TraefikOpenings # {}
  /\ Range(block) \subseteq FencedLines /\ IncreasingSeq(block)
  /\ \A i \in FencedLines \ Range(block), j \in Range(block) : i < j

LEMMA MarkersUpTo ==
  ASSUME GivenOK, NEW n \in 1 .. Len(note)
  PROVE  /\ IsFence(note[n]) => Cardinality(Markers(n)) = Cardinality(Markers(n - 1)) + 1
         /\ ~IsFence(note[n]) => Markers(n) = Markers(n - 1)
         /\ Cardinality(Markers(n - 1)) \in Nat
<1>1. n \in Nat /\ n - 1 \in Nat
  BY NoteLength
<1>2. IsFiniteSet(Markers(n - 1))
  <2>1. IsFiniteSet(1 .. n - 1)
    BY <1>1, FS_Interval
  <2>2. Markers(n - 1) \subseteq 1 .. n - 1
    BY DEF Markers
  <2> QED  BY <2>1, <2>2, FS_Subset
<1>3. Cardinality(Markers(n - 1)) \in Nat
  BY <1>2, FS_CardinalityType
<1>4. Markers(n) = IF IsFence(note[n]) THEN Markers(n - 1) \cup {n} ELSE Markers(n - 1)
  BY <1>1 DEF Markers
<1>5. n \notin Markers(n - 1)
  BY <1>1 DEF Markers
<1>6. Cardinality(Markers(n - 1) \cup {n}) = Cardinality(Markers(n - 1)) + 1
  BY <1>2, <1>5, FS_AddElement
<1> QED  BY <1>3, <1>4, <1>6

LEMMA NoMarkers ==
  Cardinality(Markers(0)) % 2 = 0
<1>1. Markers(0) = {}
  BY DEF Markers
<1>2. Cardinality(Markers(0)) = 0
  BY <1>1, FS_EmptySet
<1> QED  BY <1>2

\* The first fence is the one that no other comes before.
LEMMA FirstOpening ==
  ASSUME GivenOK, NEW f \in TraefikOpenings, \A i \in TraefikOpenings : f <= i
  PROVE  FirstFence = f
<1>1. TraefikOpenings \subseteq Nat
  BY NoteLength DEF TraefikOpenings
<1>2. Min(TraefikOpenings) \in TraefikOpenings /\ \A i \in TraefikOpenings : Min(TraefikOpenings) <= i
  BY DEF Min
<1>3. Min(TraefikOpenings) <= f /\ f <= Min(TraefikOpenings)
  BY <1>2
<1>4. f \in Nat /\ Min(TraefikOpenings) \in Nat
  BY <1>1, <1>2
<1>5. Min(TraefikOpenings) = f
  BY <1>3, <1>4
<1> QED  BY <1>5 DEF FirstFence

LEMMA SameNote ==
  ASSUME UNCHANGED given
  PROVE  /\ TraefikOpenings' = TraefikOpenings /\ FirstFence' = FirstFence
         /\ FencedLines' = FencedLines /\ ReadsFence' = ReadsFence /\ Fragments' = Fragments
         /\ \A n : Markers(n)' = Markers(n)
<1>1. note' = note /\ mode' = mode
  BY DEF given
<1>2. \A n : Markers(n)' = Markers(n)
  BY <1>1 DEF Markers
<1>3. TraefikOpenings' = TraefikOpenings
  BY <1>1 DEF TraefikOpenings, Markers
<1>4. FirstFence' = FirstFence
  BY <1>3 DEF FirstFence
<1>5. FencedLines' = FencedLines
  BY <1>1, <1>4 DEF FencedLines
<1>6. ReadsFence' = ReadsFence
  BY <1>1, <1>3 DEF ReadsFence
<1>7. Fragments' = Fragments
  BY <1>1, <1>3, <1>5, <1>6 DEF Fragments
<1> QED  BY <1>2, <1>3, <1>4, <1>5, <1>6, <1>7

LEMMA Openings ==
  ASSUME GivenOK, NEW n \in 1 .. Len(note)
  PROVE  n \in TraefikOpenings <=>
           note[n].fence = "traefik" /\ Cardinality(Markers(n - 1)) % 2 = 0
BY NoteLength DEF TraefikOpenings

\* Each line keeps count of the fences.
LEMMA FenceOpened ==
  ASSUME TypesOK, FencesSeen, OpenFence
  PROVE  FencesSeen'
<1> DEFINE n == line
           c == Cardinality(Markers(n - 1))
<1>1. /\ fence = "none" /\ IsFence(note[n]) /\ fence' = note[n].fence /\ line' = n + 1
      /\ seenTraefikFence' = (seenTraefikFence \/ note[n].fence = "traefik")
      /\ block' = block /\ UNCHANGED given
  BY DEF OpenFence, Line
<1>2. GivenOK /\ n \in 1 .. Len(note) /\ Len(note) \in Nat
  BY NoteLength DEF TypesOK, ScanOK, OpenFence
<1>3. /\ TraefikOpenings' = TraefikOpenings /\ FirstFence' = FirstFence
      /\ \A k : Markers(k)' = Markers(k)
  BY <1>1, SameNote
<1>4. note' = note /\ mode' = mode /\ mode # "loose"
  BY <1>1 DEF given, FencesSeen
<1>5. ~seenTraefikFence /\ block = <<>> /\ \A i \in TraefikOpenings : i >= n
  BY <1>1 DEF FencesSeen
<1>6. /\ c \in Nat /\ c % 2 = 0 /\ Cardinality(Markers(n)) = c + 1
  BY <1>1, <1>2, MarkersUpTo DEF FencesSeen
<1>7. note[n].fence \in {"traefik", "other"}
  BY <1>1, <1>2, LineOfNote DEF IsLine, IsFence
<1>8. n \in TraefikOpenings <=> note[n].fence = "traefik"
  BY <1>2, <1>6, Openings
<1>9. line' - 1 = n
  BY <1>1, <1>2
<1>10. (c + 1) % 2 # 0
  BY <1>6
<1> HIDE DEF n, c
<1>11. fence' # "none" /\ Cardinality(Markers(line' - 1)) % 2 # 0
  BY <1>1, <1>6, <1>7, <1>9, <1>10
<1>12. seenTraefikFence' <=> fence' = "traefik"
  BY <1>1, <1>5
<1>13. ASSUME ~seenTraefikFence'
       PROVE  block' = <<>> /\ \A i \in TraefikOpenings : i >= line'
  <2>1. n \notin TraefikOpenings /\ line' = n + 1
    BY <1>1, <1>8, <1>13
  <2>2. \A i \in TraefikOpenings : i \in Nat
    BY <1>2, NoteLength DEF TraefikOpenings
  <2> QED  BY <1>1, <1>2, <1>5, <2>1, <2>2
<1>14. ASSUME seenTraefikFence'
       PROVE  /\ FirstFence \in TraefikOpenings /\ FirstFence < line'
              /\ Range(block') = FirstFence + 1 .. line' - 1 /\ IncreasingSeq(block')
              /\ \A i \in FirstFence + 1 .. line' - 1 : ~IsFence(note[i])
  <2>1. n \in TraefikOpenings
    BY <1>1, <1>5, <1>8, <1>14
  <2>2. \A i \in TraefikOpenings : n <= i
    BY <1>2, <1>5, NoteLength DEF TraefikOpenings
  <2>3. FirstFence = n
    BY <1>2, <2>1, <2>2, FirstOpening
  <2>4. block' = <<>> /\ Range(<<>>) = {} /\ IncreasingSeq(<<>>)
    BY <1>1, <1>5 DEF Range, IncreasingSeq
  <2>5. FirstFence + 1 .. line' - 1 = {} /\ FirstFence < line'
    BY <1>1, <1>2, <1>9, <2>3
  <2> QED  BY <2>1, <2>3, <2>4, <2>5
<1> QED  BY <1>3, <1>4, <1>11, <1>12, <1>13, <1>14 DEF FencesSeen

LEMMA OtherFenceClosed ==
  ASSUME TypesOK, FencesSeen, CloseOtherFence
  PROVE  FencesSeen'
<1> DEFINE n == line
           c == Cardinality(Markers(n - 1))
<1>1. /\ fence = "other" /\ IsFence(note[n]) /\ fence' = "none" /\ line' = n + 1
      /\ seenTraefikFence' = seenTraefikFence /\ block' = block /\ UNCHANGED given
  BY DEF CloseOtherFence, Line
<1>2. GivenOK /\ n \in 1 .. Len(note) /\ Len(note) \in Nat
  BY NoteLength DEF TypesOK, ScanOK, CloseOtherFence
<1>3. /\ TraefikOpenings' = TraefikOpenings /\ FirstFence' = FirstFence
      /\ \A k : Markers(k)' = Markers(k)
  BY <1>1, SameNote
<1>4. note' = note /\ mode' = mode /\ mode # "loose"
  BY <1>1 DEF given, FencesSeen
<1>5. ~seenTraefikFence /\ block = <<>> /\ \A i \in TraefikOpenings : i >= n
  BY <1>1 DEF FencesSeen
<1>6. c \in Nat /\ c % 2 # 0 /\ Cardinality(Markers(n)) = c + 1
  BY <1>1, <1>2, MarkersUpTo DEF FencesSeen
<1>7. n \notin TraefikOpenings
  BY <1>2, <1>6, Openings
<1>8. line' - 1 = n
  BY <1>1, <1>2
<1>9. (c + 1) % 2 = 0
  BY <1>6
<1> HIDE DEF n, c
<1>10. fence' = "none" /\ Cardinality(Markers(line' - 1)) % 2 = 0
  BY <1>1, <1>6, <1>8, <1>9
<1>11. \A i \in TraefikOpenings : i >= line'
  <2>1. \A i \in TraefikOpenings : i \in Nat
    BY <1>2, NoteLength DEF TraefikOpenings
  <2> QED  BY <1>1, <1>2, <1>5, <1>7, <2>1
<1> QED  BY <1>1, <1>3, <1>4, <1>5, <1>10, <1>11 DEF FencesSeen

LEMMA LineTaken ==
  ASSUME TypesOK, FencesSeen, TakeLine
  PROVE  FencesSeen'
<1> DEFINE n == line
<1>1. /\ ~IsFence(note[n]) /\ fence' = fence /\ line' = n + 1
      /\ block' = IF fence = "traefik" THEN Append(block, n) ELSE block
      /\ seenTraefikFence' = seenTraefikFence /\ UNCHANGED given
  BY DEF TakeLine, Line
<1>2. GivenOK /\ n \in 1 .. Len(note) /\ Len(note) \in Nat
  BY NoteLength DEF TypesOK, ScanOK, TakeLine
<1>3. /\ TraefikOpenings' = TraefikOpenings /\ FirstFence' = FirstFence
      /\ \A k : Markers(k)' = Markers(k)
  BY <1>1, SameNote
<1>4. note' = note /\ mode' = mode /\ mode # "loose"
  BY <1>1 DEF given, FencesSeen
<1>5. line' - 1 = n /\ Markers(n) = Markers(n - 1)
  BY <1>1, <1>2, MarkersUpTo
<1>6. n \notin TraefikOpenings
  BY <1>1, <1>2, Openings DEF IsFence
<1>7. \A i \in TraefikOpenings : i \in Nat
  BY <1>2, NoteLength DEF TraefikOpenings
<1>8. fence' = "none" <=> Cardinality(Markers(line' - 1)) % 2 = 0
  BY <1>1, <1>5 DEF FencesSeen
<1>9. ASSUME ~seenTraefikFence
      PROVE  block' = <<>> /\ \A i \in TraefikOpenings : i >= line'
  BY <1>1, <1>2, <1>6, <1>7, <1>9 DEF FencesSeen
<1>10. ASSUME seenTraefikFence
       PROVE  /\ FirstFence \in TraefikOpenings /\ FirstFence < line'
              /\ Range(block') = FirstFence + 1 .. line' - 1 /\ IncreasingSeq(block')
              /\ \A i \in FirstFence + 1 .. line' - 1 : ~IsFence(note[i])
  <2> DEFINE f == FirstFence
  <2>1. /\ f \in TraefikOpenings /\ f < n /\ fence = "traefik"
        /\ Range(block) = f + 1 .. n - 1 /\ IncreasingSeq(block)
        /\ \A i \in f + 1 .. n - 1 : ~IsFence(note[i])
    BY <1>10 DEF FencesSeen
  <2>2. block' = Append(block, n) /\ IsList(block) /\ f \in Nat
    BY <1>1, <1>7, <2>1, ListsOfPieces DEF TypesOK, ScanOK
  <2> HIDE DEF f, n
  <2>3. f + 1 .. n = (f + 1 .. n - 1) \cup {n}
    BY <1>2, <2>1, <2>2
  <2>4. Range(block') = f + 1 .. n
    BY <2>1, <2>2, <2>3, LongerList
  <2>5. \A i \in f + 1 .. n : ~IsFence(note[i])
    BY <1>1, <2>1, <2>3
  <2>6. IncreasingSeq(Append(block, n))
    <3> DEFINE m == Len(block)
               b == Append(block, n)
    <3>1. block \in Seq(Range(block))
      BY <2>2 DEF IsList
    <3>2. /\ m \in Nat /\ DOMAIN block = 1 .. m /\ DOMAIN b = 1 .. m + 1
          /\ b[m + 1] = n /\ \A i \in 1 .. m : b[i] = block[i]
      BY <3>1
    <3>3. \A i \in 1 .. m : block[i] \in f + 1 .. n - 1
      BY <2>1, <3>2 DEF Range
    <3> HIDE DEF m, b
    <3>4. ASSUME NEW i \in 1 .. m + 1, NEW j \in 1 .. m + 1, i < j  PROVE b[i] < b[j]
      <4>1. i \in 1 .. m /\ b[i] = block[i] /\ block[i] \in f + 1 .. n - 1
        BY <3>2, <3>3, <3>4
      <4>2. CASE j = m + 1
        BY <1>2, <2>2, <3>2, <4>1, <4>2
      <4>3. CASE j \in 1 .. m
        BY <2>1, <3>2, <3>4, <4>1, <4>3 DEF IncreasingSeq
      <4> QED  BY <3>2, <4>2, <4>3
    <3> QED  BY <3>2, <3>4 DEF IncreasingSeq, b
  <2>7. f < line' /\ line' - 1 = n
    BY <1>1, <1>2, <1>5, <2>1, <2>2 DEF n
  <2> QED  BY <2>1, <2>2, <2>4, <2>5, <2>6, <2>7 DEF f
<1> HIDE DEF n
<1>11. seenTraefikFence' <=> fence' = "traefik"
  BY <1>1 DEF FencesSeen
<1> QED  BY <1>1, <1>3, <1>4, <1>8, <1>9, <1>10, <1>11 DEF FencesSeen

\* When the fence is closed, its lines are those taken.
LEMMA BlockTaken ==
  ASSUME TypesOK, FencesSeen, fence = "traefik", line <= Len(note) => IsFence(Line)
  PROVE  /\ BlockFound /\ Range(block) = FencedLines
<1> DEFINE f == FirstFence
<1>1. /\ f \in TraefikOpenings /\ f < line /\ mode # "loose"
      /\ Range(block) = f + 1 .. line - 1 /\ IncreasingSeq(block)
      /\ \A i \in f + 1 .. line - 1 : ~IsFence(note[i])
  BY DEF FencesSeen
<1>2. /\ line \in 1 .. Len(note) + 1 /\ Len(note) \in Nat /\ DOMAIN note = 1 .. Len(note)
      /\ f \in 1 .. Len(note)
  BY <1>1, NoteLength DEF TypesOK, ScanOK, TraefikOpenings
<1>3. line <= Len(note) => IsFence(note[line])
  BY DEF Line
<1>4. FencedLines = {i \in DOMAIN note : i > f /\ \A j \in f + 1 .. i : ~IsFence(note[j])}
  BY DEF FencedLines
<1>5. ReadsFence /\ TraefikOpenings # {}
  BY <1>1 DEF ReadsFence, TypesOK, GivenOK, Modes
<1> HIDE DEF f
<1>6. \A i \in f + 1 .. line - 1 : i \in FencedLines
  BY <1>1, <1>2, <1>4
<1>7. \A i \in FencedLines : i \in f + 1 .. line - 1
  BY <1>1, <1>2, <1>3, <1>4
<1>8. Range(block) = FencedLines
  BY <1>1, <1>6, <1>7
<1> QED  BY <1>1, <1>5, <1>8 DEF BlockFound

\* The note ends without a fence of Traefik.
LEMMA NoFenceFound ==
  ASSUME TypesOK, FencesSeen, fence # "traefik", line > Len(note)
  PROVE  TraefikOpenings = {} /\ ~seenTraefikFence
<1>1. \A i \in TraefikOpenings : i >= line /\ i \in 1 .. Len(note)
  BY NoteLength DEF FencesSeen, TypesOK, TraefikOpenings
<1>2. line \in Nat /\ Len(note) \in Nat
  BY NoteLength DEF TypesOK, ScanOK
<1> QED  BY <1>1, <1>2 DEF FencesSeen

-----------------------------------------------------------------------------
(* Reading the note: what was read is found or reported                    *)

\* What is yet to be read.
IsUnread(f) ==
  \/ pc = "fenced"
  \/ pc = "block" /\ f.line \in Range(block)
  \/ pc = "loose" /\ f.line >= line
  \/ pc = "line" /\ (f.line > line \/ (f.line = line /\ f.start \in starts))

HasRead == {f \in Fragments : ~IsUnread(f)}

\* The last label with a key is the one that is kept, the others of the key
\* are reported when they are overwritten, and what is no label is reported.
IsKept(f, r, R) ==
  /\ IsLabel(f)
  /\ r.labels[KeyOf(f.words)] = ValueOf(f.words)
  /\ r.sources[KeyOf(f.words)] = f.line
  /\ \A g \in R : IsLabel(g) /\ KeyOf(g.words) = KeyOf(f.words) => g = f \/ Later(g, f)

Says(r, R) ==
  /\ \A f \in R : IsLabel(f) => KeyOf(f.words) \in DOMAIN r.labels
  /\ \A key \in DOMAIN r.labels : \E f \in R : KeyOf(f.words) = key /\ IsKept(f, r, R)
  /\ \A f \in R : ~IsLabel(f) =>
       \E d \in r.diagnostics : d.line = f.line /\ d.message # "duplicate"
  /\ \A f, g \in R :
       IsLabel(f) /\ IsLabel(g) /\ KeyOf(f.words) = KeyOf(g.words) /\ Later(f, g) =>
         [line |-> g.line, message |-> "duplicate"] \in r.diagnostics

ReadOK ==
  /\ Says(extracted, HasRead)
  /\ pc = "fenced" => FencesSeen
  /\ pc = "block" => BlockFound
  /\ pc \in {"loose", "line"} => ~ReadsFence
  /\ pc = "line" => \A read \in Starts(Line.words) \ starts, start \in starts : read < start

LEMMA FragmentsInFence ==
  ASSUME ReadsFence, TraefikOpenings # {}
  PROVE  \A f : f \in Fragments <=>
           \E i \in FencedLines : /\ ~IsLeftOut(note[i].words)
                                  /\ f = [line |-> i, start |-> 1, words |-> note[i].words]
<1>1. Fragments = {[line |-> i, start |-> 1, words |-> note[i].words] :
                     i \in {j \in FencedLines : ~IsLeftOut(note[j].words)}}
  BY DEF Fragments
<1> QED  BY <1>1

LEMMA FragmentsOfNote ==
  ASSUME ~ReadsFence
  PROVE  \A f : f \in Fragments <=>
           \E i \in DOMAIN note : \E k \in Starts(note[i].words) :
             f = [line |-> i, start |-> k, words |-> FragmentFrom(note[i].words, k)]
<1> DEFINE Of(i) == {[line |-> i, start |-> k, words |-> FragmentFrom(note[i].words, k)] :
                       k \in Starts(note[i].words)}
<1>1. Fragments = UNION {Of(i) : i \in DOMAIN note}
  BY DEF Fragments
<1>2. \A i, f : f \in Of(i) <=> \E k \in Starts(note[i].words) :
        f = [line |-> i, start |-> k, words |-> FragmentFrom(note[i].words, k)]
  OBVIOUS
<1> HIDE DEF Of
<1> QED  BY <1>1, <1>2

\* Where a fragment is.
LEMMA FragmentPlace ==
  ASSUME GivenOK, NEW f \in Fragments
  PROVE  f.line \in 1 .. Len(note) /\ f.start \in Nat
<1>1. CASE ReadsFence /\ TraefikOpenings # {}
  <2>1. PICK i \in FencedLines : f = [line |-> i, start |-> 1, words |-> note[i].words]
    BY <1>1, FragmentsInFence
  <2>2. i \in 1 .. Len(note)
    BY NoteLength DEF FencedLines
  <2> QED  BY <2>1, <2>2
<1>2. CASE ReadsFence /\ TraefikOpenings = {}
  BY <1>2 DEF Fragments
<1>3. CASE ~ReadsFence
  <2>1. PICK i \in DOMAIN note : \E k \in Starts(note[i].words) :
          f = [line |-> i, start |-> k, words |-> FragmentFrom(note[i].words, k)]
    BY <1>3, FragmentsOfNote
  <2>2. PICK k \in Starts(note[i].words) :
          f = [line |-> i, start |-> k, words |-> FragmentFrom(note[i].words, k)]
    BY <2>1
  <2>3. i \in 1 .. Len(note) /\ IsList(note[i].words)
    BY NoteLength, LineOfNote
  <2>4. k \in Nat
    BY <2>3, StartsOfLine DEF IsList
  <2> QED  BY <2>2, <2>3, <2>4
<1> QED  BY <1>1, <1>2, <1>3

LEMMA LaterIsStrict ==
  ASSUME GivenOK, NEW f \in Fragments, NEW g \in Fragments, Later(f, g)
  PROVE  ~Later(g, f) /\ f # g
<1>1. /\ f.line \in Nat /\ f.start \in Nat
      /\ g.line \in Nat /\ g.start \in Nat
  BY FragmentPlace, NoteLength
<1> QED  BY <1>1 DEF Later

LEMMA NewestLabel ==
  ASSUME NEW r, NEW k, NEW v, NEW number,
         NEW t, t.labels = With(r.labels, k, v), t.sources = With(r.sources, k, number)
  PROVE  /\ DOMAIN t.labels = DOMAIN r.labels \cup {k} /\ t.labels[k] = v
         /\ t.sources[k] = number
<1>1. DOMAIN t.labels = DOMAIN r.labels \cup {k} /\ t.labels[k] = v
  BY DEF With
<1>2. t.sources[k] = number
  BY DEF With
<1> QED  BY <1>1, <1>2

\* A fragment after those that were read.
LEMMA FragmentRead ==
  ASSUME GivenOK, NEW r, IsExtraction(r), DOMAIN r.sources = DOMAIN r.labels,
         NEW R, R \subseteq Fragments, Says(r, R),
         NEW g \in Fragments, \A f \in R : Later(f, g),
         NEW t, t = ReadFragment(r, g.line, g.words)
  PROVE  Says(t, R \cup {g})
<1> DEFINE S == R \cup {g}
<1> HIDE DEF S
<1>1. \A f \in S : f \in R \/ f = g
  BY DEF S
<1>2. g \in S /\ R \subseteq S /\ S \subseteq Fragments
  BY DEF S
<1>3. \A f \in R : ~Later(g, f)
  BY LaterIsStrict
<1>4. ~Later(g, g)
  BY LaterIsStrict
<1>5. CASE ~IsLabel(g)
  <2>1. /\ r.diagnostics \subseteq t.diagnostics /\ t.labels = r.labels /\ t.sources = r.sources
        /\ \E d \in t.diagnostics : d.line = g.line /\ d.message # "duplicate"
    BY <1>5, FragmentReported DEF IsLabel
  <2>2. \A f \in S : IsLabel(f) => KeyOf(f.words) \in DOMAIN t.labels
    BY <1>1, <1>5, <2>1 DEF Says
  <2>3. ASSUME NEW key \in DOMAIN t.labels
        PROVE  \E f \in S : KeyOf(f.words) = key /\ IsKept(f, t, S)
    <3>1. PICK f \in R : KeyOf(f.words) = key /\ IsKept(f, r, R)
      BY <2>1, <2>3 DEF Says
    <3>2. IsKept(f, t, S)
      BY <1>1, <1>5, <2>1, <3>1 DEF IsKept
    <3> QED  BY <1>2, <3>1, <3>2
  <2>4. \A f \in S : ~IsLabel(f) =>
          \E d \in t.diagnostics : d.line = f.line /\ d.message # "duplicate"
    BY <1>1, <2>1 DEF Says
  <2>5. \A f, h \in S :
          IsLabel(f) /\ IsLabel(h) /\ KeyOf(f.words) = KeyOf(h.words) /\ Later(f, h) =>
            [line |-> h.line, message |-> "duplicate"] \in t.diagnostics
    BY <1>1, <1>5, <2>1 DEF Says
  <2> QED  BY <2>2, <2>3, <2>4, <2>5 DEF Says, S
<1>6. CASE IsLabel(g)
  <2> DEFINE k == KeyOf(g.words)
             v == ValueOf(g.words)
  <2>1. /\ t.labels = With(r.labels, k, v) /\ t.sources = With(r.sources, k, g.line)
    BY <1>6, LabelRead DEF IsLabel
  <2>2. /\ r.diagnostics \subseteq t.diagnostics
        /\ k \in DOMAIN r.labels => [line |-> g.line, message |-> "duplicate"] \in t.diagnostics
    BY <1>6, LabelReported DEF IsLabel
  <2> HIDE DEF k, v
  <2>3. /\ DOMAIN t.labels = DOMAIN r.labels \cup {k} /\ t.labels[k] = v
        /\ t.sources[k] = g.line
    BY <2>1, NewestLabel
  <2>4. ASSUME NEW key \in DOMAIN r.labels, key # k
        PROVE  t.labels[key] = r.labels[key] /\ t.sources[key] = r.sources[key]
    BY <2>1, <2>4, WithOthers
  <2>5. \A f \in S : IsLabel(f) => KeyOf(f.words) \in DOMAIN t.labels
    BY <1>1, <2>3 DEF Says, k
  <2>6. IsKept(g, t, S)
    <3>1. \A f \in S : f = g \/ Later(f, g)
      BY <1>1
    <3> QED  BY <1>6, <2>3, <3>1 DEF IsKept, k, v
  <2>7. ASSUME NEW key \in DOMAIN t.labels
        PROVE  \E f \in S : KeyOf(f.words) = key /\ IsKept(f, t, S)
    <3>1. CASE key = k
      BY <1>2, <2>6, <3>1 DEF k
    <3>2. CASE key # k
      <4>1. key \in DOMAIN r.labels
        BY <2>3, <2>7, <3>2
      <4>2. PICK f \in R : KeyOf(f.words) = key /\ IsKept(f, r, R)
        BY <4>1 DEF Says
      <4>3. \A h \in S : IsLabel(h) /\ KeyOf(h.words) = KeyOf(f.words) => h = f \/ Later(h, f)
        BY <1>1, <3>2, <4>2 DEF IsKept, k
      <4>4. IsKept(f, t, S)
        BY <2>4, <3>2, <4>1, <4>2, <4>3 DEF IsKept
      <4> QED  BY <1>2, <4>2, <4>4
    <3> QED  BY <3>1, <3>2
  <2>8. \A f \in S : ~IsLabel(f) =>
          \E d \in t.diagnostics : d.line = f.line /\ d.message # "duplicate"
    BY <1>1, <1>6, <2>2 DEF Says
  <2>9. ASSUME NEW f \in S, NEW h \in S,
               IsLabel(f), IsLabel(h), KeyOf(f.words) = KeyOf(h.words), Later(f, h)
        PROVE  [line |-> h.line, message |-> "duplicate"] \in t.diagnostics
    <3>1. f \in R
      BY <1>1, <1>3, <1>4, <2>9
    <3>2. CASE h = g
      <4>1. k \in DOMAIN r.labels
        BY <2>9, <3>1, <3>2 DEF Says, k
      <4> QED  BY <2>2, <3>2, <4>1
    <3>3. CASE h \in R
      BY <2>2, <2>9, <3>1, <3>3 DEF Says
    <3> QED  BY <1>1, <3>2, <3>3
  <2> QED  BY <2>5, <2>7, <2>8, <2>9 DEF Says, S
<1> QED  BY <1>5, <1>6

\* Nothing is lost when something else is reported.
LEMMA SaysWithReport ==
  ASSUME NEW r, NEW R, Says(r, R), IsExtraction(r), NEW number, NEW message,
         NEW t, t = Report(r, number, message)
  PROVE  Says(t, R)
<1>1. t.labels = r.labels /\ t.sources = r.sources /\ r.diagnostics \subseteq t.diagnostics
  BY Reported
<1>2. \A f : IsKept(f, r, R) => IsKept(f, t, R)
  BY <1>1 DEF IsKept
<1> QED  BY <1>1, <1>2 DEF Says

LEMMA NothingSaid ==
  ASSUME NEW r, DOMAIN r.labels = {}
  PROVE  Says(r, {})
BY DEF Says

\* When nothing more is read, everything there is to read was.
LEMMA AllRead ==
  ASSUME pc \notin {"fenced", "block", "loose", "line"}
  PROVE  HasRead = Fragments
BY DEF HasRead, IsUnread

LEMMA ReadAtFirst ==
  ASSUME Init
  PROVE  ReadOK
<1>1. TypesOK /\ GivenOK
  BY TypesAtFirst DEF TypesOK
<1>2. line = 1 /\ fence = "none" /\ block = <<>> /\ ~seenTraefikFence /\ line - 1 = 0
  BY DEF Init
<1>3. HasRead = {}
  <2>1. \A f \in Fragments : f.line >= 1
    BY <1>1, FragmentPlace, NoteLength
  <2>2. pc \in {"fenced", "loose"}
    BY DEF Init
  <2> QED  BY <1>2, <2>1, <2>2 DEF HasRead, IsUnread
<1>4. Says(extracted, {})
  <2>1. DOMAIN Empty = {}
    BY DEF Empty
  <2>2. DOMAIN extracted.labels = {}
    BY <2>1 DEF Init
  <2> QED  BY <2>2, NothingSaid
<1>5. ASSUME pc = "fenced"  PROVE FencesSeen
  <2>1. mode # "loose"
    BY <1>5 DEF Init
  <2>2. \A i \in TraefikOpenings : i >= 1
    BY <1>1, NoteLength DEF TraefikOpenings
  <2> QED  BY <1>2, <2>1, <2>2, NoMarkers DEF FencesSeen
<1>6. ASSUME pc \in {"loose", "line"}  PROVE pc = "loose" /\ ~ReadsFence
  BY <1>6 DEF Init, ReadsFence
<1>7. pc \in {"fenced", "loose"}
  BY DEF Init
<1> QED  BY <1>3, <1>4, <1>5, <1>6, <1>7 DEF ReadOK

\* While fences are looked for, nothing is read.
LEMMA StillFenced ==
  ASSUME pc = "fenced", pc' = "fenced", ReadOK, UNCHANGED <<given, extracted>>, FencesSeen'
  PROVE  ReadOK'
<1>1. HasRead = {} /\ HasRead' = {}
  BY DEF HasRead, IsUnread
<1>2. Says(extracted, HasRead)' <=> Says(extracted', HasRead')
  BY DEF Says, IsKept
<1> QED  BY <1>1, <1>2 DEF ReadOK

LEMMA FenceFound ==
  ASSUME TypesOK, ReadOK, pc = "fenced", fence = "traefik", line <= Len(note) => IsFence(Line),
         pc' = "block", UNCHANGED <<given, block>>, Says(extracted', {})
  PROVE  ReadOK'
<1>1. BlockFound /\ Range(block) = FencedLines /\ GivenOK
  BY BlockTaken DEF ReadOK, TypesOK
<1>2. BlockFound'
  BY <1>1, SameNote DEF BlockFound
<1>3. HasRead' = {}
  <2>1. \A f \in Fragments : f.line \in FencedLines
    BY <1>1, FragmentsInFence DEF BlockFound
  <2>2. Fragments' = Fragments
    BY SameNote
  <2> QED  BY <1>1, <2>1, <2>2 DEF HasRead, IsUnread
<1>4. Says(extracted, HasRead)'
  BY <1>3 DEF Says, IsKept
<1> QED  BY <1>2, <1>4 DEF ReadOK

LEMMA FencedEnded ==
  ASSUME TypesOK, ReadOK, EndFenced
  PROVE  ReadOK'
<1>1. /\ pc = "fenced" /\ line > Len(note) /\ fence # "traefik" /\ extracted' = extracted
      /\ UNCHANGED given
  BY DEF EndFenced
<1>2. TraefikOpenings = {} /\ ~seenTraefikFence /\ mode \in {"fenced", "auto"}
  BY <1>1, NoFenceFound DEF ReadOK, FencesSeen, TypesOK, GivenOK, Modes
<1>3. Says(extracted, {})
  <2>1. HasRead = {}
    BY <1>1 DEF HasRead, IsUnread
  <2> QED  BY <2>1 DEF ReadOK
<1>4. Fragments' = Fragments /\ ReadsFence' = ReadsFence /\ GivenOK
  BY <1>1, SameNote DEF TypesOK
<1>5. HasRead' = {} /\ pc' \in {"loose", "names"} /\ (pc' = "loose" => ~ReadsFence)
  <2>1. CASE mode = "auto"
    <3>1. pc' = "loose" /\ line' = 1
      BY <1>2, <2>1 DEF EndFenced
    <3>2. \A f \in Fragments : f.line >= 1
      BY <1>4, FragmentPlace, NoteLength
    <3> QED  BY <1>2, <1>4, <2>1, <3>1, <3>2 DEF HasRead, IsUnread, ReadsFence
  <2>2. CASE mode = "fenced"
    <3>1. pc' = "names"
      BY <2>2 DEF EndFenced
    <3>2. Fragments = {}
      BY <1>2, <2>2 DEF Fragments, ReadsFence
    <3> QED  BY <1>4, <3>1, <3>2 DEF HasRead
  <2> QED  BY <1>2, <2>1, <2>2
<1>6. Says(extracted, HasRead)'
  BY <1>1, <1>3, <1>5 DEF Says, IsKept
<1> QED  BY <1>4, <1>5, <1>6 DEF ReadOK

LEMMA BlockLineRead ==
  ASSUME TypesOK, ReadOK, ReadBlockLine
  PROVE  ReadOK'
<1> DEFINE n == Head(block)
           rest == Tail(block)
<1>1. /\ pc = "block" /\ pc' = "block" /\ block # <<>> /\ block' = rest
      /\ extracted' = ReadFencedLine(extracted, n) /\ UNCHANGED given
  BY DEF ReadBlockLine
<1>2. /\ BlockFound /\ Says(extracted, HasRead) /\ GivenOK /\ IsFound(extracted)
      /\ block \in Seq(1 .. line - 1) /\ line \in Nat
  BY <1>1 DEF ReadOK, TypesOK, ScanOK
<1>3. /\ Range(block) = Range(rest) \cup {n} /\ n \in Nat
      /\ IncreasingSeq(rest) /\ \A j \in Range(rest) : n < j /\ j \in Nat
  <2> DEFINE m == Len(block)
  <2>1. /\ m \in Nat /\ m > 0 /\ DOMAIN block = 1 .. m /\ n = block[1]
        /\ DOMAIN rest = 1 .. m - 1 /\ \A i \in 1 .. m - 1 : rest[i] = block[i + 1]
        /\ \A i \in 1 .. m : block[i] \in Nat
    BY <1>1, <1>2
  <2> HIDE DEF m, n, rest
  <2>2. \A i, j \in 1 .. m : i < j => block[i] < block[j]
    BY <1>2, <2>1 DEF BlockFound, IncreasingSeq
  <2>3. IncreasingSeq(rest)
    <3>1. \A i \in 1 .. m - 1 : i + 1 \in 1 .. m
      BY <2>1
    <3>2. \A i, j \in 1 .. m - 1 : i < j => rest[i] < rest[j]
      BY <2>1, <2>2, <3>1
    <3> QED  BY <2>1, <3>2 DEF IncreasingSeq
  <2>4. \A i \in 1 .. m - 1 : n < rest[i] /\ rest[i] \in Nat
    <3>1. \A i \in 1 .. m - 1 : i + 1 \in 1 .. m /\ 1 < i + 1 /\ 1 \in 1 .. m
      BY <2>1
    <3> QED  BY <2>1, <2>2, <3>1
  <2>5. {block[i] : i \in 1 .. m} = {rest[i] : i \in 1 .. m - 1} \cup {n}
    <3>1. \A i \in 1 .. m : i = 1 \/ (i - 1 \in 1 .. m - 1 /\ block[i] = rest[i - 1])
      BY <2>1
    <3>2. \A i \in 1 .. m - 1 : i + 1 \in 1 .. m
      BY <2>1
    <3>3. 1 \in 1 .. m
      BY <2>1
    <3> QED  BY <2>1, <3>1, <3>2, <3>3
  <2>6. n \in Nat
    BY <2>1
  <2>7. Range(block) = {block[i] : i \in 1 .. m}
    BY <2>1 DEF Range
  <2>8. Range(rest) = {rest[i] : i \in 1 .. m - 1}
    BY <2>1 DEF Range
  <2>9. \A j \in Range(rest) : n < j /\ j \in Nat
    BY <2>4, <2>8
  <2> QED  BY <2>3, <2>5, <2>6, <2>7, <2>8, <2>9
<1> HIDE DEF n, rest
<1>4. n \notin Range(rest)
  BY <1>3
<1>5. /\ ReadsFence /\ TraefikOpenings # {} /\ Range(block) \subseteq FencedLines
      /\ \A i \in FencedLines \ Range(block), j \in Range(block) : i < j
  BY <1>2 DEF BlockFound
<1>6. FencedLines \subseteq Nat
  BY <1>2, NoteLength DEF FencedLines
<1>7. BlockFound'
  <2>1. \A i \in FencedLines \ Range(rest), j \in Range(rest) : i < j
    <3> SUFFICES ASSUME NEW i \in FencedLines \ Range(rest), NEW j \in Range(rest)
                 PROVE  i < j
      OBVIOUS
    <3>1. CASE i = n
      BY <1>3, <3>1
    <3>2. CASE i # n
      BY <1>3, <1>5, <3>2
    <3> QED  BY <3>1, <3>2
  <2>2. Range(rest) \subseteq FencedLines /\ IncreasingSeq(rest)
    BY <1>3, <1>5
  <2> QED  BY <1>1, <1>5, <2>1, <2>2, SameNote DEF BlockFound
<1>8. ASSUME NEW f \in Fragments
      PROVE  /\ f.line \in FencedLines /\ ~IsLeftOut(note[f.line].words)
             /\ f = [line |-> f.line, start |-> 1, words |-> note[f.line].words]
  BY <1>5, FragmentsInFence
<1>9. /\ HasRead = {f \in Fragments : f.line \notin Range(block)}
      /\ HasRead' = {f \in Fragments : f.line \notin Range(rest)}
  BY <1>1, SameNote DEF HasRead, IsUnread
<1>10. CASE IsLeftOut(note[n].words)
  <2>1. extracted' = extracted
    BY <1>1, <1>10 DEF ReadFencedLine
  <2>2. HasRead' = HasRead
    BY <1>3, <1>8, <1>9, <1>10
  <2>3. Says(extracted, HasRead)'
    BY <1>2, <2>1, <2>2 DEF Says, IsKept
  <2> QED  BY <1>1, <1>7, <2>3 DEF ReadOK
<1>11. CASE ~IsLeftOut(note[n].words)
  <2> DEFINE g == [line |-> n, start |-> 1, words |-> note[n].words]
  <2>1. extracted' = ReadFragment(extracted, g.line, g.words)
    BY <1>1, <1>11 DEF ReadFencedLine
  <2>2. g \in Fragments /\ g.line = n
    BY <1>3, <1>5, <1>11, FragmentsInFence
  <2> HIDE DEF g
  <2>3. \A f \in Fragments : f.line = n => f = g
    BY <1>8 DEF g
  <2>4. HasRead' = HasRead \cup {g}
    BY <1>3, <1>4, <1>9, <2>2, <2>3
  <2>5. \A f \in HasRead : Later(f, g)
    <3>1. \A f \in HasRead : f.line < n /\ f.line \in Nat
      BY <1>3, <1>5, <1>6, <1>8, <1>9
    <3> QED  BY <1>3, <2>2, <3>1 DEF Later
  <2>6. HasRead \subseteq Fragments
    BY DEF HasRead
  <2>7. Says(extracted', HasRead \cup {g})
    BY <1>2, <2>1, <2>2, <2>5, <2>6, FragmentRead DEF IsFound
  <2>8. Says(extracted, HasRead)'
    BY <2>4, <2>7 DEF Says, IsKept
  <2> QED  BY <1>1, <1>7, <2>8 DEF ReadOK
<1> QED  BY <1>10, <1>11

LEMMA BlockEnded ==
  ASSUME TypesOK, ReadOK, EndBlock
  PROVE  ReadOK'
<1>1. pc = "block" /\ pc' = "names" /\ block = <<>> /\ UNCHANGED <<given, extracted>>
  BY DEF EndBlock
<1>2. HasRead = Fragments /\ HasRead' = Fragments
  BY <1>1, SameNote DEF HasRead, IsUnread, Range
<1>3. Says(extracted, HasRead)'
  BY <1>1, <1>2 DEF ReadOK, Says, IsKept
<1> QED  BY <1>1, <1>3 DEF ReadOK

LEMMA LooseLineBegun ==
  ASSUME TypesOK, ReadOK, BeginLooseLine
  PROVE  ReadOK'
<1>1. /\ pc = "loose" /\ pc' = "line" /\ line' = line /\ line <= Len(note)
      /\ starts' = Starts(note[line].words) /\ UNCHANGED <<given, extracted>>
  BY DEF BeginLooseLine, Line
<1>2. ~ReadsFence /\ GivenOK /\ line \in 1 .. Len(note) + 1 /\ Len(note) \in Nat
  BY <1>1, NoteLength DEF ReadOK, TypesOK, ScanOK
<1>3. \A f \in Fragments : f.line \in Nat /\ f.start \in Starts(note[f.line].words)
  BY <1>2, FragmentsOfNote, FragmentPlace
<1>4. /\ HasRead = {f \in Fragments : ~(f.line >= line)}
      /\ HasRead' = {f \in Fragments : ~(f.line > line \/ (f.line = line /\ f.start \in starts'))}
  BY <1>1, SameNote DEF HasRead, IsUnread
<1>5. HasRead' = HasRead
  BY <1>1, <1>2, <1>3, <1>4
<1>6. Says(extracted, HasRead)'
  BY <1>1, <1>5 DEF ReadOK, Says, IsKept
<1>7. Starts(Line.words)' \ starts' = {}
  BY <1>1 DEF Line, given
<1> QED  BY <1>1, <1>2, <1>6, <1>7, SameNote DEF ReadOK

LEMMA LooseFragmentRead ==
  ASSUME TypesOK, ReadOK, ReadLooseFragment
  PROVE  ReadOK'
<1>1. PICK start \in starts :
        /\ \A later \in starts : start <= later
        /\ extracted' = ReadFragment(extracted, line, FragmentFrom(note[line].words, start))
        /\ starts' = starts \ {start}
  BY DEF ReadLooseFragment, Line
<1>2. /\ pc = "line" /\ pc' = "line" /\ line' = line /\ UNCHANGED given
  BY DEF ReadLooseFragment
<1>3. /\ ~ReadsFence /\ GivenOK /\ line \in 1 .. Len(note) /\ Len(note) \in Nat
      /\ starts \subseteq Starts(note[line].words)
      /\ IsFound(extracted) /\ Says(extracted, HasRead)
      /\ \A read \in Starts(note[line].words) \ starts, s \in starts : read < s
  BY <1>2, NoteLength DEF ReadOK, TypesOK, ScanOK, Line
<1>4. Starts(note[line].words) \subseteq Nat
  <2>1. IsList(note[line].words)
    BY <1>3, LineOfNote
  <2> QED  BY <2>1, StartsOfLine DEF IsList
<1> DEFINE g == [line |-> line, start |-> start, words |-> FragmentFrom(note[line].words, start)]
<1>5. g \in Fragments /\ g.line = line /\ g.start = start
  <2>1. line \in DOMAIN note /\ start \in Starts(note[line].words)
    BY <1>3, NoteLength
  <2> QED  BY <1>3, <2>1, FragmentsOfNote
<1>6. extracted' = ReadFragment(extracted, g.line, g.words)
  BY <1>1
<1>7. \A f \in Fragments :
        /\ f.line \in Nat /\ f.start \in Starts(note[f.line].words)
        /\ f = [line |-> f.line, start |-> f.start, words |-> FragmentFrom(note[f.line].words, f.start)]
  BY <1>3, FragmentsOfNote, FragmentPlace
<1>8. \A f \in Fragments : f.line = line /\ f.start = start => f = g
  BY <1>7
<1> HIDE DEF g
<1>9. /\ HasRead = {f \in Fragments : ~(f.line > line \/ (f.line = line /\ f.start \in starts))}
      /\ HasRead' = {f \in Fragments : ~(f.line > line \/ (f.line = line /\ f.start \in starts'))}
  BY <1>2, SameNote DEF HasRead, IsUnread
<1>10. HasRead' = HasRead \cup {g}
  BY <1>1, <1>3, <1>5, <1>8, <1>9
<1>11. \A f \in HasRead : Later(f, g)
  <2> SUFFICES ASSUME NEW f \in HasRead PROVE Later(f, g)
    OBVIOUS
  <2>1. /\ f \in Fragments /\ f.line \in Nat /\ f.start \in Starts(note[f.line].words)
        /\ ~(f.line > line) /\ (f.line = line => f.start \notin starts)
    BY <1>7, <1>9
  <2>2. CASE f.line = line
    <3>1. f.start < start
      BY <1>1, <1>3, <2>1, <2>2
    <3>2. start \in Nat /\ f.start \in Nat
      BY <1>1, <1>3, <1>4, <2>1, <2>2
    <3> QED  BY <1>5, <2>2, <3>1, <3>2 DEF Later
  <2>3. CASE f.line # line
    BY <1>3, <1>5, <2>1, <2>3 DEF Later
  <2> QED  BY <2>2, <2>3
<1>12. HasRead \subseteq Fragments
  BY DEF HasRead
<1>13. Says(extracted', HasRead \cup {g})
  BY <1>3, <1>5, <1>6, <1>11, <1>12, FragmentRead DEF IsFound
<1>14. Says(extracted, HasRead)'
  BY <1>10, <1>13 DEF Says, IsKept
<1>15. \A read \in Starts(note[line].words) \ starts', s \in starts' : read < s
  <2> SUFFICES ASSUME NEW read \in Starts(note[line].words) \ starts', NEW s \in starts'
               PROVE  read < s
    OBVIOUS
  <2>1. s \in starts /\ s # start /\ start <= s /\ s \in Nat /\ start \in Nat
    BY <1>1, <1>3, <1>4
  <2>2. CASE read = start
    BY <2>1, <2>2
  <2>3. CASE read # start
    BY <1>1, <1>3, <2>1, <2>3
  <2> QED  BY <2>2, <2>3
<1>16. \A read \in Starts(Line.words)' \ starts', s \in starts' : read < s
  BY <1>2, <1>15 DEF Line, given
<1> QED  BY <1>2, <1>3, <1>14, <1>16, SameNote DEF ReadOK

LEMMA LooseLineEnded ==
  ASSUME TypesOK, ReadOK, EndLooseLine
  PROVE  ReadOK'
<1>1. /\ pc = "line" /\ pc' = "loose" /\ line' = line + 1 /\ starts = {}
      /\ UNCHANGED <<given, extracted>>
  BY DEF EndLooseLine
<1>2. ~ReadsFence /\ GivenOK /\ line \in Nat
  BY <1>1 DEF ReadOK, TypesOK, ScanOK
<1>3. \A f \in Fragments : f.line \in Nat
  BY <1>2, FragmentPlace, NoteLength
<1>4. /\ HasRead = {f \in Fragments : ~(f.line > line)}
      /\ HasRead' = {f \in Fragments : ~(f.line >= line + 1)}
  BY <1>1, SameNote DEF HasRead, IsUnread
<1>5. HasRead' = HasRead
  BY <1>2, <1>3, <1>4
<1>6. Says(extracted, HasRead)'
  BY <1>1, <1>5 DEF ReadOK, Says, IsKept
<1> QED  BY <1>1, <1>2, <1>6, SameNote DEF ReadOK

LEMMA LooseEnded ==
  ASSUME TypesOK, ReadOK, EndLoose
  PROVE  ReadOK'
<1>1. pc = "loose" /\ pc' = "names" /\ line > Len(note) /\ UNCHANGED <<given, extracted>>
  BY DEF EndLoose
<1>2. GivenOK /\ line \in Nat /\ Len(note) \in Nat
  BY NoteLength DEF TypesOK, ScanOK
<1>3. HasRead = Fragments /\ HasRead' = Fragments
  <2>1. \A f \in Fragments : f.line \in 1 .. Len(note)
    BY <1>2, FragmentPlace
  <2>2. HasRead = {f \in Fragments : ~(f.line >= line)}
    BY <1>1 DEF HasRead, IsUnread
  <2> QED  BY <1>1, <1>2, <2>1, <2>2, SameNote DEF HasRead, IsUnread
<1>4. Says(extracted, HasRead)'
  BY <1>1, <1>3 DEF ReadOK, Says, IsKept
<1> QED  BY <1>1, <1>4 DEF ReadOK

LEMMA ReadSteps ==
  ASSUME TypesOK, ReadOK, [Next]_vars
  PROVE  ReadOK'
<1>1. CASE OpenFence \/ CloseOtherFence \/ TakeLine
  <2>1. pc = "fenced" /\ pc' = "fenced" /\ UNCHANGED <<given, extracted>>
    BY <1>1 DEF OpenFence, CloseOtherFence, TakeLine
  <2>2. FencesSeen'
    BY <1>1, <2>1, FenceOpened, OtherFenceClosed, LineTaken DEF ReadOK
  <2> QED  BY <2>1, <2>2, StillFenced
<1>2. CASE CloseTraefikFence
  <2>1. Says(extracted, {})
    <3>1. HasRead = {}
      BY <1>2 DEF HasRead, IsUnread, CloseTraefikFence
    <3> QED  BY <3>1 DEF ReadOK
  <2> QED  BY <1>2, <2>1, FenceFound DEF CloseTraefikFence, scan
<1>3. CASE EndInTraefikFence
  <2>1. Says(extracted, {})
    <3>1. HasRead = {}
      BY <1>3 DEF HasRead, IsUnread, EndInTraefikFence
    <3> QED  BY <3>1 DEF ReadOK
  <2>2. extracted' = Report(extracted, Len(note) - Len(block), "unterminated")
    BY <1>3 DEF EndInTraefikFence
  <2>3. Says(extracted', {})
    BY <2>1, <2>2, SaysWithReport DEF TypesOK, IsFound
  <2>4. line > Len(note) /\ line \in Nat /\ Len(note) \in Nat
    BY <1>3, NoteLength DEF EndInTraefikFence, TypesOK, ScanOK
  <2> QED  BY <1>3, <2>3, <2>4, FenceFound DEF EndInTraefikFence, scan
<1>4. CASE EndFenced
  BY <1>4, FencedEnded
<1>5. CASE ReadBlockLine
  BY <1>5, BlockLineRead
<1>6. CASE EndBlock
  BY <1>6, BlockEnded
<1>7. CASE BeginLooseLine
  BY <1>7, LooseLineBegun
<1>8. CASE ReadLooseFragment
  BY <1>8, LooseFragmentRead
<1>9. CASE EndLooseLine
  BY <1>9, LooseLineEnded
<1>10. CASE EndLoose
  BY <1>10, LooseEnded
<1>11. CASE GenerateNames \/ ParseLabel \/ ApplyNameOverride
  <2>1. /\ pc \in {"names", "parse"} /\ pc' \in {"parse", "done"}
        /\ UNCHANGED <<given, extracted>>
    BY <1>11 DEF GenerateNames, ParseLabel, ApplyNameOverride
  <2>2. HasRead = Fragments /\ HasRead' = Fragments
    BY <2>1, SameNote DEF HasRead, IsUnread
  <2>3. Says(extracted, HasRead)'
    BY <2>1, <2>2 DEF ReadOK, Says, IsKept
  <2> QED  BY <2>1, <2>3 DEF ReadOK
<1>12. CASE UNCHANGED vars
  <2>1. UNCHANGED <<note, mode, guestName, pc, line, fence, block, seenTraefikFence, starts, extracted>>
        /\ UNCHANGED given
    BY <1>12 DEF vars, given, scan
  <2>2. HasRead' = HasRead
    BY <2>1, SameNote DEF HasRead, IsUnread
  <2>3. Says(extracted, HasRead)'
    BY <2>1, <2>2 DEF ReadOK, Says, IsKept
  <2>4. (FencesSeen' <=> FencesSeen) /\ (BlockFound' <=> BlockFound) /\ (ReadsFence' <=> ReadsFence)
    BY <2>1, SameNote DEF FencesSeen, BlockFound
  <2>5. Starts(Line.words)' = Starts(Line.words)
    BY <2>1 DEF Line
  <2> QED  BY <2>1, <2>3, <2>4, <2>5 DEF ReadOK
<1> QED  BY <1>1, <1>2, <1>3, <1>4, <1>5, <1>6, <1>7, <1>8, <1>9, <1>10, <1>11, <1>12 DEF Next

LEMMA ReadInvariance ==
  Spec => [](TypesOK /\ ParseOK /\ ReadOK)
<1>1. Init => ReadOK
  BY ReadAtFirst
<1>2. TypesOK /\ ReadOK /\ [Next]_vars => ReadOK'
  BY ReadSteps
<1> QED  BY <1>1, <1>2, ParseInvariance, PTL DEF Spec

-----------------------------------------------------------------------------
(* The theorems about the note                                             *)

LEMMA LastLabels ==
  ASSUME GivenOK, Says(extracted, Fragments)
  PROVE  LabelsOfTheNote
<1> DEFINE last == {f \in Fragments : IsLabel(f) /\ ~\E g \in Fragments :
                      IsLabel(g) /\ KeyOf(g.words) = KeyOf(f.words) /\ Later(f, g)}
<1>1. ASSUME NEW f \in Fragments, IsKept(f, extracted, Fragments)
      PROVE  f \in last
  <2>1. ASSUME NEW g \in Fragments, IsLabel(g), KeyOf(g.words) = KeyOf(f.words)
        PROVE  ~Later(f, g)
    <3>1. g = f \/ Later(g, f)
      BY <1>1, <2>1 DEF IsKept
    <3> QED  BY <3>1, LaterIsStrict
  <2>2. IsLabel(f)
    BY <1>1 DEF IsKept
  <2> QED  BY <2>1, <2>2
<1>2. ASSUME NEW f \in last
      PROVE  /\ KeyOf(f.words) \in DOMAIN extracted.labels
             /\ extracted.labels[KeyOf(f.words)] = ValueOf(f.words)
             /\ extracted.sources[KeyOf(f.words)] = f.line
  <2> DEFINE key == KeyOf(f.words)
  <2>1. key \in DOMAIN extracted.labels
    BY DEF Says
  <2>2. PICK kept \in Fragments : KeyOf(kept.words) = key /\ IsKept(kept, extracted, Fragments)
    BY <2>1 DEF Says
  <2>3. f = kept
    <3>1. f = kept \/ Later(f, kept)
      BY <2>2 DEF IsKept
    <3>2. IsLabel(kept)
      BY <2>2 DEF IsKept
    <3> QED  BY <2>2, <3>1, <3>2
  <2> QED  BY <2>1, <2>2, <2>3 DEF IsKept
<1>3. DOMAIN extracted.labels \subseteq {KeyOf(f.words) : f \in last}
  <2> SUFFICES ASSUME NEW key \in DOMAIN extracted.labels
               PROVE  \E f \in last : KeyOf(f.words) = key
    OBVIOUS
  <2>1. PICK f \in Fragments : KeyOf(f.words) = key /\ IsKept(f, extracted, Fragments)
    BY DEF Says
  <2> HIDE DEF last
  <2> QED  BY <1>1, <2>1
<1>4. DOMAIN extracted.labels = {KeyOf(f.words) : f \in last}
  <2> HIDE DEF last
  <2> QED  BY <1>2, <1>3
<1>5. \A f \in last : /\ extracted.labels[KeyOf(f.words)] = ValueOf(f.words)
                      /\ extracted.sources[KeyOf(f.words)] = f.line
  BY <1>2
<1> QED  BY <1>4, <1>5 DEF LabelsOfTheNote

LEMMA LabelHasItsSay ==
  ASSUME TypesOK, ParseOK, Done, NEW key \in DOMAIN extracted.labels
  PROVE  \/ key.prefix = "pve"
         \/ key \in rejected
         \/ key = NameKey /\ key \notin DOMAIN labels
         \/ Range(assignments) \cap AssignmentsOf(key.path, labels[key], ExpectedName) # {}
<1>1. pc = "done" /\ ParsedSoFar /\ todo = {}
  BY DEF Done, ParseOK
<1>2. /\ LabelsOK /\ Range(assignments) = SaidUnder(Keys, ExpectedName)
      /\ rejected = {k \in Keys : AssignmentsOf(k.path, labels[k], base) = {}}
  <2>1. Keys \ todo = Keys
    BY <1>1
  <2> QED  BY <1>1, <2>1 DEF ParsedSoFar
<1>3. CASE key.prefix = "pve"
  BY <1>3
<1>4. CASE key \notin DOMAIN labels
  BY <1>2, <1>4 DEF LabelsOK, LabelsForGeneratedNames
<1>5. CASE key.prefix # "pve" /\ key \in DOMAIN labels
  <2>1. key \in Keys
    BY <1>5 DEF TypesOK, IsFound, Keys, KeysToParse
  <2> DEFINE Said(name) == AssignmentsOf(key.path, labels[key], name)
  <2>2. CASE key \notin rejected
    <3>1. Said(base) # {}
      BY <1>2, <2>1, <2>2
    <3>2. Said(ExpectedName) = {Renamed(a, base, ExpectedName) : a \in Said(base)}
      BY AssignmentsRenamed
    <3>3. Said(ExpectedName) \subseteq Range(assignments)
      BY <1>2, <2>1 DEF SaidUnder
    <3> HIDE DEF Said
    <3>4. Said(ExpectedName) # {}
      BY <3>1, <3>2
    <3>5. Range(assignments) \cap Said(ExpectedName) # {}
      BY <3>3, <3>4
    <3> QED  BY <3>5 DEF Said
  <2> QED  BY <2>2
<1> QED  BY <1>3, <1>4, <1>5

LEMMA NothingLost ==
  ASSUME TypesOK, ParseOK, Says(extracted, Fragments)
  PROVE  NothingLostSilently
<1> SUFFICES ASSUME Done, NEW f \in Fragments
             PROVE  LET key == KeyOf(f.words)
                        later == {g \in Fragments : IsLabel(g) /\ KeyOf(g.words) = key /\ Later(f, g)} IN
                    IF ~IsLabel(f)
                    THEN \E d \in extracted.diagnostics : d.line = f.line /\ d.message # "duplicate"
                    ELSE IF later # {}
                    THEN \A g \in later : [line |-> g.line, message |-> "duplicate"] \in extracted.diagnostics
                    ELSE \/ key.prefix = "pve"
                         \/ key \in rejected
                         \/ key = NameKey /\ key \notin DOMAIN labels
                         \/ Range(assignments) \cap AssignmentsOf(key.path, labels[key], ExpectedName) # {}
  BY DEF NothingLostSilently
<1> DEFINE key == KeyOf(f.words)
           later == {g \in Fragments : IsLabel(g) /\ KeyOf(g.words) = key /\ Later(f, g)}
<1>1. ~IsLabel(f) => \E d \in extracted.diagnostics : d.line = f.line /\ d.message # "duplicate"
  BY DEF Says
<1>2. ASSUME IsLabel(f), NEW g \in later
      PROVE  [line |-> g.line, message |-> "duplicate"] \in extracted.diagnostics
  BY <1>2 DEF Says
<1>3. ASSUME IsLabel(f)
      PROVE  \/ key.prefix = "pve"
             \/ key \in rejected
             \/ key = NameKey /\ key \notin DOMAIN labels
             \/ Range(assignments) \cap AssignmentsOf(key.path, labels[key], ExpectedName) # {}
  <2>1. key \in DOMAIN extracted.labels
    BY <1>3 DEF Says
  <2> HIDE DEF key
  <2> QED  BY <2>1, LabelHasItsSay
<1> QED  BY <1>1, <1>2, <1>3

\* The labels of a guest are those of the first traefik fence of its note, or
\* of the whole note in loose mode and in auto mode without such a fence, and
\* of several with one key the last (extractFenced, extractLoose, storeLabel
\* of traefik/labels/extract.go).
THEOREM NoteGivesLabels == Spec => []LabelsOfTheNote
<1>1. TypesOK /\ ReadOK => LabelsOfTheNote
  <2> SUFFICES ASSUME TypesOK, ReadOK, Done PROVE LabelsOfTheNote
    BY DEF LabelsOfTheNote
  <2>1. Says(extracted, Fragments)
    BY AllRead DEF ReadOK, Done
  <2> QED  BY <2>1, LastLabels DEF TypesOK
<1> QED  BY <1>1, ReadInvariance, PTL

\* No label is lost without a word: what is read is reported, overwritten by a
\* later label that is reported, rejected, or among the assignments, whatever
\* the mode, the fences and the name label (traefik/prepare.go,
\* labels/extract.go, labels/parse.go).
THEOREM NoLabelIsLost == Spec => []NothingLostSilently
<1>1. TypesOK /\ ParseOK /\ ReadOK => NothingLostSilently
  <2> SUFFICES ASSUME TypesOK, ParseOK, ReadOK, Done PROVE NothingLostSilently
    BY DEF NothingLostSilently
  <2>1. Says(extracted, Fragments)
    BY AllRead DEF ReadOK, Done
  <2> QED  BY <2>1, NothingLost
<1> QED  BY <1>1, ReadInvariance, PTL

-----------------------------------------------------------------------------
(* A label set, from the assignments in their order                        *)

\* Of two assignments about one place, the one of higher origin counts, and
\* the later one of the same.
Outdone(list, k, j) ==
  list[k].origin < list[j].origin \/ (list[k].origin = list[j].origin /\ k <= j)

HolderOf(p, list, n, j) ==
  /\ j \in 1 .. n /\ p \in Places(list[j].target)
  /\ \A k \in 1 .. n : p \in Places(list[k].target) => Outdone(list, k, j)

\* Each place holds what counts of the first n assignments.
InOrder(s, list, n) ==
  /\ DOMAIN s.values = UNION {Places(list[j].target) : j \in 1 .. n}
  /\ \A p \in DOMAIN s.values : \E j \in 1 .. n :
       HolderOf(p, list, n, j) /\ s.values[p] = Held(list[j])

LEMMA OneHolder ==
  ASSUME NEW p, NEW list, NEW n \in Nat, NEW i, HolderOf(p, list, n, i),
         NEW j, HolderOf(p, list, n, j),
         \A k \in 1 .. n : list[k].origin \in Int
  PROVE  i = j
<1>1. Outdone(list, i, j) /\ Outdone(list, j, i) /\ i \in 1 .. n /\ j \in 1 .. n
  BY DEF HolderOf
<1>2. list[i].origin \in Int /\ list[j].origin \in Int
  BY <1>1
<1> QED  BY <1>1, <1>2 DEF Outdone

LEMMA IndexedInOrder ==
  ASSUME NEW s, IsSet(s), NEW list, NEW n \in Nat, InOrder(s, list, n),
         \A k \in 1 .. n + 1 : list[k].origin \in Int
  PROVE  InOrder(Indexed(s, list[n + 1]), list, n + 1)
<1> DEFINE a == list[n + 1]
           t == Indexed(s, a)
           taken == {p \in Places(a.target) :
                       p \in DOMAIN s.values => s.values[p].origin <= a.origin}
<1>1. t.values = [p \in DOMAIN s.values \cup taken |-> IF p \in taken THEN Held(a) ELSE s.values[p]]
  BY DEF Indexed, IsSet
<1>2. n + 1 \in 1 .. n + 1 /\ \A k \in 1 .. n + 1 : k \in 1 .. n \/ k = n + 1
  OBVIOUS
<1>3. \A p \in taken : p \in Places(a.target) /\ (p \in DOMAIN s.values => s.values[p].origin <= a.origin)
  OBVIOUS
<1>4. \A p \in Places(a.target) \ taken : p \in DOMAIN s.values /\ ~(s.values[p].origin <= a.origin)
  OBVIOUS
<1> HIDE DEF t, taken
<1>5. DOMAIN t.values = DOMAIN s.values \cup taken
  BY <1>1
<1>6. DOMAIN t.values = UNION {Places(list[j].target) : j \in 1 .. n + 1}
  <2>1. DOMAIN s.values = UNION {Places(list[j].target) : j \in 1 .. n}
    BY DEF InOrder
  <2>2. DOMAIN s.values \cup taken = DOMAIN s.values \cup Places(a.target)
    BY <1>3, <1>4
  <2>3. UNION {Places(list[j].target) : j \in 1 .. n + 1}
          = (UNION {Places(list[j].target) : j \in 1 .. n}) \cup Places(a.target)
    BY <1>2
  <2> HIDE DEF a
  <2> QED  BY <1>5, <2>1, <2>2, <2>3
<1>7. ASSUME NEW p \in DOMAIN t.values
      PROVE  \E j \in 1 .. n + 1 : HolderOf(p, list, n + 1, j) /\ t.values[p] = Held(list[j])
  <2>1. CASE p \notin DOMAIN s.values
    <3>1. p \in taken /\ t.values[p] = Held(a) /\ p \in Places(a.target)
      BY <1>1, <1>3, <1>5, <2>1
    <3>2. \A k \in 1 .. n : p \notin Places(list[k].target)
      BY <2>1 DEF InOrder
    <3>3. HolderOf(p, list, n + 1, n + 1)
      BY <1>2, <3>1, <3>2 DEF HolderOf, Outdone
    <3> QED  BY <1>2, <3>1, <3>3
  <2>2. CASE p \in DOMAIN s.values
    <3>1. PICK j \in 1 .. n : HolderOf(p, list, n, j) /\ s.values[p] = Held(list[j])
      BY <2>2 DEF InOrder
    <3>2. s.values[p].origin = list[j].origin
      BY <3>1 DEF Held
    <3>3. j \in 1 .. n + 1 /\ j <= n + 1 /\ list[j].origin \in Int /\ a.origin \in Int
      BY <1>2
    <3>4. CASE p \in taken
      <4>1. list[j].origin <= a.origin /\ t.values[p] = Held(a) /\ p \in Places(a.target)
        BY <1>1, <1>3, <2>2, <3>2, <3>4
      <4>2. ASSUME NEW k \in 1 .. n, p \in Places(list[k].target)  PROVE Outdone(list, k, n + 1)
        <5>1. Outdone(list, k, j)
          BY <3>1, <4>2 DEF HolderOf
        <5>2. list[k].origin \in Int /\ k <= n + 1
          BY <1>2
        <5> QED  BY <3>3, <4>1, <5>1, <5>2 DEF Outdone
      <4>3. Outdone(list, n + 1, n + 1)
        BY DEF Outdone
      <4>4. HolderOf(p, list, n + 1, n + 1)
        BY <1>2, <4>1, <4>2, <4>3 DEF HolderOf
      <4> QED  BY <1>2, <4>1, <4>4
    <3>5. CASE p \notin taken
      <4>1. t.values[p] = Held(list[j])
        BY <1>1, <2>2, <3>1, <3>5
      <4>2. p \in Places(a.target) => Outdone(list, n + 1, j)
        BY <1>4, <3>2, <3>3, <3>5 DEF Outdone
      <4>3. HolderOf(p, list, n + 1, j)
        BY <1>2, <3>1, <3>3, <4>2 DEF HolderOf
      <4> QED  BY <3>3, <4>1, <4>3
    <3> QED  BY <3>4, <3>5
  <2> QED  BY <2>1, <2>2
<1> QED  BY <1>6, <1>7 DEF InOrder, t

LEMMA RebuiltInOrder ==
  ASSUME NEW list, IsList(list), NEW marks, \A a \in Range(list) : IsAssignment(a)
  PROVE  InOrder(Rebuilt(list, marks), list, Len(list))
<1> DEFINE n == Len(list)
           built == CHOOSE f : BuiltUpTo(f, list, marks, n)
           T == {i \in 0 .. n : /\ IsSet(built[i]) /\ Describes(built[i], {list[j] : j \in 1 .. i})
                                /\ InOrder(built[i], list, i)}
<1>1. Rebuilt(list, marks) = built[n]
  BY DEF Rebuilt, BuiltUpTo, NothingIndexed
<1>2. n \in Nat /\ DOMAIN list = 1 .. n /\ \A i \in 1 .. n : list[i] \in Range(list)
  BY DEF IsList, Range
<1>3. BuiltUpTo(built, list, marks, n)
  BY <1>2, SomeBuilt
<1> HIDE DEF n, built
<1>4. /\ built[0] = NothingIndexed(marks)
      /\ \A i \in 1 .. n : built[i] = Indexed(built[i - 1], list[i])
  <2> HIDE DEF T
  <2> QED  BY <1>2, <1>3, BuiltOneByOne
<1>5. \A i \in 1 .. n : list[i].origin \in Int
  BY <1>2 DEF IsAssignment, Shorthand, Explicit
<1>6. 0 \in T
  <2>1. {list[j] : j \in 1 .. 0} = {} /\ 0 \in 0 .. n
    BY <1>2
  <2>2. IsSet(built[0]) /\ Describes(built[0], {})
    BY <1>4, EmptyDescribes
  <2>3. InOrder(built[0], list, 0)
    <3>1. DOMAIN built[0].values = {}
      BY <2>2 DEF Describes, ValuesDescribed
    <3> QED  BY <3>1 DEF InOrder
  <2> QED  BY <2>1, <2>2, <2>3
<1>7. ASSUME NEW i \in 1 .. n, i - 1 \in T  PROVE i \in T
  <2>1. built[i] = Indexed(built[i - 1], list[i])
    BY <1>4
  <2> DEFINE First(k) == {list[j] : j \in 1 .. k}
  <2>2. First(i) = First(i - 1) \cup {list[i]} /\ First(i) \subseteq Range(list)
    BY <1>2
  <2>3. IsSet(built[i - 1]) /\ Describes(built[i - 1], First(i - 1)) /\ InOrder(built[i - 1], list, i - 1)
    BY <1>7
  <2>4. IsSet(built[i]) /\ Describes(built[i], First(i))
    <3> HIDE DEF First
    <3> QED  BY <2>1, <2>2, <2>3, IndexedDescribes
  <2>5. InOrder(built[i], list, i)
    <3> DEFINE m == i - 1
    <3>1. m \in Nat /\ m + 1 = i /\ \A k \in 1 .. m + 1 : list[k].origin \in Int
      BY <1>2, <1>5
    <3>2. InOrder(built[m], list, m) /\ IsSet(built[m]) /\ built[i] = Indexed(built[m], list[m + 1])
      BY <2>1, <2>3, <3>1
    <3> HIDE DEF m
    <3>3. InOrder(Indexed(built[m], list[m + 1]), list, m + 1)
      BY <3>1, <3>2, IndexedInOrder
    <3> QED  BY <3>1, <3>2, <3>3
  <2> QED  BY <2>4, <2>5
<1>8. n \in T
  <2> HIDE DEF T
  <2> QED  BY <1>2, <1>6, <1>7, NumbersUpTo
<1> QED  BY <1>1, <1>8 DEF n

\* Whatever was parsed is among what the labels say, under one name or the other.
LEMMA ParsedAreAssignments ==
  ASSUME TypeOK, ParsedSoFar
  PROVE  \A a \in Range(assignments) : IsAssignment(a)
<1> DEFINE name == IF pc = "done" THEN ExpectedName ELSE base
<1>1. Range(assignments) = SaidUnder(Keys \ todo, name) /\ LabelsOK
  BY DEF ParsedSoFar
<1> HIDE DEF name
<1>2. SaidUnder(Keys \ todo, name) \subseteq SaidUnder(Keys, name)
  BY DEF SaidUnder
<1> QED  BY <1>1, <1>2, SaidByKeys

\* The first assignments and the values are all it takes.
LEMMA SameOrder ==
  ASSUME NEW s, NEW list, NEW n \in Nat, InOrder(s, list, n),
         NEW t, t.values = s.values, NEW longer, \A k \in 1 .. n : longer[k] = list[k]
  PROVE  InOrder(t, longer, n)
<1>1. ASSUME NEW p, NEW j \in 1 .. n, HolderOf(p, list, n, j)  PROVE HolderOf(p, longer, n, j)
  BY <1>1 DEF HolderOf, Outdone
<1>2. DOMAIN t.values = UNION {Places(longer[j].target) : j \in 1 .. n}
  BY DEF InOrder
<1>3. ASSUME NEW p \in DOMAIN t.values
      PROVE  \E j \in 1 .. n : HolderOf(p, longer, n, j) /\ t.values[p] = Held(longer[j])
  <2>1. PICK j \in 1 .. n : HolderOf(p, list, n, j) /\ s.values[p] = Held(list[j])
    BY DEF InOrder
  <2> QED  BY <1>1, <2>1
<1> QED  BY <1>2, <1>3 DEF InOrder

LEMMA MarksKeepValues ==
  ASSUME NEW s, IsSet(s), NEW marks
  PROVE  LET t == [s EXCEPT !.marks = @ \cup marks] IN IsSet(t) /\ t.values = s.values
<1> DEFINE t == [s EXCEPT !.marks = @ \cup marks]
<1>1. t = [values |-> s.values, objects |-> s.objects, marks |-> s.marks \cup marks]
  BY DEF IsSet
<1> HIDE DEF t
<1>2. t.values = s.values /\ t.objects = s.objects /\ t.marks = s.marks \cup marks
  BY <1>1
<1> QED  BY <1>1, <1>2 DEF IsSet, t

\* The set holds what the assignments say, in their order, all along.
OrderOK == pc \in {"parse", "done"} => InOrder(set, assignments, Len(assignments))

LEMMA OrderSteps ==
  ASSUME TypesOK, ParseOK, OrderOK, [Next]_vars
  PROVE  OrderOK'
<1>1. TypeOK /\ ParseOK'
  BY TypesAreTypeOK, ParseSteps
<1>2. CASE GenerateNames
  <2>1. set' = EmptySet /\ assignments' = <<>>
    BY <1>2 DEF GenerateNames, ParseOK
  <2>2. DOMAIN EmptySet.values = {} /\ Len(<<>>) = 0
    BY DEF EmptySet, Empty
  <2>3. InOrder(EmptySet, <<>>, 0)
    BY <2>2 DEF InOrder
  <2> QED  BY <2>1, <2>2, <2>3 DEF OrderOK
<1>3. CASE ParseLabel
  <2>1. /\ pc = "parse" /\ InOrder(set, assignments, Len(assignments))
        /\ IsSet(set) /\ IsList(assignments) /\ ParsedSoFar /\ LabelsOK /\ todo \subseteq Keys
    BY <1>3 DEF ParseLabel, OrderOK, ParseOK, ParsedSoFar
  <2> DEFINE n == Len(assignments)
  <2>2. n \in Nat /\ DOMAIN assignments = 1 .. n /\ assignments \in Seq(Range(assignments))
    BY <2>1 DEF IsList
  <2>3. PICK key \in todo :
          LET observed == [set EXCEPT !.marks = @ \cup MarksOf(key.path)] IN
          \/ set' = observed /\ assignments' = assignments
          \/ \E a \in AssignmentsOf(key.path, labels[key], base) :
               assignments' = Append(assignments, a) /\ set' = Indexed(observed, a)
    BY <1>3 DEF ParseLabel
  <2> DEFINE observed == [set EXCEPT !.marks = @ \cup MarksOf(key.path)]
  <2>4. IsSet(observed) /\ observed.values = set.values
    BY <2>1, MarksKeepValues
  <2> HIDE DEF observed
  <2>5. CASE set' = observed /\ assignments' = assignments
    <3>1. InOrder(observed, assignments, n)
      BY <2>1, <2>2, <2>4, SameOrder
    <3> QED  BY <2>5, <3>1 DEF OrderOK
  <2>6. ASSUME NEW a \in AssignmentsOf(key.path, labels[key], base),
               assignments' = Append(assignments, a), set' = Indexed(observed, a)
        PROVE  OrderOK'
    <3>5. IsAssignment(a)
      <4>1. key \in Keys /\ LabelsOK
        BY <2>1
      <4> QED  BY <1>1, <4>1, LabelsToParse, SaidIsAssigned
    <3> DEFINE list == Append(assignments, a)
    <3>1. Len(list) = n + 1 /\ list[n + 1] = a /\ \A k \in 1 .. n : list[k] = assignments[k]
      BY <2>2
    <3>2. \A k \in 1 .. n + 1 : list[k].origin \in Int
      <4>1. \A b \in Range(assignments') : IsAssignment(b)
        <5>1. Range(assignments') = Range(assignments) \cup {a}
          BY <2>1, <2>6, LongerList
        <5> QED  BY <1>1, <2>1, <3>5, <5>1, ParsedAreAssignments
      <4>2. DOMAIN list = 1 .. n + 1
        BY <2>2
      <4>3. \A k \in 1 .. n + 1 : list[k] \in Range(assignments')
        BY <2>6, <4>2 DEF Range
      <4> HIDE DEF list
      <4> QED  BY <4>1, <4>3 DEF IsAssignment, Shorthand, Explicit
    <3> HIDE DEF list
    <3>3. InOrder(observed, list, n)
      BY <2>1, <2>2, <2>4, <3>1, SameOrder
    <3>4. InOrder(Indexed(observed, list[n + 1]), list, n + 1)
      BY <2>2, <2>4, <3>2, <3>3, IndexedInOrder
    <3> QED  BY <2>6, <3>1, <3>4 DEF OrderOK, list
  <2> QED  BY <2>3, <2>5, <2>6 DEF observed
<1>4. CASE ApplyNameOverride
  <2>1. /\ pc = "parse" /\ InOrder(set, assignments, Len(assignments))
        /\ set' = IF assignments' = assignments THEN set ELSE Rebuilt(assignments', set.marks)
        /\ pc' = "done"
    BY <1>4 DEF ApplyNameOverride, OrderOK
  <2>2. IsList(assignments') /\ \A a \in Range(assignments') : IsAssignment(a)
    <3>1. ParsedSoFar' /\ ParsedSoFar
      BY <1>1, <1>4, <2>1 DEF ParseOK, ApplyNameOverride
    <3>2. IsList(assignments')
      BY <3>1 DEF ParsedSoFar
    <3>3. Keys' = Keys /\ labels' = labels
      BY <1>4 DEF ApplyNameOverride, Keys
    <3>4. PICK name : Range(assignments') \subseteq SaidUnder(Keys, name)
      <4> DEFINE name == (IF pc = "done" THEN ExpectedName ELSE base)'
      <4>1. Range(assignments') = UNION {AssignmentsOf(k.path, labels[k], name) : k \in Keys \ todo'}
        BY <3>1, <3>3 DEF ParsedSoFar, SaidUnder
      <4> HIDE DEF name
      <4>2. Range(assignments') \subseteq SaidUnder(Keys, name)
        BY <4>1 DEF SaidUnder
      <4> QED  BY <4>2
    <3>5. LabelsOK
      BY <3>1 DEF ParsedSoFar
    <3> QED  BY <1>1, <3>2, <3>4, <3>5, SaidByKeys
  <2> QED  BY <2>1, <2>2, RebuiltInOrder DEF OrderOK
<1>5. CASE pc' \notin {"parse", "done"}
  BY <1>5 DEF OrderOK
<1>6. CASE UNCHANGED vars
  BY <1>6 DEF OrderOK, vars, parse
<1> QED  BY <1>2, <1>3, <1>4, <1>5, <1>6 DEF Next, OpenFence, CloseOtherFence, CloseTraefikFence,
     TakeLine, EndInTraefikFence, EndFenced, ReadBlockLine, EndBlock, BeginLooseLine,
     ReadLooseFragment, EndLooseLine, EndLoose, GivenOK

LEMMA OrderInvariance ==
  Spec => [](TypesOK /\ ParseOK /\ ReadOK /\ OrderOK)
<1>1. Init => OrderOK
  BY DEF Init, OrderOK
<1>2. TypesOK /\ ParseOK /\ OrderOK /\ [Next]_vars => OrderOK'
  BY OrderSteps
<1> QED  BY <1>1, <1>2, ReadInvariance, PTL DEF Spec

-----------------------------------------------------------------------------
(* A label set in which one label is another one                           *)

\* The set has what set has, but for what the i-th label says.
Differs(s, i, said) ==
  /\ s.marks = set.marks
  /\ DOMAIN s.objects = DOMAIN set.objects
  /\ \A o \in DOMAIN set.objects : s.objects[o] <=> set.objects[o]
  /\ DOMAIN s.values = DOMAIN set.values
  /\ \A p \in DOMAIN set.values \ Places(assignments[i].target) : s.values[p] = set.values[p]
  /\ \A p \in DOMAIN set.values :
       HolderOf(p, assignments, Len(assignments), i) => s.values[p] = Held(said)

LEMMA ObjectsOfSaid ==
  ASSUME NEW s, NEW list, ObjectsDescribed(s, Range(list)),
         NEW t, NEW other, ObjectsDescribed(t, Range(other)),
         DOMAIN list = DOMAIN other,
         \A k \in DOMAIN list : /\ list[k].target = other[k].target
                                /\ list[k].origin = other[k].origin
  PROVE  /\ DOMAIN s.objects = DOMAIN t.objects
         /\ \A o \in DOMAIN t.objects : s.objects[o] <=> t.objects[o]
<1>1. /\ \A a \in Range(list) : \E b \in Range(other) : a.target = b.target /\ a.origin = b.origin
      /\ \A b \in Range(other) : \E a \in Range(list) : a.target = b.target /\ a.origin = b.origin
  BY DEF Range
<1>2. ASSUME NEW o
      PROVE  /\ o \in DOMAIN s.objects <=> o \in DOMAIN t.objects
             /\ (\E a \in Range(list) : ObjectOf(a.target) = o /\ a.origin = Explicit)
                  <=> \E a \in Range(other) : ObjectOf(a.target) = o /\ a.origin = Explicit
  <2>1. o \in DOMAIN s.objects <=> \E a \in Range(list) : ~IsRoot(a.target) /\ o = ObjectOf(a.target)
    BY DEF ObjectsDescribed
  <2>2. o \in DOMAIN t.objects <=> \E a \in Range(other) : ~IsRoot(a.target) /\ o = ObjectOf(a.target)
    BY DEF ObjectsDescribed
  <2> QED  BY <1>1, <2>1, <2>2
<1>3. DOMAIN s.objects = DOMAIN t.objects
  BY <1>2
<1>4. ASSUME NEW o \in DOMAIN t.objects  PROVE s.objects[o] <=> t.objects[o]
  <2>1. s.objects[o] <=> \E a \in Range(list) : ObjectOf(a.target) = o /\ a.origin = Explicit
    BY <1>3 DEF ObjectsDescribed
  <2>2. t.objects[o] <=> \E a \in Range(other) : ObjectOf(a.target) = o /\ a.origin = Explicit
    BY DEF ObjectsDescribed
  <2> QED  BY <1>2, <2>1, <2>2
<1> QED  BY <1>3, <1>4

LEMMA OneLabelDiffers ==
  ASSUME TypesOK, ParseOK, OrderOK, Done,
         NEW i \in DOMAIN assignments,
         NEW said, said.target = assignments[i].target, said.origin = assignments[i].origin
  PROVE  Differs(Rebuilt([assignments EXCEPT ![i] = said], set.marks), i, said)
<1> DEFINE n == Len(assignments)
           list == [assignments EXCEPT ![i] = said]
           s == Rebuilt(list, set.marks)
<1>1. /\ ParsedSoFar /\ IsList(assignments) /\ Describes(set, Range(assignments))
      /\ InOrder(set, assignments, n)
  BY DEF Done, ParseOK, ParsedSoFar, OrderOK
<1>2. n \in Nat /\ DOMAIN assignments = 1 .. n /\ assignments \in Seq(Range(assignments))
  BY <1>1 DEF IsList
<1>3. \A a \in Range(assignments) : IsAssignment(a)
  BY <1>1, TypesAreTypeOK, ParsedAreAssignments
<1>4. /\ DOMAIN list = 1 .. n /\ list[i] = said
      /\ \A k \in (1 .. n) \ {i} : list[k] = assignments[k]
      /\ \A k \in 1 .. n : /\ list[k].target = assignments[k].target
                           /\ list[k].origin = assignments[k].origin
  BY <1>2
<1>5. IsList(list) /\ Len(list) = n
  <2> HIDE DEF list
  <2>1. \A k \in 1 .. n : list[k] \in Range(list)
    BY <1>4 DEF Range
  <2>2. list = [k \in 1 .. n |-> list[k]]
    BY <1>2 DEF list
  <2>3. list \in [1 .. n -> Range(list)]
    BY <2>1, <2>2
  <2>4. list \in Seq(Range(list))
    BY <1>2, <2>3
  <2> QED  BY <1>2, <1>4, <2>4 DEF IsList
<1> HIDE DEF list, s
<1>6. \A a \in Range(list) : IsAssignment(a)
  <2> SUFFICES ASSUME NEW k \in 1 .. n PROVE IsAssignment(list[k])
    BY <1>4 DEF Range
  <2>1. IsAssignment(assignments[k])
    BY <1>2, <1>3 DEF Range
  <2> QED  BY <1>4, <2>1 DEF IsAssignment
<1>7. s.marks = set.marks /\ Describes(s, Range(list)) /\ InOrder(s, list, n)
  BY <1>5, <1>6, RebuiltDescribes, RebuiltInOrder DEF s
<1>8. /\ DOMAIN s.objects = DOMAIN set.objects
      /\ \A o \in DOMAIN set.objects : s.objects[o] <=> set.objects[o]
  BY <1>1, <1>2, <1>4, <1>7, ObjectsOfSaid DEF Describes
<1>9. DOMAIN s.values = DOMAIN set.values
  BY <1>1, <1>4, <1>7 DEF InOrder
<1>10. \A p, j : HolderOf(p, list, n, j) <=> HolderOf(p, assignments, n, j)
  BY <1>4 DEF HolderOf, Outdone
<1>11. \A k \in 1 .. n : assignments[k].origin \in Int
  BY <1>2, <1>3 DEF IsAssignment, Range, Shorthand, Explicit
<1>12. ASSUME NEW p \in DOMAIN set.values
       PROVE  \E j \in 1 .. n : /\ HolderOf(p, assignments, n, j)
                                /\ set.values[p] = Held(assignments[j]) /\ s.values[p] = Held(list[j])
  <2>1. PICK j \in 1 .. n : HolderOf(p, assignments, n, j) /\ set.values[p] = Held(assignments[j])
    BY <1>1 DEF InOrder
  <2>2. PICK k \in 1 .. n : HolderOf(p, list, n, k) /\ s.values[p] = Held(list[k])
    BY <1>7, <1>9 DEF InOrder
  <2>3. k = j
    BY <1>2, <1>10, <1>11, <2>1, <2>2, OneHolder
  <2> QED  BY <2>1, <2>2, <2>3
<1>13. ASSUME NEW p \in DOMAIN set.values, p \notin Places(assignments[i].target)
       PROVE  s.values[p] = set.values[p]
  <2>1. PICK j \in 1 .. n : /\ HolderOf(p, assignments, n, j)
                            /\ set.values[p] = Held(assignments[j]) /\ s.values[p] = Held(list[j])
    BY <1>12
  <2>2. j # i
    BY <1>13, <2>1 DEF HolderOf
  <2> QED  BY <1>4, <2>1, <2>2
<1>14. ASSUME NEW p \in DOMAIN set.values, HolderOf(p, assignments, n, i)
       PROVE  s.values[p] = Held(said)
  <2>1. PICK j \in 1 .. n : HolderOf(p, assignments, n, j) /\ s.values[p] = Held(list[j])
    BY <1>12
  <2>2. j = i
    BY <1>2, <1>11, <1>14, <2>1, OneHolder
  <2> QED  BY <1>4, <2>1, <2>2
<1> QED  BY <1>7, <1>8, <1>9, <1>13, <1>14 DEF Differs, s, list

-----------------------------------------------------------------------------
(* Which label is read of which object                                     *)

\* The keys that are read of a router, of a service and of a transport, and
\* the kind of value that is asked for.
RouterRead(p, key, kind) ==
  \/ kind = "csv" /\ key = <<"entrypoints">>
  \/ kind = "string" /\ key \in {<<"service">>, <<"entrypoint">>}
  \/ /\ p # "udp"
     /\ \/ kind = "bool" /\ key = <<"tls">>
        \/ kind = "int" /\ key = <<"priority">>
        \/ kind = "csv" /\ key \in {<<"middlewares">>, <<"tls", "domains">>}
        \/ kind = "string" /\ key \in {<<"rule">>, <<"tls", "certresolver">>, <<"tls", "options">>}
  \/ p = "tcp" /\ kind = "bool" /\ key = <<"tls", "passthrough">>

ServerRead(p, key, kind) ==
  \/ kind = "int" /\ key = LBServer("port")
  \/ kind = "string" /\ key = LBServer("ip")
  \/ p = "http" /\ kind = "string" /\ key \in {LBServer("url"), LBServer("scheme")}
  \/ p # "http" /\ kind = "string" /\ key = LBServer("address")

BalancerRead(p, key, kind) ==
  IF p = "http"
  THEN \/ kind = "bool" /\ key \in {<<"loadbalancer", "insecureskipverify">>,
            <<"loadbalancer", "passhostheader">>,
            <<"loadbalancer", "healthcheck", "followredirects">>}
       \/ kind = "string" /\ key \in {<<"loadbalancer", "serverstransport">>,
            <<"loadbalancer", "responseforwarding", "flushinterval">>}
       \/ \E f \in DOMAIN HealthCheckKinds :
            key = <<"loadbalancer", "healthcheck", f>> /\ kind = HealthCheckKinds[f]
       \/ \E f \in DOMAIN CookieKinds :
            key = <<"loadbalancer", "sticky", "cookie", f>> /\ kind = CookieKinds[f]
  ELSE p = "tcp" /\ kind = "int" /\ key \in {<<"loadbalancer", "proxyprotocol", "version">>,
                                             <<"loadbalancer", "terminationdelay">>}

TransportRead(key, kind) ==
  \/ \E f \in DOMAIN TransportKinds : key = <<f>> /\ kind = TransportKinds[f]
  \/ \E f \in DOMAIN TimeoutKinds : key = <<"forwardingtimeouts", f>> /\ kind = TimeoutKinds[f]

HeadersKey == <<"loadbalancer", "healthcheck", "headers">>
DomainKey(field) == <<"tls", "domains", field>>

\* Where a value is looked for under its key, and where under an entry of it.
KeyRead(t, kind) ==
  \/ t.collection = "routers" /\ RouterRead(t.protocol, t.key, kind)
  \/ /\ t.collection = "services"
     /\ ServerRead(t.protocol, t.key, kind) \/ BalancerRead(t.protocol, t.key, kind)
  \/ t.protocol = "http" /\ t.collection = "serverstransports" /\ TransportRead(t.key, kind)

EntryRead(t, kind) ==
  \/ /\ t.collection = "routers" /\ t.protocol # "udp" /\ IsDomainIndex(t.entry)
     /\ \/ t.key = DomainKey("main") /\ kind = "string"
        \/ t.key = DomainKey("sans") /\ kind = "csv"
  \/ /\ t.collection = "services" /\ t.protocol = "http"
     /\ t.key = HeadersKey /\ kind = "string"

IsReadAt(t, kind) ==
  IF t.entry = NoEntry THEN KeyRead(t, kind) ELSE EntryRead(t, kind)

LEMMA RowOf ==
  ASSUME NEW from, NEW to, NEW keys, NEW row \in Rows(from, to, keys)
  PROVE  \E kind \in DOMAIN keys : \E key \in keys[kind] :
           row.source = from \o key /\ row.target = to \o key /\ row.kind = kind
<1> DEFINE R(kind) == {[source |-> from \o key, target |-> to \o key, kind |-> kind,
                        origin |-> IF from = to THEN Explicit ELSE Shorthand] : key \in keys[kind]}
<1>1. Rows(from, to, keys) = UNION {R(kind) : kind \in DOMAIN keys}
  BY DEF Rows
<1>2. PICK kind \in DOMAIN keys : row \in R(kind)
  <2> HIDE DEF R
  <2> QED  BY <1>1
<1>3. PICK key \in keys[kind] :
        row = [source |-> from \o key, target |-> to \o key, kind |-> kind,
               origin |-> IF from = to THEN Explicit ELSE Shorthand]
  BY <1>2
<1>4. row.source = from \o key /\ row.target = to \o key /\ row.kind = kind
  BY <1>3
<1> QED  BY <1>4

LEMMA ShortLists ==
  /\ \A a : IsList(<<a>>)
  /\ \A a, b : IsList(<<a, b>>)
  /\ \A a, b, c : IsList(<<a, b, c>>)
  /\ \A a, b, c, d : IsList(<<a, b, c, d>>)
<1> SUFFICES ASSUME NEW a, NEW b, NEW c, NEW d
    PROVE  IsList(<<a>>) /\ IsList(<<a, b>>) /\ IsList(<<a, b, c>>) /\ IsList(<<a, b, c, d>>)
  OBVIOUS
<1> DEFINE S == {a, b, c, d}
<1>1. a \in S /\ b \in S /\ c \in S /\ d \in S
  OBVIOUS
<1> HIDE DEF S
<1>2. <<a>> \in Seq(S) /\ <<a, b>> \in Seq(S) /\ <<a, b, c>> \in Seq(S) /\ <<a, b, c, d>> \in Seq(S)
  BY <1>1
<1> QED  BY <1>2, ListsOfPieces

\* Short tuples put together.
LEMMA OneAndOne ==
  ASSUME NEW a, NEW b
  PROVE  <<a>> \o <<b>> = <<a, b>>
<1> DEFINE S == {a, b}
<1>1. a \in S /\ b \in S
  OBVIOUS
<1> HIDE DEF S
<1>2. <<a>> \in Seq(S) /\ <<b>> \in Seq(S) /\ <<a, b>> \in Seq(S)
  BY <1>1
<1> DEFINE s == <<a>> \o <<b>>
<1>3. s \in Seq(S) /\ Len(s) = 2 /\ s[1] = a /\ s[2] = b
  BY <1>2
<1> HIDE DEF s
<1>4. s = <<a, b>>
  BY <1>2, <1>3
<1> QED  BY <1>4 DEF s

LEMMA OneAndTwo ==
  ASSUME NEW a, NEW b, NEW c
  PROVE  <<a>> \o <<b, c>> = <<a, b, c>>
<1> DEFINE S == {a, b, c}
<1>1. a \in S /\ b \in S /\ c \in S
  OBVIOUS
<1> HIDE DEF S
<1>2. <<a>> \in Seq(S) /\ <<b, c>> \in Seq(S) /\ <<a, b, c>> \in Seq(S)
  BY <1>1
<1> DEFINE s == <<a>> \o <<b, c>>
<1>3. s \in Seq(S) /\ Len(s) = 3 /\ s[1] = a /\ s[2] = b /\ s[3] = c
  BY <1>2
<1> HIDE DEF s
<1>4. s = <<a, b, c>>
  BY <1>2, <1>3
<1> QED  BY <1>4 DEF s

LEMMA OneAndThree ==
  ASSUME NEW a, NEW b, NEW c, NEW d
  PROVE  <<a>> \o <<b, c, d>> = <<a, b, c, d>>
<1> DEFINE S == {a, b, c, d}
<1>1. a \in S /\ b \in S /\ c \in S /\ d \in S
  OBVIOUS
<1> HIDE DEF S
<1>2. <<a>> \in Seq(S) /\ <<b, c, d>> \in Seq(S) /\ <<a, b, c, d>> \in Seq(S)
  BY <1>1
<1> DEFINE s == <<a>> \o <<b, c, d>>
<1>3. s \in Seq(S) /\ Len(s) = 4 /\ s[1] = a /\ s[2] = b /\ s[3] = c /\ s[4] = d
  BY <1>2
<1> HIDE DEF s
<1>4. s = <<a, b, c, d>>
  BY <1>2, <1>3
<1> QED  BY <1>4 DEF s

LEMMA TwoAndOne ==
  ASSUME NEW a, NEW b, NEW c
  PROVE  <<a, b>> \o <<c>> = <<a, b, c>>
<1> DEFINE S == {a, b, c}
<1>1. a \in S /\ b \in S /\ c \in S
  OBVIOUS
<1> HIDE DEF S
<1>2. <<a, b>> \in Seq(S) /\ <<c>> \in Seq(S) /\ <<a, b, c>> \in Seq(S)
  BY <1>1
<1> DEFINE s == <<a, b>> \o <<c>>
<1>3. s \in Seq(S) /\ Len(s) = 3 /\ s[1] = a /\ s[2] = b /\ s[3] = c
  BY <1>2
<1> HIDE DEF s
<1>4. s = <<a, b, c>>
  BY <1>2, <1>3
<1> QED  BY <1>4 DEF s

LEMMA ThreeAndOne ==
  ASSUME NEW a, NEW b, NEW c, NEW d
  PROVE  <<a, b, c>> \o <<d>> = <<a, b, c, d>>
<1> DEFINE S == {a, b, c, d}
<1>1. a \in S /\ b \in S /\ c \in S /\ d \in S
  OBVIOUS
<1> HIDE DEF S
<1>2. <<a, b, c>> \in Seq(S) /\ <<d>> \in Seq(S) /\ <<a, b, c, d>> \in Seq(S)
  BY <1>1
<1> DEFINE s == <<a, b, c>> \o <<d>>
<1>3. s \in Seq(S) /\ Len(s) = 4 /\ s[1] = a /\ s[2] = b /\ s[3] = c /\ s[4] = d
  BY <1>2
<1> HIDE DEF s
<1>4. s = <<a, b, c, d>>
  BY <1>2, <1>3
<1> QED  BY <1>4 DEF s

LEMMA AppendedWord ==
  ASSUME NEW a, NEW b, NEW c, NEW d
  PROVE  /\ Append(<<>>, a) = <<a>>
         /\ Append(<<a>>, b) = <<a, b>>
         /\ Append(<<a, b>>, c) = <<a, b, c>>
         /\ Append(<<a, b, c>>, d) = <<a, b, c, d>>
<1> DEFINE S == {a, b, c, d}
<1>1. a \in S /\ b \in S /\ c \in S /\ d \in S
  OBVIOUS
<1> HIDE DEF S
<1>2. \A s \in Seq(S) : \A x \in S : Append(s, x) = s \o <<x>>
  OBVIOUS
<1>3. /\ <<>> \in Seq(S) /\ <<a>> \in Seq(S) /\ <<a, b>> \in Seq(S) /\ <<a, b, c>> \in Seq(S)
  BY <1>1
<1>4. <<>> \o <<a>> = <<a>>
  BY <1>1
<1>5. <<a>> \o <<b>> = <<a, b>>
  BY OneAndOne
<1>6. <<a, b>> \o <<c>> = <<a, b, c>>
  BY TwoAndOne
<1>7. <<a, b, c>> \o <<d>> = <<a, b, c, d>>
  BY ThreeAndOne
<1> QED  BY <1>1, <1>2, <1>3, <1>4, <1>5, <1>6, <1>7

\* What is about an object under the names of the load balancer and its server.
LEMMA UnderBalancer ==
  ASSUME NEW p, NEW n, NEW key, IsList(key)
  PROVE  /\ LoadBalancer(p, n) \o key = <<p, "services", n>> \o (<<"loadbalancer">> \o key)
         /\ Server(p, n) \o key = <<p, "services", n>> \o (<<"loadbalancer", "server">> \o key)
<1> DEFINE three == <<p, "services", n>>
           four == <<p, "services", n, "loadbalancer">>
           one == <<"loadbalancer">>
           two == <<"loadbalancer", "server">>
           S == {p, "services", n, "loadbalancer", "server"} \cup Range(key)
<1>1. p \in S /\ n \in S /\ "services" \in S /\ "loadbalancer" \in S /\ "server" \in S
  OBVIOUS
<1>2. key \in Seq(S)
  BY SequenceOfMore DEF IsList
<1> HIDE DEF S
<1>3. three \in Seq(S) /\ one \in Seq(S) /\ two \in Seq(S) /\ <<"server">> \in Seq(S)
  BY <1>1
<1>4. four = three \o one
  BY ThreeAndOne
<1>5. two = one \o <<"server">>
  BY OneAndOne
<1> HIDE DEF three, four, one, two
<1>6. \A s, t, u \in Seq(S) : (s \o t) \o u = s \o (t \o u)
  OBVIOUS
<1>7. four \o key = three \o (one \o key)
  BY <1>2, <1>3, <1>4, <1>5, <1>6
<1>8. (four \o <<"server">>) \o key = three \o (two \o key)
  BY <1>2, <1>3, <1>4, <1>5, <1>6
<1> QED  BY <1>7, <1>8 DEF LoadBalancer, Server, three, four, one, two

\* What a target goes on with after the name.
GoesOn(row, p, c, n, key) == IsList(key) /\ key # <<>> /\ row.target = <<p, c, n>> \o key

LEMMA AfterName ==
  ASSUME NEW row, NEW p, NEW c, NEW n,
         NEW key, GoesOn(row, p, c, n, key)
  PROVE  /\ row.target[1] = p /\ row.target[2] = c /\ row.target[3] = n
         /\ Len(key) \in Nat \ {0} /\ Len(row.target) = Len(key) + 3
         /\ \A i \in 1 .. Len(key) : row.target[i + 3] = key[i]
         /\ KeyParts(row) = IF key[Len(key)] \in StringCaptures
                            THEN SubSeq(key, 1, Len(key) - 1) ELSE key
<1> DEFINE t == row.target
           m == Len(key)
           S == {p, c, n} \cup Range(key)
<1>0. p \in S /\ c \in S /\ n \in S /\ key \in Seq(S)
  BY SequenceOfMore DEF IsList, GoesOn
<1> HIDE DEF S
<1>8. <<p, c, n>> \in Seq(S) /\ key # <<>> /\ t = <<p, c, n>> \o key
  BY <1>0 DEF GoesOn
<1>1. /\ m \in Nat \ {0} /\ DOMAIN key = 1 .. m
      /\ t \in Seq(S) /\ Len(t) = m + 3
      /\ \A i \in 1 .. m : t[i + 3] = key[i]
  BY <1>0, <1>8
<1>2. t[1] = p /\ t[2] = c /\ t[3] = n
  BY <1>0, <1>8
<1>3. t[Len(t)] = key[m]
  <2>1. m \in 1 .. m
    BY <1>1
  <2> QED  BY <1>1, <2>1
<1>4. ASSUME NEW e \in 0 .. m  PROVE SubSeq(t, 4, e + 3) = SubSeq(key, 1, e)
  <2> DEFINE u == SubSeq(t, 4, e + 3)
             v == SubSeq(key, 1, e)
  <2>1. u \in Seq(S) /\ Len(u) = e /\ \A i \in 1 .. e : u[i] = t[i + 3]
    <3>1. 4 \in 1 .. Len(t) + 1 /\ e + 3 \in 3 .. Len(t)
      BY <1>1
    <3> QED  BY <1>1, <3>1
  <2>2. v \in Seq(S) /\ Len(v) = e /\ \A i \in 1 .. e : v[i] = key[i]
    <3>1. e \in 0 .. m /\ 1 \in 1 .. m + 1
      BY <1>1
    <3> QED  BY <1>0, <1>1, <3>1
  <2>3. \A i \in 1 .. e : u[i] = v[i]
    <3>1. 1 .. e \subseteq 1 .. m
      BY <1>1
    <3> QED  BY <1>1, <2>1, <2>2, <3>1
  <2> HIDE DEF u, v
  <2>4. u = v
    BY <2>1, <2>2, <2>3
  <2> QED  BY <2>4 DEF u, v
<1>5. SubSeq(key, 1, m) = key
  BY <1>0, <1>1
<1>6. KeyParts(row) = SubSeq(t, 4, m + 3 - (IF key[m] \in StringCaptures THEN 1 ELSE 0))
  BY <1>1, <1>3 DEF KeyParts, HasEntry
<1> HIDE DEF t, m
<1>7. KeyParts(row) = IF key[m] \in StringCaptures THEN SubSeq(key, 1, m - 1) ELSE key
  <2>1. CASE key[m] \in StringCaptures
    <3>1. m - 1 \in 0 .. m /\ (m - 1) + 3 = m + 3 - 1
      BY <1>1
    <3>2. SubSeq(t, 4, (m - 1) + 3) = SubSeq(key, 1, m - 1)
      BY <1>4, <3>1
    <3> QED  BY <1>6, <2>1, <3>1, <3>2
  <2>2. CASE key[m] \notin StringCaptures
    <3>1. m \in 0 .. m /\ m + 3 = m + 3 - 0
      BY <1>1
    <3>2. SubSeq(t, 4, m + 3) = SubSeq(key, 1, m)
      BY <1>4, <3>1
    <3> QED  BY <1>5, <1>6, <2>2, <3>1, <3>2
  <2> QED  BY <2>1, <2>2
<1> QED  BY <1>1, <1>2, <1>7 DEF t, m

\* When no part of it is a capture, it is the key.
LEMMA PlainKey ==
  ASSUME NEW row, NEW path, NEW p, NEW c, NEW n,
         NEW key, GoesOn(row, p, c, n, key),
         \A i \in DOMAIN key : key[i] \notin StringCaptures \cup {DomainIndex}
  PROVE  Key(row) = key /\ Entry(row, path) = NoEntry
<1> DEFINE m == Len(key)
<1>1. /\ m \in Nat \ {0} /\ DOMAIN key = 1 .. m /\ Len(row.target) = m + 3
      /\ \A i \in 1 .. m : row.target[i + 3] = key[i]
  BY AfterName
<1>2. m \in 1 .. m /\ key[m] \notin StringCaptures /\ row.target[Len(row.target)] = key[m]
  BY <1>1
<1>3. ~HasEntry(row) /\ KeyParts(row) = key
  BY <1>2, AfterName DEF HasEntry
<1>4. ~HasDomain(row)
  <2>1. ASSUME m > 1  PROVE row.target[Len(row.target) - 1] # DomainIndex
    <3>1. m - 1 \in 1 .. m /\ Len(row.target) - 1 = (m - 1) + 3
      BY <1>1, <2>1
    <3> QED  BY <1>1, <3>1
  <2> QED  BY <1>1, <2>1 DEF HasDomain
<1>5. Key(row) = key
  <2>1. key \in Seq(Range(key))
    BY DEF IsList, GoesOn
  <2>2. key = [i \in DOMAIN key |-> key[i]]
    BY <2>1
  <2> QED  BY <1>3, <2>2 DEF Key
<1> QED  BY <1>3, <1>4, <1>5 DEF Entry

\* The target of a row for an object.
LEMMA TargetOfObject ==
  ASSUME NEW row, NEW path, NEW name, NEW p \in Protocols, NEW c, NEW n,
         NEW key, GoesOn(row, p, c, n, key)
  PROVE  LET t == Target(row, path, name) IN
           t.protocol = p /\ t.collection = c /\ t.key = Key(row) /\ t.entry = Entry(row, path)
<1>1. row.target[1] = p /\ row.target[2] = c
  BY AfterName
<1> QED  BY <1>1 DEF Target, IsResource

\* What is captured is what the path has in the place of the capture.
LEMMA CapturedFits ==
  ASSUME NEW path, NEW row \in MatchingRows(path), IsList(path), NEW k \in DOMAIN row.target,
         IsCapture(row.target[k]), row.target[k] # Default
  PROVE  Fits(row.target[k], Captured(row, path, row.target[k]))
<1> DEFINE capture == row.target[k]
<1>1. /\ row \in SchemaRows /\ Len(row.source) = Len(path)
      /\ \A i \in DOMAIN path : Fits(row.source[i], path[i])
  BY DEF MatchingRows
<1>2. PICK j \in DOMAIN row.source : row.source[j] = capture
  BY <1>1, SchemaAssumption DEF ValidRow
<1>3. j \in DOMAIN path
  <2>1. row.source \in Seq(STRING)
    BY <1>1, SchemaAssumption
  <2>2. path \in Seq(Range(path))
    BY DEF IsList
  <2> QED  BY <1>1, <2>1, <2>2
<1> HIDE DEF capture
<1>4. Captured(row, path, capture) = path[CHOOSE i \in DOMAIN path : row.source[i] = capture]
  BY DEF Captured
<1>5. PICK i \in DOMAIN path : row.source[i] = capture /\ Captured(row, path, capture) = path[i]
  BY <1>2, <1>3, <1>4
<1>6. Fits(capture, Captured(row, path, capture))
  BY <1>1, <1>5
<1> QED  BY <1>6 DEF capture

LEMMA PlainTarget ==
  ASSUME NEW row, NEW path, NEW name, NEW p \in Protocols, NEW c, NEW n,
         NEW key, GoesOn(row, p, c, n, key),
         \A i \in DOMAIN key : key[i] \notin StringCaptures \cup {DomainIndex}
  PROVE  LET t == Target(row, path, name) IN
           t.protocol = p /\ t.collection = c /\ t.key = key /\ t.entry = NoEntry
BY TargetOfObject, PlainKey

\* The labels of a router that are about domains with an index.
LEMMA DomainTarget ==
  ASSUME NEW path, IsList(path), NEW row \in MatchingRows(path), NEW name,
         NEW p \in Protocols, NEW n,
         GoesOn(row, p, "routers", n, <<"tls", DomainIndex>>)
  PROVE  LET t == Target(row, path, name) IN
           /\ t.protocol = p /\ t.collection = "routers"
           /\ t.key = <<"tls", "domains">> /\ t.entry = NoEntry
<1> DEFINE key == <<"tls", DomainIndex>>
<1>1. IsList(key) /\ key # <<>> /\ Len(key) = 2 /\ key[1] = "tls" /\ key[2] = DomainIndex
  BY ShortLists
<1>2. DomainIndex \notin StringCaptures /\ "tls" # DomainIndex
  BY DEF DomainIndex, StringCaptures
<1>0. GoesOn(row, p, "routers", n, key)
  OBVIOUS
<1> HIDE DEF key
<1>3. /\ Len(row.target) = 5 /\ row.target[4] = "tls" /\ row.target[5] = DomainIndex
      /\ KeyParts(row) = key
  <2>0. /\ Len(row.target) = Len(key) + 3 /\ \A i \in 1 .. Len(key) : row.target[i + 3] = key[i]
        /\ KeyParts(row) = IF key[Len(key)] \in StringCaptures
                           THEN SubSeq(key, 1, Len(key) - 1) ELSE key
    BY <1>0, AfterName
  <2>1. /\ Len(row.target) = 5 /\ \A i \in 1 .. 2 : row.target[i + 3] = key[i]
        /\ KeyParts(row) = IF key[2] \in StringCaptures THEN SubSeq(key, 1, 1) ELSE key
    BY <1>1, <2>0
  <2>2. 1 \in 1 .. 2 /\ 2 \in 1 .. 2
    OBVIOUS
  <2> QED  BY <1>1, <1>2, <2>1, <2>2
<1>4. ~HasEntry(row) /\ ~HasDomain(row)
  BY <1>2, <1>3 DEF HasEntry, HasDomain
<1>5. Key(row) = <<"tls", "domains">>
  <2>1. Key(row) = [i \in DOMAIN key |-> IF key[i] = DomainIndex THEN "domains" ELSE key[i]]
    BY <1>3 DEF Key
  <2>2. Key(row) = [i \in 1 .. 2 |-> IF i = 2 THEN "domains" ELSE "tls"]
    BY <1>1, <1>2, <2>1 DEF key
  <2> QED  BY <2>2
<1>6. Entry(row, path) = NoEntry
  BY <1>4 DEF Entry
<1>10. LET t == Target(row, path, name) IN
         t.protocol = p /\ t.collection = "routers" /\ t.key = Key(row) /\ t.entry = Entry(row, path)
  BY <1>0, TargetOfObject
<1> QED  BY <1>5, <1>6, <1>10

LEMMA DomainFieldTarget ==
  ASSUME NEW path, IsList(path), NEW row \in MatchingRows(path), NEW name,
         NEW p \in Protocols, NEW n, NEW f \in DomainFields,
         GoesOn(row, p, "routers", n, <<"tls", DomainIndex, f>>)
  PROVE  LET t == Target(row, path, name) IN
           /\ t.protocol = p /\ t.collection = "routers"
           /\ t.key = DomainKey(f) /\ IsDomainIndex(t.entry)
<1> DEFINE key == <<"tls", DomainIndex, f>>
<1>1. /\ IsList(key) /\ key # <<>> /\ Len(key) = 3
      /\ key[1] = "tls" /\ key[2] = DomainIndex /\ key[3] = f
  BY ShortLists
<1>2. /\ DomainIndex \notin StringCaptures /\ "tls" # DomainIndex
      /\ f \notin StringCaptures /\ f # DomainIndex
  BY DEF DomainIndex, StringCaptures, DomainFields
<1>0. GoesOn(row, p, "routers", n, key)
  OBVIOUS
<1> HIDE DEF key
<1>3. /\ Len(row.target) = 6 /\ row.target[4] = "tls" /\ row.target[5] = DomainIndex
      /\ row.target[6] = f /\ KeyParts(row) = key
  <2>0. /\ Len(row.target) = Len(key) + 3 /\ \A i \in 1 .. Len(key) : row.target[i + 3] = key[i]
        /\ KeyParts(row) = IF key[Len(key)] \in StringCaptures
                           THEN SubSeq(key, 1, Len(key) - 1) ELSE key
    BY <1>0, AfterName
  <2>1. /\ Len(row.target) = 6 /\ \A i \in 1 .. 3 : row.target[i + 3] = key[i]
        /\ KeyParts(row) = IF key[3] \in StringCaptures THEN SubSeq(key, 1, 2) ELSE key
    BY <1>1, <2>0
  <2>2. 1 \in 1 .. 3 /\ 2 \in 1 .. 3 /\ 3 \in 1 .. 3
    OBVIOUS
  <2> QED  BY <1>1, <1>2, <2>1, <2>2
<1>4. ~HasEntry(row) /\ HasDomain(row)
  BY <1>2, <1>3 DEF HasEntry, HasDomain
<1>5. Key(row) = DomainKey(f)
  <2>1. Key(row) = [i \in DOMAIN key |-> IF key[i] = DomainIndex THEN "domains" ELSE key[i]]
    BY <1>3 DEF Key
  <2>2. Key(row) = [i \in 1 .. 3 |-> IF i = 1 THEN "tls" ELSE IF i = 2 THEN "domains" ELSE f]
    BY <1>1, <1>2, <2>1 DEF key
  <2> QED  BY <2>2 DEF DomainKey
<1>6. Entry(row, path) = Captured(row, path, DomainIndex)
  BY <1>4 DEF Entry
<1>7. Fits(DomainIndex, Captured(row, path, DomainIndex))
  <2>1. 5 \in DOMAIN row.target
    <3>1. row.target \in Seq(STRING)
      BY SchemaAssumption DEF MatchingRows
    <3> QED  BY <1>3, <3>1
  <2>2. IsCapture(row.target[5]) /\ row.target[5] # Default
    BY <1>3 DEF IsCapture, DomainIndex, Default
  <2> QED  BY <1>3, <2>1, <2>2, CapturedFits
<1>8. IsDomainIndex(Entry(row, path))
  BY <1>6, <1>7 DEF Fits
<1>10. LET t == Target(row, path, name) IN
         t.protocol = p /\ t.collection = "routers" /\ t.key = Key(row) /\ t.entry = Entry(row, path)
  BY <1>0, TargetOfObject
<1> QED  BY <1>5, <1>8, <1>10

\* The label of a service that is about one header.
LEMMA HeaderTarget ==
  ASSUME NEW path, IsList(path), NEW row \in MatchingRows(path), NEW name,
         NEW p \in Protocols, NEW n, NEW h \in StringCaptures,
         GoesOn(row, p, "services", n, <<"loadbalancer", "healthcheck", "headers", h>>)
  PROVE  LET t == Target(row, path, name) IN
           /\ t.protocol = p /\ t.collection = "services"
           /\ t.key = HeadersKey /\ t.entry # NoEntry
<1> DEFINE key == <<"loadbalancer", "healthcheck", "headers", h>>
<1>1. /\ IsList(key) /\ key # <<>> /\ Len(key) = 4 /\ key[4] = h
      /\ key[1] = "loadbalancer" /\ key[2] = "healthcheck" /\ key[3] = "headers"
  BY ShortLists
<1>2. \A i \in 1 .. 3 : key[i] # DomainIndex
  <2>1. key[1] # DomainIndex /\ key[2] # DomainIndex /\ key[3] # DomainIndex
    BY <1>1 DEF DomainIndex
  <2> HIDE DEF key
  <2> QED  BY <2>1
<1>0. GoesOn(row, p, "services", n, key)
  OBVIOUS
<1> HIDE DEF key
<1>3. /\ Len(row.target) = 7 /\ row.target[7] = h
      /\ KeyParts(row) = SubSeq(key, 1, 3)
  <2>0. /\ Len(row.target) = Len(key) + 3 /\ \A i \in 1 .. Len(key) : row.target[i + 3] = key[i]
        /\ KeyParts(row) = IF key[Len(key)] \in StringCaptures
                           THEN SubSeq(key, 1, Len(key) - 1) ELSE key
    BY <1>0, AfterName
  <2>1. /\ Len(row.target) = 7 /\ \A i \in 1 .. 4 : row.target[i + 3] = key[i]
        /\ KeyParts(row) = IF key[4] \in StringCaptures THEN SubSeq(key, 1, 3) ELSE key
    BY <1>1, <2>0
  <2>2. 4 \in 1 .. 4
    OBVIOUS
  <2> QED  BY <1>1, <1>2, <2>1, <2>2
<1>4. HasEntry(row) /\ ~HasDomain(row)
  BY <1>3 DEF HasEntry, HasDomain, StringCaptures, DomainFields
<1>5. Key(row) = HeadersKey
  <2>1. KeyParts(row) = [i \in 1 .. 3 |-> key[i]]
    <3>1. key \in Seq(Range(key)) /\ 1 \in 1 .. 4 /\ 3 \in 1 .. 4
      BY <1>1 DEF IsList
    <3>2. /\ SubSeq(key, 1, 3) \in Seq(Range(key)) /\ Len(SubSeq(key, 1, 3)) = 3
          /\ \A i \in 1 .. 3 : SubSeq(key, 1, 3)[i] = key[i]
      BY <1>1, <3>1
    <3> QED  BY <1>3, <3>2
  <2>2. Key(row) = [i \in 1 .. 3 |-> key[i]]
    BY <1>2, <2>1 DEF Key
  <2>3. Key(row) = [i \in 1 .. 3 |-> IF i = 1 THEN "loadbalancer"
                                     ELSE IF i = 2 THEN "healthcheck" ELSE "headers"]
    BY <1>1, <2>2
  <2> QED  BY <2>3 DEF HeadersKey
<1>6. Entry(row, path) = Captured(row, path, h)
  <2>1. row.target[Len(row.target)] = h
    BY <1>3
  <2> QED  BY <1>4, <2>1 DEF Entry
<1>7. Fits(h, Captured(row, path, h))
  <2>1. 7 \in DOMAIN row.target
    <3>1. row.target \in Seq(STRING)
      BY SchemaAssumption DEF MatchingRows
    <3> QED  BY <1>3, <3>1
  <2>2. IsCapture(row.target[7]) /\ row.target[7] # Default
    BY <1>3 DEF IsCapture, Default, StringCaptures
  <2> QED  BY <1>3, <2>1, <2>2, CapturedFits
<1>8. Entry(row, path) # NoEntry
  <2>1. IsCapture(h) /\ h # DomainIndex
    BY DEF IsCapture, DomainIndex, StringCaptures
  <2> QED  BY <1>6, <1>7, <2>1 DEF Fits, NoEntry
<1>10. LET t == Target(row, path, name) IN
         t.protocol = p /\ t.collection = "services" /\ t.key = Key(row) /\ t.entry = Entry(row, path)
  BY <1>0, TargetOfObject
<1> QED  BY <1>5, <1>8, <1>10

\* The labels of a router, and where their rows lead.
RouterLabel(p, key, kind) ==
  \/ RouterRead(p, key, kind)
  \/ p # "udp" /\ kind = "csv" /\ key = <<"tls", DomainIndex>>
  \/ p # "udp" /\ kind = "csv" /\ key = <<"tls", DomainIndex, "sans">>
  \/ p # "udp" /\ kind = "string" /\ key = <<"tls", DomainIndex, "main">>

LEMMA RouterLabels ==
  ASSUME NEW p
  PROVE  /\ \A kind \in DOMAIN HTTPRouterShorthands : \A key \in HTTPRouterShorthands[kind] :
              p # "udp" => RouterLabel(p, key, kind)
         /\ \A kind \in DOMAIN RouterKeys : \A key \in RouterKeys[kind] :
              p # "udp" => RouterLabel(p, key, kind)
         /\ \A kind \in DOMAIN TCPRouterKeys : \A key \in TCPRouterKeys[kind] :
              p = "tcp" => RouterLabel(p, key, kind)
         /\ \A kind \in DOMAIN UDPRouterKeys : \A key \in UDPRouterKeys[kind] :
              RouterLabel(p, key, kind)
<1>1. \A kind \in DOMAIN HTTPRouterShorthands : \A key \in HTTPRouterShorthands[kind] :
        p # "udp" => RouterLabel(p, key, kind)
  BY DEF HTTPRouterShorthands, RouterLabel, RouterRead
<1>2. \A kind \in DOMAIN RouterKeys : \A key \in RouterKeys[kind] :
        p # "udp" => RouterLabel(p, key, kind)
  BY DEF RouterKeys, RouterLabel, RouterRead
<1>3. \A kind \in DOMAIN TCPRouterKeys : \A key \in TCPRouterKeys[kind] :
        p = "tcp" => RouterLabel(p, key, kind)
  <2>1. /\ DOMAIN TCPRouterKeys = DOMAIN RouterKeys
        /\ \A kind \in DOMAIN RouterKeys :
             TCPRouterKeys[kind] = RouterKeys[kind]
               \cup (IF kind = "bool" THEN {<<"tls", "passthrough">>} ELSE {})
    BY DEF TCPRouterKeys, RouterKeys
  <2>2. p = "tcp" => RouterLabel(p, <<"tls", "passthrough">>, "bool")
    BY DEF RouterLabel, RouterRead
  <2> QED  BY <1>2, <2>1, <2>2
<1>4. \A kind \in DOMAIN UDPRouterKeys : \A key \in UDPRouterKeys[kind] : RouterLabel(p, key, kind)
  BY DEF UDPRouterKeys, RouterLabel, RouterRead
<1> QED  BY <1>1, <1>2, <1>3, <1>4

LEMMA PlainRouterKey ==
  ASSUME NEW p, NEW key, NEW kind, RouterRead(p, key, kind)
  PROVE  /\ IsList(key) /\ key # <<>>
         /\ \A i \in DOMAIN key : key[i] \notin StringCaptures \cup {DomainIndex}
<1>1. key \in {<<"entrypoints">>, <<"service">>, <<"entrypoint">>, <<"tls">>, <<"priority">>,
               <<"middlewares">>, <<"tls", "domains">>, <<"rule">>, <<"tls", "certresolver">>,
               <<"tls", "options">>, <<"tls", "passthrough">>}
  BY DEF RouterRead
<1>2. PICK a \in {"entrypoints", "service", "entrypoint", "tls", "priority", "middlewares", "rule"},
           b \in {"domains", "certresolver", "options", "passthrough"} :
        key = <<a>> \/ key = <<"tls", b>>
  BY <1>1
<1>3. {a, b, "tls"} \cap (StringCaptures \cup {DomainIndex}) = {}
  BY DEF StringCaptures, DomainIndex
<1>4. \A x, y : x \notin StringCaptures \cup {DomainIndex} /\ y \notin StringCaptures \cup {DomainIndex} =>
        /\ <<x>> # <<>> /\ <<x, y>> # <<>>
        /\ \A i \in DOMAIN <<x>> : <<x>>[i] \notin StringCaptures \cup {DomainIndex}
        /\ \A i \in DOMAIN <<x, y>> : <<x, y>>[i] \notin StringCaptures \cup {DomainIndex}
  OBVIOUS
<1> QED  BY <1>2, <1>3, <1>4, ShortLists

LEMMA RouterRowRead ==
  ASSUME NEW path, IsList(path), NEW row \in MatchingRows(path), NEW name,
         NEW p \in Protocols, NEW n, NEW key, NEW kind, RouterLabel(p, key, kind),
         row.target = <<p, "routers", n>> \o key
  PROVE  IsReadAt(Target(row, path, name), kind)
<1> DEFINE t == Target(row, path, name)
<1>1. ASSUME RouterRead(p, key, kind)  PROVE IsReadAt(t, kind)
  <2>1. GoesOn(row, p, "routers", n, key)
    BY <1>1, PlainRouterKey DEF GoesOn
  <2>2. t.protocol = p /\ t.collection = "routers" /\ t.key = key /\ t.entry = NoEntry
    BY <1>1, <2>1, PlainRouterKey, PlainTarget
  <2> QED  BY <1>1, <2>2 DEF IsReadAt, KeyRead
<1>2. ASSUME p # "udp", kind = "csv", key = <<"tls", DomainIndex>>
      PROVE  IsReadAt(t, kind)
  <2>1. GoesOn(row, p, "routers", n, <<"tls", DomainIndex>>)
    BY <1>2, ShortLists DEF GoesOn
  <2>2. t.protocol = p /\ t.collection = "routers" /\ t.key = <<"tls", "domains">> /\ t.entry = NoEntry
    BY <2>1, DomainTarget
  <2> QED  BY <1>2, <2>2 DEF IsReadAt, KeyRead, RouterRead
<1>3. ASSUME NEW f \in DomainFields, p # "udp", key = <<"tls", DomainIndex, f>>,
             kind = [main |-> "string", sans |-> "csv"][f]
      PROVE  IsReadAt(t, kind)
  <2>1. GoesOn(row, p, "routers", n, <<"tls", DomainIndex, f>>)
    BY <1>3, ShortLists DEF GoesOn
  <2>2. t.protocol = p /\ t.collection = "routers" /\ t.key = DomainKey(f) /\ IsDomainIndex(t.entry)
    BY <2>1, DomainFieldTarget
  <2>3. t.entry # NoEntry
    BY <2>2 DEF IsDomainIndex, NoEntry
  <2> QED  BY <1>3, <2>2, <2>3 DEF IsReadAt, EntryRead, DomainFields
<1>4. "main" \in DomainFields /\ "sans" \in DomainFields
  BY DEF DomainFields
<1> HIDE DEF t
<1>5. ASSUME p # "udp", kind = "csv", key = <<"tls", DomainIndex, "sans">>
      PROVE  IsReadAt(t, kind)
  <2>1. kind = [main |-> "string", sans |-> "csv"]["sans"]
    BY <1>5
  <2> QED  BY <1>3, <1>4, <1>5, <2>1
<1>6. ASSUME p # "udp", kind = "string", key = <<"tls", DomainIndex, "main">>
      PROVE  IsReadAt(t, kind)
  <2>1. kind = [main |-> "string", sans |-> "csv"]["main"]
    BY <1>6
  <2> QED  BY <1>3, <1>4, <1>6, <2>1
<1>7. IsReadAt(t, kind)
  BY <1>1, <1>2, <1>5, <1>6 DEF RouterLabel
<1> QED  BY <1>7 DEF t

\* The labels of a service of HTTP, without the name of the load balancer.
LEMMA ServiceLabels ==
  ASSUME NEW kind \in DOMAIN ServiceKeys, NEW key \in ServiceKeys[kind]
  PROVE  \/ /\ kind = "bool"
            /\ key \in {<<"insecureskipverify">>, <<"passhostheader">>, <<"healthcheck", "followredirects">>}
         \/ kind = "int" /\ key = <<"server", "port">>
         \/ kind = "string" /\ \E f \in {"url", "scheme", "ip"} : key = <<"server", f>>
         \/ kind = "string" /\ key \in {<<"serverstransport">>, <<"responseforwarding", "flushinterval">>}
         \/ \E f \in DOMAIN HealthCheckKinds :
              key = <<"healthcheck", f>> /\ kind = HealthCheckKinds[f]
         \/ \E f \in DOMAIN CookieKinds : key = <<"sticky", "cookie", f>> /\ kind = CookieKinds[f]
         \/ kind = "string" /\ \E h \in StringCaptures : key = <<"healthcheck", "headers", h>>
<1>1. /\ DOMAIN HealthCheckKinds =
           {"path", "interval", "timeout", "scheme", "method", "hostname", "port"}
      /\ HealthCheckKinds["port"] = "int"
      /\ \A f \in {"path", "interval", "timeout", "scheme", "method", "hostname"} :
           HealthCheckKinds[f] = "string"
  BY DEF HealthCheckKinds
<1>2. /\ DOMAIN CookieKinds = {"name", "secure", "httponly", "samesite"}
      /\ CookieKinds["name"] = "string" /\ CookieKinds["samesite"] = "string"
      /\ CookieKinds["secure"] = "bool" /\ CookieKinds["httponly"] = "bool"
  BY DEF CookieKinds
<1>3. DOMAIN ServiceKeys = {"bool", "int", "string"}
  BY DEF ServiceKeys
<1>4. CASE kind = "bool"
  <2>1. key \in {<<"insecureskipverify">>, <<"passhostheader">>, <<"healthcheck", "followredirects">>,
                 <<"sticky", "cookie", "secure">>, <<"sticky", "cookie", "httponly">>}
    BY <1>4 DEF ServiceKeys
  <2> QED  BY <1>2, <1>4, <2>1
<1>5. CASE kind = "int"
  <2>1. key \in {<<"server", "port">>, <<"healthcheck", "port">>}
    BY <1>5 DEF ServiceKeys
  <2> QED  BY <1>1, <1>5, <2>1
<1>6. CASE kind = "string"
  <2>1. \/ key \in {<<"server", f>> : f \in {"url", "scheme", "ip"}}
        \/ key = <<"serverstransport">>
        \/ key \in {<<"healthcheck", f>> :
                      f \in {"path", "interval", "timeout", "scheme", "method", "hostname"}}
        \/ key = <<"healthcheck", "headers", "{header}">>
        \/ key \in {<<"sticky", "cookie", "name">>, <<"sticky", "cookie", "samesite">>,
                    <<"responseforwarding", "flushinterval">>}
    BY <1>6 DEF ServiceKeys
  <2>2. "{header}" \in StringCaptures
    BY DEF StringCaptures
  <2> QED  BY <1>1, <1>2, <1>6, <2>1, <2>2
<1> QED  BY <1>3, <1>4, <1>5, <1>6

ServiceLabel(p, key, kind) ==
  \/ ServerRead(p, key, kind)
  \/ BalancerRead(p, key, kind)
  \/ /\ p = "http" /\ kind = "string"
     /\ \E h \in StringCaptures : key = <<"loadbalancer", "healthcheck", "headers", h>>

LEMMA HTTPServiceLabel ==
  ASSUME NEW kind \in DOMAIN ServiceKeys, NEW key \in ServiceKeys[kind]
  PROVE  ServiceLabel("http", <<"loadbalancer">> \o key, kind)
<1> DEFINE full == <<"loadbalancer">> \o key
<1>1. CASE kind = "bool" /\ key \in {<<"insecureskipverify">>, <<"passhostheader">>,
                                     <<"healthcheck", "followredirects">>}
  <2>1. CASE key \in {<<"insecureskipverify">>, <<"passhostheader">>}
    <3>1. full \in {<<"loadbalancer", "insecureskipverify">>, <<"loadbalancer", "passhostheader">>}
      BY <2>1, OneAndOne
    <3> QED  BY <1>1, <3>1 DEF ServiceLabel, BalancerRead
  <2>2. CASE key = <<"healthcheck", "followredirects">>
    <3>1. full = <<"loadbalancer", "healthcheck", "followredirects">>
      BY <2>2, OneAndTwo
    <3> QED  BY <1>1, <3>1 DEF ServiceLabel, BalancerRead
  <2> QED  BY <1>1, <2>1, <2>2
<1>2. CASE kind = "int" /\ key = <<"server", "port">>
  <2>1. full = LBServer("port")
    BY <1>2, OneAndTwo DEF LBServer
  <2> QED  BY <1>2, <2>1 DEF ServiceLabel, ServerRead
<1>3. ASSUME kind = "string", NEW f \in {"url", "scheme", "ip"}, key = <<"server", f>>
      PROVE  ServiceLabel("http", full, kind)
  <2>1. full = LBServer(f)
    BY <1>3, OneAndTwo DEF LBServer
  <2> QED  BY <1>3, <2>1 DEF ServiceLabel, ServerRead
<1>4. CASE kind = "string" /\ key \in {<<"serverstransport">>, <<"responseforwarding", "flushinterval">>}
  <2>1. full \in {<<"loadbalancer", "serverstransport">>,
                  <<"loadbalancer", "responseforwarding", "flushinterval">>}
    BY <1>4, OneAndOne, OneAndTwo
  <2> QED  BY <1>4, <2>1 DEF ServiceLabel, BalancerRead
<1>5. ASSUME NEW f \in DOMAIN HealthCheckKinds, key = <<"healthcheck", f>>, kind = HealthCheckKinds[f]
      PROVE  ServiceLabel("http", full, kind)
  <2>1. full = <<"loadbalancer", "healthcheck", f>>
    BY <1>5, OneAndTwo
  <2> QED  BY <1>5, <2>1 DEF ServiceLabel, BalancerRead
<1>6. ASSUME NEW f \in DOMAIN CookieKinds, key = <<"sticky", "cookie", f>>, kind = CookieKinds[f]
      PROVE  ServiceLabel("http", full, kind)
  <2>1. full = <<"loadbalancer", "sticky", "cookie", f>>
    BY <1>6, OneAndThree
  <2> QED  BY <1>6, <2>1 DEF ServiceLabel, BalancerRead
<1>7. ASSUME kind = "string", NEW h \in StringCaptures, key = <<"healthcheck", "headers", h>>
      PROVE  ServiceLabel("http", full, kind)
  <2>1. full = <<"loadbalancer", "healthcheck", "headers", h>>
    BY <1>7, OneAndThree
  <2> QED  BY <1>7, <2>1 DEF ServiceLabel
<1> HIDE DEF full
<1>8. ServiceLabel("http", full, kind)
  BY ServiceLabels, <1>1, <1>2, <1>3, <1>4, <1>5, <1>6, <1>7 DEF full
<1> QED  BY <1>8 DEF full

LEMMA OtherServiceLabels ==
  /\ \A kind \in DOMAIN HTTPServiceShorthands : \A key \in HTTPServiceShorthands[kind] :
       ServiceLabel("http", <<"loadbalancer">> \o key, kind)
  /\ \A kind \in DOMAIN TCPServiceKeys : \A key \in TCPServiceKeys[kind] :
       ServiceLabel("tcp", <<"loadbalancer">> \o key, kind)
  /\ \A kind \in DOMAIN HTTPServerShorthands : \A key \in HTTPServerShorthands[kind] :
       ServiceLabel("http", <<"loadbalancer", "server">> \o key, kind)
  /\ \A p \in {"tcp", "udp"} : \A kind \in DOMAIN StreamServerKeys : \A key \in StreamServerKeys[kind] :
       ServiceLabel(p, <<"loadbalancer", "server">> \o key, kind)
<1>1. ASSUME NEW kind \in DOMAIN HTTPServiceShorthands, NEW key \in HTTPServiceShorthands[kind]
      PROVE  ServiceLabel("http", <<"loadbalancer">> \o key, kind)
  <2>1. \/ kind = "bool" /\ key = <<"insecureskipverify">>
        \/ kind = "string" /\ key = <<"serverstransport">>
    BY DEF HTTPServiceShorthands
  <2>2. \/ kind = "bool" /\ <<"loadbalancer">> \o key = <<"loadbalancer", "insecureskipverify">>
        \/ kind = "string" /\ <<"loadbalancer">> \o key = <<"loadbalancer", "serverstransport">>
    BY <2>1, OneAndOne
  <2> QED  BY <2>2 DEF ServiceLabel, BalancerRead
<1>2. ASSUME NEW kind \in DOMAIN TCPServiceKeys, NEW key \in TCPServiceKeys[kind]
      PROVE  ServiceLabel("tcp", <<"loadbalancer">> \o key, kind)
  <2>1. kind = "int" /\ key \in {<<"proxyprotocol", "version">>, <<"terminationdelay">>}
    BY DEF TCPServiceKeys
  <2>2. <<"loadbalancer">> \o key \in {<<"loadbalancer", "proxyprotocol", "version">>,
                                       <<"loadbalancer", "terminationdelay">>}
    BY <2>1, OneAndOne, OneAndTwo
  <2> QED  BY <2>1, <2>2 DEF ServiceLabel, BalancerRead
<1>3. ASSUME NEW kind \in DOMAIN HTTPServerShorthands, NEW key \in HTTPServerShorthands[kind]
      PROVE  ServiceLabel("http", <<"loadbalancer", "server">> \o key, kind)
  <2>1. PICK f : key = <<f>> /\ ((kind = "int" /\ f = "port") \/ (kind = "string" /\ f = "scheme"))
    BY DEF HTTPServerShorthands
  <2>2. <<"loadbalancer", "server">> \o key = LBServer(f)
    BY <2>1, TwoAndOne DEF LBServer
  <2> QED  BY <2>1, <2>2 DEF ServiceLabel, ServerRead
<1>4. ASSUME NEW p \in {"tcp", "udp"},
             NEW kind \in DOMAIN StreamServerKeys, NEW key \in StreamServerKeys[kind]
      PROVE  ServiceLabel(p, <<"loadbalancer", "server">> \o key, kind)
  <2>1. PICK f : key = <<f>> /\ ((kind = "int" /\ f = "port") \/ (kind = "string" /\ f \in {"ip", "address"}))
    BY DEF StreamServerKeys
  <2>2. <<"loadbalancer", "server">> \o key = LBServer(f)
    BY <2>1, TwoAndOne DEF LBServer
  <2> QED  BY <2>1, <2>2 DEF ServiceLabel, ServerRead
<1> QED  BY <1>1, <1>2, <1>3, <1>4

LEMMA PlainServiceKey ==
  ASSUME NEW p, NEW key, NEW kind, ServerRead(p, key, kind) \/ BalancerRead(p, key, kind)
  PROVE  /\ IsList(key) /\ key # <<>>
         /\ \A i \in DOMAIN key : key[i] \notin StringCaptures \cup {DomainIndex}
<1> DEFINE Literals == {"server", "url", "ip", "port", "scheme", "address",
              "insecureskipverify", "passhostheader", "serverstransport", "responseforwarding",
              "flushinterval", "healthcheck", "followredirects", "path", "interval", "timeout",
              "method", "hostname", "sticky", "cookie", "name", "secure", "httponly", "samesite",
              "proxyprotocol", "version", "terminationdelay"}
<1>1. DOMAIN HealthCheckKinds \cup DOMAIN CookieKinds \subseteq Literals
  BY DEF HealthCheckKinds, CookieKinds
<1>2. /\ {"server", "insecureskipverify", "passhostheader", "serverstransport", "responseforwarding",
          "flushinterval", "healthcheck", "followredirects", "sticky", "cookie",
          "url", "ip", "port", "scheme", "address",
          "proxyprotocol", "version", "terminationdelay"} \subseteq Literals
      /\ \A a \in Literals \cup {"loadbalancer"} : a \notin StringCaptures \cup {DomainIndex}
  BY DEF StringCaptures, DomainIndex
<1> HIDE DEF Literals
<1>3. PICK a, b, c \in Literals : key = <<"loadbalancer", a>> \/ key = <<"loadbalancer", a, b>>
                                  \/ key = <<"loadbalancer", a, b, c>>
  BY <1>1, <1>2 DEF ServerRead, BalancerRead, LBServer
<1>4. \A w, x, y, z \in Literals \cup {"loadbalancer"} :
        /\ <<w, x>> # <<>> /\ <<w, x, y>> # <<>> /\ <<w, x, y, z>> # <<>>
        /\ \A i \in DOMAIN <<w, x>> : <<w, x>>[i] \notin StringCaptures \cup {DomainIndex}
        /\ \A i \in DOMAIN <<w, x, y>> : <<w, x, y>>[i] \notin StringCaptures \cup {DomainIndex}
        /\ \A i \in DOMAIN <<w, x, y, z>> : <<w, x, y, z>>[i] \notin StringCaptures \cup {DomainIndex}
  BY <1>2
<1> QED  BY <1>3, <1>4, ShortLists

LEMMA ServiceRowRead ==
  ASSUME NEW path, IsList(path), NEW row \in MatchingRows(path), NEW name,
         NEW p \in Protocols, NEW n, NEW key, NEW kind, ServiceLabel(p, key, kind),
         row.target = <<p, "services", n>> \o key
  PROVE  IsReadAt(Target(row, path, name), kind)
<1> DEFINE t == Target(row, path, name)
<1>1. ASSUME ServerRead(p, key, kind) \/ BalancerRead(p, key, kind)  PROVE IsReadAt(t, kind)
  <2>1. GoesOn(row, p, "services", n, key)
    BY <1>1, PlainServiceKey DEF GoesOn
  <2>2. t.protocol = p /\ t.collection = "services" /\ t.key = key /\ t.entry = NoEntry
    BY <1>1, <2>1, PlainServiceKey, PlainTarget
  <2> QED  BY <1>1, <2>2 DEF IsReadAt, KeyRead
<1>2. ASSUME p = "http", kind = "string", NEW h \in StringCaptures,
             key = <<"loadbalancer", "healthcheck", "headers", h>>
      PROVE  IsReadAt(t, kind)
  <2>1. GoesOn(row, p, "services", n, <<"loadbalancer", "healthcheck", "headers", h>>)
    BY <1>2, ShortLists DEF GoesOn
  <2>2. t.protocol = p /\ t.collection = "services" /\ t.key = HeadersKey /\ t.entry # NoEntry
    BY <2>1, HeaderTarget
  <2> QED  BY <1>2, <2>2 DEF IsReadAt, EntryRead
<1> QED  BY <1>1, <1>2 DEF ServiceLabel, t

LEMMA TransportRowRead ==
  ASSUME NEW path, NEW row, NEW name, NEW n,
         NEW kind \in DOMAIN TransportKeys, NEW key \in TransportKeys[kind],
         row.target = <<"http", "serverstransports", n>> \o key
  PROVE  IsReadAt(Target(row, path, name), kind)
<1> DEFINE t == Target(row, path, name)
<1>1. \/ \E f \in DOMAIN TransportKinds : key = <<f>> /\ kind = TransportKinds[f]
      \/ \E f \in DOMAIN TimeoutKinds : key = <<"forwardingtimeouts", f>> /\ kind = TimeoutKinds[f]
  <2>1. /\ DOMAIN TransportKinds = {"servername", "rootcas", "peercerturi",
                                    "insecureskipverify", "maxidleconnsperhost", "disablehttp2"}
        /\ TransportKinds["servername"] = "string" /\ TransportKinds["rootcas"] = "csv"
        /\ TransportKinds["peercerturi"] = "string" /\ TransportKinds["insecureskipverify"] = "bool"
        /\ TransportKinds["maxidleconnsperhost"] = "int" /\ TransportKinds["disablehttp2"] = "bool"
    BY DEF TransportKinds
  <2>2. /\ DOMAIN TimeoutKinds = {"dialtimeout", "responseheadertimeout", "idleconntimeout",
                                  "readidletimeout", "pingtimeout"}
        /\ \A f \in DOMAIN TimeoutKinds : TimeoutKinds[f] = "string"
    BY DEF TimeoutKinds
  <2>3. DOMAIN TransportKeys = {"bool", "int", "csv", "string"}
    BY DEF TransportKeys
  <2>4. CASE kind = "string"
    <3>1. \/ key \in {<<"servername">>, <<"peercerturi">>}
          \/ key \in {<<"forwardingtimeouts", f>> :
                        f \in {"dialtimeout", "responseheadertimeout", "idleconntimeout",
                               "readidletimeout", "pingtimeout"}}
      BY <2>4 DEF TransportKeys
    <3> QED  BY <2>1, <2>2, <2>4, <3>1
  <2>5. CASE kind # "string"
    <3>1. \/ kind = "bool" /\ key \in {<<"insecureskipverify">>, <<"disablehttp2">>}
          \/ kind = "int" /\ key = <<"maxidleconnsperhost">>
          \/ kind = "csv" /\ key = <<"rootcas">>
      BY <2>3, <2>5 DEF TransportKeys
    <3> QED  BY <2>1, <3>1
  <2> QED  BY <2>4, <2>5
<1>2. TransportRead(key, kind)
  BY <1>1 DEF TransportRead
<1>3. /\ IsList(key) /\ key # <<>>
      /\ \A i \in DOMAIN key : key[i] \notin StringCaptures \cup {DomainIndex}
  <2>1. \A f \in DOMAIN TransportKinds \cup DOMAIN TimeoutKinds \cup {"forwardingtimeouts"} :
          f \notin StringCaptures \cup {DomainIndex}
    BY DEF TransportKinds, TimeoutKinds, StringCaptures, DomainIndex
  <2>2. PICK f, g \in DOMAIN TransportKinds \cup DOMAIN TimeoutKinds \cup {"forwardingtimeouts"} :
          key = <<f>> \/ key = <<g, f>>
    BY <1>1
  <2>3. \A x, y : x \notin StringCaptures \cup {DomainIndex} /\ y \notin StringCaptures \cup {DomainIndex} =>
          /\ <<x>> # <<>> /\ <<x, y>> # <<>>
          /\ \A i \in DOMAIN <<x>> : <<x>>[i] \notin StringCaptures \cup {DomainIndex}
          /\ \A i \in DOMAIN <<x, y>> : <<x, y>>[i] \notin StringCaptures \cup {DomainIndex}
    OBVIOUS
  <2> QED  BY <2>1, <2>2, <2>3, ShortLists
<1>4. GoesOn(row, "http", "serverstransports", n, key)
  BY <1>3 DEF GoesOn
<1>5. t.protocol = "http" /\ t.collection = "serverstransports" /\ t.key = key /\ t.entry = NoEntry
  <2>1. "http" \in Protocols
    BY DEF Protocols
  <2> QED  BY <1>3, <1>4, <2>1, PlainTarget
<1> QED  BY <1>2, <1>5 DEF IsReadAt, KeyRead

\* The rows of routers, and those of services and their servers.
RouterOf(p, name) == <<p, "routers", name>>

OfRouters(p, keys) == \A kind \in DOMAIN keys : \A key \in keys[kind] : RouterLabel(p, key, kind)

OfServices(p, prefix, keys) ==
  \A kind \in DOMAIN keys : \A key \in keys[kind] :
    IsList(key) /\ ServiceLabel(p, prefix \o key, kind)

LEMMA RouterGroupRead ==
  ASSUME NEW path, IsList(path), NEW row \in MatchingRows(path), NEW name,
         NEW p \in Protocols, NEW n, NEW from, NEW keys, OfRouters(p, keys),
         row \in Rows(from, RouterOf(p, n), keys)
  PROVE  IsReadAt(Target(row, path, name), row.kind)
<1>1. PICK kind \in DOMAIN keys : \E key \in keys[kind] :
        row.target = RouterOf(p, n) \o key /\ row.kind = kind
  BY RowOf
<1>2. PICK key \in keys[kind] : row.target = <<p, "routers", n>> \o key /\ row.kind = kind
  BY <1>1 DEF RouterOf
<1>3. RouterLabel(p, key, kind)
  BY DEF OfRouters
<1> QED  BY <1>2, <1>3, RouterRowRead

LEMMA ServiceGroupRead ==
  ASSUME NEW path, IsList(path), NEW row \in MatchingRows(path), NEW name,
         NEW p \in Protocols, NEW n, NEW from, NEW keys,
         OfServices(p, <<"loadbalancer">>, keys), row \in Rows(from, LoadBalancer(p, n), keys)
  PROVE  IsReadAt(Target(row, path, name), row.kind)
<1>1. PICK kind \in DOMAIN keys : \E key \in keys[kind] :
        row.target = LoadBalancer(p, n) \o key /\ row.kind = kind
  BY RowOf
<1>2. PICK key \in keys[kind] : row.target = LoadBalancer(p, n) \o key /\ row.kind = kind
  BY <1>1
<1>3. IsList(key) /\ ServiceLabel(p, <<"loadbalancer">> \o key, kind)
  BY DEF OfServices
<1>4. row.target = <<p, "services", n>> \o (<<"loadbalancer">> \o key)
  BY <1>2, <1>3, UnderBalancer
<1> QED  BY <1>2, <1>3, <1>4, ServiceRowRead

LEMMA ServerGroupRead ==
  ASSUME NEW path, IsList(path), NEW row \in MatchingRows(path), NEW name,
         NEW p \in Protocols, NEW n, NEW from, NEW keys,
         OfServices(p, <<"loadbalancer", "server">>, keys), row \in Rows(from, Server(p, n), keys)
  PROVE  IsReadAt(Target(row, path, name), row.kind)
<1>1. PICK kind \in DOMAIN keys : \E key \in keys[kind] :
        row.target = Server(p, n) \o key /\ row.kind = kind
  BY RowOf
<1>2. PICK key \in keys[kind] : row.target = Server(p, n) \o key /\ row.kind = kind
  BY <1>1
<1>3. IsList(key) /\ ServiceLabel(p, <<"loadbalancer", "server">> \o key, kind)
  BY DEF OfServices
<1>4. row.target = <<p, "services", n>> \o (<<"loadbalancer", "server">> \o key)
  BY <1>2, <1>3, UnderBalancer
<1> QED  BY <1>2, <1>3, <1>4, ServiceRowRead

LEMMA ServiceKeysAreLists ==
  /\ \A kind \in DOMAIN ServiceKeys : \A key \in ServiceKeys[kind] : IsList(key)
  /\ \A kind \in DOMAIN HTTPServiceShorthands : \A key \in HTTPServiceShorthands[kind] : IsList(key)
  /\ \A kind \in DOMAIN HTTPServerShorthands : \A key \in HTTPServerShorthands[kind] : IsList(key)
  /\ \A kind \in DOMAIN TCPServiceKeys : \A key \in TCPServiceKeys[kind] : IsList(key)
  /\ \A kind \in DOMAIN StreamServerKeys : \A key \in StreamServerKeys[kind] : IsList(key)
<1>1. ASSUME NEW kind \in DOMAIN ServiceKeys, NEW key \in ServiceKeys[kind]  PROVE IsList(key)
  BY ServiceLabels, ShortLists
<1>2. \A kind \in DOMAIN HTTPServiceShorthands : \A key \in HTTPServiceShorthands[kind] : IsList(key)
  BY ShortLists DEF HTTPServiceShorthands
<1>3. \A kind \in DOMAIN HTTPServerShorthands : \A key \in HTTPServerShorthands[kind] : IsList(key)
  BY ShortLists DEF HTTPServerShorthands
<1>4. \A kind \in DOMAIN TCPServiceKeys : \A key \in TCPServiceKeys[kind] : IsList(key)
  BY ShortLists DEF TCPServiceKeys
<1>5. \A kind \in DOMAIN StreamServerKeys : \A key \in StreamServerKeys[kind] : IsList(key)
  BY ShortLists DEF StreamServerKeys
<1> QED  BY <1>1, <1>2, <1>3, <1>4, <1>5

\* What a valid label says is read of the object that it is about: the reader
\* looks in that place for a value of that kind.
LEMMA EveryRowIsRead ==
  ASSUME NEW path, IsList(path), NEW row \in MatchingRows(path), IsResource(row), NEW name
  PROVE  IsReadAt(Target(row, path, name), row.kind)
<1> DEFINE goal == IsReadAt(Target(row, path, name), row.kind)
<1>1. /\ OfRouters("http", HTTPRouterShorthands) /\ OfRouters("http", RouterKeys)
      /\ OfRouters("tcp", TCPRouterKeys) /\ OfRouters("udp", UDPRouterKeys)
  BY RouterLabels DEF OfRouters
<1>2. /\ OfServices("http", <<"loadbalancer">>, HTTPServiceShorthands)
      /\ OfServices("http", <<"loadbalancer">>, ServiceKeys)
      /\ OfServices("tcp", <<"loadbalancer">>, TCPServiceKeys)
      /\ OfServices("udp", <<"loadbalancer">>, [int |-> {}])
      /\ OfServices("http", <<"loadbalancer", "server">>, HTTPServerShorthands)
      /\ OfServices("tcp", <<"loadbalancer", "server">>, StreamServerKeys)
      /\ OfServices("udp", <<"loadbalancer", "server">>, StreamServerKeys)
  BY HTTPServiceLabel, OtherServiceLabels, ServiceKeysAreLists DEF OfServices
<1>3. "http" \in Protocols /\ "tcp" \in Protocols /\ "udp" \in Protocols
  BY DEF Protocols
<1>4. row \in RootRows \/ row \in HTTPRows \/ row \in TCPRows \/ row \in UDPRows
  BY DEF MatchingRows, SchemaRows
<1>5. row \notin RootRows
  <2> SUFFICES ASSUME row \in RootRows  PROVE FALSE
    OBVIOUS
  <2>1. PICK kind \in {"bool", "string"} :
          \E key \in [bool |-> {<<"enable">>}, string |-> {<<"name">>}][kind] : row.target = <<>> \o key
    BY RowOf DEF RootRows, Plain
  <2>2. row.target \in {<<"enable">>, <<"name">>}
    BY <2>1
  <2> QED  BY <2>2 DEF IsResource, Protocols
<1>6. CASE row \in HTTPRows
  <2>1. \/ row \in Rows(<<>>, Server("http", Default), HTTPServerShorthands)
        \/ row \in Rows(<<>>, LoadBalancer("http", Default), HTTPServiceShorthands)
        \/ row \in Rows(<<>>, <<"http", "routers", Default>>, HTTPRouterShorthands)
        \/ row \in Rows(<<"http", "routers", "{name}">>, <<"http", "routers", "{name}">>, RouterKeys)
        \/ row \in Rows(LoadBalancer("http", "{name}"), LoadBalancer("http", "{name}"), ServiceKeys)
        \/ row \in Rows(<<"http", "serverstransports", "{name}">>,
                        <<"http", "serverstransports", "{name}">>, TransportKeys)
    BY <1>6 DEF HTTPRows, Plain
  <2>2. ASSUME row \in Rows(<<"http", "serverstransports", "{name}">>,
                            <<"http", "serverstransports", "{name}">>, TransportKeys)
        PROVE  goal
    <3>3. \A from, to : row \in Rows(from, to, TransportKeys) =>
            \E kind \in DOMAIN TransportKeys : \E key \in TransportKeys[kind] :
              row.target = to \o key /\ row.kind = kind
      BY RowOf
    <3>1. PICK kind \in DOMAIN TransportKeys : \E key \in TransportKeys[kind] :
            row.target = <<"http", "serverstransports", "{name}">> \o key /\ row.kind = kind
      BY <2>2, <3>3, Zenon
    <3>2. PICK key \in TransportKeys[kind] :
            row.target = <<"http", "serverstransports", "{name}">> \o key /\ row.kind = kind
      BY <3>1
    <3> QED  BY <3>2, TransportRowRead
  <2>3. ASSUME row \in Rows(<<"http", "routers", "{name}">>, <<"http", "routers", "{name}">>, RouterKeys)
        PROVE  goal
    <3>1. row \in Rows(RouterOf("http", "{name}"), RouterOf("http", "{name}"), RouterKeys)
      BY <2>3 DEF RouterOf
    <3> QED  BY <1>1, <1>3, <3>1, RouterGroupRead
  <2>4. ASSUME row \in Rows(<<>>, <<"http", "routers", Default>>, HTTPRouterShorthands)
        PROVE  goal
    <3>1. row \in Rows(<<>>, RouterOf("http", Default), HTTPRouterShorthands)
      BY <2>4 DEF RouterOf
    <3> QED  BY <1>1, <1>3, <3>1, RouterGroupRead
  <2>5. ASSUME row \in Rows(<<>>, Server("http", Default), HTTPServerShorthands)
        PROVE  goal
    BY <1>2, <1>3, <2>5, ServerGroupRead
  <2>6. ASSUME row \in Rows(<<>>, LoadBalancer("http", Default), HTTPServiceShorthands)
        PROVE  goal
    BY <1>2, <1>3, <2>6, ServiceGroupRead
  <2>7. ASSUME row \in Rows(LoadBalancer("http", "{name}"), LoadBalancer("http", "{name}"), ServiceKeys)
        PROVE  goal
    BY <1>2, <1>3, <2>7, ServiceGroupRead
  <2> HIDE DEF goal
  <2>8. goal
    BY <2>1, <2>2, <2>3, <2>4, <2>5, <2>6, <2>7
  <2> QED  BY <2>8 DEF goal
<1>7. ASSUME NEW p \in Protocols, NEW routerKeys, NEW serviceKeys,
             row \in StreamRows(p, routerKeys, serviceKeys), OfRouters(p, routerKeys),
             OfServices(p, <<"loadbalancer">>, serviceKeys),
             OfServices(p, <<"loadbalancer", "server">>, StreamServerKeys)
      PROVE  goal
  <2>1. \/ row \in Rows(<<p>>, <<p, "routers", Default>>, routerKeys)
        \/ row \in Rows(<<p>>, Server(p, Default), StreamServerKeys)
        \/ row \in Rows(<<p>>, LoadBalancer(p, Default), serviceKeys)
        \/ row \in Rows(<<p, "routers", "{name}">>, <<p, "routers", "{name}">>, routerKeys)
        \/ row \in Rows(Server(p, "{name}"), Server(p, "{name}"), StreamServerKeys)
        \/ row \in Rows(LoadBalancer(p, "{name}"), LoadBalancer(p, "{name}"), serviceKeys)
    BY <1>7 DEF StreamRows, Plain
  <2>2. ASSUME NEW from, NEW n, row \in Rows(from, <<p, "routers", n>>, routerKeys)  PROVE goal
    <3>1. row \in Rows(from, RouterOf(p, n), routerKeys)
      BY <2>2 DEF RouterOf
    <3> QED  BY <1>7, <3>1, RouterGroupRead
  <2>3. ASSUME NEW from, NEW n, row \in Rows(from, Server(p, n), StreamServerKeys)  PROVE goal
    BY <1>7, <2>3, ServerGroupRead
  <2>4. ASSUME NEW from, NEW n, row \in Rows(from, LoadBalancer(p, n), serviceKeys)  PROVE goal
    BY <1>7, <2>4, ServiceGroupRead
  <2> HIDE DEF goal
  <2> QED  BY <2>1, <2>2, <2>3, <2>4
<1> HIDE DEF goal
<1>8. goal
  BY <1>1, <1>2, <1>3, <1>4, <1>5, <1>6, <1>7 DEF TCPRows, UDPRows, goal
<1> QED  BY <1>8 DEF goal

-----------------------------------------------------------------------------
(* The domains of a router *)

\* Each of some domains comes in its turn.
LEMMA DomainsInTurn ==
  ASSUME NEW D, IsFiniteSet(D), \A d \in D : d[2] \in Nat,
         \A d, e \in D : d[2] = e[2] => d = e,
         NEW d \in D
  PROVE  \E n \in 1 .. Cardinality(D) : NthDomain(D, n) = d
<1> DEFINE Before(x) == {e \in D : e[2] < x[2]}
<1>1. \A x \in D : /\ IsFiniteSet(Before(x)) /\ Cardinality(Before(x)) \in Nat
                   /\ Cardinality(Before(x)) <= Cardinality(D)
                   /\ (Cardinality(Before(x)) = Cardinality(D) => Before(x) = D)
  <2> TAKE x \in D
  <2>1. Before(x) \in SUBSET D
    OBVIOUS
  <2> HIDE DEF Before
  <2> QED  BY <2>1, FS_Subset, FS_CardinalityType
<1>2. ASSUME NEW x \in D, NEW y \in D, x[2] < y[2]
      PROVE  Cardinality(Before(x)) < Cardinality(Before(y))
  <2>1. Before(x) \in SUBSET Before(y)
    BY <1>2
  <2>2. x \in Before(y) /\ x \notin Before(x)
    BY <1>2
  <2> HIDE DEF Before
  <2>3. /\ Cardinality(Before(x)) <= Cardinality(Before(y))
        /\ Cardinality(Before(y)) = Cardinality(Before(x)) => Before(y) = Before(x)
    BY <1>1, <2>1, FS_Subset
  <2> QED  BY <1>1, <2>2, <2>3
<1>3. ASSUME NEW e \in D, Cardinality(Before(e)) = Cardinality(Before(d))  PROVE e = d
  <2>1. e[2] \in Nat /\ d[2] \in Nat
    OBVIOUS
  <2>2. ~(e[2] < d[2]) /\ ~(d[2] < e[2])
    <3> HIDE DEF Before
    <3> QED  BY <1>1, <1>2, <1>3
  <2> QED  BY <2>1, <2>2
<1> DEFINE n == Cardinality(Before(d)) + 1
<1>4. n \in 1 .. Cardinality(D) /\ n - 1 = Cardinality(Before(d))
  <2>1. d \notin Before(d)
    OBVIOUS
  <2>2. Cardinality(D) \in Nat
    BY FS_CardinalityType
  <2> HIDE DEF Before
  <2> QED  BY <1>1, <2>1, <2>2
<1>5. NthDomain(D, n) = d
  <2>1. NthDomain(D, n) = CHOOSE e \in D : Cardinality(Before(e)) = n - 1
    BY DEF NthDomain
  <2> HIDE DEF Before, n
  <2> QED  BY <1>3, <1>4, <2>1
<1> HIDE DEF n
<1> QED  BY <1>4, <1>5

-----------------------------------------------------------------------------
(* The labels that were accepted, when all are parsed                      *)

\* The label that an assignment is of, and its row.
IsOf(a, key, row) ==
  /\ IsList(key.path) /\ row \in MatchingRows(key.path) /\ MarksOf(key.path) \subseteq set.marks
  /\ a = SaidBy(row, key.path, labels[key], ExpectedName)

LEMMA AcceptedLabel ==
  ASSUME TypesOK, ParseOK, Done, NEW a \in Range(assignments)
  PROVE  \E key \in Keys : \E row \in MatchingRows(key.path) : IsOf(a, key, row)
<1>1. ParsedSoFar /\ todo = {} /\ pc = "done"
  BY DEF ParseOK, Done
<1>2. Keys \ todo = Keys
  BY <1>1
<1>3. /\ LabelsOK /\ Range(assignments) = SaidUnder(Keys, ExpectedName)
      /\ set.marks = MarkedUnder(Keys)
  BY <1>1, <1>2 DEF ParsedSoFar
<1>4. PICK key \in Keys : a \in AssignmentsOf(key.path, labels[key], ExpectedName)
  BY <1>3 DEF SaidUnder
<1>5. PICK row \in MatchingRows(key.path) : a = SaidBy(row, key.path, labels[key], ExpectedName)
  BY <1>4, AssignmentsAreSaid
<1>6. IsList(key.path)
  BY <1>3, <1>4, TypesAreTypeOK, LabelsToParse
<1>7. MarksOf(key.path) \subseteq set.marks
  BY <1>3, <1>4 DEF MarkedUnder
<1> QED  BY <1>5, <1>6, <1>7 DEF IsOf

\* What a row captures is a segment of the path.
LEMMA CapturedSegment ==
  ASSUME NEW path, NEW row \in MatchingRows(path), IsList(path), NEW k \in DOMAIN row.target,
         IsCapture(row.target[k]), row.target[k] # Default
  PROVE  \E i \in DOMAIN path : Captured(row, path, row.target[k]) = path[i]
<1> DEFINE capture == row.target[k]
<1>1. row \in SchemaRows /\ Len(row.source) = Len(path)
  BY DEF MatchingRows
<1>2. PICK j \in DOMAIN row.source : row.source[j] = capture
  BY <1>1, SchemaAssumption DEF ValidRow
<1>3. j \in DOMAIN path
  <2>1. row.source \in Seq(STRING)
    BY <1>1, SchemaAssumption
  <2>2. path \in Seq(Range(path))
    BY DEF IsList
  <2> QED  BY <1>1, <2>1, <2>2
<1> HIDE DEF capture
<1>4. Captured(row, path, capture) = path[CHOOSE i \in DOMAIN path : row.source[i] = capture]
  BY DEF Captured
<1>5. PICK i \in DOMAIN path : row.source[i] = capture /\ Captured(row, path, capture) = path[i]
  BY <1>2, <1>3, <1>4
<1> QED  BY <1>5 DEF capture

LEMMA EntryIsSegment ==
  ASSUME NEW path, IsList(path), NEW row \in MatchingRows(path), IsResource(row),
         Entry(row, path) # NoEntry
  PROVE  \E i \in DOMAIN path : Entry(row, path) = path[i]
<1> DEFINE n == Len(row.target)
<1>1. n \in Nat /\ n > 3 /\ DOMAIN row.target = 1 .. n
  BY RowOfPath, TargetOfRow
<1>2. n \in DOMAIN row.target /\ n - 1 \in DOMAIN row.target
  BY <1>1
<1>3. CASE HasEntry(row)
  <2>0. row.target[n] \in StringCaptures
    BY <1>3 DEF HasEntry
  <2>3. ~HasDomain(row)
    BY <2>0 DEF HasDomain, StringCaptures, DomainFields
  <2>1. Entry(row, path) = Captured(row, path, row.target[n])
    BY <1>3, <2>3 DEF Entry
  <2>2. IsCapture(row.target[n]) /\ row.target[n] # Default
    BY <2>0 DEF IsCapture, StringCaptures, Default
  <2> HIDE DEF n
  <2> QED  BY <1>2, <2>1, <2>2, CapturedSegment
<1>4. CASE ~HasEntry(row) /\ HasDomain(row)
  <2>1. row.target[n - 1] = DomainIndex /\ Entry(row, path) = Captured(row, path, row.target[n - 1])
    BY <1>4 DEF HasDomain, Entry
  <2>2. IsCapture(row.target[n - 1]) /\ row.target[n - 1] # Default
    BY <2>1 DEF IsCapture, DomainIndex, Default
  <2> HIDE DEF n
  <2> QED  BY <1>2, <2>1, <2>2, CapturedSegment
<1>5. CASE ~HasEntry(row) /\ ~HasDomain(row)
  BY <1>5 DEF Entry
<1> QED  BY <1>3, <1>4, <1>5

\* The words of a fragment are words of the note.
LEMMA FragmentsAreWords ==
  ASSUME GivenOK, NEW f \in Fragments, IsLabel(f)
  PROVE  IsWord(f.words[1])
<1>1. CASE ReadsFence /\ TraefikOpenings # {}
  <2>1. PICK i \in FencedLines : f = [line |-> i, start |-> 1, words |-> note[i].words]
    BY <1>1, FragmentsInFence
  <2>2. i \in 1 .. Len(note)
    BY NoteLength DEF FencedLines
  <2>3. IsList(f.words) /\ \A w \in DOMAIN f.words : IsWord(f.words[w])
    BY <2>1, <2>2, LineOfNote
  <2>4. f.words # <<>>
    BY DEF IsLabel, HasValue
  <2>5. 1 \in DOMAIN f.words
    BY <2>3, <2>4 DEF IsList
  <2> QED  BY <2>3, <2>5
<1>2. CASE ReadsFence /\ TraefikOpenings = {}
  BY <1>2 DEF Fragments
<1>3. CASE ~ReadsFence
  <2>1. PICK i \in DOMAIN note : \E k \in Starts(note[i].words) :
          f = [line |-> i, start |-> k, words |-> FragmentFrom(note[i].words, k)]
    BY <1>3, FragmentsOfNote
  <2>2. PICK k \in Starts(note[i].words) :
          f = [line |-> i, start |-> k, words |-> FragmentFrom(note[i].words, k)]
    BY <2>1
  <2>3. IsFragment(f.words)
    BY <2>2, NoteLength, LineOfNote, FragmentOfLine
  <2>4. 1 \in DOMAIN f.words
    BY <2>3 DEF IsFragment, IsList
  <2> QED  BY <2>3, <2>4 DEF IsFragment
<1> QED  BY <1>1, <1>2, <1>3

LEMMA DomainSegments ==
  ASSUME TypesOK, ReadOK, Done, NEW key \in Keys, NEW i \in DOMAIN key.path,
         IsDomainIndex(key.path[i])
  PROVE  key.path[i] = <<"domains[", key.path[i][2], "]">> /\ key.path[i][2] \in Nat
<1>1. Says(extracted, Fragments)
  BY AllRead DEF ReadOK, Done
<1>2. key \in DOMAIN extracted.labels
  BY DEF TypesOK, KeysOK, Keys, KeysToParse
<1>3. PICK f \in Fragments : KeyOf(f.words) = key /\ IsKept(f, extracted, Fragments)
  BY <1>1, <1>2 DEF Says
<1>4. IsWord(f.words[1])
  BY <1>3, FragmentsAreWords DEF TypesOK, IsKept
<1>5. key.path = f.words[1].path
  BY <1>3 DEF KeyOf
<1> QED  BY <1>4, <1>5 DEF IsWord

-----------------------------------------------------------------------------
(* Where an accepted label is read                                         *)

At(o, key, entry) ==
  [protocol |-> o.protocol, collection |-> o.collection, name |-> o.name,
   key |-> key, entry |-> entry]
IsTarget(t) == t = At(t, t.key, t.entry)

LEMMA AcceptedIsRead ==
  ASSUME TypesOK, ParseOK, ReadOK, Done, NEW a \in Range(assignments),
         NEW t, t = a.target
  PROVE  /\ IsTarget(t)
         /\ ~IsRoot(t) => IsReadAt(t, a.kind) /\ t.protocol \in Protocols
         /\ IsDomainIndex(t.entry) => t.entry = <<"domains[", t.entry[2], "]">> /\ t.entry[2] \in Nat
<1>1. PICK key \in Keys : \E row \in MatchingRows(key.path) : IsOf(a, key, row)
  BY AcceptedLabel
<1>2. PICK row \in MatchingRows(key.path) : IsOf(a, key, row)
  BY <1>1
<1>3. /\ IsList(key.path) /\ a = SaidBy(row, key.path, labels[key], ExpectedName)
      /\ row \in SchemaRows
  BY <1>2, RowOfPath DEF IsOf
<1>4. t = Target(row, key.path, ExpectedName) /\ a.kind = row.kind
  BY <1>3 DEF SaidBy
<1>5. IsTarget(t)
  <2>1. \E p, c, n, k, e :
          t = [protocol |-> p, collection |-> c, name |-> n, key |-> k, entry |-> e]
    BY <1>4 DEF Target
  <2> QED  BY <2>1 DEF IsTarget, At
<1>6. ASSUME ~IsRoot(t)  PROVE IsReadAt(t, a.kind) /\ t.protocol \in Protocols
  BY <1>3, <1>4, <1>6, TargetByRow, EveryRowIsRead
<1>7. ASSUME IsDomainIndex(t.entry)
      PROVE  t.entry = <<"domains[", t.entry[2], "]">> /\ t.entry[2] \in Nat
  <2>1. t.entry # NoEntry
    BY <1>7 DEF IsDomainIndex, NoEntry
  <2>2. IsResource(row) /\ t.entry = Entry(row, key.path)
    <3>1. IsResource(row) => t.entry = Entry(row, key.path)
      BY <1>4 DEF Target
    <3>2. ASSUME ~IsResource(row)  PROVE t.entry = NoEntry
      <4>1. \E p, k, n : t = [protocol |-> p, collection |-> p, name |-> n, key |-> k, entry |-> NoEntry]
        BY <1>4, <3>2, Zenon DEF Target
      <4> QED  BY <4>1
    <3> QED  BY <2>1, <3>1, <3>2
  <2>3. PICK i \in DOMAIN key.path : t.entry = key.path[i]
    BY <1>3, <2>1, <2>2, EntryIsSegment
  <2> QED  BY <1>7, <2>3, DomainSegments
<1> QED  BY <1>5, <1>6, <1>7

LEMMA PlacesOfTarget ==
  ASSUME NEW t, IsTarget(t), NEW o, NEW key, NEW entry
  PROVE  /\ At(o, key, entry) \in Places(t) <=>
              /\ o.protocol = t.protocol /\ o.collection = t.collection /\ o.name = t.name
              /\ key = t.key /\ entry \in {t.entry, NoEntry}
         /\ t \in Places(t) /\ At(ObjectOf(t), t.key, t.entry) = t
         /\ \A p \in Places(t) : p = t \/ (t.entry # NoEntry /\ p = At(t, t.key, NoEntry))
<1>1. Places(t) = {t, At(t, t.key, NoEntry)}
  BY DEF Places, IsTarget, At
<1>2. ObjectOf(t).protocol = t.protocol /\ ObjectOf(t).collection = t.collection
      /\ ObjectOf(t).name = t.name
  BY DEF ObjectOf, Object
<1>3. At(ObjectOf(t), t.key, t.entry) = t
  BY <1>2 DEF IsTarget, At
<1>4. t = At(t, t.key, t.entry)
  BY DEF IsTarget
<1>5. \A q, k, e : At(o, key, entry) = At(q, k, e) <=>
        /\ o.protocol = q.protocol /\ o.collection = q.collection /\ o.name = q.name
        /\ key = k /\ entry = e
  BY DEF At
<1> QED  BY <1>1, <1>3, <1>4, <1>5

\* What is kept under an entry is not looked for under the key alone.
LEMMA EntryIsNoKey ==
  ASSUME NEW t, NEW b, NEW kind, NEW other, KeyRead(t, kind), EntryRead(b, other),
         t.collection = b.collection, t.key = b.key
  PROVE  FALSE
<1>1. CASE t.collection = "routers" /\ t.key \in {DomainKey("main"), DomainKey("sans")}
  <2>1. RouterRead(t.protocol, t.key, kind)
    BY <1>1 DEF KeyRead
  <2>2. Len(t.key) = 3
    BY <1>1 DEF DomainKey
  <2>3. Len(t.key) \in {1, 2}
    BY <2>1 DEF RouterRead
  <2> QED  BY <2>2, <2>3
<1>2. CASE t.collection = "services" /\ t.key = HeadersKey
  <2>1. ServerRead(t.protocol, t.key, kind) \/ BalancerRead(t.protocol, t.key, kind)
    BY <1>2 DEF KeyRead
  <2>2. t.key[1] = "loadbalancer" /\ t.key[2] = "healthcheck" /\ t.key[3] = "headers" /\ Len(t.key) = 3
    BY <1>2 DEF HeadersKey
  <2>3. ~ServerRead(t.protocol, t.key, kind)
    BY <2>2 DEF ServerRead, LBServer
  <2>4. BalancerRead(t.protocol, t.key, kind)
    BY <2>1, <2>3
  <2>5. CASE \E f \in DOMAIN HealthCheckKinds : t.key = <<"loadbalancer", "healthcheck", f>>
    <3>1. PICK f \in DOMAIN HealthCheckKinds : t.key = <<"loadbalancer", "healthcheck", f>>
      BY <2>5
    <3>2. f = "headers"
      BY <2>2, <3>1
    <3> QED  BY <3>2 DEF HealthCheckKinds
  <2>6. CASE \E f \in DOMAIN CookieKinds : t.key = <<"loadbalancer", "sticky", "cookie", f>>
    BY <2>2, <2>6
  <2>7. CASE t.key \in {<<"loadbalancer", "insecureskipverify">>, <<"loadbalancer", "passhostheader">>,
            <<"loadbalancer", "healthcheck", "followredirects">>, <<"loadbalancer", "serverstransport">>,
            <<"loadbalancer", "responseforwarding", "flushinterval">>,
            <<"loadbalancer", "proxyprotocol", "version">>, <<"loadbalancer", "terminationdelay">>}
    BY <2>2, <2>7
  <2> QED  BY <2>4, <2>5, <2>6, <2>7 DEF BalancerRead
<1> QED  BY <1>1, <1>2 DEF EntryRead

-----------------------------------------------------------------------------
(* What is read of a set in which one label says something else            *)

\* Readers find what the label at t says, and all else is as in the set.
Told(s, t, kind, value) ==
  LET o == ObjectOf(t) IN
  /\ \A k : ValueAt(s, o, t.key, t.entry, k) = IF k = kind THEN value ELSE Unset
  /\ \A key, entry, k : key # t.key => ValueAt(s, o, key, entry, k) = ValueAt(set, o, key, entry, k)
  /\ \A key : Entries(s, o, key) = Entries(set, o, key)

SameNames(s) ==
  /\ s.marks = set.marks
  /\ \A p, c : /\ NamesOf(s, p, c) = NamesOf(set, p, c)
               /\ ExplicitNames(s, p, c) = ExplicitNames(set, p, c)

LEMMA LabelHoldsItsPlace ==
  ASSUME TypesOK, ParseOK, ReadOK, Done, NEW i \in DOMAIN assignments,
         NEW t, t = assignments[i].target, ~IsRoot(t), ~IsReplaced(i)
  PROVE  HolderOf(t, assignments, Len(assignments), i)
<1> DEFINE n == Len(assignments)
           a == assignments[i]
<1>1. IsList(assignments)
  BY DEF ParseOK, ParsedSoFar, Done
<1>2. n \in Nat /\ DOMAIN assignments = 1 .. n /\ \A k \in 1 .. n : assignments[k] \in Range(assignments)
  BY <1>1 DEF IsList, Range
<1>3. \A k \in 1 .. n : assignments[k].origin \in Int
  <2>1. \A b \in Range(assignments) : IsAssignment(b)
    BY TypesAreTypeOK, ParsedAreAssignments DEF ParseOK, Done
  <2> QED  BY <1>2, <2>1 DEF IsAssignment, Shorthand, Explicit
<1>4. IsTarget(t) /\ IsReadAt(t, a.kind)
  BY <1>2, AcceptedIsRead
<1>5. t \in Places(t)
  BY <1>4, PlacesOfTarget
<1>6. ASSUME NEW k \in 1 .. n, t \in Places(assignments[k].target)
      PROVE  Outdone(assignments, k, i)
  <2> DEFINE b == assignments[k]
  <2>1. IsTarget(b.target) /\ (~IsRoot(b.target) => IsReadAt(b.target, b.kind))
    BY <1>2, AcceptedIsRead
  <2>2. CASE t = b.target
    <3>1. k = i \/ ~(b.origin > a.origin \/ (b.origin = a.origin /\ k > i))
      BY <1>2, <2>2 DEF IsReplaced
    <3>2. a.origin \in Int /\ b.origin \in Int
      BY <1>2, <1>3
    <3>3. i \in Int /\ k \in Int
      BY <1>2
    <3> QED  BY <3>1, <3>2, <3>3 DEF Outdone
  <2>3. CASE b.target.entry # NoEntry /\ t = At(b.target, b.target.key, NoEntry)
    <3>1. /\ t.entry = NoEntry /\ t.key = b.target.key /\ t.collection = b.target.collection
          /\ t.protocol = b.target.protocol
      BY <2>3 DEF At
    <3>2. ~IsRoot(b.target)
      BY <3>1 DEF IsRoot
    <3>3. EntryRead(b.target, b.kind)
      BY <2>1, <2>3, <3>2 DEF IsReadAt
    <3>4. KeyRead(t, a.kind)
      BY <1>4, <3>1 DEF IsReadAt
    <3> QED  BY <3>1, <3>3, <3>4, EntryIsNoKey
  <2>4. t = b.target \/ (b.target.entry # NoEntry /\ t = At(b.target, b.target.key, NoEntry))
    BY <1>6, <2>1, PlacesOfTarget
  <2> QED  BY <2>2, <2>3, <2>4
<1> QED  BY <1>2, <1>5, <1>6 DEF HolderOf

LEMMA DifferentReads ==
  ASSUME NEW s, NEW i, NEW t, t = assignments[i].target, IsTarget(t),
         NEW said, Differs(s, i, said), t \in DOMAIN set.values,
         HolderOf(t, assignments, Len(assignments), i)
  PROVE  Told(s, t, said.kind, said.value)
<1> DEFINE o == ObjectOf(t)
<1>1. ASSUME NEW k
      PROVE  ValueAt(s, o, t.key, t.entry, k) = IF k = said.kind THEN said.value ELSE Unset
  <2>1. s.values[t] = Held(said) /\ t \in DOMAIN s.values
    BY DEF Differs
  <2>2. ValueAt(s, o, t.key, t.entry, k) =
          IF t \in DOMAIN s.values /\ s.values[t].kind = k THEN s.values[t].value ELSE Unset
    BY PlacesOfTarget DEF ValueAt, At
  <2> QED  BY <2>1, <2>2 DEF Held
<1>2. ASSUME NEW key, NEW entry, NEW k, key # t.key
      PROVE  ValueAt(s, o, key, entry, k) = ValueAt(set, o, key, entry, k)
  <2> DEFINE p == At(o, key, entry)
  <2>1. p \notin Places(t)
    BY <1>2, PlacesOfTarget
  <2>2. /\ p \in DOMAIN s.values <=> p \in DOMAIN set.values
        /\ p \in DOMAIN set.values => s.values[p] = set.values[p]
    BY <2>1 DEF Differs
  <2>3. \A x : ValueAt(x, o, key, entry, k) =
          IF p \in DOMAIN x.values /\ x.values[p].kind = k THEN x.values[p].value ELSE Unset
    BY DEF ValueAt, At
  <2> HIDE DEF p, o
  <2> QED  BY <2>2, <2>3
<1>3. ASSUME NEW key
      PROVE  Entries(s, o, key) = Entries(set, o, key)
  BY DEF Entries, Differs
<1> QED  BY <1>1, <1>2, <1>3 DEF Told

LEMMA DifferentNames ==
  ASSUME NEW s, NEW i, NEW t, t = assignments[i].target, IsTarget(t), t.protocol \in Protocols,
         NEW said, Differs(s, i, said)
  PROVE  SameNames(s)
<1>1. \A p, c : ExplicitNames(s, p, c) = ExplicitNames(set, p, c)
  BY DEF ExplicitNames, Differs
<1>2. DefaultObjectName(s, base) = DefaultObjectName(set, base)
  <2> DEFINE p == At(Root, <<"name">>, NoEntry)
  <2>1. p \notin Places(t)
    <3>1. Root.protocol \notin Protocols
      BY DEF Root, Object, Protocols
    <3> QED  BY <3>1, PlacesOfTarget
  <2>2. /\ p \in DOMAIN s.values <=> p \in DOMAIN set.values
        /\ p \in DOMAIN set.values => s.values[p] = set.values[p]
    BY <2>1 DEF Differs
  <2>3. \A x : NameOverride(x) =
          IF p \in DOMAIN x.values /\ x.values[p].kind = "string" THEN x.values[p].value ELSE Unset
    BY DEF NameOverride, StringValue, ValueAt, At
  <2> HIDE DEF p
  <2>4. NameOverride(s) = NameOverride(set)
    BY <2>2, <2>3
  <2> QED  BY <2>4 DEF DefaultObjectName
<1>3. s.marks = set.marks
  BY DEF Differs
<1>4. \A p, c : NamesOf(s, p, c) = NamesOf(set, p, c)
  BY <1>1, <1>2, <1>3 DEF NamesOf
<1> QED  BY <1>1, <1>3, <1>4 DEF SameNames

\* What is built when the label says something else.
LEMMA LabelTold ==
  ASSUME TypesOK, ParseOK, ReadOK, OrderOK, Done, NEW i \in DOMAIN assignments,
         NEW t, t = assignments[i].target, ~IsRoot(t), ~IsReplaced(i),
         NEW said, said.target = t, said.origin = assignments[i].origin,
         NEW s, s = Rebuilt([assignments EXCEPT ![i] = said], set.marks)
  PROVE  SameNames(s) /\ Told(s, t, said.kind, said.value)
<1>1. IsList(assignments) /\ InOrder(set, assignments, Len(assignments))
  BY DEF ParseOK, ParsedSoFar, Done, OrderOK
<1>2. Differs(s, i, said)
  BY OneLabelDiffers
<1>3. assignments[i] \in Range(assignments)
  BY DEF Range
<1>4. IsTarget(t) /\ t.protocol \in Protocols
  BY <1>3, AcceptedIsRead
<1>5. HolderOf(t, assignments, Len(assignments), i)
  BY LabelHoldsItsPlace
<1>6. t \in DOMAIN set.values
  <2>1. t \in Places(t)
    BY <1>4, PlacesOfTarget
  <2>2. i \in 1 .. Len(assignments)
    BY <1>1 DEF IsList
  <2> QED  BY <1>1, <2>1, <2>2 DEF InOrder
<1> QED  BY <1>2, <1>4, <1>5, <1>6, DifferentReads, DifferentNames

-----------------------------------------------------------------------------
(* Labels with another value, and without one                              *)

IsValue(v) == \E e : v = <<e>>
Kinds == {"bool", "int", "csv", "string"}

LEMMA TwoValues ==
  ASSUME NEW kind \in Kinds
  PROVE  \E v, w \in SomeValues(kind) : IsValue(v) /\ IsValue(w) /\ v # w
<1>1. CASE kind = "bool"
  <2>1. SomeValues(kind) = {<<"true">>, <<"false">>}
    BY <1>1 DEF SomeValues
  <2>2. <<"true">>[1] # <<"false">>[1]
    OBVIOUS
  <2>3. <<"true">> # <<"false">>
    BY <2>2
  <2> QED  BY <2>1, <2>3 DEF IsValue
<1>2. ASSUME NEW pieces \in {Numbers, NamePieces}, SomeValues(kind) = {<<n>> : n \in pieces}
      PROVE  \E v, w \in SomeValues(kind) : IsValue(v) /\ IsValue(w) /\ v # w
  <2>1. PICK m, n \in pieces : m # n
    BY ValuesAssumption
  <2>2. <<m>>[1] = m /\ <<n>>[1] = n
    OBVIOUS
  <2>3. <<m>> # <<n>>
    BY <2>1, <2>2
  <2> QED  BY <1>2, <2>1, <2>3 DEF IsValue
<1>3. CASE kind = "int"
  <2>1. SomeValues(kind) = {<<n>> : n \in Numbers}
    BY <1>3 DEF SomeValues
  <2> QED  BY <1>2, <2>1
<1>4. CASE kind \in {"csv", "string"}
  <2>1. SomeValues(kind) = {<<n>> : n \in NamePieces}
    BY <1>4 DEF SomeValues
  <2> QED  BY <1>2, <2>1
<1> QED  BY <1>1, <1>3, <1>4 DEF Kinds

LEMMA AcceptedRecord ==
  ASSUME TypesOK, ParseOK, Done, NEW a \in Range(assignments)
  PROVE  a = [target |-> a.target, kind |-> a.kind, value |-> a.value, origin |-> a.origin]
<1>1. PICK key \in Keys : \E row \in MatchingRows(key.path) : IsOf(a, key, row)
  BY AcceptedLabel
<1>2. PICK row \in MatchingRows(key.path) : IsOf(a, key, row)
  BY <1>1
<1>3. \E t, k, v, o : a = [target |-> t, kind |-> k, value |-> v, origin |-> o]
  BY <1>2 DEF IsOf, SaidBy
<1> QED  BY <1>3

\* A set in which the label has a value, or in which nobody reads it.
IsWithValue(s, i, v) == s = Rebuilt([assignments EXCEPT ![i].value = v], set.marks)
IsWithout(s, i) == s = Rebuilt([assignments EXCEPT ![i].kind = "none"], set.marks)

LEMMA ToldWithValue ==
  ASSUME TypesOK, ParseOK, ReadOK, OrderOK, Done, NEW i \in DOMAIN assignments,
         NEW t, t = assignments[i].target, ~IsRoot(t), ~IsReplaced(i),
         NEW s, NEW v, IsWithValue(s, i, v)
  PROVE  SameNames(s) /\ Told(s, t, assignments[i].kind, v)
<1> DEFINE a == assignments[i]
           said == [a EXCEPT !.value = v]
<1>1. a \in Range(assignments)
  BY DEF Range
<1>2. a = [target |-> a.target, kind |-> a.kind, value |-> a.value, origin |-> a.origin]
  BY <1>1, AcceptedRecord
<1>3. said.target = t /\ said.origin = a.origin /\ said.kind = a.kind /\ said.value = v
  BY <1>2
<1>4. s = Rebuilt([assignments EXCEPT ![i] = said], set.marks)
  BY DEF IsWithValue
<1> HIDE DEF said
<1> QED  BY <1>3, <1>4, LabelTold

LEMMA ToldWithout ==
  ASSUME TypesOK, ParseOK, ReadOK, OrderOK, Done, NEW i \in DOMAIN assignments,
         NEW t, t = assignments[i].target, ~IsRoot(t), ~IsReplaced(i),
         NEW s, IsWithout(s, i)
  PROVE  SameNames(s) /\ \E v : Told(s, t, "none", v)
<1> DEFINE a == assignments[i]
           said == [a EXCEPT !.kind = "none"]
<1>1. a \in Range(assignments)
  BY DEF Range
<1>2. a = [target |-> a.target, kind |-> a.kind, value |-> a.value, origin |-> a.origin]
  BY <1>1, AcceptedRecord
<1>3. said.target = t /\ said.origin = a.origin /\ said.kind = "none"
  BY <1>2
<1>4. s = Rebuilt([assignments EXCEPT ![i] = said], set.marks)
  BY DEF IsWithout
<1> HIDE DEF said
<1> QED  BY <1>3, <1>4, LabelTold

\* Two values tell when what is built differs.
LEMMA ValuesTell ==
  ASSUME NEW i \in DOMAIN assignments,
         NEW v \in SomeValues(assignments[i].kind), NEW w \in SomeValues(assignments[i].kind),
         NEW x, IsWithValue(x, i, v), NEW y, IsWithValue(y, i, w), Alone(x) # Alone(y)
  PROVE  HasASay(i)
BY DEF HasASay, IsWithValue

LEMMA ValueTells ==
  ASSUME NEW i \in DOMAIN assignments, NEW v \in SomeValues(assignments[i].kind),
         NEW x, IsWithValue(x, i, v), NEW y, IsWithout(y, i), Alone(x) # Alone(y)
  PROVE  HasASay(i)
BY DEF HasASay, IsWithValue, IsWithout

-----------------------------------------------------------------------------
(* Shorthand labels are about routers and services                         *)

LEMMA LabelKeys ==
  ASSUME NEW p, NEW key, NEW kind, RouterLabel(p, key, kind) \/ ServiceLabel(p, key, kind)
  PROVE  IsList(key) /\ key # <<>>
<1>1. CASE RouterLabel(p, key, kind)
  BY <1>1, PlainRouterKey, ShortLists DEF RouterLabel
<1>2. CASE ServiceLabel(p, key, kind)
  BY <1>2, PlainServiceKey, ShortLists DEF ServiceLabel
<1> QED  BY <1>1, <1>2

LEMMA CollectionOfRow ==
  ASSUME NEW row, NEW p, NEW c, NEW n, NEW key, IsList(key), key # <<>>,
         row.target = <<p, c, n>> \o key
  PROVE  row.target[2] = c
<1>1. GoesOn(row, p, c, n, key)
  BY DEF GoesOn
<1> QED  BY <1>1, AfterName

LEMMA PlainRowsAreExplicit ==
  ASSUME NEW to, NEW keys, NEW row \in Rows(to, to, keys)
  PROVE  row.origin # Shorthand
<1> DEFINE R(kind) == {[source |-> to \o key, target |-> to \o key, kind |-> kind,
                        origin |-> IF to = to THEN Explicit ELSE Shorthand] : key \in keys[kind]}
<1>1. Rows(to, to, keys) = UNION {R(kind) : kind \in DOMAIN keys}
  BY DEF Rows
<1>2. PICK kind \in DOMAIN keys : row \in R(kind)
  <2> HIDE DEF R
  <2> QED  BY <1>1
<1>3. row.origin = Explicit
  BY <1>2
<1> QED  BY <1>3 DEF Explicit, Shorthand

LEMMA ShorthandRows ==
  ASSUME NEW row \in SchemaRows, row.origin = Shorthand
  PROVE  row.target[2] # "serverstransports"
<1> SUFFICES row.target[2] \in {"routers", "services"}
  OBVIOUS
<1>1. ASSUME NEW p, NEW n, NEW from, NEW keys, OfRouters(p, keys), row \in Rows(from, RouterOf(p, n), keys)
      PROVE  row.target[2] = "routers"
  <2>1. PICK kind \in DOMAIN keys : \E key \in keys[kind] :
          row.target = RouterOf(p, n) \o key /\ row.kind = kind
    BY <1>1, RowOf
  <2>2. PICK key \in keys[kind] : row.target = <<p, "routers", n>> \o key
    BY <2>1 DEF RouterOf
  <2>3. IsList(key) /\ key # <<>>
    BY <1>1, LabelKeys DEF OfRouters
  <2> QED  BY <2>2, <2>3, CollectionOfRow
<1>2. ASSUME NEW p, NEW n, NEW from, NEW keys, OfServices(p, <<"loadbalancer">>, keys),
             row \in Rows(from, LoadBalancer(p, n), keys)
      PROVE  row.target[2] = "services"
  <2>1. PICK kind \in DOMAIN keys : \E key \in keys[kind] :
          row.target = LoadBalancer(p, n) \o key /\ row.kind = kind
    BY <1>2, RowOf
  <2>2. PICK key \in keys[kind] : row.target = LoadBalancer(p, n) \o key
    BY <2>1
  <2>3. IsList(key) /\ IsList(<<"loadbalancer">> \o key) /\ <<"loadbalancer">> \o key # <<>>
    BY <1>2, LabelKeys DEF OfServices
  <2>4. row.target = <<p, "services", n>> \o (<<"loadbalancer">> \o key)
    BY <2>2, <2>3, UnderBalancer
  <2> QED  BY <2>3, <2>4, CollectionOfRow
<1>3. ASSUME NEW p, NEW n, NEW from, NEW keys, OfServices(p, <<"loadbalancer", "server">>, keys),
             row \in Rows(from, Server(p, n), keys)
      PROVE  row.target[2] = "services"
  <2>1. PICK kind \in DOMAIN keys : \E key \in keys[kind] :
          row.target = Server(p, n) \o key /\ row.kind = kind
    BY <1>3, RowOf
  <2>2. PICK key \in keys[kind] : row.target = Server(p, n) \o key
    BY <2>1
  <2>3. /\ IsList(key) /\ IsList(<<"loadbalancer", "server">> \o key)
        /\ <<"loadbalancer", "server">> \o key # <<>>
    BY <1>3, LabelKeys DEF OfServices
  <2>4. row.target = <<p, "services", n>> \o (<<"loadbalancer", "server">> \o key)
    BY <2>2, <2>3, UnderBalancer
  <2> QED  BY <2>3, <2>4, CollectionOfRow
<1>4. /\ OfRouters("http", HTTPRouterShorthands)
      /\ OfRouters("tcp", TCPRouterKeys) /\ OfRouters("udp", UDPRouterKeys)
  BY RouterLabels DEF OfRouters
<1>5. /\ OfServices("http", <<"loadbalancer">>, HTTPServiceShorthands)
      /\ OfServices("tcp", <<"loadbalancer">>, TCPServiceKeys)
      /\ OfServices("udp", <<"loadbalancer">>, [int |-> {}])
      /\ OfServices("http", <<"loadbalancer", "server">>, HTTPServerShorthands)
      /\ OfServices("tcp", <<"loadbalancer", "server">>, StreamServerKeys)
      /\ OfServices("udp", <<"loadbalancer", "server">>, StreamServerKeys)
  BY OtherServiceLabels, ServiceKeysAreLists DEF OfServices
<1>6. CASE row \in RootRows
  BY <1>6, PlainRowsAreExplicit DEF RootRows, Plain
<1>7. CASE row \in HTTPRows
  <2>1. \/ row \in Rows(<<>>, Server("http", Default), HTTPServerShorthands)
        \/ row \in Rows(<<>>, LoadBalancer("http", Default), HTTPServiceShorthands)
        \/ row \in Rows(<<>>, RouterOf("http", Default), HTTPRouterShorthands)
        \/ row \in Rows(RouterOf("http", "{name}"), RouterOf("http", "{name}"), RouterKeys)
        \/ row \in Rows(LoadBalancer("http", "{name}"), LoadBalancer("http", "{name}"), ServiceKeys)
        \/ row \in Rows(<<"http", "serverstransports", "{name}">>,
                        <<"http", "serverstransports", "{name}">>, TransportKeys)
    BY <1>7 DEF HTTPRows, Plain, RouterOf
  <2> QED  BY <1>1, <1>2, <1>3, <1>4, <1>5, <2>1, PlainRowsAreExplicit
<1>8. ASSUME NEW p, NEW routerKeys, NEW serviceKeys,
             row \in StreamRows(p, routerKeys, serviceKeys), OfRouters(p, routerKeys),
             OfServices(p, <<"loadbalancer">>, serviceKeys),
             OfServices(p, <<"loadbalancer", "server">>, StreamServerKeys)
      PROVE  row.target[2] \in {"routers", "services"}
  <2>1. \/ row \in Rows(<<p>>, RouterOf(p, Default), routerKeys)
        \/ row \in Rows(<<p>>, Server(p, Default), StreamServerKeys)
        \/ row \in Rows(<<p>>, LoadBalancer(p, Default), serviceKeys)
        \/ row \in Rows(RouterOf(p, "{name}"), RouterOf(p, "{name}"), routerKeys)
        \/ row \in Rows(Server(p, "{name}"), Server(p, "{name}"), StreamServerKeys)
        \/ row \in Rows(LoadBalancer(p, "{name}"), LoadBalancer(p, "{name}"), serviceKeys)
    BY <1>8 DEF StreamRows, Plain, RouterOf
  <2> QED  BY <1>1, <1>2, <1>3, <1>8, <2>1, PlainRowsAreExplicit
<1> QED  BY <1>4, <1>5, <1>6, <1>7, <1>8 DEF SchemaRows, TCPRows, UDPRows

-----------------------------------------------------------------------------
(* The object that an accepted label is about is built                     *)

LEMMA ObjectOfLabelIsBuilt ==
  ASSUME TypesOK, ParseOK, Done, NEW a \in Range(assignments),
         NEW t, t = a.target, ~IsRoot(t), ~IsUnreached(a)
  PROVE  /\ t.protocol \in ProtocolsOf(set)
         /\ t.name \in NamesOf(set, t.protocol, t.collection)
         /\ t.collection = "serverstransports" =>
              t.name \in ExplicitNames(set, t.protocol, t.collection)
         /\ \A c \in {"routers", "services"} : NamesOf(set, t.protocol, c) # {}
<1> DEFINE p == t.protocol
           c == t.collection
<1>1. PICK key \in Keys : \E row \in MatchingRows(key.path) : IsOf(a, key, row)
  BY AcceptedLabel
<1>2. PICK row \in MatchingRows(key.path) : IsOf(a, key, row)
  BY <1>1
<1>3. /\ IsList(key.path) /\ a = SaidBy(row, key.path, labels[key], ExpectedName)
      /\ row \in SchemaRows /\ MarksOf(key.path) \subseteq set.marks
  BY <1>2, RowOfPath DEF IsOf
<1>4. t = Target(row, key.path, ExpectedName) /\ a.origin = row.origin
  BY <1>3 DEF SaidBy
<1>5. p \in Protocols /\ IsResource(row)
  BY <1>3, <1>4, TargetByRow
<1>6. /\ a.origin \in {Shorthand, Explicit}
      /\ a.origin = Explicit => <<p, c>> \in set.marks
      /\ a.origin = Shorthand => t.name = ExpectedName
      /\ p \in {"tcp", "udp"} => <<p>> \in set.marks
  BY <1>3, <1>4, TargetMarked
<1>7. a.origin = Shorthand => c # "serverstransports"
  <2>1. c = row.target[2]
    BY <1>4, <1>5 DEF Target
  <2> QED  BY <1>3, <1>4, <2>1, ShorthandRows
<1>8. WellFormed(set, base) /\ DefaultObjectName(set, base) = ExpectedName
  BY TypesAreTypeOK, SetFits, SetIsAsLabelled DEF TypesOK, SetFitsBuilder, ObjectsAsLabelled
<1>9. a.origin = Explicit => t.name \in ExplicitNames(set, p, c)
  <2> DEFINE o == ObjectOf(t)
  <2>1. Describes(set, Range(assignments))
    BY DEF ParseOK, ParsedSoFar, Done
  <2>2. o.protocol = p /\ o.collection = c /\ o.name = t.name
    BY DEF ObjectOf, Object
  <2> HIDE DEF o
  <2>3. o \in DOMAIN set.objects /\ (a.origin = Explicit => set.objects[o])
    BY <2>1 DEF Describes, ObjectsDescribed, o
  <2> QED  BY <2>2, <2>3 DEF ExplicitNames
<1>10. p \in ProtocolsOf(set)
  <2>1. CASE p = "http"
    BY <1>5, <2>1 DEF IsUnreached, ProtocolsOf
  <2>2. CASE p \in {"tcp", "udp"}
    BY <1>5, <1>6, <2>2 DEF ProtocolsOf
  <2> QED  BY <1>5, <2>1, <2>2 DEF Protocols
<1>11. t.name \in NamesOf(set, p, c)
  <2>1. CASE a.origin = Explicit
    BY <1>9, <2>1 DEF NamesOf
  <2>2. CASE a.origin = Shorthand /\ <<p, c>> \in set.marks
    <3>1. t.name \in ExplicitNames(set, p, c)
      BY <2>2 DEF IsUnreached
    <3> QED  BY <3>1 DEF NamesOf
  <2>3. CASE a.origin = Shorthand /\ <<p, c>> \notin set.marks
    <3>1. ExplicitNames(set, p, c) = {}
      BY <1>8, <2>3 DEF WellFormed, ExplicitNames
    <3> QED  BY <1>6, <1>8, <2>3, <3>1 DEF NamesOf
  <2> QED  BY <1>6, <2>1, <2>2, <2>3
<1>12. ASSUME NEW d \in {"routers", "services"}  PROVE NamesOf(set, p, d) # {}
  <2>1. ~(<<p, d>> \in set.marks /\ ExplicitNames(set, p, d) = {})
    BY DEF IsUnreached
  <2> QED  BY <2>1 DEF NamesOf
<1> QED  BY <1>6, <1>7, <1>9, <1>10, <1>11, <1>12

-----------------------------------------------------------------------------
(* What is built differs when the object does                              *)

Names(p, c) == {Object(p, c, n) : n \in NamesOf(set, p, c)}
IsInsecure(s, o) ==
  InsecureSkipVerify(s, o) /\ Service(s, o, {base}).serversTransport = Unset

LEMMA BuiltOfProtocol ==
  ASSUME NEW s, SameNames(s), NEW p \in ProtocolsOf(set),
         \A c \in {"routers", "services"} : NamesOf(set, p, c) # {}
  PROVE  Alone(s)[p] = << [o \in Names(p, "routers") |-> Router(s, o, Unset)],
                          [o \in Names(p, "services") |-> Service(s, o, {base})],
                          {o \in Names(p, "services") : IsInsecure(s, o)},
                          [n \in ExplicitNames(set, p, "serverstransports") |->
                             ServersTransport(s, Object(p, "serverstransports", n))] >>
<1>1. p \in ProtocolsOf(s)
  BY DEF SameNames, ProtocolsOf
<1>2. Names(p, "routers") # {} /\ Names(p, "services") # {}
  BY DEF Names
<1>3. /\ \A c : {Object(p, c, n) : n \in NamesOf(s, p, c)} = Names(p, c)
      /\ ExplicitNames(s, p, "serverstransports") = ExplicitNames(set, p, "serverstransports")
  BY DEF SameNames, Names
<1> QED  BY <1>1, <1>2, <1>3 DEF Alone, IsInsecure

LEMMA ObjectsDiffer ==
  ASSUME NEW x, SameNames(x), NEW y, SameNames(y), NEW p \in ProtocolsOf(set),
         \A c \in {"routers", "services"} : NamesOf(set, p, c) # {},
         NEW t, t.protocol = p, NEW o, o = ObjectOf(t), t.name \in NamesOf(set, p, t.collection),
         t.collection = "serverstransports" => t.name \in ExplicitNames(set, p, t.collection),
         \/ t.collection = "routers" /\ Router(x, o, Unset) # Router(y, o, Unset)
         \/ t.collection = "services" /\ Service(x, o, {base}) # Service(y, o, {base})
         \/ t.collection = "services" /\ (IsInsecure(x, o) /\ ~IsInsecure(y, o))
         \/ t.collection = "serverstransports" /\ ServersTransport(x, o) # ServersTransport(y, o)
  PROVE  Alone(x) # Alone(y)
<1> DEFINE routers(s) == [q \in Names(p, "routers") |-> Router(s, q, Unset)]
           services(s) == [q \in Names(p, "services") |-> Service(s, q, {base})]
           insecure(s) == {q \in Names(p, "services") : IsInsecure(s, q)}
           transports(s) == [n \in ExplicitNames(set, p, "serverstransports") |->
                               ServersTransport(s, Object(p, "serverstransports", n))]
<1>1. /\ Alone(x)[p] = <<routers(x), services(x), insecure(x), transports(x)>>
      /\ Alone(y)[p] = <<routers(y), services(y), insecure(y), transports(y)>>
  BY BuiltOfProtocol
<1>2. o = Object(p, t.collection, t.name)
  BY DEF ObjectOf
<1>3. o \in Names(p, t.collection)
  BY <1>2 DEF Names
<1>4. t.collection = "routers" /\ Router(x, o, Unset) # Router(y, o, Unset) => routers(x) # routers(y)
  BY <1>3
<1>5. t.collection = "services" /\ Service(x, o, {base}) # Service(y, o, {base}) => services(x) # services(y)
  BY <1>3
<1>6. t.collection = "services" /\ IsInsecure(x, o) /\ ~IsInsecure(y, o) => insecure(x) # insecure(y)
  BY <1>3
<1>7. t.collection = "serverstransports" /\ ServersTransport(x, o) # ServersTransport(y, o)
        => transports(x) # transports(y)
  BY <1>2
<1>8. \A a, b, c, d, e, f, g, h : <<a, b, c, d>> = <<e, f, g, h>> => a = e /\ b = f /\ c = g /\ d = h
  OBVIOUS
<1> HIDE DEF routers, services, insecure, transports
<1>9. routers(x) # routers(y) \/ services(x) # services(y) \/ insecure(x) # insecure(y)
        \/ transports(x) # transports(y)
  BY <1>4, <1>5, <1>6, <1>7
<1> QED  BY <1>1, <1>8, <1>9

-----------------------------------------------------------------------------
(* What the label of a router changes                                      *)

LEMMA ValueIsSet ==
  ASSUME NEW v, IsValue(v)
  PROVE  v # Unset /\ \A d : Or(v, d) = v
<1>1. v # Unset
  <2>1. PICK e : v = <<e>>
    BY DEF IsValue
  <2>2. Len(v) = 1 /\ Len(Unset) = 0
    BY <2>1 DEF Unset
  <2> QED  BY <2>2
<1> QED  BY <1>1 DEF Or

LEMMA ReadOfKey ==
  ASSUME NEW s, NEW t, NEW o, o = ObjectOf(t), NEW kind, NEW v, Told(s, t, kind, v), t.entry = NoEntry
  PROVE  /\ ValueAt(s, o, t.key, NoEntry, kind) = v
         /\ \A key, k : key # t.key => ValueAt(s, o, key, NoEntry, k) = ValueAt(set, o, key, NoEntry, k)
         /\ o.protocol = t.protocol
<1>1. o.protocol = t.protocol
  BY DEF ObjectOf, Object
<1> QED  BY <1>1 DEF Told

LEMMA RouterFields ==
  ASSUME NEW s, NEW o, o.protocol \in Protocols
  PROVE  LET r == Router(s, o, Unset) IN
         /\ r.service = Or(StringValue(s, o, <<"service">>), Unset)
         /\ r.entryPoints = EntryPoints(s, o)
         /\ o.protocol # "udp" =>
              /\ \E d : r.rule = Or(StringValue(s, o, <<"rule">>), d)
              /\ r.middlewares = ListValue(s, o, <<"middlewares">>)
              /\ r.priority = Or(IntValue(s, o, <<"priority">>), Zero("int"))
         /\ o.protocol = "http" => r.tls = RouterTLS(s, o)
         /\ o.protocol = "tcp" => r.tls = TCPRouterTLS(s, o)
<1>1. CASE o.protocol = "http"
  <2>1. Router(s, o, Unset) = HTTPRouter(s, o, Unset)
    BY <1>1 DEF Router
  <2> QED  BY <1>1, <2>1 DEF HTTPRouter
<1>2. CASE o.protocol = "tcp"
  <2>1. Router(s, o, Unset) = TCPRouter(s, o, Unset)
    BY <1>2 DEF Router
  <2> QED  BY <1>2, <2>1 DEF TCPRouter
<1>3. CASE o.protocol = "udp"
  <2>1. Router(s, o, Unset) = UDPRouter(s, o, Unset)
    BY <1>3 DEF Router
  <2> QED  BY <1>3, <2>1 DEF UDPRouter
<1> QED  BY <1>1, <1>2, <1>3 DEF Protocols

\* The TLS of a router, where there is one.
TLSOf(o, r) == IF o.protocol = "http" THEN r.tls[1] ELSE r.tls[1].fields

LEMMA TLSOfRouter ==
  ASSUME NEW s, NEW o, o.protocol \in {"http", "tcp"},
         BoolValue(s, o, <<"tls">>) # Unset \/ AnySet(TLSFields(s, o))
  PROVE  /\ TLSOf(o, Router(s, o, Unset)) = TLSFields(s, o)
         /\ Router(s, o, Unset).tls # <<>>
<1>1. o.protocol \in Protocols
  BY DEF Protocols
<1>2. CASE o.protocol = "http"
  <2>1. Router(s, o, Unset).tls = <<TLSFields(s, o)>>
    BY <1>1, <1>2, RouterFields DEF RouterTLS
  <2> QED  BY <1>2, <2>1 DEF TLSOf
<1>3. CASE o.protocol = "tcp"
  <2>1. \E b : Router(s, o, Unset).tls = <<[fields |-> TLSFields(s, o), passthrough |-> b]>>
    BY <1>1, <1>3, RouterFields DEF TCPRouterTLS
  <2> QED  BY <1>3, <2>1 DEF TLSOf
<1> QED  BY <1>2, <1>3

LEMMA TLSFieldsOf ==
  ASSUME NEW s, NEW o
  PROVE  /\ TLSFields(s, o).certResolver = StringValue(s, o, <<"tls", "certresolver">>)
         /\ TLSFields(s, o).options = StringValue(s, o, <<"tls", "options">>)
         /\ TLSFields(s, o).domains = RouterTLSDomains(s, o)
         /\ AnySet(TLSFields(s, o)) <=> \/ TLSFields(s, o).certResolver # Unset
                                        \/ TLSFields(s, o).options # Unset
                                        \/ TLSFields(s, o).domains # Unset
BY DEF TLSFields, AnySet

\* The domains are those of the set when the label is about none of them.
LEMMA SameDomains ==
  ASSUME NEW s, NEW t, NEW o, o = ObjectOf(t), NEW kind, NEW v, Told(s, t, kind, v),
         t.key \notin {DomainKey("main"), DomainKey("sans")}
  PROVE  TLSDomains(s, o, <<"tls">>) = TLSDomains(set, o, <<"tls">>)
<1>1. /\ <<"tls">> \o <<"domains", "main">> = DomainKey("main")
      /\ <<"tls">> \o <<"domains", "sans">> = DomainKey("sans")
  BY OneAndTwo DEF DomainKey
<1> DEFINE main == DomainKey("main")
           sans == DomainKey("sans")
<1>2. /\ \A e, k : ValueAt(s, o, main, e, k) = ValueAt(set, o, main, e, k)
      /\ \A e, k : ValueAt(s, o, sans, e, k) = ValueAt(set, o, sans, e, k)
      /\ Entries(s, o, main) = Entries(set, o, main) /\ Entries(s, o, sans) = Entries(set, o, sans)
  BY DEF Told
<1> HIDE DEF main, sans
<1> DEFINE D(x) == Entries(x, o, main) \cup Entries(x, o, sans)
           listed(x, d) == [main |-> ValueAt(x, o, main, d, "string"),
                            sans |-> ValueAt(x, o, sans, d, "csv")]
           domains == D(set)
<1>3. ASSUME NEW x  PROVE TLSDomains(x, o, <<"tls">>) =
                            [n \in 1 .. Cardinality(D(x)) |-> listed(x, NthDomain(D(x), n))]
  BY <1>1 DEF TLSDomains, main, sans
<1>4. D(s) = domains /\ \A d : listed(s, d) = listed(set, d)
  BY <1>2
<1> HIDE DEF D, listed
<1>5. TLSDomains(s, o, <<"tls">>) = [n \in 1 .. Cardinality(domains) |-> listed(s, NthDomain(domains, n))]
  BY <1>3, <1>4
<1>6. TLSDomains(set, o, <<"tls">>) = [n \in 1 .. Cardinality(domains) |-> listed(set, NthDomain(domains, n))]
  BY <1>3
<1> HIDE DEF domains
<1> QED  BY <1>4, <1>5, <1>6

\* The label at t is not void.
Counts(t) == \E a : a.target = t /\ ~IsVoid(a)

RouterSays(t, o, r, v) ==
  /\ t.key = <<"service">> => r.service = v
  /\ t.key \in {<<"entrypoints">>, <<"entrypoint">>} => r.entryPoints = v
  /\ t.key = <<"rule">> => r.rule = v
  /\ t.key = <<"middlewares">> => r.middlewares = v
  /\ t.key = <<"priority">> => r.priority = v
  /\ t.key = <<"tls", "certresolver">> => TLSOf(o, r).certResolver = v
  /\ t.key = <<"tls", "options">> => TLSOf(o, r).options = v
  /\ t.key = <<"tls", "domains">> => TLSOf(o, r).domains[1].main = v
  /\ t.key = <<"tls", "passthrough">> => r.tls[1].passthrough = v

LEMMA RouterReadsValue ==
  ASSUME NEW a, NEW t, t = a.target, t.entry = NoEntry, NEW o, o = ObjectOf(t), ~IsVoid(a),
         t.protocol \in Protocols,
         NEW kind, RouterRead(t.protocol, t.key, kind), t.key # <<"tls">>,
         NEW s, NEW v, IsValue(v), Told(s, t, kind, v)
  PROVE  RouterSays(t, o, Router(s, o, Unset), v)
<1> DEFINE r == Router(s, o, Unset)
           p == t.protocol
           Read(key, k) == ValueAt(s, o, key, NoEntry, k)
<1>1. /\ Read(t.key, kind) = v
      /\ \A key, k : key # t.key => Read(key, k) = ValueAt(set, o, key, NoEntry, k)
      /\ o.protocol = p
  BY ReadOfKey
<1>2. v # Unset /\ \A d : Or(v, d) = v
  BY ValueIsSet
<1>3. /\ r.service = Or(Read(<<"service">>, "string"), Unset)
      /\ r.entryPoints = Or(Read(<<"entrypoints">>, "csv"), Read(<<"entrypoint">>, "string"))
      /\ p # "udp" =>
           /\ \E d : r.rule = Or(Read(<<"rule">>, "string"), d)
           /\ r.middlewares = Read(<<"middlewares">>, "csv")
           /\ r.priority = Or(Read(<<"priority">>, "int"), Zero("int"))
  BY <1>1, RouterFields DEF StringValue, ListValue, IntValue, EntryPoints
<1> HIDE DEF r, Read
<1>4. ASSUME t.key = <<"service">>  PROVE r.service = v
  <2>1. kind = "string"
    BY <1>4 DEF RouterRead
  <2> QED  BY <1>1, <1>2, <1>3, <1>4, <2>1
<1>5. ASSUME t.key = <<"entrypoints">>  PROVE r.entryPoints = v
  <2>1. kind = "csv"
    BY <1>5 DEF RouterRead
  <2> QED  BY <1>1, <1>2, <1>3, <1>5, <2>1
<1>6. ASSUME t.key = <<"entrypoint">>  PROVE r.entryPoints = v
  <2>1. kind = "string"
    BY <1>6 DEF RouterRead
  <2>2. ListValue(set, o, <<"entrypoints">>) = Unset
    BY <1>6 DEF IsVoid
  <2>3. Read(<<"entrypoints">>, "csv") = Unset
    BY <1>1, <1>6, <2>2 DEF ListValue
  <2> QED  BY <1>1, <1>3, <1>6, <2>1, <2>3 DEF Or
<1>7. ASSUME t.key = <<"rule">>  PROVE r.rule = v
  <2>1. kind = "string" /\ p # "udp"
    BY <1>7 DEF RouterRead
  <2> QED  BY <1>1, <1>2, <1>3, <1>7, <2>1
<1>8. ASSUME t.key = <<"middlewares">>  PROVE r.middlewares = v
  <2>1. kind = "csv" /\ p # "udp"
    BY <1>8 DEF RouterRead
  <2> QED  BY <1>1, <1>3, <1>8, <2>1
<1>9. ASSUME t.key = <<"priority">>  PROVE r.priority = v
  <2>1. kind = "int" /\ p # "udp"
    BY <1>9 DEF RouterRead
  <2> QED  BY <1>1, <1>2, <1>3, <1>9, <2>1
<1>10. ASSUME p \in {"http", "tcp"}, AnySet(TLSFields(s, o))  PROVE TLSOf(o, r) = TLSFields(s, o)
  BY <1>1, <1>10, TLSOfRouter DEF r
<1>11. ASSUME t.key = <<"tls", "certresolver">>  PROVE TLSOf(o, r).certResolver = v
  <2>1. kind = "string" /\ p # "udp"
    BY <1>11 DEF RouterRead
  <2>2. TLSFields(s, o).certResolver = v
    BY <1>1, <1>11, <2>1, TLSFieldsOf DEF Read, StringValue
  <2> QED  BY <1>2, <1>10, <2>1, <2>2, TLSFieldsOf DEF Protocols
<1>12. ASSUME t.key = <<"tls", "options">>  PROVE TLSOf(o, r).options = v
  <2>1. kind = "string" /\ p # "udp"
    BY <1>12 DEF RouterRead
  <2>2. TLSFields(s, o).options = v
    BY <1>1, <1>12, <2>1, TLSFieldsOf DEF Read, StringValue
  <2> QED  BY <1>2, <1>10, <2>1, <2>2, TLSFieldsOf DEF Protocols
<1>13. ASSUME t.key = <<"tls", "domains">>  PROVE TLSOf(o, r).domains[1].main = v
  <2>1. kind = "csv" /\ p # "udp"
    BY <1>13 DEF RouterRead
  <2>2. TLSDomains(set, o, <<"tls">>) = <<>>
    BY <1>13 DEF IsVoid
  <2>3. t.key \notin {DomainKey("main"), DomainKey("sans")}
    BY <1>13 DEF DomainKey
  <2>4. TLSDomains(s, o, <<"tls">>) = <<>>
    BY <2>2, <2>3, SameDomains
  <2>5. RouterTLSDomains(s, o) = [i \in DOMAIN v |-> [main |-> <<v[i]>>, sans |-> Unset]]
    BY <1>1, <1>13, <2>1, <2>4 DEF RouterTLSDomains, ListValue, Read
  <2>6. PICK e : v = <<e>>
    BY DEF IsValue
  <2>7. RouterTLSDomains(s, o)[1].main = v /\ 1 \in DOMAIN RouterTLSDomains(s, o)
    BY <2>5, <2>6
  <2>8. RouterTLSDomains(s, o) # Unset
    BY <2>7 DEF Unset
  <2> QED  BY <1>10, <2>1, <2>7, <2>8, TLSFieldsOf DEF Protocols
<1>14. ASSUME t.key = <<"tls", "passthrough">>  PROVE r.tls[1].passthrough = v
  <2>1. kind = "bool" /\ p = "tcp"
    BY <1>14 DEF RouterRead
  <2>2. BoolValue(s, o, <<"tls", "passthrough">>) = v
    BY <1>1, <1>14, <2>1 DEF Read, BoolValue
  <2>3. TCPRouterTLS(s, o) = <<[fields |-> TLSFields(s, o), passthrough |-> v]>>
    BY <1>2, <2>2 DEF TCPRouterTLS
  <2>4. r.tls = TCPRouterTLS(s, o)
    BY <1>1, <2>1, RouterFields DEF r
  <2> QED  BY <2>3, <2>4
<1> QED  BY <1>4, <1>5, <1>6, <1>7, <1>8, <1>9, <1>11, <1>12, <1>13, <1>14 DEF RouterSays, r

LEMMA RouterTells ==
  ASSUME NEW t, t.entry = NoEntry, NEW o, o = ObjectOf(t), Counts(t),
         t.protocol \in Protocols,
         NEW kind, RouterRead(t.protocol, t.key, kind), t.key # <<"tls">>,
         NEW x, NEW v, IsValue(v), Told(x, t, kind, v),
         NEW y, NEW w, IsValue(w), Told(y, t, kind, w), v # w
  PROVE  Router(x, o, Unset) # Router(y, o, Unset)
<1> DEFINE q == Router(x, o, Unset)
           r == Router(y, o, Unset)
<1> SUFFICES ASSUME q = r  PROVE FALSE
  OBVIOUS
<1>1. PICK a : a.target = t /\ ~IsVoid(a)
  BY DEF Counts
<1>2. RouterSays(t, o, q, v) /\ RouterSays(t, o, r, w)
  BY <1>1, RouterReadsValue
<1>3. t.key \in {<<"service">>, <<"entrypoints">>, <<"entrypoint">>, <<"rule">>, <<"middlewares">>,
                 <<"priority">>, <<"tls", "certresolver">>, <<"tls", "options">>,
                 <<"tls", "domains">>, <<"tls", "passthrough">>}
  BY DEF RouterRead
<1> HIDE DEF q, r
<1> QED  BY <1>2, <1>3 DEF RouterSays

\* The label tls turns TLS on and nothing else does.
LEMMA TLSTells ==
  ASSUME NEW t, t.entry = NoEntry, NEW o, o = ObjectOf(t), Counts(t),
         t.protocol \in Protocols, RouterRead(t.protocol, t.key, "bool"), t.key = <<"tls">>,
         NEW x, NEW v, IsValue(v), Told(x, t, "bool", v),
         NEW y, NEW w, Told(y, t, "none", w)
  PROVE  Router(x, o, Unset) # Router(y, o, Unset)
<1>1. t.protocol \in {"http", "tcp"} /\ o.protocol = t.protocol
  BY ReadOfKey DEF RouterRead, Protocols
<1>2. BoolValue(x, o, <<"tls">>) # Unset
  BY ReadOfKey, ValueIsSet DEF BoolValue
<1>3. Router(x, o, Unset).tls # <<>>
  BY <1>1, <1>2, TLSOfRouter
<1>4. BoolValue(y, o, <<"tls">>) = Unset
  BY DEF Told, BoolValue
<1>5. \A key, k : key # <<"tls">> => ValueAt(y, o, key, NoEntry, k) = ValueAt(set, o, key, NoEntry, k)
  BY ReadOfKey
<1>6. ~AnySet(TLSFields(set, o)) /\ BoolValue(set, o, <<"tls", "passthrough">>) = Unset
  BY DEF Counts, IsVoid
<1>7. TLSDomains(y, o, <<"tls">>) = TLSDomains(set, o, <<"tls">>)
  <2>1. t.key \notin {DomainKey("main"), DomainKey("sans")}
    BY DEF DomainKey
  <2> QED  BY <2>1, SameDomains
<1>8. /\ <<"tls", "certresolver">> # <<"tls">> /\ <<"tls", "options">> # <<"tls">>
      /\ <<"tls", "domains">> # <<"tls">> /\ <<"tls", "passthrough">> # <<"tls">>
  OBVIOUS
<1>9. TLSFields(y, o) = TLSFields(set, o) /\ BoolValue(y, o, <<"tls", "passthrough">>) = Unset
  BY <1>5, <1>6, <1>7, <1>8 DEF TLSFields, RouterTLSDomains, StringValue, ListValue, BoolValue
<1>10. RouterTLS(y, o) = <<>> /\ TCPRouterTLS(y, o) = <<>>
  BY <1>4, <1>6, <1>9 DEF RouterTLS, TCPRouterTLS
<1>11. Router(y, o, Unset).tls = <<>>
  <2>1. o.protocol \in Protocols
    BY <1>1
  <2> QED  BY <1>1, <1>10, <2>1, RouterFields
<1> QED  BY <1>3, <1>11

-----------------------------------------------------------------------------
(* The label of a domain of a router                                       *)

DomainsOf(o) == Entries(set, o, DomainKey("main")) \cup Entries(set, o, DomainKey("sans"))

LEMMA EntryOfLabel ==
  ASSUME TypesOK, ParseOK, ReadOK, OrderOK, Done, NEW o, NEW key, NEW e \in Entries(set, o, key)
  PROVE  \E j \in DOMAIN assignments : LET b == assignments[j].target IN
           /\ IsTarget(b) /\ ObjectOf(b) = o /\ b.key = key /\ b.entry = e /\ e # NoEntry
<1>1. PICK p \in DOMAIN set.values : ObjectOf(p) = o /\ p.key = key /\ p.entry # NoEntry /\ e = p.entry
  BY DEF Entries
<1>2. IsList(assignments) /\ InOrder(set, assignments, Len(assignments))
  BY DEF ParseOK, ParsedSoFar, Done, OrderOK
<1>3. PICK j \in 1 .. Len(assignments) : p \in Places(assignments[j].target)
  BY <1>2 DEF InOrder
<1>4. j \in DOMAIN assignments /\ assignments[j] \in Range(assignments)
  BY <1>2 DEF IsList, Range
<1> DEFINE b == assignments[j].target
<1>5. IsTarget(b)
  BY <1>4, AcceptedIsRead
<1>6. p = b
  <2>1. At(b, b.key, NoEntry).entry = NoEntry
    BY DEF At
  <2> QED  BY <1>1, <1>3, <1>5, <2>1, PlacesOfTarget
<1> QED  BY <1>1, <1>4, <1>5, <1>6

LEMMA FewDomains ==
  ASSUME TypesOK, ParseOK, ReadOK, OrderOK, Done, NEW o
  PROVE  IsFiniteSet(DomainsOf(o))
<1> DEFINE n == Len(assignments)
           f == [j \in 1 .. n |-> assignments[j].target.entry]
           T == {f[j] : j \in 1 .. n}
<1>1. n \in Nat /\ DOMAIN assignments = 1 .. n
  BY DEF ParseOK, ParsedSoFar, Done, IsList
<1>2. f \in Surjection(1 .. n, T)
  BY DEF Surjection
<1>3. IsFiniteSet(1 .. n)
  BY <1>1, FS_Interval
<1>4. IsFiniteSet(T)
  <2> HIDE DEF f, T
  <2> QED  BY <1>2, <1>3, FS_Surjection
<1>5. DomainsOf(o) \in SUBSET T
  <2> SUFFICES ASSUME NEW key, NEW e \in Entries(set, o, key)  PROVE e \in T
    BY DEF DomainsOf
  <2>1. PICK j \in DOMAIN assignments : assignments[j].target.entry = e
    BY EntryOfLabel
  <2> QED  BY <1>1, <2>1
<1> HIDE DEF T
<1> QED  BY <1>4, <1>5, FS_Subset

LEMMA NumbersOfDomains ==
  ASSUME TypesOK, ParseOK, ReadOK, OrderOK, Done, NEW o,
         o.protocol \in Protocols, o.collection = "routers"
  PROVE  /\ \A d \in DomainsOf(o) : d[2] \in Nat
         /\ \A d, e \in DomainsOf(o) : d[2] = e[2] => d = e
<1>1. ASSUME NEW d \in DomainsOf(o)
      PROVE  d = <<"domains[", d[2], "]">> /\ d[2] \in Nat
  <2>1. PICK key \in {DomainKey("main"), DomainKey("sans")} : d \in Entries(set, o, key)
    BY DEF DomainsOf
  <2>2. PICK j \in DOMAIN assignments : LET b == assignments[j].target IN
          /\ IsTarget(b) /\ ObjectOf(b) = o /\ b.key = key /\ b.entry = d /\ d # NoEntry
    BY <2>1, EntryOfLabel
  <2> DEFINE b == assignments[j].target
  <2>3. assignments[j] \in Range(assignments)
    BY DEF Range
  <2>4. b.protocol = o.protocol /\ b.collection = "routers"
    <3>1. ObjectOf(b).protocol = b.protocol /\ ObjectOf(b).collection = b.collection
      BY DEF ObjectOf, Object
    <3> QED  BY <2>2, <3>1
  <2>5. ~IsRoot(b)
    <3>1. "" \notin Protocols
      BY DEF Protocols
    <3> QED  BY <2>4, <3>1 DEF IsRoot
  <2>6. IsReadAt(b, assignments[j].kind)
    BY <2>3, <2>5, AcceptedIsRead
  <2>7. EntryRead(b, assignments[j].kind)
    BY <2>2, <2>6 DEF IsReadAt
  <2>8. IsDomainIndex(b.entry)
    BY <2>4, <2>7 DEF EntryRead
  <2> QED  BY <2>2, <2>3, <2>8, AcceptedIsRead
<1> QED  BY <1>1

LEMMA DomainReadsValue ==
  ASSUME TypesOK, ParseOK, ReadOK, OrderOK, Done,
         NEW t \in DOMAIN set.values, IsTarget(t), t.protocol \in Protocols, t.entry # NoEntry,
         NEW kind, EntryRead(t, kind), t.collection = "routers", NEW o, o = ObjectOf(t)
  PROVE  \E n \in Nat \ {0} : \A s, v : Told(s, t, kind, v) =>
           LET domain == TLSOf(o, Router(s, o, Unset)).domains[n] IN
           v = IF t.key = DomainKey("main") THEN domain.main ELSE domain.sans
<1> DEFINE main == DomainKey("main")
           sans == DomainKey("sans")
           D == DomainsOf(o)
<1>0. o.protocol = t.protocol /\ o.collection = "routers"
  BY DEF ObjectOf, Object
<1>1. /\ t.protocol # "udp"
      /\ \/ t.key = main /\ kind = "string"
         \/ t.key = sans /\ kind = "csv"
  BY DEF EntryRead
<1>2. t.entry \in D
  <2>1. t.entry \in Entries(set, o, t.key)
    BY DEF Entries
  <2> QED  BY <1>1, <2>1 DEF DomainsOf
<1>3. PICK n \in 1 .. Cardinality(D) : NthDomain(D, n) = t.entry
  <2>1. /\ \A d \in D : d[2] \in Nat
        /\ \A d, e \in D : d[2] = e[2] => d = e
    BY <1>0, NumbersOfDomains
  <2>2. IsFiniteSet(D)
    BY FewDomains
  <2> HIDE DEF D
  <2> QED  BY <1>2, <2>1, <2>2, DomainsInTurn
<1>4. n \in Nat \ {0} /\ Cardinality(D) \in Nat
  <2>1. Cardinality(D) \in Nat
    BY FewDomains, FS_CardinalityType
  <2> HIDE DEF D
  <2> QED  BY <2>1
<1>5. ASSUME NEW s, NEW v, Told(s, t, kind, v)
      PROVE  LET domain == TLSOf(o, Router(s, o, Unset)).domains[n] IN
             v = IF t.key = main THEN domain.main ELSE domain.sans
  <2>1. Entries(s, o, main) \cup Entries(s, o, sans) = D
    BY <1>5 DEF Told, DomainsOf
  <2>2. <<"tls">> \o <<"domains", "main">> = main /\ <<"tls">> \o <<"domains", "sans">> = sans
    BY OneAndTwo DEF DomainKey
  <2> DEFINE listed(d) == [main |-> ValueAt(s, o, main, d, "string"),
                           sans |-> ValueAt(s, o, sans, d, "csv")]
             domains == TLSDomains(s, o, <<"tls">>)
  <2> HIDE DEF main, sans, D
  <2>3. domains = [m \in 1 .. Cardinality(D) |-> listed(NthDomain(D, m))]
    BY <2>1, <2>2 DEF TLSDomains
  <2>4. n \in DOMAIN domains /\ domains[n] = listed(t.entry)
    <3> HIDE DEF listed, domains
    <3> QED  BY <1>3, <2>3
  <2>5. ValueAt(s, o, t.key, t.entry, kind) = v
    BY <1>5 DEF Told
  <2>6. main # sans
    <3>1. main[3] = "main" /\ sans[3] = "sans"
      BY DEF main, sans, DomainKey
    <3> QED  BY <3>1
  <2>7. v = IF t.key = main THEN domains[n].main ELSE domains[n].sans
    BY <1>1, <2>4, <2>5, <2>6
  <2>8. domains # <<>> /\ domains # Unset
    BY <2>4 DEF Unset
  <2> HIDE DEF domains
  <2>9. RouterTLSDomains(s, o) = domains
    BY <2>8 DEF RouterTLSDomains, domains
  <2>10. TLSOf(o, Router(s, o, Unset)) = TLSFields(s, o) /\ TLSFields(s, o).domains = domains
    BY <1>0, <1>1, <2>8, <2>9, TLSFieldsOf, TLSOfRouter DEF Protocols
  <2> QED  BY <2>7, <2>10
<1> QED  BY <1>4, <1>5

LEMMA DomainTells ==
  ASSUME TypesOK, ParseOK, ReadOK, OrderOK, Done,
         NEW t \in DOMAIN set.values, IsTarget(t), t.protocol \in Protocols, t.entry # NoEntry,
         NEW kind, EntryRead(t, kind), t.collection = "routers", NEW o, o = ObjectOf(t),
         NEW x, NEW v, Told(x, t, kind, v), NEW y, NEW w, Told(y, t, kind, w), v # w
  PROVE  Router(x, o, Unset) # Router(y, o, Unset)
<1>1. PICK n \in Nat \ {0} : \A s, u : Told(s, t, kind, u) =>
        LET domain == TLSOf(o, Router(s, o, Unset)).domains[n] IN
        u = IF t.key = DomainKey("main") THEN domain.main ELSE domain.sans
  BY DomainReadsValue
<1> QED  BY <1>1

-----------------------------------------------------------------------------
(* What the label of a transport changes                                   *)

LEMMA FieldReadsValue ==
  ASSUME NEW t, t.entry = NoEntry, NEW o, o = ObjectOf(t), NEW kind,
         NEW s, NEW v, IsValue(v), Told(s, t, kind, v)
  PROVE  /\ v # Unset
         /\ \A prefix, kinds, f : f \in DOMAIN kinds /\ kind = kinds[f] /\ t.key = Append(prefix, f) =>
              Fields(s, o, prefix, kinds)[f] = v
<1>1. ValueAt(s, o, t.key, NoEntry, kind) = v
  BY ReadOfKey
<1>2. v # Unset /\ \A d : Or(v, d) = v
  BY ValueIsSet
<1>3. ASSUME NEW prefix, NEW kinds, NEW f \in DOMAIN kinds, kind = kinds[f], t.key = Append(prefix, f)
      PROVE  Fields(s, o, prefix, kinds)[f] = v
  <2>1. ValueAt(s, o, Append(prefix, f), NoEntry, kinds[f]) = v
    BY <1>1, <1>3
  <2> QED  BY <1>2, <2>1 DEF Fields
<1> QED  BY <1>2, <1>3

LEMMA TransportReadsValue ==
  ASSUME NEW t, t.entry = NoEntry, NEW o, o = ObjectOf(t),
         NEW kind, TransportRead(t.key, kind),
         NEW s, NEW v, IsValue(v), Told(s, t, kind, v)
  PROVE  /\ \A f \in DOMAIN TransportKinds : t.key = <<f>> /\ kind = TransportKinds[f] =>
              ServersTransport(s, o).fields[f] = v
         /\ \A f \in DOMAIN TimeoutKinds : t.key = <<"forwardingtimeouts", f>> /\ kind = TimeoutKinds[f] =>
              ServersTransport(s, o).forwardingTimeouts[1][f] = v
<1> DEFINE timeouts == Fields(s, o, <<"forwardingtimeouts">>, TimeoutKinds)
           r == ServersTransport(s, o)
<1>1. /\ r.fields = Fields(s, o, <<>>, TransportKinds)
      /\ AnySet(timeouts) => r.forwardingTimeouts = <<timeouts>>
  BY DEF ServersTransport
<1>2. /\ v # Unset
      /\ \A prefix, kinds, f : f \in DOMAIN kinds /\ kind = kinds[f] /\ t.key = Append(prefix, f) =>
           Fields(s, o, prefix, kinds)[f] = v
  BY FieldReadsValue
<1>3. ASSUME NEW f \in DOMAIN TransportKinds, t.key = <<f>>, kind = TransportKinds[f]
      PROVE  r.fields[f] = v
  <2>1. t.key = Append(<<>>, f)
    BY <1>3, AppendedWord
  <2>2. kind = TransportKinds[f]
    BY <1>3
  <2>3. Fields(s, o, <<>>, TransportKinds)[f] = v
    BY <1>2, <2>1, <2>2
  <2> QED  BY <1>1, <2>3
<1>4. ASSUME NEW f \in DOMAIN TimeoutKinds, t.key = <<"forwardingtimeouts", f>>, kind = TimeoutKinds[f]
      PROVE  r.forwardingTimeouts[1][f] = v
  <2>1. t.key = Append(<<"forwardingtimeouts">>, f)
    BY <1>4, AppendedWord
  <2>2. kind = TimeoutKinds[f]
    BY <1>4
  <2>3. timeouts[f] = v /\ v # Unset
    BY <1>2, <2>1, <2>2
  <2>4. f \in DOMAIN timeouts
    BY DEF Fields
  <2> HIDE DEF timeouts, r
  <2>5. AnySet(timeouts)
    BY <2>3, <2>4 DEF AnySet
  <2> QED  BY <1>1, <2>3, <2>5
<1> HIDE DEF r
<1>5. /\ \A f \in DOMAIN TransportKinds : t.key = <<f>> /\ kind = TransportKinds[f] => r.fields[f] = v
      /\ \A f \in DOMAIN TimeoutKinds : t.key = <<"forwardingtimeouts", f>> /\ kind = TimeoutKinds[f] =>
           r.forwardingTimeouts[1][f] = v
  BY <1>3, <1>4
<1> QED  BY <1>5 DEF r

LEMMA TransportTells ==
  ASSUME NEW t, t.entry = NoEntry, NEW o, o = ObjectOf(t),
         NEW kind, TransportRead(t.key, kind),
         NEW x, NEW v, IsValue(v), Told(x, t, kind, v),
         NEW y, NEW w, IsValue(w), Told(y, t, kind, w), v # w
  PROVE  ServersTransport(x, o) # ServersTransport(y, o)
<1> DEFINE q == ServersTransport(x, o)
           r == ServersTransport(y, o)
<1>1. CASE \E f \in DOMAIN TransportKinds : t.key = <<f>> /\ kind = TransportKinds[f]
  <2>1. PICK f \in DOMAIN TransportKinds : t.key = <<f>> /\ kind = TransportKinds[f]
    BY <1>1
  <2>2. q.fields[f] = v
    BY <2>1, TransportReadsValue
  <2>3. r.fields[f] = w
    BY <2>1, TransportReadsValue
  <2> HIDE DEF q, r
  <2>4. q # r
    BY <2>2, <2>3
  <2> QED  BY <2>4 DEF q, r
<1>2. CASE \E f \in DOMAIN TimeoutKinds : t.key = <<"forwardingtimeouts", f>> /\ kind = TimeoutKinds[f]
  <2>1. PICK f \in DOMAIN TimeoutKinds : t.key = <<"forwardingtimeouts", f>> /\ kind = TimeoutKinds[f]
    BY <1>2
  <2>2. q.forwardingTimeouts[1][f] = v
    BY <2>1, TransportReadsValue
  <2>3. r.forwardingTimeouts[1][f] = w
    BY <2>1, TransportReadsValue
  <2> HIDE DEF q, r
  <2>4. q # r
    BY <2>2, <2>3
  <2> QED  BY <2>4 DEF q, r
<1> QED  BY <1>1, <1>2 DEF TransportRead

-----------------------------------------------------------------------------
(* What the label of a service changes                                     *)

ServersSay(t, servers, v) ==
  /\ servers # {}
  /\ \A m \in servers :
       /\ t.key \in {LBServer("url"), LBServer("ip"), LBServer("address")} => m.host = v
       /\ t.key = LBServer("port") => m.port = v
       /\ t.key = LBServer("scheme") => m.scheme = v

LEMMA ServerKeys ==
  /\ LBServer("url") # LBServer("ip") /\ LBServer("url") # LBServer("port")
  /\ LBServer("url") # LBServer("scheme") /\ LBServer("ip") # LBServer("port")
  /\ LBServer("ip") # LBServer("scheme") /\ LBServer("port") # LBServer("scheme")
  /\ LBServer("address") # LBServer("ip") /\ LBServer("address") # LBServer("port")
  /\ LBServer("address") # LBServer("url") /\ LBServer("address") # LBServer("scheme")
<1>1. \A f : LBServer(f)[3] = f
  BY DEF LBServer
<1>2. \A f, g : f # g => LBServer(f) # LBServer(g)
  BY <1>1
<1> QED  BY <1>2

LEMMA HTTPServersReadValue ==
  ASSUME NEW a, NEW t, t = a.target, t.entry = NoEntry, NEW o, o = ObjectOf(t), ~IsVoid(a),
         NEW kind, ServerRead("http", t.key, kind), t.protocol = "http",
         NEW s, NEW v, IsValue(v), Told(s, t, kind, v)
  PROVE  ServersSay(t, HTTPServers(s, o, {base}), v)
<1> DEFINE Read(key, k) == ValueAt(s, o, key, NoEntry, k)
           url == StringValue(s, o, LBServer("url"))
           scheme == Or(StringValue(s, o, LBServer("scheme")), <<"http">>)
           port == Or(IntValue(s, o, LBServer("port")),
                      IF scheme = <<"https">> THEN <<"443">> ELSE <<"80">>)
           ip == StringValue(s, o, LBServer("ip"))
           servers == HTTPServers(s, o, {base})
<1>1. /\ Read(t.key, kind) = v
      /\ \A key, k : key # t.key => Read(key, k) = ValueAt(set, o, key, NoEntry, k)
  BY ReadOfKey
<1>2. v # Unset /\ \A d : Or(v, d) = v
  BY ValueIsSet
<1>3. servers = IF url # Unset THEN {ServerAt(Unset, url, Unset)}
                ELSE IF ip # Unset THEN {ServerAt(scheme, ip, port)}
                ELSE {ServerAt(scheme, base, port)}
  BY DEF HTTPServers
<1>4. \A c, h, p : /\ ServerAt(c, h, p).scheme = c /\ ServerAt(c, h, p).host = h
                   /\ ServerAt(c, h, p).port = p
  BY DEF ServerAt
<1>5. CASE t.key = LBServer("url")
  <2>1. kind = "string"
    BY <1>5, ServerKeys DEF ServerRead
  <2>2. url = v
    BY <1>1, <1>5, <2>1 DEF StringValue
  <2> HIDE DEF url, ip, port, scheme, servers
  <2>3. servers # {} /\ \A m \in servers : m.host = v
    BY <1>2, <1>3, <1>4, <2>2
  <2> QED  BY <1>5, <2>3, ServerKeys DEF ServersSay, servers
<1>6. ASSUME t.key \in {LBServer("ip"), LBServer("port"), LBServer("scheme")}
      PROVE  url = Unset
  <2>1. StringValue(set, o, LBServer("url")) = Unset
    BY <1>6 DEF IsVoid
  <2> QED  BY <1>1, <1>6, <2>1, ServerKeys DEF StringValue
<1>7. CASE t.key = LBServer("ip")
  <2>1. kind = "string"
    BY <1>7, ServerKeys DEF ServerRead
  <2>2. ip = v
    BY <1>1, <1>7, <2>1 DEF StringValue
  <2> HIDE DEF url, ip, port, scheme, servers
  <2>3. servers # {} /\ \A m \in servers : m.host = v
    BY <1>2, <1>3, <1>4, <1>6, <1>7, <2>2
  <2> QED  BY <1>7, <2>3, ServerKeys DEF ServersSay, servers
<1>8. CASE t.key = LBServer("port")
  <2>1. kind = "int"
    BY <1>8, ServerKeys DEF ServerRead
  <2>2. port = v
    BY <1>1, <1>2, <1>8, <2>1 DEF IntValue
  <2> HIDE DEF url, ip, port, scheme, servers
  <2>3. servers # {} /\ \A m \in servers : m.port = v
    BY <1>3, <1>4, <1>6, <1>8, <2>2
  <2> QED  BY <1>8, <2>3, ServerKeys DEF ServersSay, servers
<1>9. CASE t.key = LBServer("scheme")
  <2>1. kind = "string"
    BY <1>9, ServerKeys DEF ServerRead
  <2>2. scheme = v
    BY <1>1, <1>2, <1>9, <2>1 DEF StringValue
  <2> HIDE DEF url, ip, port, scheme, servers
  <2>3. servers # {} /\ \A m \in servers : m.scheme = v
    BY <1>3, <1>4, <1>6, <1>9, <2>2
  <2> QED  BY <1>9, <2>3, ServerKeys DEF ServersSay, servers
<1> QED  BY <1>5, <1>7, <1>8, <1>9 DEF ServerRead

LEMMA StreamServersReadValue ==
  ASSUME NEW a, NEW t, t = a.target, t.entry = NoEntry, NEW o, o = ObjectOf(t), ~IsVoid(a),
         NEW kind, ServerRead(t.protocol, t.key, kind), t.protocol # "http",
         NEW s, NEW v, IsValue(v), Told(s, t, kind, v)
  PROVE  ServersSay(t, StreamServers(s, o, {base}), v)
<1> DEFINE Read(key, k) == ValueAt(s, o, key, NoEntry, k)
           address == StringValue(s, o, LBServer("address"))
           port == Or(IntValue(s, o, LBServer("port")), <<"80">>)
           ip == StringValue(s, o, LBServer("ip"))
           servers == StreamServers(s, o, {base})
<1>1. /\ Read(t.key, kind) = v
      /\ \A key, k : key # t.key => Read(key, k) = ValueAt(set, o, key, NoEntry, k)
  BY ReadOfKey
<1>2. v # Unset /\ \A d : Or(v, d) = v
  BY ValueIsSet
<1>3. servers = IF address # Unset THEN {ServerAt(Unset, address, Unset)}
                ELSE IF ip # Unset THEN {ServerAt(Unset, ip, port)}
                ELSE {ServerAt(Unset, base, port)}
  BY DEF StreamServers
<1>4. \A c, h, p : /\ ServerAt(c, h, p).scheme = c /\ ServerAt(c, h, p).host = h
                   /\ ServerAt(c, h, p).port = p
  BY DEF ServerAt
<1>5. CASE t.key = LBServer("address")
  <2>1. kind = "string"
    BY <1>5, ServerKeys DEF ServerRead
  <2>2. address = v
    BY <1>1, <1>5, <2>1 DEF StringValue
  <2> HIDE DEF address, ip, port, servers
  <2>3. servers # {} /\ \A m \in servers : m.host = v
    BY <1>2, <1>3, <1>4, <2>2
  <2> QED  BY <1>5, <2>3, ServerKeys DEF ServersSay, servers
<1>6. ASSUME t.key \in {LBServer("ip"), LBServer("port")}
      PROVE  address = Unset
  <2>1. StringValue(set, o, LBServer("address")) = Unset
    BY <1>6 DEF IsVoid
  <2> QED  BY <1>1, <1>6, <2>1, ServerKeys DEF StringValue
<1>7. CASE t.key = LBServer("ip")
  <2>1. kind = "string"
    BY <1>7, ServerKeys DEF ServerRead
  <2>2. ip = v
    BY <1>1, <1>7, <2>1 DEF StringValue
  <2> HIDE DEF address, ip, port, servers
  <2>3. servers # {} /\ \A m \in servers : m.host = v
    BY <1>2, <1>3, <1>4, <1>6, <1>7, <2>2
  <2> QED  BY <1>7, <2>3, ServerKeys DEF ServersSay, servers
<1>8. CASE t.key = LBServer("port")
  <2>1. kind = "int"
    BY <1>8, ServerKeys DEF ServerRead
  <2>2. port = v
    BY <1>1, <1>2, <1>8, <2>1 DEF IntValue
  <2> HIDE DEF address, ip, port, servers
  <2>3. servers # {} /\ \A m \in servers : m.port = v
    BY <1>3, <1>4, <1>6, <1>8, <2>2
  <2> QED  BY <1>8, <2>3, ServerKeys DEF ServersSay, servers
<1> QED  BY <1>5, <1>7, <1>8 DEF ServerRead

LEMMA ServersTell ==
  ASSUME NEW t, t.entry = NoEntry, NEW o, o = ObjectOf(t), Counts(t),
         t.protocol \in Protocols, NEW kind, ServerRead(t.protocol, t.key, kind),
         NEW x, NEW v, IsValue(v), Told(x, t, kind, v),
         NEW y, NEW w, IsValue(w), Told(y, t, kind, w), v # w
  PROVE  Service(x, o, {base}) # Service(y, o, {base})
<1>1. o.protocol = t.protocol
  BY DEF ObjectOf, Object
<1>2. \A s : Service(s, o, {base}).servers =
               IF t.protocol = "http" THEN HTTPServers(s, o, {base}) ELSE StreamServers(s, o, {base})
  BY <1>1 DEF Service, HTTPService, TCPService, UDPService, Protocols
<1>3. PICK a : a.target = t /\ ~IsVoid(a)
  BY DEF Counts
<1>4. ServersSay(t, Service(x, o, {base}).servers, v)
  BY <1>2, <1>3, HTTPServersReadValue, StreamServersReadValue
<1>5. ServersSay(t, Service(y, o, {base}).servers, w)
  BY <1>2, <1>3, HTTPServersReadValue, StreamServersReadValue
<1>6. t.key \in {LBServer("url"), LBServer("ip"), LBServer("address"), LBServer("port"), LBServer("scheme")}
  BY DEF ServerRead
<1> QED  BY <1>4, <1>5, <1>6 DEF ServersSay

HealthPrefix == <<"loadbalancer", "healthcheck">>
CookiePrefix == <<"loadbalancer", "sticky", "cookie">>
HealthKey(f) == Append(HealthPrefix, f)
CookieKey(f) == Append(CookiePrefix, f)
HealthPath == <<"loadbalancer", "healthcheck", "path">>
CookieName == <<"loadbalancer", "sticky", "cookie", "name">>

LEMMA KeysOfParts ==
  ASSUME NEW f
  PROVE  /\ HealthKey(f) = <<"loadbalancer", "healthcheck", f>>
         /\ CookieKey(f) = <<"loadbalancer", "sticky", "cookie", f>>
<1>1. ASSUME NEW a, NEW b, NEW c
      PROVE  Append(<<a, b, c>>, f) = <<a, b, c, f>>
  <2> DEFINE S == {a, b, c, f}
  <2>1. a \in S /\ b \in S /\ c \in S /\ f \in S
    OBVIOUS
  <2> HIDE DEF S
  <2>2. Append(<<a, b, c>>, f) = <<a, b, c>> \o <<f>>
    BY <2>1
  <2> QED  BY <2>2, ThreeAndOne
<1>2. CookieKey(f) = <<"loadbalancer", "sticky", "cookie", f>>
  BY <1>1, Zenon DEF CookieKey, CookiePrefix
<1>3. HealthKey(f) = <<"loadbalancer", "healthcheck", f>>
  BY AppendedWord DEF HealthKey, HealthPrefix
<1> QED  BY <1>2, <1>3

\* A label of a health check or a cookie that is not void comes with the one
\* that they cannot do without.
LEMMA PartsAreNamed ==
  ASSUME NEW t, Counts(t), NEW o, o = ObjectOf(t)
  PROVE  /\ Len(t.key) > 2 /\ t.key[2] = "healthcheck" => StringValue(set, o, HealthPath) # Unset
         /\ Len(t.key) > 2 /\ t.key[2] = "sticky" => StringValue(set, o, CookieName) # Unset
         /\ t.key = <<"loadbalancer", "insecureskipverify">> =>
              StringValue(set, o, <<"loadbalancer", "serverstransport">>) = Unset
BY DEF Counts, IsVoid, HealthPath, CookieName

LEMMA HTTPServiceFields ==
  ASSUME NEW s, NEW o, o.protocol = "http"
  PROVE  LET r == Service(s, o, {base}) IN
         /\ r.passHostHeader = Or(BoolValue(s, o, <<"loadbalancer", "passhostheader">>), <<"true">>)
         /\ r.healthCheck = HealthCheck(s, o) /\ r.sticky = Sticky(s, o)
         /\ r.flushInterval = StringValue(s, o, <<"loadbalancer", "responseforwarding", "flushinterval">>)
         /\ r.serversTransport = StringValue(s, o, <<"loadbalancer", "serverstransport">>)
<1>1. Service(s, o, {base}) = HTTPService(s, o, {base})
  BY DEF Service
<1> QED  BY <1>1 DEF HTTPService

LEMMA HealthCheckOf ==
  ASSUME NEW s, NEW o, StringValue(s, o, HealthPath) # Unset
  PROVE  LET fields == Fields(s, o, HealthPrefix, HealthCheckKinds) IN
         HealthCheck(s, o) =
           <<[fields |-> fields,
              followRedirects |-> BoolValue(s, o, <<"loadbalancer", "healthcheck", "followredirects">>),
              headers |-> Headers(s, o, HeadersKey)]>>
<1> DEFINE fields == Fields(s, o, HealthPrefix, HealthCheckKinds)
<1>1. /\ Append(HealthPrefix, "path") = HealthPath
      /\ Append(HealthPrefix, "followredirects") = <<"loadbalancer", "healthcheck", "followredirects">>
      /\ Append(HealthPrefix, "headers") = HeadersKey
  BY AppendedWord DEF HealthPrefix, HealthPath, HeadersKey
<1>2. "path" \in DOMAIN HealthCheckKinds /\ HealthCheckKinds["path"] = "string"
  BY DEF HealthCheckKinds
<1>3. fields["path"] = Or(ValueAt(s, o, Append(HealthPrefix, "path"), NoEntry, "string"), Zero("string"))
  BY <1>2 DEF Fields
<1>4. fields.path # Unset
  BY <1>1, <1>3 DEF StringValue, Or
<1> HIDE DEF fields
<1>5. HealthCheck(s, o) =
        IF fields.path = Unset THEN <<>>
        ELSE <<[fields |-> fields,
                followRedirects |-> BoolValue(s, o, Append(HealthPrefix, "followredirects")),
                headers |-> Headers(s, o, Append(HealthPrefix, "headers"))]>>
  BY DEF HealthCheck, fields, HealthPrefix
<1> QED  BY <1>1, <1>4, <1>5 DEF fields

LEMMA StickyOf ==
  ASSUME NEW s, NEW o, StringValue(s, o, CookieName) # Unset
  PROVE  Sticky(s, o) = <<Fields(s, o, CookiePrefix, CookieKinds)>>
<1> DEFINE fields == Fields(s, o, CookiePrefix, CookieKinds)
<1>1. Append(CookiePrefix, "name") = CookieName
  BY KeysOfParts DEF CookieName, CookieKey
<1>2. "name" \in DOMAIN CookieKinds /\ CookieKinds["name"] = "string"
  BY DEF CookieKinds
<1>3. fields["name"] = Or(ValueAt(s, o, Append(CookiePrefix, "name"), NoEntry, "string"), Zero("string"))
  BY <1>2 DEF Fields
<1>4. fields.name # Unset
  BY <1>1, <1>3 DEF StringValue, Or
<1> HIDE DEF fields
<1>5. Sticky(s, o) = IF fields.name = Unset THEN <<>> ELSE <<fields>>
  BY DEF Sticky, fields, CookiePrefix
<1> QED  BY <1>4, <1>5 DEF fields

\* A part of an object is there when the label is the one it takes, or when
\* that label is there.
LEMMA PartIsThere ==
  ASSUME NEW t, t.entry = NoEntry, NEW o, o = ObjectOf(t),
         NEW kind, NEW s, NEW v, IsValue(v), Told(s, t, kind, v),
         NEW key,
         IF t.key = key THEN kind = "string" ELSE StringValue(set, o, key) # Unset
  PROVE  StringValue(s, o, key) # Unset
<1>1. /\ ValueAt(s, o, t.key, NoEntry, kind) = v
      /\ \A k, l : k # t.key => ValueAt(s, o, k, NoEntry, l) = ValueAt(set, o, k, NoEntry, l)
  BY ReadOfKey
<1>2. v # Unset
  BY ValueIsSet
<1> QED  BY <1>1, <1>2 DEF StringValue

LEMMA HealthCheckIsThere ==
  ASSUME NEW t, t.entry = NoEntry, NEW o, o = ObjectOf(t), StringValue(set, o, HealthPath) # Unset,
         NEW kind, NEW s, NEW v, IsValue(v), Told(s, t, kind, v),
         NEW f, t.key = HealthKey(f), f = "path" => kind = "string"
  PROVE  StringValue(s, o, HealthPath) # Unset
<1>1. t.key = HealthPath => f = "path"
  <2>1. t.key[3] = f /\ HealthPath[3] = "path"
    BY KeysOfParts DEF HealthPath
  <2> QED  BY <2>1
<1> QED  BY <1>1, PartIsThere

LEMMA StickyIsThere ==
  ASSUME NEW t, t.entry = NoEntry, NEW o, o = ObjectOf(t), StringValue(set, o, CookieName) # Unset,
         NEW kind, NEW s, NEW v, IsValue(v), Told(s, t, kind, v),
         NEW f, t.key = CookieKey(f), f = "name" => kind = "string"
  PROVE  StringValue(s, o, CookieName) # Unset
<1>1. t.key = CookieName => f = "name"
  <2>1. t.key[4] = f /\ CookieName[4] = "name"
    BY KeysOfParts DEF CookieName
  <2> QED  BY <2>1
<1> QED  BY <1>1, PartIsThere

-----------------------------------------------------------------------------
(* What the label of a load balancer changes                               *)

LEMMA HealthFieldReadsValue ==
  ASSUME NEW t, t.entry = NoEntry, NEW o, o = ObjectOf(t), StringValue(set, o, HealthPath) # Unset,
         t.protocol = "http", NEW f \in DOMAIN HealthCheckKinds,
         t.key = HealthKey(f),
         NEW s, NEW v, IsValue(v), Told(s, t, HealthCheckKinds[f], v)
  PROVE  Service(s, o, {base}).healthCheck[1].fields[f] = v
<1> DEFINE kind == HealthCheckKinds[f]
<1>1. f = "path" => kind = "string"
  BY DEF HealthCheckKinds
<1>2. StringValue(s, o, HealthPath) # Unset
  BY <1>1, HealthCheckIsThere
<1>3. HealthCheck(s, o)[1].fields = Fields(s, o, HealthPrefix, HealthCheckKinds)
  BY <1>2, HealthCheckOf
<1>4. t.key = Append(HealthPrefix, f)
  BY DEF HealthKey
<1>5. \A prefix, kinds, g : g \in DOMAIN kinds /\ kind = kinds[g] /\ t.key = Append(prefix, g) =>
        Fields(s, o, prefix, kinds)[g] = v
  BY FieldReadsValue
<1>6. Fields(s, o, HealthPrefix, HealthCheckKinds)[f] = v
  BY <1>4, <1>5
<1>7. o.protocol = "http"
  BY DEF ObjectOf, Object
<1>8. Service(s, o, {base}).healthCheck = HealthCheck(s, o)
  BY <1>7, HTTPServiceFields
<1> QED  BY <1>3, <1>6, <1>8

LEMMA CookieFieldReadsValue ==
  ASSUME NEW t, t.entry = NoEntry, NEW o, o = ObjectOf(t), StringValue(set, o, CookieName) # Unset,
         t.protocol = "http", NEW f \in DOMAIN CookieKinds,
         t.key = CookieKey(f),
         NEW s, NEW v, IsValue(v), Told(s, t, CookieKinds[f], v)
  PROVE  Service(s, o, {base}).sticky[1][f] = v
<1> DEFINE kind == CookieKinds[f]
<1>1. f = "name" => kind = "string"
  BY DEF CookieKinds
<1>2. StringValue(s, o, CookieName) # Unset
  BY <1>1, StickyIsThere
<1>3. Sticky(s, o)[1] = Fields(s, o, CookiePrefix, CookieKinds)
  BY <1>2, StickyOf
<1>4. t.key = Append(CookiePrefix, f)
  BY DEF CookieKey
<1>5. \A prefix, kinds, g : g \in DOMAIN kinds /\ kind = kinds[g] /\ t.key = Append(prefix, g) =>
        Fields(s, o, prefix, kinds)[g] = v
  BY FieldReadsValue
<1>6. Fields(s, o, CookiePrefix, CookieKinds)[f] = v
  BY <1>4, <1>5
<1>7. o.protocol = "http"
  BY DEF ObjectOf, Object
<1>8. Service(s, o, {base}).sticky = Sticky(s, o)
  BY <1>7, HTTPServiceFields
<1> QED  BY <1>3, <1>6, <1>8

LEMMA RedirectsReadValue ==
  ASSUME NEW t, t.entry = NoEntry, NEW o, o = ObjectOf(t), StringValue(set, o, HealthPath) # Unset,
         t.protocol = "http", t.key = <<"loadbalancer", "healthcheck", "followredirects">>,
         NEW s, NEW v, IsValue(v), Told(s, t, "bool", v)
  PROVE  Service(s, o, {base}).healthCheck[1].followRedirects = v
<1>1. t.key = HealthKey("followredirects")
  BY KeysOfParts
<1>2. StringValue(s, o, HealthPath) # Unset
  BY <1>1, HealthCheckIsThere
<1>3. HealthCheck(s, o)[1].followRedirects = BoolValue(s, o, t.key)
  BY <1>2, HealthCheckOf
<1>4. BoolValue(s, o, t.key) = v
  BY ReadOfKey DEF BoolValue
<1>5. o.protocol = "http"
  BY DEF ObjectOf, Object
<1>6. Service(s, o, {base}).healthCheck = HealthCheck(s, o)
  BY <1>5, HTTPServiceFields
<1> QED  BY <1>3, <1>4, <1>6

LEMMA PlainFieldsReadValue ==
  ASSUME NEW t, t.entry = NoEntry, NEW o, o = ObjectOf(t), t.protocol = "http",
         NEW kind, NEW s, NEW v, IsValue(v), Told(s, t, kind, v)
  PROVE  LET r == Service(s, o, {base}) IN
         /\ t.key = <<"loadbalancer", "passhostheader">> /\ kind = "bool" => r.passHostHeader = v
         /\ t.key = <<"loadbalancer", "serverstransport">> /\ kind = "string" =>
              r.serversTransport = v
         /\ t.key = <<"loadbalancer", "responseforwarding", "flushinterval">> /\ kind = "string" =>
              r.flushInterval = v
<1>1. ValueAt(s, o, t.key, NoEntry, kind) = v /\ \A d : Or(v, d) = v
  BY ReadOfKey, ValueIsSet
<1>2. o.protocol = "http"
  BY DEF ObjectOf, Object
<1> QED  BY <1>1, <1>2, HTTPServiceFields DEF StringValue, BoolValue

LEMMA StreamFieldsReadValue ==
  ASSUME NEW t, t.entry = NoEntry, NEW o, o = ObjectOf(t), t.protocol = "tcp",
         NEW kind, NEW s, NEW v, IsValue(v), Told(s, t, kind, v)
  PROVE  LET r == Service(s, o, {base}) IN
         /\ t.key = <<"loadbalancer", "terminationdelay">> /\ kind = "int" => r.terminationDelay = v
         /\ t.key = <<"loadbalancer", "proxyprotocol", "version">> /\ kind = "int" =>
              r.proxyProtocol = v
<1>1. ValueAt(s, o, t.key, NoEntry, kind) = v
  BY ReadOfKey
<1>2. o.protocol = "tcp"
  BY DEF ObjectOf, Object
<1>3. Service(s, o, {base}) = TCPService(s, o, {base})
  BY <1>2 DEF Service
<1> QED  BY <1>1, <1>3 DEF TCPService, IntValue

\* Every label of a load balancer but insecureskipverify shows in its service.
LEMMA BalancerTells ==
  ASSUME NEW t, t.entry = NoEntry, NEW o, o = ObjectOf(t), Counts(t),
         NEW kind, BalancerRead(t.protocol, t.key, kind),
         t.key # <<"loadbalancer", "insecureskipverify">>,
         NEW x, NEW v, IsValue(v), Told(x, t, kind, v),
         NEW y, NEW w, IsValue(w), Told(y, t, kind, w), v # w
  PROVE  Service(x, o, {base}) # Service(y, o, {base})
<1> DEFINE q == Service(x, o, {base})
           r == Service(y, o, {base})
<1>1. CASE t.protocol = "http" /\ \E f \in DOMAIN HealthCheckKinds :
             t.key = <<"loadbalancer", "healthcheck", f>> /\ kind = HealthCheckKinds[f]
  <2>1. PICK f \in DOMAIN HealthCheckKinds :
          t.key = <<"loadbalancer", "healthcheck", f>> /\ kind = HealthCheckKinds[f]
    BY <1>1
  <2>2. Len(t.key) > 2 /\ t.key[2] = "healthcheck"
    BY <2>1
  <2>3. StringValue(set, o, HealthPath) # Unset
    BY <2>2, PartsAreNamed
  <2>4. Told(x, t, HealthCheckKinds[f], v) /\ Told(y, t, HealthCheckKinds[f], w)
    BY <2>1
  <2>5. t.key = HealthKey(f) /\ t.protocol = "http"
    BY <1>1, <2>1, KeysOfParts
  <2>6. q.healthCheck[1].fields[f] = v
    BY <2>3, <2>4, <2>5, HealthFieldReadsValue
  <2>7. r.healthCheck[1].fields[f] = w
    BY <2>3, <2>4, <2>5, HealthFieldReadsValue
  <2> HIDE DEF q, r
  <2>8. q # r
    BY <2>6, <2>7
  <2> QED  BY <2>8 DEF q, r
<1>2. CASE t.protocol = "http" /\ \E f \in DOMAIN CookieKinds :
             t.key = <<"loadbalancer", "sticky", "cookie", f>> /\ kind = CookieKinds[f]
  <2>1. PICK f \in DOMAIN CookieKinds :
          t.key = <<"loadbalancer", "sticky", "cookie", f>> /\ kind = CookieKinds[f]
    BY <1>2
  <2>2. Len(t.key) > 2 /\ t.key[2] = "sticky"
    BY <2>1
  <2>3. StringValue(set, o, CookieName) # Unset
    BY <2>2, PartsAreNamed
  <2>4. Told(x, t, CookieKinds[f], v) /\ Told(y, t, CookieKinds[f], w)
    BY <2>1
  <2>5. t.key = CookieKey(f) /\ t.protocol = "http"
    BY <1>2, <2>1, KeysOfParts
  <2>6. q.sticky[1][f] = v
    BY <2>3, <2>4, <2>5, CookieFieldReadsValue
  <2>7. r.sticky[1][f] = w
    BY <2>3, <2>4, <2>5, CookieFieldReadsValue
  <2> HIDE DEF q, r
  <2>8. q # r
    BY <2>6, <2>7
  <2> QED  BY <2>8 DEF q, r
<1>3. CASE /\ t.protocol = "http" /\ kind = "bool"
           /\ t.key = <<"loadbalancer", "healthcheck", "followredirects">>
  <2>1. Len(t.key) > 2 /\ t.key[2] = "healthcheck"
    BY <1>3
  <2>2. StringValue(set, o, HealthPath) # Unset
    BY <2>1, PartsAreNamed
  <2>3. q.healthCheck[1].followRedirects = v /\ r.healthCheck[1].followRedirects = w
    BY <1>3, <2>2, RedirectsReadValue
  <2> HIDE DEF q, r
  <2>4. q # r
    BY <2>3
  <2> QED  BY <2>4 DEF q, r
<1>4. CASE /\ t.protocol = "http"
           /\ \/ t.key = <<"loadbalancer", "passhostheader">> /\ kind = "bool"
              \/ t.key = <<"loadbalancer", "serverstransport">> /\ kind = "string"
              \/ t.key = <<"loadbalancer", "responseforwarding", "flushinterval">> /\ kind = "string"
  <2>1. \/ q.passHostHeader = v /\ r.passHostHeader = w
        \/ q.serversTransport = v /\ r.serversTransport = w
        \/ q.flushInterval = v /\ r.flushInterval = w
    BY <1>4, PlainFieldsReadValue
  <2> HIDE DEF q, r
  <2>2. q # r
    BY <2>1
  <2> QED  BY <2>2 DEF q, r
<1>5. CASE /\ t.protocol = "tcp" /\ kind = "int"
           /\ t.key \in {<<"loadbalancer", "proxyprotocol", "version">>,
                         <<"loadbalancer", "terminationdelay">>}
  <2>1. \/ q.terminationDelay = v /\ r.terminationDelay = w
        \/ q.proxyProtocol = v /\ r.proxyProtocol = w
    BY <1>5, StreamFieldsReadValue
  <2> HIDE DEF q, r
  <2>2. q # r
    BY <2>1
  <2> QED  BY <2>2 DEF q, r
<1> QED  BY <1>1, <1>2, <1>3, <1>4, <1>5 DEF BalancerRead

\* The label insecureskipverify shows where no transport is named.
LEMMA InsecureTells ==
  ASSUME NEW t, t.entry = NoEntry, NEW o, o = ObjectOf(t), Counts(t),
         t.protocol = "http", t.key = <<"loadbalancer", "insecureskipverify">>,
         NEW x, Told(x, t, "bool", <<"true">>), NEW y, Told(y, t, "bool", <<"false">>)
  PROVE  IsInsecure(x, o) /\ ~IsInsecure(y, o)
<1>1. ValueAt(x, o, t.key, NoEntry, "bool") = <<"true">>
  BY ReadOfKey
<1>2. ValueAt(y, o, t.key, NoEntry, "bool") = <<"false">>
  BY ReadOfKey
<1>3. InsecureSkipVerify(x, o)
  BY <1>1 DEF InsecureSkipVerify, BoolValue
<1>4. ~InsecureSkipVerify(y, o)
  BY <1>2 DEF InsecureSkipVerify, BoolValue
<1>5. StringValue(set, o, <<"loadbalancer", "serverstransport">>) = Unset
  BY PartsAreNamed
<1>6. <<"loadbalancer", "serverstransport">> # t.key
  OBVIOUS
<1>7. StringValue(x, o, <<"loadbalancer", "serverstransport">>) = Unset
  BY <1>5, <1>6, ReadOfKey DEF StringValue
<1>8. o.protocol = "http"
  BY DEF ObjectOf, Object
<1>9. Service(x, o, {base}).serversTransport = Unset
  BY <1>7, <1>8, HTTPServiceFields
<1> QED  BY <1>3, <1>4, <1>9 DEF IsInsecure

\* A header of the health check.
LEMMA HeaderReadsValue ==
  ASSUME NEW t \in DOMAIN set.values, t.entry # NoEntry, NEW o, o = ObjectOf(t),
         StringValue(set, o, HealthPath) # Unset, t.protocol = "http", t.key = HeadersKey,
         NEW s, NEW v, Told(s, t, "string", v)
  PROVE  Service(s, o, {base}).healthCheck[1].headers[t.entry] = v
<1>1. HealthPath # t.key
  <2>1. HealthPath[3] # HeadersKey[3]
    BY DEF HeadersKey, HealthPath
  <2> QED  BY <2>1
<1>2. StringValue(s, o, HealthPath) # Unset
  BY <1>1 DEF StringValue, Told
<1>3. HealthCheck(s, o)[1].headers = Headers(s, o, HeadersKey)
  BY <1>2, HealthCheckOf
<1>4. t.entry \in Entries(s, o, HeadersKey)
  <2>1. t.entry \in Entries(set, o, HeadersKey)
    BY DEF Entries
  <2> QED  BY <2>1 DEF Told
<1>5. ValueAt(s, o, HeadersKey, t.entry, "string") = v
  BY DEF Told
<1>6. Headers(s, o, HeadersKey)[t.entry] = v
  BY <1>4, <1>5 DEF Headers
<1>7. o.protocol = "http"
  BY DEF ObjectOf, Object
<1>8. Service(s, o, {base}).healthCheck = HealthCheck(s, o)
  BY <1>7, HTTPServiceFields
<1> QED  BY <1>3, <1>6, <1>8

LEMMA HeaderTells ==
  ASSUME NEW t \in DOMAIN set.values, t.entry # NoEntry, NEW o, o = ObjectOf(t),
         Counts(t), t.protocol = "http", t.key = HeadersKey,
         NEW x, NEW v, Told(x, t, "string", v), NEW y, NEW w, Told(y, t, "string", w), v # w
  PROVE  Service(x, o, {base}) # Service(y, o, {base})
<1>1. Len(t.key) > 2 /\ t.key[2] = "healthcheck"
  BY DEF HeadersKey
<1>2. StringValue(set, o, HealthPath) # Unset
  BY <1>1, PartsAreNamed
<1>3. Service(x, o, {base}).healthCheck[1].headers[t.entry] = v
  BY <1>2, HeaderReadsValue
<1>4. Service(y, o, {base}).healthCheck[1].headers[t.entry] = w
  BY <1>2, HeaderReadsValue
<1> QED  BY <1>3, <1>4, Zenon

-----------------------------------------------------------------------------
(* Every label counts                                                      *)

\* Sets that tell two values of a label about an object that is built.
TellsApart(x, y, t, o) ==
  \/ t.collection = "routers" /\ Router(x, o, Unset) # Router(y, o, Unset)
  \/ t.collection = "services" /\ Service(x, o, {base}) # Service(y, o, {base})
  \/ t.collection = "services" /\ (IsInsecure(x, o) /\ ~IsInsecure(y, o))
  \/ t.collection = "serverstransports" /\ ServersTransport(x, o) # ServersTransport(y, o)

LEMMA KeyTells ==
  ASSUME NEW t, t.entry = NoEntry, NEW o, o = ObjectOf(t), Counts(t),
         t.protocol \in Protocols, NEW kind, KeyRead(t, kind), t.key # <<"tls">>,
         t.key # <<"loadbalancer", "insecureskipverify">>,
         NEW x, NEW v, IsValue(v), Told(x, t, kind, v),
         NEW y, NEW w, IsValue(w), Told(y, t, kind, w), v # w
  PROVE  TellsApart(x, y, t, o)
<1>1. CASE t.collection = "routers" /\ RouterRead(t.protocol, t.key, kind)
  <2>1. Router(x, o, Unset) # Router(y, o, Unset)
    BY <1>1, RouterTells
  <2> QED  BY <1>1, <2>1 DEF TellsApart
<1>2. CASE t.collection = "services" /\ ServerRead(t.protocol, t.key, kind)
  <2>1. Service(x, o, {base}) # Service(y, o, {base})
    BY <1>2, ServersTell
  <2> QED  BY <1>2, <2>1 DEF TellsApart
<1>3. CASE t.collection = "services" /\ BalancerRead(t.protocol, t.key, kind)
  <2>1. Service(x, o, {base}) # Service(y, o, {base})
    BY <1>3, BalancerTells
  <2> QED  BY <1>3, <2>1 DEF TellsApart
<1>4. CASE t.collection = "serverstransports" /\ TransportRead(t.key, kind)
  <2>1. ServersTransport(x, o) # ServersTransport(y, o)
    BY <1>4, TransportTells
  <2> QED  BY <1>4, <2>1 DEF TellsApart
<1> QED  BY <1>1, <1>2, <1>3, <1>4 DEF KeyRead

LEMMA EntryTells ==
  ASSUME TypesOK, ParseOK, ReadOK, OrderOK, Done,
         NEW t \in DOMAIN set.values, IsTarget(t), t.entry # NoEntry, Counts(t),
         t.protocol \in Protocols, NEW o, o = ObjectOf(t), NEW kind, EntryRead(t, kind),
         NEW x, NEW v, Told(x, t, kind, v), NEW y, NEW w, Told(y, t, kind, w), v # w
  PROVE  TellsApart(x, y, t, o)
<1>1. CASE t.collection = "routers"
  <2>1. Router(x, o, Unset) # Router(y, o, Unset)
    BY <1>1, DomainTells
  <2> QED  BY <1>1, <2>1 DEF TellsApart
<1>2. CASE /\ t.collection = "services" /\ t.protocol = "http"
           /\ t.key = HeadersKey /\ kind = "string"
  <2>1. Told(x, t, "string", v) /\ Told(y, t, "string", w)
    BY <1>2
  <2>2. Service(x, o, {base}) # Service(y, o, {base})
    BY <1>2, <2>1, HeaderTells
  <2> QED  BY <1>2, <2>2 DEF TellsApart
<1> QED  BY <1>1, <1>2 DEF EntryRead

\* The kinds of value that are looked for, and two keys that are read once.
LEMMA KindsRead ==
  ASSUME NEW t, NEW kind, IsReadAt(t, kind)
  PROVE  kind \in Kinds
<1>1. /\ \A f \in DOMAIN HealthCheckKinds : HealthCheckKinds[f] \in Kinds
      /\ \A f \in DOMAIN CookieKinds : CookieKinds[f] \in Kinds
      /\ \A f \in DOMAIN TransportKinds : TransportKinds[f] \in Kinds
      /\ \A f \in DOMAIN TimeoutKinds : TimeoutKinds[f] \in Kinds
  BY DEF HealthCheckKinds, CookieKinds, TransportKinds, TimeoutKinds, Kinds
<1>2. RouterRead(t.protocol, t.key, kind) => kind \in Kinds
  BY DEF RouterRead, Kinds
<1>3. ServerRead(t.protocol, t.key, kind) => kind \in Kinds
  BY DEF ServerRead, Kinds
<1>4. BalancerRead(t.protocol, t.key, kind) => kind \in Kinds
  BY <1>1 DEF BalancerRead, Kinds
<1>5. TransportRead(t.key, kind) => kind \in Kinds
  BY <1>1 DEF TransportRead
<1>6. EntryRead(t, kind) => kind \in Kinds
  BY DEF EntryRead, Kinds
<1> QED  BY <1>2, <1>3, <1>4, <1>5, <1>6 DEF IsReadAt, KeyRead

LEMMA BoolKeys ==
  ASSUME NEW t, NEW kind, KeyRead(t, kind)
  PROVE  /\ t.key = <<"tls">> =>
              t.collection = "routers" /\ kind = "bool" /\ RouterRead(t.protocol, t.key, kind)
         /\ t.key = <<"loadbalancer", "insecureskipverify">> =>
              t.collection = "services" /\ t.protocol = "http" /\ kind = "bool"
<1>1. RouterRead(t.protocol, t.key, kind) =>
        /\ t.key = <<"tls">> => kind = "bool"
        /\ t.key # <<"loadbalancer", "insecureskipverify">>
  BY DEF RouterRead
<1>2. ServerRead(t.protocol, t.key, kind) => Len(t.key) = 3
  BY DEF ServerRead, LBServer
<1>3. BalancerRead(t.protocol, t.key, kind) =>
        /\ t.key # <<"tls">>
        /\ t.key = <<"loadbalancer", "insecureskipverify">> => t.protocol = "http" /\ kind = "bool"
  <2>1. CASE t.key = <<"tls">>
    <3>1. t.key[1] # "loadbalancer"
      BY <2>1
    <3> QED  BY <3>1 DEF BalancerRead
  <2>2. CASE t.key = <<"loadbalancer", "insecureskipverify">>
    <3>1. Len(t.key) = 2 /\ t.key[2] \notin {"passhostheader", "serverstransport", "terminationdelay"}
      BY <2>2
    <3>2. BalancerRead(t.protocol, t.key, kind) => t.protocol = "http" /\ kind = "bool"
      BY <3>1 DEF BalancerRead
    <3> QED  BY <2>2, <3>2
  <2> QED  BY <2>1, <2>2
<1>4. TransportRead(t.key, kind) =>
        t.key # <<"tls">> /\ t.key # <<"loadbalancer", "insecureskipverify">>
  <2>1. "tls" \notin DOMAIN TransportKinds
    BY DEF TransportKinds
  <2>2. TransportRead(t.key, kind) =>
          \/ Len(t.key) = 1 /\ t.key[1] \in DOMAIN TransportKinds
          \/ Len(t.key) = 2 /\ t.key[1] = "forwardingtimeouts"
    BY DEF TransportRead
  <2>3. Len(<<"tls">>) = 1 /\ <<"tls">>[1] = "tls"
    OBVIOUS
  <2>4. /\ Len(<<"loadbalancer", "insecureskipverify">>) = 2
        /\ <<"loadbalancer", "insecureskipverify">>[1] = "loadbalancer"
    OBVIOUS
  <2> QED  BY <2>1, <2>2, <2>3, <2>4
<1> QED  BY <1>1, <1>2, <1>3, <1>4 DEF KeyRead

\* What is built for the guest tells two values of the label apart.
LEMMA ValueShows ==
  ASSUME TypesOK, ParseOK, ReadOK, OrderOK, Done,
         NEW i \in DOMAIN assignments, NEW a, a = assignments[i], NEW t, t = a.target,
         ~IsRoot(t), ~IsReplaced(i), ~IsUnreached(a), ~IsVoid(a)
  PROVE  HasASay(i)
<1> DEFINE o == ObjectOf(t)
           kind == a.kind
<1>1. a \in Range(assignments)
  BY DEF Range
<1>2. IsTarget(t) /\ IsReadAt(t, kind) /\ t.protocol \in Protocols /\ Counts(t)
  BY <1>1, AcceptedIsRead DEF Counts
<1>3. /\ t.protocol \in ProtocolsOf(set)
      /\ t.name \in NamesOf(set, t.protocol, t.collection)
      /\ t.collection = "serverstransports" => t.name \in ExplicitNames(set, t.protocol, t.collection)
      /\ \A c \in {"routers", "services"} : NamesOf(set, t.protocol, c) # {}
  BY <1>1, ObjectOfLabelIsBuilt
<1>4. ASSUME NEW x, SameNames(x), NEW y, SameNames(y), TellsApart(x, y, t, o)
      PROVE  Alone(x) # Alone(y)
  BY <1>3, <1>4, ObjectsDiffer DEF TellsApart
<1>5. t \in DOMAIN set.values
  <2>1. InOrder(set, assignments, Len(assignments)) /\ IsList(assignments)
    BY DEF ParseOK, ParsedSoFar, Done, OrderOK
  <2>2. t \in Places(t) /\ i \in 1 .. Len(assignments)
    BY <1>2, <2>1, PlacesOfTarget DEF IsList
  <2> QED  BY <2>1, <2>2 DEF InOrder
<1>6. ASSUME NEW v \in SomeValues(kind), NEW w \in SomeValues(kind), NEW x, NEW y,
             IsWithValue(x, i, v), IsWithValue(y, i, w), TellsApart(x, y, t, o)
      PROVE  HasASay(i)
  <2>1. SameNames(x) /\ SameNames(y)
    BY <1>6, ToldWithValue
  <2>2. Alone(x) # Alone(y)
    BY <1>4, <1>6, <2>1
  <2> QED  BY <1>6, <2>2, ValuesTell
<1>7. ASSUME NEW v  PROVE \E x : IsWithValue(x, i, v) /\ SameNames(x) /\ Told(x, t, kind, v)
  BY ToldWithValue DEF IsWithValue
<1>8. CASE t.entry = NoEntry /\ t.key = <<"tls">>
  <2>1. t.collection = "routers" /\ kind = "bool" /\ RouterRead(t.protocol, t.key, "bool")
    BY <1>2, <1>8, BoolKeys DEF IsReadAt
  <2>2. <<"true">> \in SomeValues(kind) /\ IsValue(<<"true">>)
    BY <2>1 DEF SomeValues, IsValue
  <2>3. PICK x : IsWithValue(x, i, <<"true">>) /\ SameNames(x) /\ Told(x, t, "bool", <<"true">>)
    BY <1>7, <2>1
  <2>4. PICK y : IsWithout(y, i) /\ SameNames(y) /\ \E w : Told(y, t, "none", w)
    BY ToldWithout DEF IsWithout
  <2>5. Router(x, o, Unset) # Router(y, o, Unset)
    BY <1>2, <1>8, <2>1, <2>2, <2>3, <2>4, TLSTells
  <2>6. Alone(x) # Alone(y)
    BY <1>4, <2>1, <2>3, <2>4, <2>5 DEF TellsApart
  <2> QED  BY <2>2, <2>3, <2>4, <2>6, ValueTells
<1>9. CASE t.entry = NoEntry /\ t.key = <<"loadbalancer", "insecureskipverify">>
  <2>1. t.collection = "services" /\ t.protocol = "http" /\ kind = "bool"
    BY <1>2, <1>9, BoolKeys DEF IsReadAt
  <2>2. <<"true">> \in SomeValues(kind) /\ <<"false">> \in SomeValues(kind)
    BY <2>1 DEF SomeValues
  <2>3. PICK x : IsWithValue(x, i, <<"true">>) /\ Told(x, t, "bool", <<"true">>)
    BY <1>7, <2>1
  <2>4. PICK y : IsWithValue(y, i, <<"false">>) /\ Told(y, t, "bool", <<"false">>)
    BY <1>7, <2>1
  <2>5. IsInsecure(x, o) /\ ~IsInsecure(y, o)
    BY <1>2, <1>9, <2>1, <2>3, <2>4, InsecureTells
  <2>6. TellsApart(x, y, t, o)
    BY <2>1, <2>5 DEF TellsApart
  <2> QED  BY <1>6, <2>2, <2>3, <2>4, <2>6
<1>10. CASE ~(t.entry = NoEntry /\ t.key \in {<<"tls">>, <<"loadbalancer", "insecureskipverify">>})
  <2>1. kind \in Kinds
    BY <1>2, KindsRead
  <2>2. PICK v \in SomeValues(kind), w \in SomeValues(kind) : IsValue(v) /\ IsValue(w) /\ v # w
    BY <2>1, TwoValues
  <2>3. PICK x : IsWithValue(x, i, v) /\ Told(x, t, kind, v)
    BY <1>7
  <2>4. PICK y : IsWithValue(y, i, w) /\ Told(y, t, kind, w)
    BY <1>7
  <2>5. CASE t.entry = NoEntry
    <3>1. KeyRead(t, kind) /\ t.key # <<"tls">> /\ t.key # <<"loadbalancer", "insecureskipverify">>
      BY <1>2, <1>10, <2>5 DEF IsReadAt
    <3>2. TellsApart(x, y, t, o)
      BY <1>2, <2>2, <2>3, <2>4, <2>5, <3>1, KeyTells
    <3> QED  BY <1>6, <2>3, <2>4, <3>2
  <2>6. CASE t.entry # NoEntry
    <3>1. EntryRead(t, kind)
      BY <1>2, <2>6 DEF IsReadAt
    <3>2. TellsApart(x, y, t, o)
      BY <1>2, <1>5, <2>2, <2>3, <2>4, <2>6, <3>1, EntryTells
    <3> QED  BY <1>6, <2>3, <2>4, <3>2
  <2> QED  BY <2>5, <2>6
<1> QED  BY <1>8, <1>9, <1>10

\* No valid label is without effect: for each label that was accepted, is in
\* force and is about something that is built, what the code builds for the
\* guest differs with its value, so that no row of the schema parses a label
\* to a place, or with a kind, that no reader of the label set asks for
\* (schema/schema.go against set.go, values.go and the builders of routers,
\* services and transports), whatever else the notes say.
THEOREM EveryLabelHasEffect == Spec => []EveryLabelCounts
<1>1. TypesOK /\ ParseOK /\ ReadOK /\ OrderOK => EveryLabelCounts
  <2> SUFFICES ASSUME TypesOK, ParseOK, ReadOK, OrderOK, Done, NEW i \in DOMAIN assignments,
                      ~IsRoot(assignments[i].target), ~IsReplaced(i),
                      ~IsUnreached(assignments[i]), ~IsVoid(assignments[i])
      PROVE  HasASay(i)
    BY DEF EveryLabelCounts
  <2> QED  BY ValueShows
<1> QED  BY <1>1, OrderInvariance, PTL
=============================================================================
