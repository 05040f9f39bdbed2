--------------------------- MODULE InventoryProofs ---------------------------
(***************************************************************************)
(* Proofs about Inventory, for every configuration of the plugin and every *)
(* cluster: what the accepted options are, and that a snapshot has the     *)
(* guests they ask for, whatever the calls of a scan answer.               *)
(***************************************************************************)
EXTENDS Inventory, Numbers, SequenceTheorems, FiniteSetTheorems

-----------------------------------------------------------------------------
(* The elements of a list that are in a set *)

KeptUpTo(f, list, elements, n) ==
  f = [i \in 0 .. n |->
        IF i = 0 THEN <<>>
        ELSE IF list[i] \in elements THEN Append(f[i - 1], list[i])
        ELSE f[i - 1]]

LEMMA SomeKept ==
  ASSUME NEW list, NEW elements, NEW m \in Nat
  PROVE  \E f : KeptUpTo(f, list, elements, m)
<1> DEFINE T == {n \in 0 .. m : \E f : KeptUpTo(f, list, elements, n)}
<1>1. 0 \in T
  <2>1. KeptUpTo([i \in 0 .. 0 |-> <<>>], list, elements, 0)
    BY DEF KeptUpTo
  <2> QED  BY <2>1
<1>2. ASSUME NEW n \in 1 .. m, n - 1 \in T  PROVE n \in T
  <2>1. PICK g : KeptUpTo(g, list, elements, n - 1)
    BY <1>2
  <2> DEFINE f == [i \in 0 .. n |->
                     IF i < n THEN g[i]
                     ELSE IF list[n] \in elements THEN Append(g[n - 1], list[n])
                     ELSE g[n - 1]]
  <2>2. ASSUME NEW i \in 0 .. n
        PROVE  f[i] = IF i = 0 THEN <<>>
                      ELSE IF list[i] \in elements THEN Append(f[i - 1], list[i])
                      ELSE f[i - 1]
    <3>1. CASE i = 0
      BY <2>1, <3>1 DEF KeptUpTo
    <3>2. CASE i # 0 /\ i < n
      <4>1. i \in 0 .. n - 1 /\ i - 1 \in 0 .. n
        BY <3>2
      <4>2. f[i] = g[i] /\ f[i - 1] = g[i - 1]
        BY <3>2, <4>1
      <4> HIDE DEF f
      <4> QED  BY <2>1, <3>2, <4>1, <4>2 DEF KeptUpTo
    <3>3. CASE i = n
      <4>1. f[n - 1] = g[n - 1]
        OBVIOUS
      <4> QED  BY <3>3, <4>1
    <3> QED  BY <3>1, <3>2, <3>3
  <2>3. KeptUpTo(f, list, elements, n)
    <3>1. f = [i \in 0 .. n |-> f[i]]
      OBVIOUS
    <3> HIDE DEF f
    <3> QED  BY <2>2, <3>1 DEF KeptUpTo
  <2> QED  BY <2>3
<1> HIDE DEF T
<1>3. m \in T
  BY <1>1, <1>2, NumbersUpTo
<1> QED  BY <1>3 DEF T

LEMMA KeptOneByOne ==
  ASSUME NEW f, NEW list, NEW elements, NEW n \in Nat, KeptUpTo(f, list, elements, n)
  PROVE  /\ f[0] = <<>>
         /\ \A i \in 1 .. n :
              f[i] = IF list[i] \in elements THEN Append(f[i - 1], list[i]) ELSE f[i - 1]
<1>1. \A i \in 0 .. n :
        f[i] = IF i = 0 THEN <<>>
               ELSE IF list[i] \in elements THEN Append(f[i - 1], list[i])
               ELSE f[i - 1]
  BY DEF KeptUpTo
<1>2. f[0] = <<>>
  <2>1. 0 \in 0 .. n
    OBVIOUS
  <2>2. f[0] = IF 0 = 0 THEN <<>>
               ELSE IF list[0] \in elements THEN Append(f[0 - 1], list[0])
               ELSE f[0 - 1]
    BY <1>1, <2>1
  <2> QED  BY <2>2
<1>3. ASSUME NEW i \in 1 .. n
      PROVE  f[i] = IF list[i] \in elements THEN Append(f[i - 1], list[i]) ELSE f[i - 1]
  <2>1. i \in 0 .. n /\ i # 0
    OBVIOUS
  <2> QED  BY <1>1, <2>1
<1> QED  BY <1>2, <1>3

\* What is kept of the first elements of a list: those in the set, one after
\* the other.
KeptOf(s, list, elements, n) ==
  /\ s \in Seq(elements)
  /\ \A k \in 1 .. n : list[k] \in elements => \E i \in DOMAIN s : s[i] = list[k]
  /\ \E place \in [DOMAIN s -> 1 .. n] :
       /\ \A i \in DOMAIN s : s[i] = list[place[i]]
       /\ \A i, j \in DOMAIN s : i < j => place[i] < place[j]

LEMMA NothingKept ==
  ASSUME NEW list, NEW elements
  PROVE  KeptOf(<<>>, list, elements, 0)
<1> DEFINE s == <<>>
<1>1. s \in Seq(elements) /\ DOMAIN s = {}
  BY EmptySeq
<1>2. s \in [DOMAIN s -> 1 .. 0]
  BY <1>1
<1> HIDE DEF s
<1>3. \E place \in [DOMAIN s -> 1 .. 0] :
        /\ \A i \in DOMAIN s : s[i] = list[place[i]]
        /\ \A i, j \in DOMAIN s : i < j => place[i] < place[j]
  BY <1>1, <1>2
<1>4. \A k \in 1 .. 0 : list[k] \in elements => \E i \in DOMAIN s : s[i] = list[k]
  OBVIOUS
<1>5. KeptOf(s, list, elements, 0)
  BY <1>1, <1>3, <1>4 DEF KeptOf
<1> QED  BY <1>5 DEF s

LEMMA KeepOne ==
  ASSUME NEW list, NEW elements, NEW n \in Nat \ {0}, NEW s, KeptOf(s, list, elements, n - 1),
         NEW t, t = IF list[n] \in elements THEN Append(s, list[n]) ELSE s
  PROVE  KeptOf(t, list, elements, n)
<1>1. s \in Seq(elements) /\ DOMAIN s = 1 .. Len(s) /\ Len(s) \in Nat
  BY DEF KeptOf
<1>2. PICK place \in [DOMAIN s -> 1 .. n - 1] :
        /\ \A i \in DOMAIN s : s[i] = list[place[i]]
        /\ \A i, j \in DOMAIN s : i < j => place[i] < place[j]
  BY DEF KeptOf
<1>3. \A k \in 1 .. n - 1 : list[k] \in elements => \E i \in DOMAIN s : s[i] = list[k]
  BY DEF KeptOf
<1>4. CASE list[n] \notin elements
  <2>1. place \in [DOMAIN s -> 1 .. n]
    OBVIOUS
  <2>2. \A k \in 1 .. n : list[k] \in elements => \E i \in DOMAIN s : s[i] = list[k]
    BY <1>3, <1>4
  <2> QED  BY <1>1, <1>2, <1>4, <2>1, <2>2 DEF KeptOf
<1>5. CASE list[n] \in elements
  <2>1. /\ t \in Seq(elements) /\ DOMAIN t = 1 .. Len(s) + 1
        /\ \A i \in DOMAIN s : t[i] = s[i]
        /\ t[Len(s) + 1] = list[n]
    BY <1>1, <1>5
  <2> DEFINE at == [i \in DOMAIN t |-> IF i = Len(s) + 1 THEN n ELSE place[i]]
  <2>2. at \in [DOMAIN t -> 1 .. n]
    BY <1>1, <2>1
  <2>3. \A i \in DOMAIN t : t[i] = list[at[i]]
    BY <1>1, <1>2, <2>1
  <2>4. \A i, j \in DOMAIN t : i < j => at[i] < at[j]
    BY <1>1, <1>2, <2>1
  <2>5. \A k \in 1 .. n : list[k] \in elements => \E i \in DOMAIN t : t[i] = list[k]
    <3> SUFFICES ASSUME NEW k \in 1 .. n, list[k] \in elements
                 PROVE  \E i \in DOMAIN t : t[i] = list[k]
      OBVIOUS
    <3>1. CASE k = n
      BY <1>1, <2>1, <3>1
    <3>2. CASE k # n
      <4>1. PICK i \in DOMAIN s : s[i] = list[k]
        BY <1>3, <3>2
      <4> QED  BY <1>1, <2>1, <4>1
    <3> QED  BY <3>1, <3>2
  <2> HIDE DEF at
  <2> QED  BY <2>1, <2>2, <2>3, <2>4, <2>5 DEF KeptOf
<1> QED  BY <1>4, <1>5

LEMMA ThoseKept ==
  ASSUME NEW list, IsList(list), NEW elements
  PROVE  KeptOf(Those(list, elements), list, elements, Len(list))
<1> DEFINE n == Len(list)
           kept == CHOOSE f : KeptUpTo(f, list, elements, n)
<1>1. Those(list, elements) = kept[n]
  BY DEF Those, KeptUpTo
<1>2. n \in Nat
  BY DEF IsList
<1>3. KeptUpTo(kept, list, elements, n)
  BY <1>2, SomeKept
<1> DEFINE T == {i \in 0 .. n : KeptOf(kept[i], list, elements, i)}
<1> HIDE DEF kept, n
<1>4. 0 \in T
  <2>1. kept[0] = <<>> /\ 0 \in 0 .. n
    BY <1>2, <1>3, KeptOneByOne
  <2>2. KeptOf(<<>>, list, elements, 0)
    BY NothingKept
  <2> QED  BY <2>1, <2>2
<1>5. ASSUME NEW i \in 1 .. n, i - 1 \in T  PROVE i \in T
  <2>1. kept[i] = IF list[i] \in elements THEN Append(kept[i - 1], list[i]) ELSE kept[i - 1]
    BY <1>2, <1>3, KeptOneByOne
  <2>2. KeptOf(kept[i - 1], list, elements, i - 1) /\ i \in 0 .. n /\ i \in Nat \ {0}
    BY <1>2, <1>5
  <2>3. KeptOf(kept[i], list, elements, i)
    BY <2>1, <2>2, KeepOne
  <2> QED  BY <2>2, <2>3
<1>6. n \in T
  <2> HIDE DEF T
  <2> QED  BY <1>2, <1>4, <1>5, NumbersUpTo
<1> QED  BY <1>1, <1>6 DEF n

\* What is kept of a list is of the list and of the set, all of both is kept,
\* and no element twice.
LEMMA ThoseOfList ==
  ASSUME NEW list, IsList(list), NEW elements
  PROVE  /\ Those(list, elements) \in Seq(elements)
         /\ ToSet(Those(list, elements)) = ToSet(list) \cap elements
<1> DEFINE t == Those(list, elements)
<1>1. KeptOf(t, list, elements, Len(list)) /\ DOMAIN list = 1 .. Len(list)
  BY ThoseKept DEF IsList
<1> HIDE DEF t
<1>2. t \in Seq(elements) /\ DOMAIN t = 1 .. Len(t)
  BY <1>1 DEF KeptOf
<1>3. \A i \in DOMAIN t : \E k \in DOMAIN list : t[i] = list[k]
  BY <1>1 DEF KeptOf
<1>4. \A k \in DOMAIN list : list[k] \in elements => \E i \in DOMAIN t : t[i] = list[k]
  BY <1>1 DEF KeptOf
<1>5. \A i \in DOMAIN t : t[i] \in elements
  BY <1>2
<1>6. ToSet(t) = ToSet(list) \cap elements
  BY <1>3, <1>4, <1>5 DEF ToSet
<1> QED  BY <1>2, <1>6 DEF t

LEMMA ThoseInPlace ==
  ASSUME NEW list, IsList(list), NEW elements
  PROVE  \E place \in [DOMAIN Those(list, elements) -> DOMAIN list] :
           /\ \A i \in DOMAIN Those(list, elements) : Those(list, elements)[i] = list[place[i]]
           /\ \A i, j \in DOMAIN Those(list, elements) : place[i] = place[j] => i = j
<1> DEFINE t == Those(list, elements)
<1>1. KeptOf(t, list, elements, Len(list)) /\ DOMAIN list = 1 .. Len(list)
  BY ThoseKept DEF IsList
<1> HIDE DEF t
<1>2. t \in Seq(elements) /\ DOMAIN t = 1 .. Len(t) /\ Len(t) \in Nat
  BY <1>1 DEF KeptOf
<1>3. PICK place \in [DOMAIN t -> 1 .. Len(list)] :
        /\ \A i \in DOMAIN t : t[i] = list[place[i]]
        /\ \A i, j \in DOMAIN t : i < j => place[i] < place[j]
  BY <1>1 DEF KeptOf
<1>4. \A i, j \in DOMAIN t : place[i] = place[j] => i = j
  <2> SUFFICES ASSUME NEW i \in DOMAIN t, NEW j \in DOMAIN t, place[i] = place[j] PROVE i = j
    OBVIOUS
  <2>1. place[i] \in Nat /\ place[j] \in Nat /\ i \in Nat /\ j \in Nat
    BY <1>2, <1>3
  <2>2. ~(i < j) /\ ~(j < i)
    BY <1>3, <2>1
  <2> QED  BY <2>1, <2>2
<1>5. \E p \in [DOMAIN t -> DOMAIN list] :
        /\ \A i \in DOMAIN t : t[i] = list[p[i]]
        /\ \A i, j \in DOMAIN t : p[i] = p[j] => i = j
  BY <1>1, <1>3, <1>4
<1> QED  BY <1>5 DEF t

-----------------------------------------------------------------------------
(* The names of nodes in the configuration *)

NextName(names, value) ==
  IF TrimSpace(value) = NoText \/ \E m \in ToSet(names) : ToLower(m) = ToLower(TrimSpace(value))
  THEN names ELSE Append(names, TrimSpace(value))

NamesStep(f, values, n) ==
  f = [i \in 0 .. n |-> IF i = 0 THEN <<>> ELSE NextName(f[i - 1], values[i])]

LEMMA SomeNames ==
  ASSUME NEW values, NEW m \in Nat
  PROVE  \E f : NamesStep(f, values, m)
<1> DEFINE T == {n \in 0 .. m : \E f : NamesStep(f, values, n)}
<1>1. 0 \in T
  <2>1. NamesStep([i \in 0 .. 0 |-> <<>>], values, 0)
    BY DEF NamesStep
  <2> QED  BY <2>1
<1>2. ASSUME NEW n \in 1 .. m, n - 1 \in T  PROVE n \in T
  <2>1. PICK g : NamesStep(g, values, n - 1)
    BY <1>2
  <2> DEFINE f == [i \in 0 .. n |-> IF i < n THEN g[i] ELSE NextName(g[n - 1], values[n])]
  <2>2. ASSUME NEW i \in 0 .. n
        PROVE  f[i] = IF i = 0 THEN <<>> ELSE NextName(f[i - 1], values[i])
    <3>1. CASE i = 0
      BY <2>1, <3>1 DEF NamesStep
    <3>2. CASE i # 0 /\ i < n
      <4>1. i \in 0 .. n - 1 /\ i - 1 \in 0 .. n
        BY <3>2
      <4>2. f[i] = g[i] /\ f[i - 1] = g[i - 1]
        BY <3>2, <4>1
      <4> HIDE DEF f
      <4> QED  BY <2>1, <3>2, <4>1, <4>2 DEF NamesStep
    <3>3. CASE i = n
      <4>1. f[n - 1] = g[n - 1]
        OBVIOUS
      <4> QED  BY <3>3, <4>1
    <3> QED  BY <3>1, <3>2, <3>3
  <2>3. NamesStep(f, values, n)
    <3>1. f = [i \in 0 .. n |-> f[i]]
      OBVIOUS
    <3> HIDE DEF f
    <3> QED  BY <2>2, <3>1 DEF NamesStep
  <2> QED  BY <2>3
<1> HIDE DEF T
<1>3. m \in T
  BY <1>1, <1>2, NumbersUpTo
<1> QED  BY <1>3 DEF T

LEMMA NamesOneByOne ==
  ASSUME NEW f, NEW values, NEW n \in Nat, NamesStep(f, values, n)
  PROVE  /\ f[0] = <<>>
         /\ \A i \in 1 .. n : f[i] = NextName(f[i - 1], values[i])
<1>1. \A i \in 0 .. n : f[i] = IF i = 0 THEN <<>> ELSE NextName(f[i - 1], values[i])
  BY DEF NamesStep
<1>2. f[0] = <<>>
  <2>1. 0 \in 0 .. n
    OBVIOUS
  <2> QED  BY <1>1, <2>1
<1>3. ASSUME NEW i \in 1 .. n  PROVE f[i] = NextName(f[i - 1], values[i])
  <2>1. i \in 0 .. n /\ i # 0
    OBVIOUS
  <2> QED  BY <1>1, <2>1
<1> QED  BY <1>2, <1>3

\* The names of the first nodes of a list: none is blank, all are there, and
\* no two differ in capitals only.
NamesOf(s, values, n) ==
  /\ s \in Seq({TrimSpace(values[k]) : k \in DOMAIN values} \ {NoText})
  /\ \A k \in 1 .. n : TrimSpace(values[k]) # NoText =>
       \E i \in DOMAIN s : ToLower(s[i]) = ToLower(TrimSpace(values[k]))
  /\ \A i, j \in DOMAIN s : ToLower(s[i]) = ToLower(s[j]) => i = j

LEMMA NoNamesYet == ASSUME NEW values PROVE NamesOf(<<>>, values, 0)
<1> DEFINE s == <<>>
           names == {TrimSpace(values[k]) : k \in DOMAIN values} \ {NoText}
<1> HIDE DEF names
<1>1. s \in Seq(names) /\ DOMAIN s = {}
  BY EmptySeq
<1> HIDE DEF s
<1>2. NamesOf(s, values, 0)
  BY <1>1 DEF NamesOf, names
<1> QED  BY <1>2 DEF s

LEMMA NameOne ==
  ASSUME NEW values, NEW n \in DOMAIN values, n \in Nat \ {0}, NEW s, NamesOf(s, values, n - 1)
  PROVE  NamesOf(NextName(s, values[n]), values, n)
<1> DEFINE names == {TrimSpace(values[k]) : k \in DOMAIN values} \ {NoText}
           name == TrimSpace(values[n])
           t == NextName(s, values[n])
<1>1. name # NoText => name \in names
  OBVIOUS
<1>2. s \in Seq(names)
  BY DEF NamesOf
<1> HIDE DEF names
<1>3. DOMAIN s = 1 .. Len(s) /\ Len(s) \in Nat
  BY <1>2
<1>4. CASE name = NoText \/ \E i \in DOMAIN s : ToLower(s[i]) = ToLower(name)
  <2>1. t = s
    BY <1>4 DEF NextName, ToSet
  <2>2. \A k \in 1 .. n : TrimSpace(values[k]) # NoText =>
          \E i \in DOMAIN s : ToLower(s[i]) = ToLower(TrimSpace(values[k]))
    BY <1>4 DEF NamesOf
  <2> HIDE DEF t
  <2> QED  BY <2>1, <2>2 DEF NamesOf, t
<1>5. CASE name # NoText /\ \A i \in DOMAIN s : ToLower(s[i]) # ToLower(name)
  <2>1. t = Append(s, name)
    BY <1>5 DEF NextName, ToSet
  <2> HIDE DEF t, name
  <2>2. /\ t \in Seq(names) /\ DOMAIN t = 1 .. Len(s) + 1
        /\ \A i \in DOMAIN s : t[i] = s[i]
        /\ t[Len(s) + 1] = name
    BY <1>1, <1>2, <1>3, <1>5, <2>1
  <2>3. ASSUME NEW k \in 1 .. n, TrimSpace(values[k]) # NoText
        PROVE  \E i \in DOMAIN t : ToLower(t[i]) = ToLower(TrimSpace(values[k]))
    <3>1. CASE k = n
      <4>1. Len(s) + 1 \in DOMAIN t /\ TrimSpace(values[k]) = name
        BY <1>3, <2>2, <3>1 DEF name
      <4> QED  BY <2>2, <4>1
    <3>2. CASE k # n
      <4>1. k \in 1 .. n - 1
        BY <3>2
      <4>2. PICK i \in DOMAIN s : ToLower(s[i]) = ToLower(TrimSpace(values[k]))
        BY <2>3, <4>1 DEF NamesOf
      <4> QED  BY <1>3, <2>2, <4>2
    <3> QED  BY <3>1, <3>2
  <2>4. \A i, j \in DOMAIN s : ToLower(s[i]) = ToLower(s[j]) => i = j
    BY DEF NamesOf
  <2>5. ASSUME NEW i \in DOMAIN t, NEW j \in DOMAIN t, ToLower(t[i]) = ToLower(t[j])
        PROVE  i = j
    <3>1. CASE i \in DOMAIN s /\ j \in DOMAIN s
      BY <2>2, <2>4, <2>5, <3>1
    <3>2. CASE i \in DOMAIN s /\ j \notin DOMAIN s
      <4>1. j = Len(s) + 1
        BY <1>3, <2>2, <3>2
      <4> QED  BY <1>5, <2>2, <2>5, <3>2, <4>1
    <3>3. CASE i \notin DOMAIN s /\ j \in DOMAIN s
      <4>1. i = Len(s) + 1
        BY <1>3, <2>2, <3>3
      <4> QED  BY <1>5, <2>2, <2>5, <3>3, <4>1
    <3>4. CASE i \notin DOMAIN s /\ j \notin DOMAIN s
      BY <1>3, <2>2, <3>4
    <3> QED  BY <3>1, <3>2, <3>3, <3>4
  <2>6. NamesOf(t, values, n)
    BY <2>2, <2>3, <2>5 DEF NamesOf, names
  <2> QED  BY <2>6 DEF t
<1> QED  BY <1>4, <1>5

LEMMA NodeNamesOf ==
  ASSUME NEW values, IsList(values)
  PROVE  NamesOf(NodeNames(values), values, Len(values))
<1> DEFINE n == Len(values)
           names == CHOOSE f : NamesStep(f, values, n)
<1>1. NodeNames(values) = names[n]
  BY DEF NodeNames, NamesStep, NextName
<1>2. n \in Nat /\ DOMAIN values = 1 .. n
  BY DEF IsList
<1>3. NamesStep(names, values, n)
  BY <1>2, SomeNames
<1> DEFINE T == {i \in 0 .. n : NamesOf(names[i], values, i)}
<1> HIDE DEF names, n
<1>4. 0 \in T
  <2>1. names[0] = <<>> /\ 0 \in 0 .. n
    BY <1>2, <1>3, NamesOneByOne
  <2> QED  BY <2>1, NoNamesYet
<1>5. ASSUME NEW i \in 1 .. n, i - 1 \in T  PROVE i \in T
  <2>1. names[i] = NextName(names[i - 1], values[i])
    BY <1>2, <1>3, NamesOneByOne
  <2>2. NamesOf(names[i - 1], values, i - 1) /\ i \in 0 .. n /\ i \in Nat \ {0} /\ i \in DOMAIN values
    BY <1>2, <1>5
  <2>3. NamesOf(names[i], values, i)
    BY <2>1, <2>2, NameOne
  <2> QED  BY <2>2, <2>3
<1>6. n \in T
  <2> HIDE DEF T
  <2> QED  BY <1>2, <1>4, <1>5, NumbersUpTo
<1> QED  BY <1>1, <1>6 DEF n

-----------------------------------------------------------------------------
(* The options *)

\* Blanks and capitals are all that texts with one word differ in.
LEMMA Spelling ==
  ASSUME NEW t, IsText(t)
  PROVE  /\ (TrimSpace(t) = NoText) <=> (t.word = "")
         /\ ToLower(TrimSpace(t)) = Text(t.word)
         /\ TrimSpace(t).word = t.word
         /\ IsText(TrimSpace(t))
<1>1. t = [word |-> t.word, spelt |-> t.spelt] /\ t.spelt \subseteq {"blanks", "capitals"}
  BY DEF IsText
<1>2. TrimSpace(t) = [word |-> t.word, spelt |-> t.spelt \ {"blanks"}]
  BY <1>1 DEF TrimSpace
<1>3. ToLower(TrimSpace(t)) = [word |-> t.word, spelt |-> (t.spelt \ {"blanks"}) \ {"capitals"}]
  BY <1>2 DEF ToLower
<1>4. (t.spelt \ {"blanks"}) \ {"capitals"} = {}
  BY <1>1
<1>5. t.word = "" => t.spelt \ {"blanks"} = {}
  BY <1>1 DEF IsText
<1>6. TrimSpace(t) = NoText => t.word = ""
  <2>1. TrimSpace(t).word = t.word /\ NoText.word = ""
    BY <1>2 DEF NoText, Text
  <2> QED  BY <2>1
<1>7. t.word = "" => TrimSpace(t) = NoText
  BY <1>2, <1>5 DEF NoText, Text
<1>8. IsText(TrimSpace(t))
  <2>1. TrimSpace(t).word = t.word /\ TrimSpace(t).spelt = t.spelt \ {"blanks"}
    BY <1>2
  <2>2. t.word = "" => "capitals" \notin t.spelt
    BY DEF IsText
  <2> QED  BY <1>1, <1>2, <2>1, <2>2 DEF IsText
<1>9. TrimSpace(t).word = t.word
  BY <1>2
<1> QED  BY <1>2, <1>3, <1>4, <1>6, <1>7, <1>8, <1>9 DEF Text

LEMMA SameWord == ASSUME NEW v, NEW w PROVE Text(v) = Text(w) <=> v = w
<1>1. Text(v).word = v /\ Text(w).word = w
  BY DEF Text
<1> QED  BY <1>1

Texts(values) == IsList(values) /\ \A t \in ToSet(values) : IsText(t)

LEMMA NormalizedWords ==
  ASSUME NEW values, Texts(values)
  PROVE  Normalized(values) = {Text(w) : w \in Words(values)}
<1>1. ASSUME NEW v \in ToSet(values)
      PROVE  (IsBlank(v) <=> v.word = "") /\ ToLower(TrimSpace(v)) = Text(v.word)
  BY Spelling DEF Texts, IsBlank
<1>2. Normalized(values) \subseteq {Text(w) : w \in Words(values)}
  BY <1>1 DEF Normalized, Words
<1>3. {Text(w) : w \in Words(values)} \subseteq Normalized(values)
  <2> SUFFICES ASSUME NEW w \in Words(values) PROVE Text(w) \in Normalized(values)
    OBVIOUS
  <2>1. PICK v \in ToSet(values) : v.word = w /\ w # ""
    BY DEF Words
  <2>2. v \in {x \in ToSet(values) : ~IsBlank(x)} /\ ToLower(TrimSpace(v)) = Text(w)
    BY <1>1, <2>1
  <2> QED  BY <2>2 DEF Normalized
<1> QED  BY <1>2, <1>3

LEMMA NodeNamesNormalized ==
  ASSUME NEW values, Texts(values)
  PROVE  /\ IsList(NodeNames(values)) /\ IsInjective(NodeNames(values))
         /\ \A n \in ToSet(NodeNames(values)) : n.word \in Words(values) /\ ToLower(n) = Text(n.word)
         /\ \A w \in Words(values) : \E n \in ToSet(NodeNames(values)) : n.word = w
<1> DEFINE names == NodeNames(values)
           trimmed == {TrimSpace(values[k]) : k \in DOMAIN values} \ {NoText}
<1>1. NamesOf(names, values, Len(values)) /\ DOMAIN values = 1 .. Len(values)
  BY NodeNamesOf DEF Texts, IsList
<1>2. ASSUME NEW k \in DOMAIN values
      PROVE  /\ TrimSpace(values[k]) = NoText <=> values[k].word = ""
             /\ ToLower(TrimSpace(values[k])) = Text(values[k].word)
             /\ TrimSpace(values[k]).word = values[k].word
             /\ values[k] \in ToSet(values)
  <2>1. values[k] \in ToSet(values)
    BY DEF ToSet
  <2> QED  BY <2>1, Spelling DEF Texts
<1> HIDE DEF names
<1>3. names \in Seq(trimmed)
  BY <1>1 DEF NamesOf
<1>4. ASSUME NEW i \in DOMAIN names
      PROVE  names[i].word \in Words(values) /\ ToLower(names[i]) = Text(names[i].word)
  <2>1. names[i] \in trimmed
    BY <1>3
  <2>2. PICK k \in DOMAIN values : names[i] = TrimSpace(values[k]) /\ TrimSpace(values[k]) # NoText
    BY <2>1
  <2> QED  BY <1>2, <2>2 DEF Words
<1>5. ASSUME NEW w \in Words(values)
      PROVE  \E i \in DOMAIN names : names[i].word = w
  <2>1. PICK k \in DOMAIN values : values[k].word = w /\ w # ""
    BY DEF Words, ToSet
  <2>2. PICK i \in DOMAIN names : ToLower(names[i]) = ToLower(TrimSpace(values[k]))
    BY <1>1, <1>2, <2>1 DEF NamesOf
  <2>3. Text(names[i].word) = Text(w)
    BY <1>2, <1>4, <2>1, <2>2
  <2> QED  BY <2>3, SameWord
<1>6. IsInjective(names)
  BY <1>1 DEF NamesOf, IsInjective
<1>7. IsList(names)
  BY <1>3 DEF IsList, ToSet
<1>8. \A n \in ToSet(names) : n.word \in Words(values) /\ ToLower(n) = Text(n.word)
  BY <1>4 DEF ToSet
<1>9. \A w \in Words(values) : \E n \in ToSet(names) : n.word = w
  BY <1>5 DEF ToSet
<1> QED  BY <1>6, <1>7, <1>8, <1>9 DEF names

LEMMA ModeParsed ==
  ASSUME NEW t, NEW modes, NEW default \in DOMAIN modes, ParseMode(t, default, modes) # Failed
  PROVE  ParseMode(t, default, modes)[1] \in DOMAIN modes
<1> DEFINE meant == {m \in DOMAIN modes : ToLower(TrimSpace(t)) \in {Text(w) : w \in modes[m]}}
<1>1. CASE t = NoText
  BY <1>1 DEF ParseMode
<1>2. CASE t # NoText
  <2>1. meant # {} /\ ParseMode(t, default, modes) = <<CHOOSE m \in meant : TRUE>>
    BY <1>2 DEF ParseMode
  <2>2. (CHOOSE m \in meant : TRUE) \in meant
    BY <2>1
  <2> QED  BY <2>1, <2>2
<1> QED  BY <1>1, <1>2

LEMMA Greatest ==
  ASSUME NEW n \in Nat, NEW S, S \subseteq 0 .. n, S # {}
  PROVE  Max(S) \in S
<1> DEFINE T == {n - i : i \in S}
<1>1. T \subseteq Nat /\ T # {}
  OBVIOUS
<1>2. PICK k \in T : \A j \in T : k <= j
  <2> HIDE DEF T
  <2> QED  BY <1>1, LeastNumber
<1>3. PICK i \in S : k = n - i
  BY <1>2
<1>4. \A j \in S : i >= j
  BY <1>2, <1>3
<1> QED  BY <1>4 DEF Max

LEMMA Ending ==
  ASSUME NEW S, NEW s \in Seq(S), NEW a, NEW b
  PROVE  /\ Len(s \o <<a, b>>) = Len(s) + 2
         /\ (s \o <<a, b>>)[Len(s) + 1] = a /\ (s \o <<a, b>>)[Len(s) + 2] = b
<1> DEFINE T == S \cup {a, b}
<1>1. s \in Seq(T) /\ <<a, b>> \in Seq(T)
  OBVIOUS
<1> QED  BY <1>1

\* Requests go to the API whatever path the endpoint has.
LEMMA BasePathEnds ==
  ASSUME NEW route, IsList(route)
  PROVE  IsSuffix(APIPath, BasePath(route))
<1> DEFINE trimmed == WithoutSlashes(route)
           n == Len(route)
           ends == {0} \cup {i \in DOMAIN route : route[i] # ""}
<1>1. n \in Nat /\ route \in Seq(ToSet(route)) /\ DOMAIN route = 1 .. n
  BY DEF IsList
<1>2. Max(ends) \in ends /\ ends \subseteq 0 .. n
  <2>1. {i \in DOMAIN route : route[i] # ""} \subseteq 1 .. n
    BY <1>1
  <2> DEFINE some == {i \in DOMAIN route : route[i] # ""}
  <2> HIDE DEF some
  <2>2. some \subseteq 1 .. n /\ ends = {0} \cup some
    BY <2>1 DEF some
  <2> HIDE DEF ends, n
  <2>3. n \in Nat
    BY <1>1 DEF n
  <2>4. ends \subseteq 0 .. n /\ ends # {}
    BY <2>2, <2>3
  <2> QED  BY <2>3, <2>4, Greatest
<1>3. Max(ends) \in 0 .. n
  BY <1>2
<1>4. trimmed \in Seq(ToSet(route))
  <2>1. trimmed = SubSeq(route, 1, Max(ends))
    BY DEF WithoutSlashes
  <2> HIDE DEF trimmed, ends
  <2> QED  BY <1>1, <1>3, <2>1
<1>5. CASE IsSuffix(APIPath, trimmed)
  BY <1>5 DEF BasePath
<1>6. CASE ~IsSuffix(APIPath, trimmed)
  <2> DEFINE m == Len(trimmed)
             whole == trimmed \o APIPath
  <2>1. m \in Nat
    BY <1>4
  <2>2. BasePath(route) = whole
    BY <1>6 DEF BasePath
  <2>3. Len(APIPath) = 2
    BY DEF APIPath
  <2> HIDE DEF trimmed
  <2>4. /\ Len(whole) = m + 2
        /\ whole[m + 1] = APIPath[1] /\ whole[m + 2] = APIPath[2]
    <3>1. APIPath = <<"api2", "json">>
      BY DEF APIPath
    <3> QED  BY <1>4, <3>1, Ending
  <2> HIDE DEF m, whole
  <2>5. /\ Len(Reverse(whole)) = m + 2
        /\ Reverse(whole)[1] = APIPath[2] /\ Reverse(whole)[2] = APIPath[1]
    BY <2>1, <2>4 DEF Reverse
  <2>6. /\ Len(Reverse(APIPath)) = 2
        /\ Reverse(APIPath)[1] = APIPath[2] /\ Reverse(APIPath)[2] = APIPath[1]
    BY <2>3 DEF Reverse
  <2>7. SubSeq(Reverse(APIPath), 1, 2) = SubSeq(Reverse(whole), 1, 2)
    BY <2>5, <2>6
  <2>8. IsSuffix(APIPath, whole)
    BY <2>1, <2>5, <2>6, <2>7 DEF IsSuffix, IsPrefix
  <2> QED  BY <2>2, <2>8
<1> QED  BY <1>5, <1>6

-----------------------------------------------------------------------------
(* The invariant *)

Guests == ToSet(cluster.guests)

GivenOK == config \in Configs /\ cluster \in Clusters

OptionsOK ==
  pc \notin {"new", "rejected"} => Accepted(config) /\ options = OptionsOf(config)

\* The guests of a kind on a node are still to be listed.
ToCome(node, kind) ==
  \E i \in DOMAIN queue :
    /\ queue[i] = node
    /\ i > 1 \/ pc = "vms" \/ (pc \in {"vmconfigs", "containers"} /\ kind = "container")

NodePhases == {"vms", "vmconfigs", "containers", "ctconfigs"}

PhasesOK ==
  /\ pc \in Scanning \cup {"new", "rejected", "failed", "done"}
  /\ batch # <<>> => pc \in Batches
  /\ queue # <<>> <=> pc \in NodePhases
  /\ hung => pc \in Scanning
  /\ pc \in NodePhases \cup {"nodes", "failed"} => path = "nodes"
  /\ pc = "configs" => path = "cluster"
  /\ pc \in {"new", "cluster", "configs", "nodes"} => workloads = <<>>
  /\ pc = "nodes" => options.includedNodes = {}

\* No node comes twice, and those of the configuration come when it has some.
QueueOK ==
  /\ IsList(queue) /\ IsInjective(queue)
  /\ \A i \in DOMAIN queue :
       options.includedNodes # {} => queue[i].word \in Words(config.nodes)

\* What is in the batch was listed and is wanted.
BatchOK ==
  /\ IsList(batch)
  /\ batch # <<>> => options.path = cluster.path
  /\ \A i \in DOMAIN batch : LET e == batch[i] g == e.resource IN
       /\ g \in Guests /\ Wanted(g)
       /\ e = Entry(Kind(g.type), Text(g.node), g)
       /\ e.kind # ""
       /\ ~ToCome(e.node, e.kind)
  /\ \A i, j \in DOMAIN batch : batch[i].resource.id = batch[j].resource.id => i = j

\* What became of a guest when its configuration was read.
IsOf(w, g) ==
  /\ Shows(w, g) /\ Wanted(g) /\ w.node = Text(g.node)
  /\ \/ w.problem /\ w.notes = ""
     \/ [base |-> cluster.path, what |-> "config", node |-> w.node, id |-> w.id] \in silent
     \/ w.notes = g.config.notes /\ w.name \in OwnNames(g)

WorkloadsOK ==
  /\ IsList(workloads)
  /\ \A i \in DOMAIN workloads :
       /\ \E g \in Guests : IsOf(workloads[i], g)
       /\ ~ToCome(workloads[i].node, workloads[i].kind)
       /\ \A j \in DOMAIN batch : workloads[i].id # batch[j].resource.id
  /\ \A i, j \in DOMAIN workloads : workloads[i].id = workloads[j].id => i = j

\* Where a guest that is wanted is.
InBatch(g) == \E i \in DOMAIN batch : batch[i].resource = g
InSnapshot(g) == \E i \in DOMAIN workloads : Shows(workloads[i], g)
HasProblem(g) == \E p \in problems : p.node.word = g.node /\ p.kind = Kind(g.type)
IsToCome(g) == \E n \in ToSet(queue) : n.word = g.node /\ ToCome(n, Kind(g.type))

NoneMissing ==
  pc \in NodePhases \cup {"configs", "done"} =>
    \A g \in Guests : Wanted(g) /\ Kind(g.type) # "" =>
      InSnapshot(g) \/ InBatch(g) \/ HasProblem(g) \/ IsToCome(g) \/ Unseen(g)

Follows(v, w) ==
  \/ Place(v.node.word) < Place(w.node.word)
  \/ v.node = w.node /\ v.kind = "vm" /\ w.kind = "container"
  \/ v.node = w.node /\ v.kind = w.kind /\ v.id < w.id

OrderOK ==
  /\ path = "cluster" => \A i \in 2 .. Len(workloads) : Follows(workloads[i - 1], workloads[i])
  /\ pc = "configs" => \A i \in 2 .. Len(batch) : Before(batch[i - 1].resource, batch[i].resource)

IInv ==
  /\ GivenOK /\ OptionsOK /\ PhasesOK /\ QueueOK /\ BatchOK /\ WorkloadsOK
  /\ NoneMissing /\ OrderOK

\* What the accepted options are.
LEMMA OptionsTyped ==
  ASSUME NEW c \in Configs, Accepted(c), NEW o, o = OptionsOf(c)
  PROVE  /\ o.pollInterval >= MinPollInterval
         /\ o.timeout # 0
         /\ o.maxConcurrency > 0
         /\ o.ipMode \in DOMAIN IPModes
         /\ o.extractMode \in {"fenced", "loose", "auto"}
         /\ IsInjective(o.includedNodeNames)
         /\ {ToLower(n) : n \in ToSet(o.includedNodeNames)} = o.includedNodes
         /\ o.requiredTags = {Text(w) : w \in Words(c.requiredTags)}
         /\ IsSuffix(APIPath, o.path)
<1>1. /\ o.pollInterval = PollInterval(c)[1]
      /\ o.timeout = ClientTimeout(Timeout(c)[1])
      /\ o.maxConcurrency = MaxConcurrency(c.maxConcurrency)
      /\ o.ipMode = ParseIPMode(c.ipMode)[1]
      /\ o.extractMode = ParseExtractMode(c.metadataMode)[1]
      /\ o.includedNodeNames = NodeNames(c.nodes)
      /\ o.includedNodes = Normalized(c.nodes)
      /\ o.requiredTags = Normalized(c.requiredTags)
      /\ o.path = ParseBaseURL(c.endpoint[1])[1]
  BY DEF OptionsOf
<1>2. Texts(c.nodes) /\ Texts(c.requiredTags) /\ c.maxConcurrency \in Int
  BY InventoryAssumption DEF Texts
<1>3. o.pollInterval >= MinPollInterval
  BY <1>1 DEF Accepted
<1>4. o.timeout # 0
  BY <1>1 DEF ClientTimeout
<1>5. o.maxConcurrency > 0
  BY <1>1, <1>2 DEF MaxConcurrency
<1>6. o.ipMode \in DOMAIN IPModes
  <2>1. "ipv4" \in DOMAIN IPModes
    BY DEF IPModes
  <2> QED  BY <1>1, <2>1, ModeParsed DEF Accepted, ParseIPMode
<1>7. o.extractMode \in {"fenced", "loose", "auto"}
  <2> DEFINE modes == [m \in {"fenced", "loose", "auto"} |-> {m}]
  <2>1. "fenced" \in DOMAIN modes /\ DOMAIN modes = {"fenced", "loose", "auto"}
    OBVIOUS
  <2>2. ParseExtractMode(c.metadataMode) = ParseMode(c.metadataMode, "fenced", modes)
    BY DEF ParseExtractMode
  <2>3. ParseExtractMode(c.metadataMode) # Failed
    BY DEF Accepted
  <2> HIDE DEF modes
  <2> QED  BY <1>1, <2>1, <2>2, <2>3, ModeParsed
<1>8. IsInjective(o.includedNodeNames)
  BY <1>1, <1>2, NodeNamesNormalized
<1>9. {ToLower(n) : n \in ToSet(o.includedNodeNames)} = o.includedNodes
  <2>1. o.includedNodes = {Text(w) : w \in Words(c.nodes)}
    BY <1>1, <1>2, NormalizedWords
  <2>2. \A n \in ToSet(o.includedNodeNames) : n.word \in Words(c.nodes) /\ ToLower(n) = Text(n.word)
    BY <1>1, <1>2, NodeNamesNormalized
  <2>3. \A w \in Words(c.nodes) : \E n \in ToSet(o.includedNodeNames) : n.word = w
    BY <1>1, <1>2, NodeNamesNormalized
  <2>4. {ToLower(n) : n \in ToSet(o.includedNodeNames)} \subseteq o.includedNodes
    BY <2>1, <2>2
  <2>5. ASSUME NEW w \in Words(c.nodes)
        PROVE  Text(w) \in {ToLower(n) : n \in ToSet(o.includedNodeNames)}
    BY <2>2, <2>3
  <2> QED  BY <2>1, <2>4, <2>5
<1>10. o.requiredTags = {Text(w) : w \in Words(c.requiredTags)}
  BY <1>1, <1>2, NormalizedWords
<1>11. IsSuffix(APIPath, o.path)
  <2>1. c.endpoint # <<>> /\ ParseBaseURL(c.endpoint[1]) # Failed
    BY DEF Accepted
  <2>2. o.path = BasePath(c.endpoint[1].path)
    BY <1>1, <2>1 DEF ParseBaseURL
  <2>3. c.endpoint[1] \in ToSet(c.endpoint)
    <3>1. c.endpoint \in Seq(ToSet(c.endpoint))
      BY InventoryAssumption DEF IsList
    <3> QED  BY <2>1, <3>1
  <2>4. IsList(c.endpoint[1].path)
    BY <2>3, InventoryAssumption
  <2> QED  BY <2>2, <2>4, BasePathEnds
<1> QED
  BY <1>3, <1>4, <1>5, <1>6, <1>7, <1>8, <1>9, <1>10, <1>11

-----------------------------------------------------------------------------
(* The filters *)

\* The tags of a guest, as they are compared.
LEMMA TagsOfGuest ==
  ASSUME NEW tags, Texts(tags)
  PROVE  {ToLower(t) : t \in ToSet(SplitTags(tags))} = {Text(w) : w \in Words(tags)}
<1> DEFINE trimmed == [i \in DOMAIN tags |-> TrimSpace(tags[i])]
           split == SplitTags(tags)
<1>1. DOMAIN tags = 1 .. Len(tags) /\ Len(tags) \in Nat
  BY DEF Texts, IsList
<1>2. ToSet(trimmed) = {TrimSpace(t) : t \in ToSet(tags)}
  BY DEF ToSet
<1>3. IsList(trimmed)
  <2>1. trimmed \in [1 .. Len(tags) -> ToSet(trimmed)]
    BY <1>1 DEF ToSet
  <2> HIDE DEF trimmed
  <2> QED  BY <1>1, <2>1 DEF IsList
<1>4. ToSet(split) = ToSet(trimmed) \cap (ToSet(trimmed) \ {NoText})
  BY <1>3, ThoseOfList DEF SplitTags
<1> HIDE DEF trimmed, split
<1>5. \A t \in ToSet(tags) : /\ (TrimSpace(t) = NoText) <=> (t.word = "")
                             /\ ToLower(TrimSpace(t)) = Text(t.word)
  BY Spelling DEF Texts
<1>6. {ToLower(t) : t \in ToSet(split)} \subseteq {Text(w) : w \in Words(tags)}
  BY <1>2, <1>4, <1>5 DEF Words
<1>7. ASSUME NEW w \in Words(tags) PROVE Text(w) \in {ToLower(t) : t \in ToSet(split)}
  <2>1. PICK t \in ToSet(tags) : t.word = w /\ w # ""
    BY DEF Words
  <2>2. TrimSpace(t) \in ToSet(split) /\ ToLower(TrimSpace(t)) = Text(w)
    BY <1>2, <1>4, <1>5, <2>1
  <2> QED  BY <2>2
<1>8. {ToLower(t) : t \in ToSet(split)} = {Text(w) : w \in Words(tags)}
  BY <1>6, <1>7
<1> QED  BY <1>8 DEF split

LEMMA TagsMatch ==
  ASSUME NEW tags, Texts(tags), options.requiredTags = {Text(w) : w \in Words(config.requiredTags)}
  PROVE  MatchesRequiredTags(SplitTags(tags)) <=> Words(config.requiredTags) \subseteq Words(tags)
<1>1. {ToLower(t) : t \in ToSet(SplitTags(tags))} = {Text(w) : w \in Words(tags)}
  BY TagsOfGuest
<1>2. MatchesRequiredTags(SplitTags(tags)) <=>
        {Text(w) : w \in Words(config.requiredTags)} \subseteq {Text(w) : w \in Words(tags)}
  BY <1>1 DEF MatchesRequiredTags
<1>3. ASSUME {Text(w) : w \in Words(config.requiredTags)} \subseteq {Text(w) : w \in Words(tags)},
             NEW v \in Words(config.requiredTags)
      PROVE  v \in Words(tags)
  <2>1. PICK w \in Words(tags) : Text(v) = Text(w)
    BY <1>3
  <2> QED  BY <2>1, SameWord
<1> QED  BY <1>2, <1>3

-----------------------------------------------------------------------------
(* Sorting *)

\* Guests that are described completely.
Comparable(S) ==
  /\ \A r \in S : r.node \in ToSet(NodeOrder) /\ r.type \in {"qemu", "lxc"} /\ r.id \in Nat
  /\ \A r, s \in S : r.id = s.id => r = s

LEMMA PlaceOf ==
  ASSUME NEW name \in ToSet(NodeOrder)
  PROVE  Place(name) \in Nat /\ NodeOrder[Place(name)] = name
<1>1. PICK i \in DOMAIN NodeOrder : NodeOrder[i] = name
  BY DEF ToSet
<1>2. Place(name) \in DOMAIN NodeOrder /\ NodeOrder[Place(name)] = name
  BY <1>1 DEF Place
<1>3. NodeOrder \in Seq(ToSet(NodeOrder))
  BY InventoryAssumption DEF IsList
<1>4. DOMAIN NodeOrder \subseteq Nat
  BY <1>3
<1> QED  BY <1>2, <1>4

\* One of the guests comes before all others.
LEMMA FirstOfAll ==
  ASSUME NEW S, Comparable(S), S # {}
  PROVE  \E m \in S : \A r \in S \ {m} : Before(m, r)
<1> DEFINE places == {Place(r.node) : r \in S}
<1>1. \A r \in S : Place(r.node) \in Nat /\ NodeOrder[Place(r.node)] = r.node
  BY PlaceOf DEF Comparable
<1>2. PICK p \in places : \A q \in places : p <= q
  <2>1. places \subseteq Nat /\ places # {}
    BY <1>1
  <2> HIDE DEF places
  <2> QED  BY <2>1, LeastNumber
<1>3. PICK o \in S : p = Place(o.node)
  BY <1>2
<1> DEFINE here == {r \in S : r.node = o.node}
           vms == {r \in here : r.type = "qemu"}
           some == IF vms = {} THEN here ELSE vms
           ids == {r.id : r \in some}
<1>4. some \subseteq here /\ some # {} /\ here \subseteq S
  BY <1>3
<1>5. PICK k \in ids : \A l \in ids : k <= l
  <2>1. ids \subseteq Nat /\ ids # {}
    BY <1>4 DEF Comparable
  <2> HIDE DEF ids
  <2> QED  BY <2>1, LeastNumber
<1>6. PICK m \in some : m.id = k
  BY <1>5
<1>7. m \in S /\ m.node = o.node
  BY <1>4, <1>6
<1>8. ASSUME NEW r \in S \ {m}  PROVE Before(m, r)
  <2>1. CASE r.node # m.node
    <3>1. Place(m.node) <= Place(r.node)
      BY <1>2, <1>3, <1>7
    <3>2. Place(m.node) # Place(r.node)
      BY <1>1, <1>7, <2>1
    <3> QED  BY <1>1, <1>7, <2>1, <3>1, <3>2 DEF Before
  <2>2. CASE r.node = m.node /\ r.type # m.type
    <3>1. r \in here
      BY <1>7, <2>2
    <3>2. m.type = "qemu"
      BY <1>4, <1>6, <1>7, <2>2, <3>1 DEF Comparable
    <3> QED  BY <2>2, <3>2 DEF Before
  <2>3. CASE r.node = m.node /\ r.type = m.type
    <3>1. r \in some
      BY <1>4, <1>6, <1>7, <2>3
    <3>2. k <= r.id
      BY <1>5, <3>1
    <3>3. r.id # m.id /\ r.id \in Nat /\ m.id \in Nat
      BY <1>7 DEF Comparable
    <3> QED  BY <1>6, <2>3, <3>2, <3>3 DEF Before
  <2> QED  BY <2>1, <2>2, <2>3
<1> QED  BY <1>7, <1>8

IsInOrder(s) == \A i, j \in DOMAIN s : i < j => Before(s[i], s[j])

LEMMA PutFirst ==
  ASSUME NEW S, NEW n \in Nat \ {0}, NEW m \in S, \A r \in S \ {m} : Before(m, r),
         NEW s \in [1 .. n - 1 -> S \ {m}], IsInOrder(s)
  PROVE  \E t \in [1 .. n -> S] : IsInOrder(t)
<1> DEFINE t == [i \in 1 .. n |-> IF i = 1 THEN m ELSE s[i - 1]]
<1>1. \A i \in 1 .. n : i # 1 => i - 1 \in 1 .. n - 1
  OBVIOUS
<1>2. t \in [1 .. n -> S]
  BY <1>1
<1>3. ASSUME NEW i \in 1 .. n, NEW j \in 1 .. n, i < j  PROVE Before(t[i], t[j])
  <2>1. j # 1 /\ t[j] = s[j - 1] /\ s[j - 1] \in S \ {m}
    BY <1>1, <1>3
  <2>2. CASE i = 1
    <3>1. t[i] = m
      BY <2>2
    <3> HIDE DEF t
    <3> QED  BY <2>1, <3>1
  <2>3. CASE i # 1
    <3>1. t[i] = s[i - 1] /\ i - 1 < j - 1
      BY <1>3, <2>3
    <3>2. i - 1 \in DOMAIN s /\ j - 1 \in DOMAIN s
      BY <1>1, <2>1, <2>3
    <3> HIDE DEF t
    <3> QED  BY <2>1, <3>1, <3>2 DEF IsInOrder
  <2> QED  BY <2>2, <2>3
<1> HIDE DEF t
<1>4. IsInOrder(t)
  BY <1>2, <1>3 DEF IsInOrder
<1> QED  BY <1>2, <1>4

LEMMA SomeSorted ==
  ASSUME NEW U, Comparable(U), NEW n \in Nat
  PROVE  \A S \in SUBSET U : IsFiniteSet(S) /\ Cardinality(S) = n =>
           \E s \in [1 .. n -> S] : IsInOrder(s)
<1> DEFINE Sorts(k) == \A S \in SUBSET U : IsFiniteSet(S) /\ Cardinality(S) = k =>
                         \E s \in [1 .. k -> S] : IsInOrder(s)
           T == {k \in 0 .. n : Sorts(k)}
<1>1. 0 \in T
  <2>1. ASSUME NEW S PROVE \E s \in [1 .. 0 -> S] : IsInOrder(s)
    <3> DEFINE s == [i \in 1 .. 0 |-> i]
    <3>1. s \in [1 .. 0 -> S] /\ IsInOrder(s)
      BY DEF IsInOrder
    <3> QED  BY <3>1
  <2> QED  BY <2>1
<1>2. ASSUME NEW k \in 1 .. n, k - 1 \in T  PROVE k \in T
  <2> SUFFICES ASSUME NEW S \in SUBSET U, IsFiniteSet(S), Cardinality(S) = k
               PROVE  \E s \in [1 .. k -> S] : IsInOrder(s)
    OBVIOUS
  <2>1. S # {} /\ Comparable(S)
    BY FS_EmptySet DEF Comparable
  <2>2. PICK m \in S : \A r \in S \ {m} : Before(m, r)
    BY <2>1, FirstOfAll
  <2>3. IsFiniteSet(S \ {m}) /\ Cardinality(S \ {m}) = k - 1
    BY FS_RemoveElement
  <2>4. Sorts(k - 1)
    BY <1>2
  <2>5. PICK s \in [1 .. k - 1 -> S \ {m}] : IsInOrder(s)
    BY <2>3, <2>4
  <2> HIDE DEF Sorts
  <2> QED  BY <2>2, <2>5, PutFirst
<1>3. n \in T
  <2> HIDE DEF T
  <2> QED  BY <1>1, <1>2, NumbersUpTo
<1> QED  BY <1>3

\* A sorted list has all of the set, each element once.
LEMMA SortedList ==
  ASSUME NEW S, Comparable(S), IsFiniteSet(S)
  PROVE  /\ Sorted(S) \in Seq(S) /\ ToSet(Sorted(S)) = S /\ IsInOrder(Sorted(S))
         /\ \A i, j \in DOMAIN Sorted(S) : Sorted(S)[i] = Sorted(S)[j] => i = j
<1> DEFINE n == Cardinality(S)
           s == Sorted(S)
<1>1. n \in Nat
  BY FS_CardinalityType
<1>2. \E t \in [1 .. n -> S] : IsInOrder(t)
  <2> HIDE DEF n
  <2>1. \A R \in SUBSET S : IsFiniteSet(R) /\ Cardinality(R) = n => \E t \in [1 .. n -> R] : IsInOrder(t)
    BY <1>1, SomeSorted
  <2> QED  BY <2>1 DEF n
<1>3. s \in [1 .. n -> S] /\ IsInOrder(s)
  BY <1>2 DEF Sorted, IsInOrder
<1> HIDE DEF n, s
<1>4. ASSUME NEW i \in DOMAIN s, NEW j \in DOMAIN s, s[i] = s[j]  PROVE i = j
  <2>1. s[i] \in S /\ s[i].id \in Nat /\ i \in Nat /\ j \in Nat
    BY <1>3 DEF Comparable
  <2>2. ~Before(s[i], s[i])
    BY <2>1 DEF Before
  <2>3. ~(i < j) /\ ~(j < i)
    BY <1>3, <1>4, <2>2 DEF IsInOrder
  <2> QED  BY <2>1, <2>3
<1>5. s \in Injection(1 .. n, S)
  BY <1>3, <1>4 DEF Injection, IsInjective
<1>6. Cardinality(1 .. n) = Cardinality(S)
  BY <1>1, FS_Interval DEF n
<1>7. s \in Surjection(1 .. n, S)
  BY <1>5, <1>6, FS_Injection
<1>8. ToSet(s) = S
  BY <1>3, <1>7 DEF Surjection, ToSet
<1>9. s \in Seq(S)
  BY <1>1, <1>3
<1> QED  BY <1>3, <1>4, <1>8, <1>9 DEF s

-----------------------------------------------------------------------------
(* What is given *)

LEMMA GuestsGiven ==
  ASSUME GivenOK
  PROVE  /\ IsList(cluster.guests)
         /\ \A i, j \in DOMAIN cluster.guests : cluster.guests[i].id = cluster.guests[j].id => i = j
         /\ \A g \in Guests : g.id \in Nat /\ g.node \in ToSet(NodeOrder) /\ Texts(g.tags)
         /\ \A g, h \in Guests : g.id = h.id => g = h
<1>1. \A i, j \in DOMAIN cluster.guests : cluster.guests[i].id = cluster.guests[j].id => i = j
  BY InventoryAssumption DEF GivenOK
<1>2. \A g \in Guests : g.id \in Nat /\ g.node \in ToSet(NodeOrder) /\ Texts(g.tags)
  BY InventoryAssumption DEF GivenOK, Guests, Texts
<1>3. \A g, h \in Guests : g.id = h.id => g = h
  BY <1>1 DEF Guests, ToSet
<1>4. IsList(cluster.guests)
  BY InventoryAssumption DEF GivenOK
<1> QED  BY <1>1, <1>2, <1>3, <1>4

LEMMA OptionsKnown ==
  ASSUME GivenOK, OptionsOK, pc \notin {"new", "rejected"}
  PROVE  /\ options.skipStopped = config.skipStopped
         /\ options.includedNodes = {Text(w) : w \in Words(config.nodes)}
         /\ options.requiredTags = {Text(w) : w \in Words(config.requiredTags)}
         /\ IsList(options.includedNodeNames) /\ IsInjective(options.includedNodeNames)
         /\ \A n \in ToSet(options.includedNodeNames) : n.word \in Words(config.nodes)
         /\ \A w \in Words(config.nodes) : \E n \in ToSet(options.includedNodeNames) : n.word = w
<1>1. /\ options.skipStopped = config.skipStopped
      /\ options.includedNodeNames = NodeNames(config.nodes)
      /\ options.includedNodes = Normalized(config.nodes)
      /\ options.requiredTags = Normalized(config.requiredTags)
  BY DEF OptionsOK, OptionsOf
<1>2. Texts(config.nodes) /\ Texts(config.requiredTags)
  BY InventoryAssumption DEF GivenOK, Texts
<1>3. /\ options.includedNodes = {Text(w) : w \in Words(config.nodes)}
      /\ options.requiredTags = {Text(w) : w \in Words(config.requiredTags)}
  BY <1>1, <1>2, NormalizedWords
<1>4. /\ IsList(options.includedNodeNames) /\ IsInjective(options.includedNodeNames)
      /\ \A n \in ToSet(options.includedNodeNames) : n.word \in Words(config.nodes)
      /\ \A w \in Words(config.nodes) : \E n \in ToSet(options.includedNodeNames) : n.word = w
  BY <1>1, <1>2, NodeNamesNormalized
<1> QED  BY <1>1, <1>3, <1>4

\* The filters take the guests that are wanted.
LEMMA IncludedIsWanted ==
  ASSUME GivenOK, OptionsOK, pc \notin {"new", "rejected"}, NEW g \in Guests
  PROVE  /\ IncludedNode(Text(g.node)) /\ IncludeResource(g) <=> Wanted(g)
         /\ Wanted(g) => IncludeResource(g)
         /\ IncludeResource(g) /\ (options.includedNodes # {} => g.node \in Words(config.nodes)) => Wanted(g)
<1>1. /\ options.skipStopped = config.skipStopped
      /\ options.includedNodes = {Text(w) : w \in Words(config.nodes)}
      /\ options.requiredTags = {Text(w) : w \in Words(config.requiredTags)}
  BY OptionsKnown
<1>2. IncludeResource(g) <=>
        /\ config.skipStopped => g.status = "running"
        /\ Words(config.requiredTags) \subseteq Words(g.tags)
  BY <1>1, GuestsGiven, TagsMatch DEF IncludeResource
<1>3. ToLower(TrimSpace(Text(g.node))) = Text(g.node)
  <2>1. IsText(Text(g.node)) /\ Text(g.node).word = g.node
    BY DEF IsText, Text
  <2> QED  BY <2>1, Spelling
<1>4. Text(g.node) \in options.includedNodes <=> g.node \in Words(config.nodes)
  BY <1>1, SameWord
<1>5. options.includedNodes = {} <=> Words(config.nodes) = {}
  BY <1>1
<1>6. IncludedNode(Text(g.node)) <=> (Words(config.nodes) # {} => g.node \in Words(config.nodes))
  BY <1>3, <1>4, <1>5 DEF IncludedNode
<1> QED  BY <1>2, <1>5, <1>6 DEF Wanted

-----------------------------------------------------------------------------
(* The batches *)

\* The entries of guests that are wanted, each once.
AreEntries(b) ==
  /\ IsList(b)
  /\ \A i \in DOMAIN b :
       /\ b[i].resource \in Guests /\ Wanted(b[i].resource)
       /\ b[i] = Entry(Kind(b[i].resource.type), Text(b[i].resource.node), b[i].resource)
  /\ \A i, j \in DOMAIN b : b[i].resource.id = b[j].resource.id => i = j

LEMMA NoEntries == ASSUME NEW b, b = <<>> PROVE AreEntries(b) /\ DOMAIN b = {}
<1>1. b \in Seq(ToSet(b)) /\ DOMAIN b = {}
  <2>1. b \in Seq(ToSet(b))
    BY EmptySeq
  <2> QED  BY <2>1
<1> QED  BY <1>1 DEF AreEntries, IsList

LEMMA SeqIsList ==
  ASSUME NEW S, NEW s \in Seq(S)
  PROVE  IsList(s)
<1>1. DOMAIN s = 1 .. Len(s) /\ Len(s) \in Nat
  OBVIOUS
<1>2. s = [i \in 1 .. Len(s) |-> s[i]]
  OBVIOUS
<1>3. \A i \in 1 .. Len(s) : s[i] \in ToSet(s)
  BY <1>1 DEF ToSet
<1>4. s \in [1 .. Len(s) -> ToSet(s)]
  BY <1>2, <1>3
<1> QED  BY <1>1, <1>4 DEF IsList

LEMMA ListOf ==
  ASSUME NEW s, IsList(s)
  PROVE  DOMAIN s = 1 .. Len(s) /\ Len(s) \in Nat /\ (s = <<>> <=> Len(s) = 0)
BY DEF IsList

LEMMA MappedList ==
  ASSUME NEW s, IsList(s), NEW f, f = [i \in DOMAIN s |-> f[i]]
  PROVE  IsList(f) /\ Len(f) = Len(s) /\ DOMAIN f = DOMAIN s
<1>1. DOMAIN s = 1 .. Len(s) /\ Len(s) \in Nat
  BY ListOf
<1>2. f \in [1 .. Len(s) -> ToSet(f)]
  BY <1>1 DEF ToSet
<1> QED  BY <1>1, <1>2 DEF IsList

LEMMA UsableIsComparable ==
  ASSUME NEW resources, IsList(resources), Usable(resources), GivenOK, ToSet(resources) \subseteq Guests
  PROVE  Comparable(ToSet(resources))
<1>1. \A r \in ToSet(resources) : Kind(r.type) # ""
  BY DEF Usable, ToSet
<1>2. \A r \in ToSet(resources) : r.type \in {"qemu", "lxc"}
  BY <1>1 DEF Kind
<1> QED  BY <1>2, GuestsGiven DEF Comparable

LEMMA ListedSet ==
  ASSUME NEW s, IsList(s)
  PROVE  IsFiniteSet(ToSet(s))
<1>1. DOMAIN s = 1 .. Len(s) /\ Len(s) \in Nat
  BY ListOf
<1>2. s \in Surjection(1 .. Len(s), ToSet(s))
  BY <1>1 DEF Surjection, ToSet, IsList
<1>3. IsFiniteSet(1 .. Len(s))
  BY <1>1, FS_Interval
<1> QED  BY <1>2, <1>3, FS_Surjection

\* The guests of a usable cluster listing.
LEMMA ClusterBatchIs ==
  ASSUME GivenOK, OptionsOK, pc \notin {"new", "rejected"},
         NEW resources, IsList(resources), Usable(resources), ToSet(resources) \subseteq Guests,
         NEW b, b = ClusterBatch(resources)
  PROVE  /\ AreEntries(b)
         /\ \A g \in ToSet(resources) : Wanted(g) => \E i \in DOMAIN b : b[i].resource = g
         /\ \A i, j \in DOMAIN b : i < j => Before(b[i].resource, b[j].resource)
         /\ \A i \in DOMAIN b : b[i].resource \in ToSet(resources)
<1> DEFINE S == {r \in ToSet(resources) : IncludedNode(Text(r.node)) /\ IncludeResource(r)}
           s == Sorted(S)
<1>1. S \subseteq ToSet(resources) /\ \A r \in ToSet(resources) : r \in S <=> Wanted(r)
  BY IncludedIsWanted
<1>2. b = [i \in DOMAIN s |-> Entry(Kind(s[i].type), Text(s[i].node), s[i])]
  BY DEF ClusterBatch
<1>3. Comparable(S) /\ IsFiniteSet(S)
  <2>1. Comparable(ToSet(resources)) /\ IsFiniteSet(ToSet(resources))
    BY UsableIsComparable, ListedSet
  <2> HIDE DEF S
  <2> QED  BY <1>1, <2>1, FS_Subset DEF Comparable
<1> HIDE DEF S
<1>4. /\ s \in Seq(S) /\ ToSet(s) = S /\ IsInOrder(s)
      /\ \A i, j \in DOMAIN s : s[i] = s[j] => i = j
  BY <1>3, SortedList
<1> HIDE DEF s
<1>5. IsList(s)
  BY <1>4 DEF IsList
<1>6. DOMAIN b = DOMAIN s /\ \A i \in DOMAIN s : b[i] = Entry(Kind(s[i].type), Text(s[i].node), s[i])
  BY <1>2
<1>7. \A i \in DOMAIN s : b[i].resource = s[i] /\ s[i] \in S
  BY <1>4, <1>6 DEF Entry
<1>8. IsList(b)
  BY <1>2, <1>5, <1>6, MappedList
<1>9. \A i \in DOMAIN b : b[i].resource \in Guests /\ Wanted(b[i].resource)
  BY <1>1, <1>6, <1>7
<1>10. ASSUME NEW i \in DOMAIN b, NEW j \in DOMAIN b, b[i].resource.id = b[j].resource.id  PROVE i = j
  <2>1. s[i] = s[j]
    BY <1>6, <1>7, <1>9, <1>10, GuestsGiven
  <2> QED  BY <1>4, <1>6, <2>1
<1>11. AreEntries(b)
  <2>1. \A i \in DOMAIN b : b[i] = Entry(Kind(b[i].resource.type), Text(b[i].resource.node), b[i].resource)
    BY <1>6, <1>7
  <2> QED  BY <1>8, <1>9, <1>10, <2>1 DEF AreEntries
<1>12. \A g \in ToSet(resources) : Wanted(g) => \E i \in DOMAIN b : b[i].resource = g
  BY <1>1, <1>4, <1>6, <1>7 DEF ToSet
<1>13. \A i, j \in DOMAIN b : i < j => Before(b[i].resource, b[j].resource)
  BY <1>4, <1>6, <1>7 DEF IsInOrder
<1> QED  BY <1>1, <1>6, <1>7, <1>11, <1>12, <1>13

\* The guests of a kind on a node.
LEMMA NodeBatchIs ==
  ASSUME GivenOK, OptionsOK, pc \notin {"new", "rejected"}, NEW node, NEW kind,
         options.includedNodes # {} => node.word \in Words(config.nodes),
         NEW b, b = NodeBatch(kind, node, GuestsOn(node, kind))
  PROVE  /\ AreEntries(b)
         /\ \A g \in Guests : Wanted(g) /\ Text(g.node) = node /\ Kind(g.type) = kind =>
              \E i \in DOMAIN b : b[i].resource = g
         /\ \A i \in DOMAIN b : b[i].node = node /\ b[i].kind = kind
<1> DEFINE on == {g \in Guests : Text(g.node) = node /\ Kind(g.type) = kind}
           listed == GuestsOn(node, kind)
           wanted == {r \in ToSet(listed) : IncludeResource(r)}
           s == Those(listed, wanted)
<1>1. listed = Those(cluster.guests, on) /\ IsList(cluster.guests)
  BY GuestsGiven DEF GuestsOn, Guests
<1>2. listed \in Seq(on) /\ ToSet(listed) = on
  <2>1. ToSet(cluster.guests) \cap on = on
    BY DEF Guests
  <2> HIDE DEF on, listed
  <2> QED  BY <1>1, <2>1, ThoseOfList
<1>3. PICK place \in [DOMAIN listed -> DOMAIN cluster.guests] :
        /\ \A i \in DOMAIN listed : listed[i] = cluster.guests[place[i]]
        /\ \A i, j \in DOMAIN listed : place[i] = place[j] => i = j
  <2> HIDE DEF on, listed
  <2> QED  BY <1>1, ThoseInPlace
<1>4. \A i, j \in DOMAIN listed : listed[i].id = listed[j].id => i = j
  <2> HIDE DEF on, listed
  <2> QED  BY <1>3, GuestsGiven
<1>5. b = [i \in DOMAIN s |-> Entry(kind, node, s[i])]
  BY DEF NodeBatch
<1> HIDE DEF listed
<1>6. IsList(listed)
  BY <1>2 DEF IsList
<1>7. s \in Seq(wanted) /\ ToSet(s) = wanted
  <2>1. ToSet(listed) \cap wanted = wanted
    OBVIOUS
  <2> HIDE DEF wanted
  <2> QED  BY <1>6, <2>1, ThoseOfList
<1>8. PICK at \in [DOMAIN s -> DOMAIN listed] :
        /\ \A i \in DOMAIN s : s[i] = listed[at[i]]
        /\ \A i, j \in DOMAIN s : at[i] = at[j] => i = j
  <2> HIDE DEF wanted
  <2> QED  BY <1>6, ThoseInPlace
<1>9. \A g \in wanted : g \in Guests /\ Wanted(g) /\ Text(g.node) = node /\ Kind(g.type) = kind
  <2> SUFFICES ASSUME NEW g \in wanted
               PROVE  g \in Guests /\ Wanted(g) /\ Text(g.node) = node /\ Kind(g.type) = kind
    OBVIOUS
  <2>1. g \in on /\ IncludeResource(g)
    BY <1>2
  <2>2. node.word = g.node
    BY <2>1 DEF Text
  <2> QED  BY <2>1, <2>2, IncludedIsWanted
<1>10. \A g \in Guests : Wanted(g) /\ Text(g.node) = node /\ Kind(g.type) = kind => g \in wanted
  BY <1>2, IncludedIsWanted
<1> HIDE DEF s, wanted, on
<1>11. IsList(s)
  BY <1>7 DEF IsList
<1>12. DOMAIN b = DOMAIN s /\ \A i \in DOMAIN s : b[i] = Entry(kind, node, s[i])
  BY <1>5
<1>13. \A i \in DOMAIN s : /\ b[i].resource = s[i] /\ s[i] \in wanted
                           /\ b[i].node = node /\ b[i].kind = kind
  BY <1>7, <1>12 DEF Entry
<1>14. IsList(b)
  BY <1>5, <1>11, <1>12, MappedList
<1>15. \A i, j \in DOMAIN b : b[i].resource.id = b[j].resource.id => i = j
  BY <1>4, <1>8, <1>12, <1>13
<1>16. \A i \in DOMAIN b :
         /\ b[i].resource \in Guests /\ Wanted(b[i].resource)
         /\ b[i] = Entry(Kind(b[i].resource.type), Text(b[i].resource.node), b[i].resource)
  BY <1>9, <1>12, <1>13
<1>17. AreEntries(b)
  BY <1>14, <1>15, <1>16 DEF AreEntries
<1>18. \A g \in Guests : Wanted(g) /\ Text(g.node) = node /\ Kind(g.type) = kind =>
         \E i \in DOMAIN b : b[i].resource = g
  BY <1>7, <1>10, <1>12, <1>13 DEF ToSet
<1> QED  BY <1>12, <1>13, <1>17, <1>18

\* The nodes that are listed online.
LEMMA NodesOnlineAre ==
  ASSUME GivenOK, NEW o, o = NodesOnline
  PROVE  /\ IsList(o) /\ IsInjective(o)
         /\ \A i \in DOMAIN cluster.nodes :
              cluster.nodes[i].status \in {"", "online"} /\ IncludedNode(Text(cluster.nodes[i].name)) =>
                Text(cluster.nodes[i].name) \in ToSet(o)
<1> DEFINE up == {n \in ToSet(cluster.nodes) : n.status \in {"", "online"} /\ IncludedNode(Text(n.name))}
           s == Those(cluster.nodes, up)
<1>1. /\ IsList(cluster.nodes)
      /\ \A i, j \in DOMAIN cluster.nodes : cluster.nodes[i].name = cluster.nodes[j].name => i = j
  BY InventoryAssumption DEF GivenOK
<1>2. o = [i \in DOMAIN s |-> Text(s[i].name)]
  BY DEF NodesOnline
<1>3. \A i \in DOMAIN cluster.nodes :
        cluster.nodes[i].status \in {"", "online"} /\ IncludedNode(Text(cluster.nodes[i].name)) =>
          cluster.nodes[i] \in up \cap ToSet(cluster.nodes)
  BY DEF ToSet
<1> HIDE DEF up
<1>4. s \in Seq(up) /\ ToSet(s) = ToSet(cluster.nodes) \cap up
  BY <1>1, ThoseOfList
<1>5. PICK place \in [DOMAIN s -> DOMAIN cluster.nodes] :
        /\ \A i \in DOMAIN s : s[i] = cluster.nodes[place[i]]
        /\ \A i, j \in DOMAIN s : place[i] = place[j] => i = j
  BY <1>1, ThoseInPlace
<1> HIDE DEF s
<1>6. IsList(s)
  BY <1>4, SeqIsList
<1>7. IsList(o) /\ DOMAIN o = DOMAIN s
  BY <1>2, <1>6, MappedList
<1>8. ASSUME NEW i \in DOMAIN o, NEW j \in DOMAIN o, o[i] = o[j]  PROVE i = j
  <2>1. s[i].name = s[j].name
    BY <1>2, <1>7, <1>8, SameWord
  <2> QED  BY <1>1, <1>5, <1>7, <2>1
<1>9. \A n \in up \cap ToSet(cluster.nodes) : Text(n.name) \in ToSet(o)
  BY <1>2, <1>4, <1>7 DEF ToSet
<1>10. IsInjective(o)
  BY <1>8 DEF IsInjective
<1> QED  BY <1>3, <1>7, <1>9, <1>10

-----------------------------------------------------------------------------
(* What a guest is in the snapshot *)

IsScanned(w, g, outcome) ==
  /\ w.id = g.id /\ w.kind = Kind(g.type) /\ w.node = Text(g.node)
  /\ \/ outcome = "error" /\ w.problem /\ w.notes = ""
     \/ outcome = "none"
     \/ w.notes = g.config.notes /\ w.name \in OwnNames(g)

LEMMA ScannedIs ==
  ASSUME NEW g, NEW e, e = Entry(Kind(g.type), Text(g.node), g),
         NEW outcome \in {"error", "none", "data"}, NEW w, w = Scanned(e, outcome)
  PROVE  IsScanned(w, g, outcome)
<1> DEFINE b == BaseWorkload(e)
<1>1. b = [kind |-> Kind(g.type), node |-> Text(g.node), id |-> g.id, name |-> g.name,
           status |-> g.status, tags |-> SplitTags(g.tags), notes |-> "", problem |-> FALSE]
  BY DEF BaseWorkload, Entry
<1> HIDE DEF b
<1>2. CASE outcome = "error"
  <2>1. w = [b EXCEPT !.problem = TRUE]
    BY <1>2 DEF Scanned, b
  <2> QED  BY <1>1, <1>2, <2>1 DEF IsScanned
<1>3. CASE outcome = "none"
  <2>1. w = ApplyConfig(b, NoConfig)
    BY <1>3 DEF Scanned, b
  <2>2. w.id = b.id /\ w.kind = b.kind /\ w.node = b.node
    BY <1>1, <2>1 DEF ApplyConfig
  <2> QED  BY <1>1, <1>3, <2>2 DEF IsScanned
<1>4. CASE outcome = "data"
  <2>1. w = ApplyConfig(b, g.config)
    BY <1>4 DEF Scanned, b, Entry
  <2>2. w.id = b.id /\ w.kind = b.kind /\ w.node = b.node /\ w.notes = g.config.notes
    BY <1>1, <2>1 DEF ApplyConfig
  <2>3. w.name = IF g.config.name # "" THEN g.config.name
                 ELSE IF g.config.hostname # "" THEN g.config.hostname ELSE b.name
    BY <1>1, <2>1 DEF ApplyConfig
  <2>4. b.name = g.name
    BY <1>1
  <2>5. w.name \in OwnNames(g)
    BY <2>3, <2>4 DEF OwnNames
  <2> QED  BY <1>1, <2>2, <2>5 DEF IsScanned
<1> QED  BY <1>2, <1>3, <1>4

\* A list followed by another one.
IsJoined(u, s, t) ==
  /\ IsList(u) /\ Len(u) = Len(s) + Len(t)
  /\ \A i \in DOMAIN u : \/ i \in DOMAIN s /\ u[i] = s[i]
                         \/ /\ i \notin DOMAIN s /\ i - Len(s) \in DOMAIN t
                            /\ u[i] = t[i - Len(s)]
  /\ \A i \in DOMAIN s : i \in DOMAIN u /\ u[i] = s[i]
  /\ \A i \in DOMAIN t : i + Len(s) \in DOMAIN u /\ u[i + Len(s)] = t[i]

LEMMA Joined ==
  ASSUME NEW s, IsList(s), NEW t, IsList(t), NEW u, u = s \o t
  PROVE  IsJoined(u, s, t)
<1> DEFINE S == ToSet(s) \cup ToSet(t)
<1>1. s \in Seq(S) /\ t \in Seq(S)
  BY DEF IsList
<1> HIDE DEF S
<1>2. /\ u \in Seq(S) /\ Len(u) = Len(s) + Len(t)
      /\ \A i \in 1 .. Len(u) : u[i] = IF i <= Len(s) THEN s[i] ELSE t[i - Len(s)]
  BY <1>1
<1>3. /\ DOMAIN s = 1 .. Len(s) /\ DOMAIN t = 1 .. Len(t) /\ DOMAIN u = 1 .. Len(s) + Len(t)
      /\ Len(s) \in Nat /\ Len(t) \in Nat
  BY <1>1, <1>2
<1>4. IsList(u)
  BY <1>2, SeqIsList
<1>5. \A i \in DOMAIN u : \/ i \in DOMAIN s /\ u[i] = s[i]
                          \/ i \notin DOMAIN s /\ i - Len(s) \in DOMAIN t /\ u[i] = t[i - Len(s)]
  BY <1>2, <1>3
<1>6. \A i \in DOMAIN s : i \in DOMAIN u /\ u[i] = s[i]
  BY <1>2, <1>3
<1>7. ASSUME NEW i \in DOMAIN t
      PROVE  i + Len(s) \in DOMAIN u /\ u[i + Len(s)] = t[i]
  <2>1. i + Len(s) \in 1 .. Len(u) /\ ~(i + Len(s) <= Len(s)) /\ (i + Len(s)) - Len(s) = i
    BY <1>2, <1>3
  <2> QED  BY <1>2, <1>3, <2>1
<1> QED  BY <1>2, <1>4, <1>5, <1>6, <1>7 DEF IsJoined

-----------------------------------------------------------------------------
(* What is still to be listed *)

LEMMA QueueListed ==
  ASSUME QueueOK
  PROVE  DOMAIN queue = 1 .. Len(queue) /\ Len(queue) \in Nat
BY ListOf DEF QueueOK

LEMMA TailOfQueue ==
  ASSUME QueueOK, queue # <<>>, queue' = Tail(queue)
  PROVE  /\ DOMAIN queue' = 1 .. Len(queue) - 1 /\ IsList(queue') /\ Len(queue) \in Nat \ {0}
         /\ \A i \in DOMAIN queue' : i + 1 \in DOMAIN queue /\ queue'[i] = queue[i + 1]
         /\ Head(queue) = queue[1] /\ 1 \in DOMAIN queue
         /\ queue' = <<>> <=> Len(queue) = 1
<1>1. queue \in Seq(ToSet(queue))
  BY DEF QueueOK, IsList
<1>2. DOMAIN queue = 1 .. Len(queue) /\ Len(queue) \in Nat \ {0}
  BY <1>1
<1>3. /\ queue' \in Seq(ToSet(queue)) /\ Len(queue') = Len(queue) - 1
      /\ \A i \in 1 .. Len(queue) - 1 : queue'[i] = queue[i + 1]
  BY <1>1, <1>2
<1>4. DOMAIN queue' = 1 .. Len(queue) - 1
  BY <1>3
<1>5. IsList(queue')
  BY <1>3, SeqIsList
<1>6. \A i \in DOMAIN queue' : i + 1 \in DOMAIN queue /\ queue'[i] = queue[i + 1]
  BY <1>2, <1>3, <1>4
<1>7. queue' = <<>> <=> Len(queue) = 1
  BY <1>2, <1>3
<1>8. Head(queue) = queue[1] /\ 1 \in DOMAIN queue
  BY <1>2
<1> QED  BY <1>2, <1>4, <1>5, <1>6, <1>7, <1>8

LEMMA StillQueueOK ==
  ASSUME QueueOK, UNCHANGED <<config, options>>, queue # <<>>,
         queue' = queue \/ queue' = Tail(queue)
  PROVE  QueueOK'
<1>1. CASE queue' = queue
  BY <1>1 DEF QueueOK, Words
<1>2. CASE queue' = Tail(queue)
  <2>1. IsList(queue') /\ DOMAIN queue' = 1 .. Len(queue) - 1 /\ Len(queue) \in Nat
    BY <1>2, TailOfQueue
  <2>2. \A i \in DOMAIN queue' : i + 1 \in DOMAIN queue /\ queue'[i] = queue[i + 1]
    BY <1>2, TailOfQueue
  <2>3. IsInjective(queue')
    <3> SUFFICES ASSUME NEW i \in DOMAIN queue', NEW j \in DOMAIN queue', queue'[i] = queue'[j]
                 PROVE  i = j
      BY DEF IsInjective
    <3>1. i + 1 = j + 1
      BY <2>2 DEF QueueOK, IsInjective
    <3> QED  BY <2>1, <3>1
  <2> QED  BY <2>1, <2>2, <2>3 DEF QueueOK, Words
<1> QED  BY <1>1, <1>2

\* After a node, the nodes behind it are to come.
LEMMA TailToCome ==
  ASSUME QueueOK, queue # <<>>, NextNode
  PROVE  \A n, k : ToCome(n, k)' <=> \E i \in DOMAIN queue : queue[i] = n /\ i > 1
<1>1. queue' = Tail(queue) /\ pc' = IF queue' = <<>> THEN "done" ELSE "vms"
  BY DEF NextNode
<1>2. /\ DOMAIN queue' = 1 .. Len(queue) - 1 /\ Len(queue) \in Nat \ {0}
      /\ \A i \in DOMAIN queue' : i + 1 \in DOMAIN queue /\ queue'[i] = queue[i + 1]
      /\ queue' = <<>> <=> Len(queue) = 1
      /\ DOMAIN queue = 1 .. Len(queue)
  BY <1>1, TailOfQueue, QueueListed
<1>3. ASSUME NEW n, NEW k, ToCome(n, k)'
      PROVE  \E i \in DOMAIN queue : queue[i] = n /\ i > 1
  <2>1. PICK i \in DOMAIN queue' : queue'[i] = n
    BY <1>3 DEF ToCome
  <2>2. i + 1 \in DOMAIN queue /\ queue[i + 1] = n /\ i + 1 > 1
    BY <1>2, <2>1
  <2> QED  BY <2>2
<1>4. ASSUME NEW n, NEW k, NEW i \in DOMAIN queue, queue[i] = n, i > 1
      PROVE  ToCome(n, k)'
  <2>1. i - 1 \in DOMAIN queue' /\ queue'[i - 1] = n
    BY <1>2, <1>4
  <2>2. pc' = "vms"
    BY <1>1, <1>2, <1>4
  <2> QED  BY <2>1, <2>2 DEF ToCome
<1> QED  BY <1>3, <1>4

\* The listing of a kind on the current node: what was to come is to come,
\* save those guests.
Listed(kind) ==
  \/ kind = "vm" /\ pc = "vms" /\ queue' = queue /\ pc' \in {"vmconfigs", "containers"}
  \/ kind = "container" /\ pc = "containers" /\ queue' = queue /\ pc' = "ctconfigs"
  \/ kind = "container" /\ pc = "containers" /\ NextNode

LEMMA ListedToCome ==
  ASSUME QueueOK, queue # <<>>, NEW kind, Listed(kind)
  PROVE  /\ \A n, k : ToCome(n, k)' => ToCome(n, k)
         /\ \A n : \A k \in {"vm", "container"} :
              ToCome(n, k) => ToCome(n, k)' \/ (n = Head(queue) /\ k = kind)
         /\ ToCome(Head(queue), kind)
         /\ \A n : n = Head(queue) => ~ToCome(n, kind)'
<1>1. /\ DOMAIN queue = 1 .. Len(queue) /\ Len(queue) \in Nat \ {0}
      /\ Head(queue) = queue[1] /\ 1 \in DOMAIN queue
  <2>1. queue \in Seq(ToSet(queue))
    BY DEF QueueOK, IsList
  <2> QED  BY <2>1
<1>2. \A i, j \in DOMAIN queue : queue[i] = queue[j] => i = j
  BY DEF QueueOK, IsInjective
<1>3. CASE kind = "vm" /\ pc = "vms" /\ queue' = queue /\ pc' \in {"vmconfigs", "containers"}
  <2>1. \A n, k : ToCome(n, k) <=> \E i \in DOMAIN queue : queue[i] = n
    BY <1>3 DEF ToCome
  <2>2. \A n, k : ToCome(n, k)' <=> \E i \in DOMAIN queue : queue[i] = n /\ (i > 1 \/ k = "container")
    BY <1>3 DEF ToCome
  <2>3. ~\E i \in DOMAIN queue : queue[i] = Head(queue) /\ i > 1
    BY <1>1, <1>2
  <2>4. \A i \in DOMAIN queue : i > 1 \/ queue[i] = Head(queue)
    BY <1>1
  <2> QED  BY <1>1, <1>3, <2>1, <2>2, <2>3, <2>4
<1>4. CASE kind = "container" /\ pc = "containers" /\ queue' = queue /\ pc' = "ctconfigs"
  <2>1. \A n, k : ToCome(n, k) <=> \E i \in DOMAIN queue : queue[i] = n /\ (i > 1 \/ k = "container")
    BY <1>4 DEF ToCome
  <2>2. \A n, k : ToCome(n, k)' <=> \E i \in DOMAIN queue : queue[i] = n /\ i > 1
    BY <1>4 DEF ToCome
  <2>3. ~\E i \in DOMAIN queue : queue[i] = Head(queue) /\ i > 1
    BY <1>1, <1>2
  <2>4. \A i \in DOMAIN queue : i > 1 \/ queue[i] = Head(queue)
    BY <1>1
  <2> QED  BY <1>1, <1>4, <2>1, <2>2, <2>3, <2>4
<1>5. CASE kind = "container" /\ pc = "containers" /\ NextNode
  <2>1. \A n, k : ToCome(n, k) <=> \E i \in DOMAIN queue : queue[i] = n /\ (i > 1 \/ k = "container")
    BY <1>5 DEF ToCome
  <2>2. \A n, k : ToCome(n, k)' <=> \E i \in DOMAIN queue : queue[i] = n /\ i > 1
    BY <1>5, TailToCome
  <2>3. ~\E i \in DOMAIN queue : queue[i] = Head(queue) /\ i > 1
    BY <1>1, <1>2
  <2>4. \A i \in DOMAIN queue : i > 1 \/ queue[i] = Head(queue)
    BY <1>1
  <2>5. \A n, k : ToCome(n, k)' => ToCome(n, k)
    BY <2>1, <2>2
  <2>6. \A n : \A k \in {"vm", "container"} :
          ToCome(n, k) => ToCome(n, k)' \/ (n = Head(queue) /\ k = kind)
    <3> SUFFICES ASSUME NEW n, NEW k \in {"vm", "container"}, ToCome(n, k), ~ToCome(n, k)'
                 PROVE  n = Head(queue) /\ k = kind
      OBVIOUS
    <3>1. PICK i \in DOMAIN queue : queue[i] = n /\ (i > 1 \/ k = "container")
      BY <2>1
    <3>2. ~(i > 1)
      BY <2>2, <3>1
    <3> QED  BY <1>5, <2>4, <3>1, <3>2
  <2>7. ToCome(Head(queue), kind)
    BY <1>1, <1>5, <2>1
  <2>8. \A n : n = Head(queue) => ~ToCome(n, kind)'
    BY <2>2, <2>3
  <2> QED  BY <2>5, <2>6, <2>7, <2>8
<1> QED  BY <1>3, <1>4, <1>5 DEF Listed

-----------------------------------------------------------------------------
(* The steps of a scan *)

LEMMA NoQueueNext == ASSUME queue' = <<>> PROVE QueueOK' /\ \A n, k : ~ToCome(n, k)'
<1>1. queue' \in Seq({}) /\ DOMAIN queue' = {}
  <2>1. queue' \in Seq({})
    BY EmptySeq
  <2> QED  BY <2>1
<1>2. IsList(queue')
  BY <1>1, SeqIsList
<1>3. QueueOK'
  BY <1>1, <1>2 DEF QueueOK, IsInjective
<1> QED  BY <1>1, <1>3 DEF ToCome

LEMMA NoBatchNext == ASSUME batch' = <<>> PROVE BatchOK' /\ DOMAIN batch' = {}
<1>1. batch' \in Seq({}) /\ DOMAIN batch' = {}
  <2>1. batch' \in Seq({})
    BY EmptySeq
  <2> QED  BY <2>1
<1>2. IsList(batch')
  BY <1>1, SeqIsList
<1> QED  BY <1>1, <1>2 DEF BatchOK

LEMMA NoWorkloadsNext ==
  ASSUME workloads' = <<>>
  PROVE  /\ WorkloadsOK'
         /\ \A i \in 2 .. Len(workloads') : FALSE
<1>1. workloads' \in Seq({}) /\ DOMAIN workloads' = {} /\ Len(workloads') = 0
  <2>1. workloads' \in Seq({})
    BY EmptySeq
  <2> QED  BY <2>1
<1>2. IsList(workloads')
  BY <1>1, SeqIsList
<1> QED  BY <1>1, <1>2 DEF WorkloadsOK

LEMMA WantedStays ==
  ASSUME UNCHANGED input
  PROVE  Guests' = Guests /\ \A g : Wanted(g)' <=> Wanted(g)
BY DEF input, Guests, Wanted, Words

\* What is known of a guest stays known.
LEMMA KnownStays ==
  ASSUME UNCHANGED <<input, options>>, silent \subseteq silent'
  PROVE  /\ \A w, g : IsOf(w, g) => IsOf(w, g)'
         /\ path' = path => \A g : Unseen(g) => Unseen(g)'
<1>1. config' = config /\ cluster' = cluster /\ options' = options
  BY DEF input
<1>2. \A w, g : IsOf(w, g) => IsOf(w, g)'
  BY <1>1, WantedStays DEF IsOf, Shows
<1>3. path' = path => \A g : Unseen(g) => Unseen(g)'
  BY <1>1 DEF Unseen
<1> QED  BY <1>2, <1>3

LEMMA CalledIsKnown ==
  ASSUME NEW q, NEW o, Called(q, o)
  PROVE  /\ silent \subseteq silent' /\ hung' = FALSE
         /\ o = "none" => q \in silent'
         /\ o = "data" => Served(q)
BY DEF Called, Outcomes

LEMMA GivenStays ==
  ASSUME GivenOK, OptionsOK, pc \notin {"new", "rejected"}, UNCHANGED <<input, options>>
  PROVE  GivenOK' /\ OptionsOK'
BY DEF GivenOK, OptionsOK, input

LEMMA NewKeeps == ASSUME IInv, New PROVE IInv'
<1>1. pc = "new" /\ batch = <<>> /\ queue = <<>> /\ workloads = <<>> /\ ~hung
  BY DEF New, IInv, PhasesOK, Batches, NodePhases, Scanning
<1>2. /\ batch' = <<>> /\ queue' = <<>> /\ workloads' = <<>> /\ ~hung'
      /\ pc' \in {"cluster", "rejected"} /\ UNCHANGED input
      /\ pc' = "cluster" => Accepted(config) /\ options' = OptionsOf(config)
  BY <1>1 DEF New, snapshot
<1>3. GivenOK' /\ OptionsOK'
  BY <1>2 DEF IInv, GivenOK, OptionsOK, input
<1>4. PhasesOK'
  BY <1>2 DEF PhasesOK, Scanning, NodePhases
<1>5. QueueOK' /\ BatchOK' /\ WorkloadsOK'
  BY <1>2, NoQueueNext, NoBatchNext, NoWorkloadsNext
<1>6. NoneMissing'
  BY <1>2 DEF NoneMissing, NodePhases
<1>7. OrderOK'
  BY <1>2, NoWorkloadsNext DEF OrderOK
<1> QED  BY <1>3, <1>4, <1>5, <1>6, <1>7 DEF IInv

LEMMA SameKeeps ==
  ASSUME IInv, UNCHANGED <<input, pc, options, queue, batch, snapshot, path, silent>>,
         hung' => pc \in Scanning
  PROVE  IInv'
<1>1. /\ config' = config /\ cluster' = cluster /\ options' = options /\ pc' = pc
      /\ queue' = queue /\ batch' = batch /\ workloads' = workloads /\ problems' = problems
      /\ path' = path /\ silent' = silent
  BY DEF input, snapshot
<1>2. /\ \A g : Wanted(g)' <=> Wanted(g)
      /\ \A n, k : ToCome(n, k)' <=> ToCome(n, k)
      /\ \A w, g : IsOf(w, g) => IsOf(w, g)'
      /\ \A g : Unseen(g) => Unseen(g)'
      /\ Guests' = Guests
  BY <1>1, WantedStays, KnownStays DEF ToCome, input
<1>3. GivenOK' /\ OptionsOK' /\ PhasesOK'
  BY <1>1 DEF IInv, GivenOK, OptionsOK, PhasesOK
<1>4. QueueOK'
  BY <1>1 DEF IInv, QueueOK, Words
<1>5. BatchOK'
  BY <1>1, <1>2 DEF IInv, BatchOK
<1>6. WorkloadsOK'
  BY <1>1, <1>2 DEF IInv, WorkloadsOK
<1>7. NoneMissing'
  <2> SUFFICES ASSUME pc \in NodePhases \cup {"configs", "done"}, NEW g \in Guests,
                      Wanted(g), Kind(g.type) # ""
               PROVE  InSnapshot(g)' \/ InBatch(g)' \/ HasProblem(g)' \/ IsToCome(g)' \/ Unseen(g)'
    BY <1>1, <1>2 DEF NoneMissing
  <2>1. InSnapshot(g) \/ InBatch(g) \/ HasProblem(g) \/ IsToCome(g) \/ Unseen(g)
    BY DEF IInv, NoneMissing
  <2>2. InSnapshot(g) => InSnapshot(g)'
    BY <1>1 DEF InSnapshot, Shows
  <2>3. InBatch(g) => InBatch(g)'
    BY <1>1 DEF InBatch
  <2>4. HasProblem(g) => HasProblem(g)'
    BY <1>1 DEF HasProblem
  <2>5. IsToCome(g) => IsToCome(g)'
    BY <1>1, <1>2 DEF IsToCome
  <2> QED  BY <1>2, <2>1, <2>2, <2>3, <2>4, <2>5
<1>8. OrderOK'
  BY <1>1 DEF IInv, OrderOK, Follows
<1> QED  BY <1>3, <1>4, <1>5, <1>6, <1>7, <1>8 DEF IInv

\* A listing that can be used has all the guests, or came with no data.
LEMMA ListedClusterKeeps ==
  ASSUME IInv, pc = "cluster", UNCHANGED <<input, options, snapshot>>, NEW o \in {"error", "none", "data"},
         Called(Request("cluster", NoText, 0), o), o # "error",
         NEW resources, resources = IF o = "data" THEN cluster.guests ELSE <<>>,
         Usable(resources), batch' = ClusterBatch(resources),
         path' = "cluster", pc' = "configs", UNCHANGED queue
  PROVE  IInv'
<1>1. queue = <<>> /\ workloads = <<>>
  BY DEF IInv, PhasesOK, NodePhases
<1>2. queue' = <<>> /\ workloads' = <<>> /\ config' = config /\ cluster' = cluster /\ options' = options
  BY <1>1 DEF snapshot, input
<1>3. GivenOK /\ OptionsOK /\ pc \notin {"new", "rejected"}
  BY DEF IInv
<1>4. GivenOK' /\ OptionsOK'
  BY <1>3, GivenStays
<1>5. /\ silent \subseteq silent' /\ hung' = FALSE
      /\ o = "none" => Request("cluster", NoText, 0) \in silent'
      /\ o = "data" => Served(Request("cluster", NoText, 0))
  BY CalledIsKnown
<1>6. IsList(resources) /\ ToSet(resources) \subseteq Guests
  <2>1. CASE o = "data"
    BY <1>3, <2>1, GuestsGiven DEF Guests
  <2>2. CASE o # "data"
    <3>1. resources = <<>>
      BY <2>2
    <3>2. resources \in Seq({}) /\ DOMAIN resources = {}
      <4>1. resources \in Seq({})
        BY <3>1, EmptySeq
      <4> QED  BY <3>1, <4>1
    <3> QED  BY <3>2, SeqIsList DEF ToSet
  <2> QED  BY <2>1, <2>2
<1> DEFINE b == ClusterBatch(resources)
<1>7. /\ AreEntries(b)
      /\ \A g \in ToSet(resources) : Wanted(g) => \E i \in DOMAIN b : b[i].resource = g
      /\ \A i, j \in DOMAIN b : i < j => Before(b[i].resource, b[j].resource)
      /\ \A i \in DOMAIN b : b[i].resource \in ToSet(resources)
  BY <1>3, <1>6, ClusterBatchIs
<1>8. batch' = b
  OBVIOUS
<1> HIDE DEF b
<1>9. DOMAIN b = 1 .. Len(b) /\ Len(b) \in Nat /\ (b = <<>> <=> Len(b) = 0) /\ IsList(b)
  BY <1>7, ListOf DEF AreEntries
<1>10. b # <<>> => options.path = cluster.path
  <2> SUFFICES ASSUME b # <<>> PROVE options.path = cluster.path
    OBVIOUS
  <2>1. 1 \in DOMAIN b
    BY <1>9
  <2>2. resources # <<>>
    BY <1>7, <2>1 DEF ToSet
  <2>3. Served(Request("cluster", NoText, 0))
    BY <1>5, <2>2
  <2> QED  BY <2>3 DEF Served, Request
<1>11. \A i \in DOMAIN b : Kind(b[i].resource.type) # ""
  <2>1. \A r \in ToSet(resources) : Kind(r.type) # ""
    BY DEF Usable, ToSet
  <2> QED  BY <1>7, <2>1
<1>12. PhasesOK'
  BY <1>2, <1>5 DEF PhasesOK, Scanning, NodePhases, Batches
<1>13. QueueOK' /\ WorkloadsOK' /\ \A n, k : ~ToCome(n, k)'
  BY <1>2, NoQueueNext, NoWorkloadsNext
<1>14. BatchOK'
  <2>1. ASSUME NEW i \in DOMAIN b
        PROVE  LET e == b[i] g == e.resource IN
               /\ g \in Guests /\ Wanted(g)
               /\ e = Entry(Kind(g.type), Text(g.node), g)
               /\ e.kind # ""
    <3>1. b[i] = Entry(Kind(b[i].resource.type), Text(b[i].resource.node), b[i].resource)
      BY <1>7 DEF AreEntries
    <3>2. b[i].kind = Kind(b[i].resource.type)
      BY <3>1 DEF Entry
    <3> QED  BY <1>7, <1>11, <3>1, <3>2 DEF AreEntries
  <2>2. \A i, j \in DOMAIN b : b[i].resource.id = b[j].resource.id => i = j
    BY <1>7 DEF AreEntries
  <2> QED  BY <1>2, <1>8, <1>9, <1>10, <1>13, <2>1, <2>2, WantedStays DEF BatchOK
<1>15. NoneMissing'
  <2> SUFFICES ASSUME NEW g \in Guests, Wanted(g) PROVE InBatch(g)' \/ Unseen(g)'
    BY WantedStays DEF NoneMissing
  <2>1. CASE o = "data"
    <3>1. g \in ToSet(resources)
      BY <2>1 DEF Guests
    <3> QED  BY <1>7, <1>8, <3>1 DEF InBatch
  <2>2. CASE o = "none"
    <3>1. Request("cluster", NoText, 0).what = "cluster"
      BY DEF Request
    <3> QED  BY <1>5, <2>2, <3>1 DEF Unseen
  <2> QED  BY <2>1, <2>2
<1>16. OrderOK'
  <2>1. ASSUME NEW i \in 2 .. Len(b) PROVE Before(b[i - 1].resource, b[i].resource)
    <3>1. i - 1 \in DOMAIN b /\ i \in DOMAIN b /\ i - 1 < i
      BY <1>9
    <3> QED  BY <1>7, <3>1
  <2> QED  BY <1>2, <1>8, <2>1, NoWorkloadsNext DEF OrderOK
<1> QED  BY <1>4, <1>12, <1>13, <1>14, <1>15, <1>16 DEF IInv

\* The nodes of the configuration are those whose guests are wanted.
LEMMA ToNodesKeeps ==
  ASSUME IInv, pc = "cluster", UNCHANGED <<input, options, snapshot>>,
         silent \subseteq silent', hung' = FALSE, ToNodes
  PROVE  IInv'
<1>1. batch = <<>> /\ workloads = <<>>
  BY DEF IInv, PhasesOK, Batches
<1>2. /\ batch' = <<>> /\ workloads' = <<>> /\ config' = config /\ options' = options
      /\ path' = "nodes" /\ queue' = options.includedNodeNames
      /\ pc' = IF queue' = <<>> THEN "nodes" ELSE "vms"
  BY <1>1 DEF ToNodes, snapshot, input
<1>3. GivenOK /\ OptionsOK /\ pc \notin {"new", "rejected"}
  BY DEF IInv
<1>4. GivenOK' /\ OptionsOK'
  BY <1>3, GivenStays
<1>5. /\ options.includedNodes = {Text(w) : w \in Words(config.nodes)}
      /\ IsList(queue') /\ IsInjective(queue')
      /\ \A n \in ToSet(queue') : n.word \in Words(config.nodes)
      /\ \A w \in Words(config.nodes) : \E n \in ToSet(queue') : n.word = w
  BY <1>2, <1>3, OptionsKnown
<1>6. queue' = <<>> => options.includedNodes = {}
  <2>1. queue' = <<>> => ToSet(queue') = {}
    BY DEF ToSet
  <2> QED  BY <1>5, <2>1
<1>7. PhasesOK'
  BY <1>2, <1>6 DEF PhasesOK, Scanning, NodePhases
<1>8. QueueOK'
  <2>1. \A i \in DOMAIN queue' : queue'[i].word \in Words(config.nodes)
    BY <1>5 DEF ToSet
  <2>2. Words(config.nodes)' = Words(config.nodes)
    BY <1>2
  <2> QED  BY <1>2, <1>5, <2>1, <2>2 DEF QueueOK
<1>9. BatchOK' /\ WorkloadsOK'
  BY <1>2, NoBatchNext, NoWorkloadsNext
<1>10. NoneMissing'
  <2> SUFFICES ASSUME pc' = "vms", NEW g \in Guests, Wanted(g) PROVE IsToCome(g)'
    BY <1>2, WantedStays DEF NoneMissing, NodePhases
  <2>1. queue' # <<>> /\ DOMAIN queue' = 1 .. Len(queue') /\ Len(queue') \in Nat
        /\ (queue' = <<>> <=> Len(queue') = 0)
    BY <1>2, <1>5, ListOf
  <2>2. queue'[1] \in ToSet(queue')
    BY <2>1 DEF ToSet
  <2>3. g.node \in Words(config.nodes)
    BY <1>5, <2>2 DEF Wanted
  <2>4. PICK n \in ToSet(queue') : n.word = g.node
    BY <1>5, <2>3
  <2>5. ToCome(n, Kind(g.type))'
    BY <2>4 DEF ToCome, ToSet
  <2> QED  BY <2>4, <2>5 DEF IsToCome
<1>11. OrderOK'
  BY <1>2, NoWorkloadsNext DEF OrderOK
<1> QED  BY <1>4, <1>7, <1>8, <1>9, <1>10, <1>11 DEF IInv

LEMMA ListClusterKeeps == ASSUME IInv, ListCluster PROVE IInv'
<1>1. pc = "cluster" /\ UNCHANGED <<input, options, snapshot>>
  BY DEF ListCluster
<1>2. PICK o \in {"error", "none", "data"} :
        LET resources == IF o = "data" THEN cluster.guests ELSE <<>> IN
        /\ Called(Request("cluster", NoText, 0), o)
        /\ IF o # "error" /\ Usable(resources)
           THEN /\ batch' = ClusterBatch(resources)
                /\ path' = "cluster"
                /\ pc' = "configs"
                /\ UNCHANGED queue
           ELSE ToNodes
  BY DEF ListCluster
<1>3. silent \subseteq silent' /\ hung' = FALSE
  BY <1>2, CalledIsKnown
<1> QED  BY <1>1, <1>2, <1>3, ListedClusterKeeps, ToNodesKeeps

LEMMA ListNodesKeeps == ASSUME IInv, ListNodes PROVE IInv'
<1>1. pc = "nodes" /\ UNCHANGED <<input, options, batch, snapshot, path>>
  BY DEF ListNodes
<1>2. PICK o \in {"error", "none", "data"} :
        /\ Called(Request("nodes", NoText, 0), o)
        /\ queue' = IF o = "data" THEN NodesOnline ELSE <<>>
        /\ pc' = IF o = "error" THEN "failed" ELSE IF queue' = <<>> THEN "done" ELSE "vms"
  BY DEF ListNodes
<1>3. /\ batch = <<>> /\ workloads = <<>> /\ path = "nodes" /\ options.includedNodes = {}
      /\ GivenOK /\ OptionsOK /\ pc \notin {"new", "rejected"}
  BY <1>1 DEF IInv, PhasesOK, Batches, NodePhases
<1>4. /\ batch' = <<>> /\ workloads' = <<>> /\ path' = "nodes"
      /\ config' = config /\ cluster' = cluster /\ options' = options
  BY <1>1, <1>3 DEF snapshot, input
<1>5. /\ silent \subseteq silent' /\ hung' = FALSE
      /\ o = "none" => Request("nodes", NoText, 0) \in silent'
  BY <1>2, CalledIsKnown
<1>6. GivenOK' /\ OptionsOK'
  BY <1>1, <1>3, GivenStays
<1>7. PhasesOK'
  <2>1. o = "error" => queue' = <<>>
    BY <1>2
  <2> QED  BY <1>2, <1>4, <1>5, <2>1 DEF PhasesOK, Scanning, NodePhases
<1>8. QueueOK'
  <2>1. CASE o = "data"
    <3>1. IsList(queue') /\ IsInjective(queue')
      BY <1>2, <1>3, <2>1, NodesOnlineAre
    <3> QED  BY <1>3, <1>4, <3>1 DEF QueueOK
  <2>2. CASE o # "data"
    BY <1>2, <2>2, NoQueueNext
  <2> QED  BY <2>1, <2>2
<1>9. BatchOK' /\ WorkloadsOK'
  BY <1>4, NoBatchNext, NoWorkloadsNext
<1>10. NoneMissing'
  <2> SUFFICES ASSUME pc' # "failed", NEW g \in Guests, Wanted(g) PROVE IsToCome(g)' \/ Unseen(g)'
    BY <1>1, WantedStays DEF NoneMissing, NodePhases
  <2>1. CASE o = "none"
    <3>1. Request("nodes", NoText, 0).what = "nodes"
      BY DEF Request
    <3> QED  BY <1>5, <2>1, <3>1 DEF Unseen
  <2>2. CASE o = "data"
    <3>1. CASE \E i \in DOMAIN cluster.nodes :
                 cluster.nodes[i].name = g.node /\ cluster.nodes[i].status \in {"", "online"}
      <4>1. IncludedNode(Text(g.node))
        BY <1>3 DEF IncludedNode
      <4>2. Text(g.node) \in ToSet(queue')
        BY <1>2, <1>3, <2>2, <3>1, <4>1, NodesOnlineAre
      <4>3. queue' # <<>>
        <5>1. queue' = <<>> => ToSet(queue') = {}
          BY DEF ToSet
        <5> QED  BY <4>2, <5>1
      <4>4. pc' = "vms"
        BY <1>2, <2>2, <4>3
      <4>5. PICK n \in ToSet(queue') : n = Text(g.node)
        BY <4>2
      <4>6. n.word = g.node
        BY <4>5 DEF Text
      <4>7. ToCome(n, Kind(g.type))'
        BY <4>4 DEF ToCome, ToSet
      <4> QED  BY <4>6, <4>7 DEF IsToCome
    <3>2. CASE ~\E i \in DOMAIN cluster.nodes :
                 cluster.nodes[i].name = g.node /\ cluster.nodes[i].status \in {"", "online"}
      BY <1>3, <1>4, <3>2 DEF Unseen
    <3> QED  BY <3>1, <3>2
  <2>3. o # "error"
    BY <1>2
  <2> QED  BY <2>1, <2>2, <2>3
<1>11. OrderOK'
  BY <1>2, <1>4, NoWorkloadsNext DEF OrderOK
<1> QED  BY <1>6, <1>7, <1>8, <1>9, <1>10, <1>11 DEF IInv

\* Both listings of a node, whether they succeed or not.
LEMMA ListGuestsKeeps ==
  ASSUME IInv, NEW kind, ListGuests(kind),
         \/ kind = "vm" /\ pc = "vms"
         \/ kind = "container" /\ pc = "containers"
  PROVE  IInv'
<1>1. PICK o \in {"error", "none", "data"} :
        /\ Called(Request(kind, Head(queue), 0), o)
        /\ IF o = "error"
           THEN /\ problems' = problems \cup {[node |-> Head(queue), kind |-> kind, id |-> 0]}
                /\ IF kind = "vm" THEN pc' = "containers" /\ UNCHANGED queue ELSE NextNode
                /\ UNCHANGED batch
           ELSE /\ batch' = IF o = "none" THEN <<>>
                            ELSE NodeBatch(kind, Head(queue), GuestsOn(Head(queue), kind))
                /\ pc' = IF kind = "vm" THEN "vmconfigs" ELSE "ctconfigs"
                /\ UNCHANGED <<problems, queue>>
        /\ UNCHANGED <<input, options, workloads, canceled, path>>
  BY DEF ListGuests
<1>2. /\ batch = <<>> /\ queue # <<>> /\ path = "nodes" /\ kind \in {"vm", "container"}
      /\ GivenOK /\ OptionsOK /\ pc \notin {"new", "rejected"} /\ pc \in NodePhases
      /\ QueueOK /\ WorkloadsOK
  BY DEF IInv, PhasesOK, Batches, NodePhases
<1>3. /\ config' = config /\ cluster' = cluster /\ options' = options /\ workloads' = workloads
      /\ path' = "nodes" /\ UNCHANGED <<input, options>>
  BY <1>1, <1>2 DEF input
<1>4. /\ silent \subseteq silent' /\ hung' = FALSE
      /\ o = "none" => Request(kind, Head(queue), 0) \in silent'
      /\ o = "data" => Served(Request(kind, Head(queue), 0))
  BY <1>1, CalledIsKnown
<1>5. Listed(kind)
  BY <1>1, <1>2 DEF Listed
<1> DEFINE head == Head(queue)
<1>6. /\ \A n, k : ToCome(n, k)' => ToCome(n, k)
      /\ \A n : \A k \in {"vm", "container"} : ToCome(n, k) => ToCome(n, k)' \/ (n = head /\ k = kind)
      /\ ToCome(head, kind)
      /\ \A n : n = head => ~ToCome(n, kind)'
  BY <1>2, <1>5, ListedToCome
<1>7. GivenOK' /\ OptionsOK'
  BY <1>2, <1>3, GivenStays
<1>8. queue' = queue \/ (queue' = Tail(queue) /\ pc' = IF queue' = <<>> THEN "done" ELSE "vms")
  BY <1>1 DEF NextNode
<1>9. QueueOK'
  BY <1>2, <1>3, <1>8, StillQueueOK
<1>10. head = queue[1] /\ 1 \in DOMAIN queue
  <2>1. queue \in Seq(ToSet(queue))
    BY <1>2 DEF QueueOK, IsList
  <2> QED  BY <1>2, <2>1
<1>11. options.includedNodes # {} => head.word \in Words(config.nodes)
  BY <1>2, <1>10 DEF QueueOK
<1>12. PhasesOK'
  <2>1. CASE o = "error"
    <3>1. batch' = <<>> /\ (\/ pc' = "containers" /\ queue' = queue
                            \/ queue' = <<>> /\ pc' = "done"
                            \/ queue' # <<>> /\ pc' = "vms")
      BY <1>1, <1>2, <2>1 DEF NextNode
    <3> QED  BY <1>2, <1>3, <1>4, <3>1 DEF PhasesOK, Scanning, NodePhases
  <2>2. CASE o # "error"
    <3>1. queue' = queue /\ pc' \in {"vmconfigs", "ctconfigs"}
      BY <1>1, <1>2, <2>2
    <3> QED  BY <1>2, <1>3, <1>4, <3>1 DEF PhasesOK, Scanning, NodePhases, Batches
  <2> QED  BY <2>1, <2>2
<1>13. /\ AreEntries(batch')
       /\ o = "data" => \A g \in Guests : Wanted(g) /\ Text(g.node) = head /\ Kind(g.type) = kind =>
                          \E i \in DOMAIN batch' : batch'[i].resource = g
       /\ \A i \in DOMAIN batch' : batch'[i].node = head /\ batch'[i].kind = kind
       /\ o # "data" => batch' = <<>> /\ DOMAIN batch' = {}
  <2>1. CASE o = "data"
    <3>1. batch' = NodeBatch(kind, head, GuestsOn(head, kind))
      BY <1>1, <2>1
    <3> QED  BY <1>2, <1>11, <2>1, <3>1, NodeBatchIs
  <2>2. CASE o # "data"
    <3>1. batch' = <<>>
      BY <1>1, <1>2, <2>2
    <3>2. AreEntries(batch') /\ DOMAIN batch' = {}
      BY <3>1, NoEntries
    <3> QED  BY <2>2, <3>1, <3>2
  <2> QED  BY <2>1, <2>2
<1>14. BatchOK'
  <2>1. batch' # <<>> => options.path = cluster.path
    BY <1>4, <1>13 DEF Served, Request
  <2>2. ASSUME NEW i \in DOMAIN batch'
        PROVE  LET e == batch'[i] g == e.resource IN
               /\ g \in Guests /\ Wanted(g)
               /\ e = Entry(Kind(g.type), Text(g.node), g)
               /\ e.kind # ""
    BY <1>2, <1>13 DEF AreEntries
  <2>3. \A i \in DOMAIN batch' : \A n, k :
          n = batch'[i].node /\ k = batch'[i].kind => ~ToCome(n, k)'
    BY <1>6, <1>13
  <2> QED  BY <1>3, <1>13, <2>1, <2>2, <2>3, WantedStays DEF BatchOK, AreEntries
<1>15. WorkloadsOK'
  <2>1. \A i \in DOMAIN workloads : \E g \in Guests : IsOf(workloads[i], g)'
    BY <1>2, <1>3, <1>4, KnownStays DEF WorkloadsOK
  <2>2. ASSUME NEW i \in DOMAIN workloads, NEW j \in DOMAIN batch',
               workloads[i].id = batch'[j].resource.id
        PROVE  FALSE
    <3>1. PICK g \in Guests : IsOf(workloads[i], g)
      BY <1>2 DEF WorkloadsOK
    <3>2. workloads[i].id = g.id /\ workloads[i].kind = Kind(g.type) /\ workloads[i].node = Text(g.node)
      BY <3>1 DEF IsOf, Shows
    <3>3. batch'[j].resource \in Guests
      BY <1>13 DEF AreEntries
    <3>4. g = batch'[j].resource
      BY <1>2, <2>2, <3>2, <3>3, GuestsGiven
    <3>5. /\ batch'[j] = Entry(Kind(g.type), Text(g.node), g)
          /\ batch'[j].node = head /\ batch'[j].kind = kind
      BY <1>13, <3>4 DEF AreEntries
    <3>6. workloads[i].node = head /\ workloads[i].kind = kind
      BY <3>2, <3>5 DEF Entry
    <3> QED  BY <1>2, <1>6, <3>6 DEF WorkloadsOK
  <2>3. \A i \in DOMAIN workloads : \A n, k :
          n = workloads[i].node /\ k = workloads[i].kind => ~ToCome(n, k)'
    BY <1>2, <1>6 DEF WorkloadsOK
  <2>4. Guests' = Guests
    BY <1>3, WantedStays
  <2> QED  BY <1>2, <1>3, <2>1, <2>2, <2>3, <2>4 DEF WorkloadsOK
<1>16. NoneMissing'
  <2> SUFFICES ASSUME NEW g \in Guests, Wanted(g), Kind(g.type) # ""
               PROVE  InSnapshot(g)' \/ InBatch(g)' \/ HasProblem(g)' \/ IsToCome(g)' \/ Unseen(g)'
    BY <1>3, WantedStays DEF NoneMissing
  <2>1. InSnapshot(g) \/ InBatch(g) \/ HasProblem(g) \/ IsToCome(g) \/ Unseen(g)
    BY <1>2 DEF IInv, NoneMissing
  <2>2. InSnapshot(g) => InSnapshot(g)'
    BY <1>3 DEF InSnapshot, Shows
  <2>3. ~InBatch(g)
    BY <1>2, NoEntries DEF InBatch
  <2>4. HasProblem(g) => HasProblem(g)'
    <3>1. problems \subseteq problems'
      BY <1>1
    <3> QED  BY <3>1 DEF HasProblem
  <2>5. Unseen(g) => Unseen(g)'
    BY <1>2, <1>3, <1>4, KnownStays
  <2>6. ASSUME IsToCome(g) PROVE InBatch(g)' \/ HasProblem(g)' \/ IsToCome(g)' \/ Unseen(g)'
    <3>1. PICK n \in ToSet(queue) : n.word = g.node /\ ToCome(n, Kind(g.type))
      BY <2>6 DEF IsToCome
    <3>2. Kind(g.type) \in {"vm", "container"}
      BY DEF Kind
    <3>3. CASE ToCome(n, Kind(g.type))'
      <4>1. n \in ToSet(queue')
        BY <3>3 DEF ToCome, ToSet
      <4> QED  BY <3>1, <3>3, <4>1 DEF IsToCome
    <3>4. CASE n = head /\ Kind(g.type) = kind
      <4>1. CASE o = "error"
        <5> DEFINE p == [node |-> head, kind |-> kind, id |-> 0]
        <5>1. p \in problems' /\ p.node.word = g.node /\ p.kind = Kind(g.type)
          BY <1>1, <3>1, <3>4, <4>1
        <5> QED  BY <5>1 DEF HasProblem
      <4>2. CASE o = "none"
        <5> DEFINE q == Request(kind, head, 0)
        <5>1. q \in silent' /\ q.what = Kind(g.type) /\ q.node.word = g.node
          BY <1>4, <3>1, <3>4, <4>2 DEF Request
        <5> QED  BY <5>1 DEF Unseen
      <4>3. CASE o = "data"
        <5>1. Up(head)
          <6>1. Served(Request(kind, head, 0))
            BY <1>4, <4>3
          <6>2. Request(kind, head, 0).what = kind /\ Request(kind, head, 0).node = head
            BY DEF Request
          <6> QED  BY <1>2, <6>1, <6>2 DEF Served
        <5>2. head = Text(g.node)
          <6>1. PICK i \in DOMAIN cluster.nodes : Text(cluster.nodes[i].name) = head
            BY <5>1 DEF Up
          <6>2. Text(cluster.nodes[i].name).word = cluster.nodes[i].name
            BY DEF Text
          <6>3. n = Text(cluster.nodes[i].name) /\ n.word = cluster.nodes[i].name
            BY <3>4, <6>1, <6>2
          <6>4. cluster.nodes[i].name = g.node
            BY <3>1, <6>3
          <6> QED  BY <3>4, <6>3, <6>4
        <5>3. \E i \in DOMAIN batch' : batch'[i].resource = g
          BY <1>13, <3>4, <4>3, <5>2
        <5> QED  BY <5>3 DEF InBatch
      <4> QED  BY <4>1, <4>2, <4>3
    <3> QED  BY <1>6, <3>1, <3>2, <3>3, <3>4
  <2> QED  BY <2>1, <2>2, <2>3, <2>4, <2>5, <2>6
<1>17. OrderOK'
  <2>1. CASE o = "error"
    BY <1>1, <1>3, <2>1 DEF OrderOK, NextNode
  <2>2. CASE o # "error"
    BY <1>1, <1>3, <2>2 DEF OrderOK
  <2> QED  BY <2>1, <2>2
<1> QED  BY <1>7, <1>9, <1>12, <1>14, <1>15, <1>16, <1>17 DEF IInv

LEMMA WordOf == ASSUME NEW w PROVE Text(w).word = w
BY DEF Text

LEMMA EntryOf ==
  ASSUME NEW k, NEW n, NEW r
  PROVE  Entry(k, n, r).kind = k /\ Entry(k, n, r).node = n /\ Entry(k, n, r).resource = r
BY DEF Entry

HasKind(w) == w.kind # ""

\* The sorted guests, in the order the snapshot of a cluster listing has.
LEMMA BeforeFollows ==
  ASSUME NEW g \in Guests, NEW h \in Guests, Before(g, h), NEW v, NEW w,
         v.id = g.id, v.kind = Kind(g.type), v.node = Text(g.node), HasKind(v),
         w.id = h.id, w.kind = Kind(h.type), w.node = Text(h.node), HasKind(w)
  PROVE  Follows(v, w)
<1>1. v.node.word = g.node /\ w.node.word = h.node
  BY WordOf
<1>2. CASE g.node # h.node
  BY <1>1, <1>2 DEF Before, Follows
<1>3. CASE g.node = h.node /\ g.type # h.type
  <2>1. g.type = "qemu" /\ h.type = "lxc"
    BY <1>3 DEF Before, Kind, HasKind
  <2>2. v.kind = "vm" /\ w.kind = "container"
    BY <2>1 DEF Kind
  <2> QED  BY <1>3, <2>2 DEF Follows
<1>4. CASE g.node = h.node /\ g.type = h.type
  BY <1>4 DEF Before, Follows
<1> QED  BY <1>2, <1>3, <1>4

\* What is to come is still to come when a batch is done.
LEMMA DoneToCome ==
  ASSUME PhasesOK, QueueOK, pc \in Batches,
         pc = "configs" => pc' = "done" /\ UNCHANGED queue,
         pc = "vmconfigs" => pc' = "containers" /\ UNCHANGED queue,
         pc = "ctconfigs" => NextNode
  PROVE  \A n, k : ToCome(n, k)' <=> ToCome(n, k)
<1>1. CASE pc = "configs"
  <2>1. queue' = <<>> /\ queue = <<>>
    BY <1>1 DEF PhasesOK, NodePhases
  <2>2. DOMAIN queue = {}
    BY <2>1, NoEntries
  <2> QED  BY <2>1, <2>2 DEF ToCome
<1>2. CASE pc = "vmconfigs"
  BY <1>2 DEF ToCome
<1>3. CASE pc = "ctconfigs"
  <2>1. queue # <<>> /\ NextNode
    BY <1>3 DEF PhasesOK, NodePhases
  <2>2. \A n, k : ToCome(n, k)' <=> \E i \in DOMAIN queue : queue[i] = n /\ i > 1
    BY <2>1, TailToCome
  <2>3. \A n, k : ToCome(n, k) <=> \E i \in DOMAIN queue : queue[i] = n /\ i > 1
    BY <1>3 DEF ToCome
  <2> QED  BY <2>2, <2>3
<1> QED  BY <1>1, <1>2, <1>3 DEF Batches

LEMMA ScanWorkloadsKeeps == ASSUME IInv, ScanWorkloads PROVE IInv'
<1>1. PICK outcomes \in [DOMAIN batch -> {"error", "none", "data"}] :
        /\ workloads' = workloads \o [i \in DOMAIN batch |-> Scanned(batch[i], outcomes[i])]
        /\ silent' = silent \cup {ConfigRequest(batch[i]) : i \in {j \in DOMAIN batch : outcomes[j] = "none"}}
  BY DEF ScanWorkloads
<1>2. /\ pc \in Batches /\ hung' = FALSE /\ batch' = <<>>
      /\ UNCHANGED <<input, options, problems, canceled, path>>
  BY DEF ScanWorkloads
<1>3. /\ pc = "configs" => pc' = "done" /\ UNCHANGED queue
      /\ pc = "vmconfigs" => pc' = "containers" /\ UNCHANGED queue
      /\ pc = "ctconfigs" => NextNode
  BY DEF ScanWorkloads
<1>4. /\ GivenOK /\ OptionsOK /\ PhasesOK /\ QueueOK /\ BatchOK /\ WorkloadsOK
      /\ pc \notin {"new", "rejected"} /\ silent \subseteq silent'
      /\ config' = config /\ cluster' = cluster /\ options' = options
      /\ problems' = problems /\ path' = path
  BY <1>1, <1>2 DEF IInv, Batches, input
<1>5. \A n, k : ToCome(n, k)' <=> ToCome(n, k)
  BY <1>2, <1>3, <1>4, DoneToCome
<1> DEFINE f == [i \in DOMAIN batch |-> Scanned(batch[i], outcomes[i])]
<1>6. IsList(batch) /\ IsList(workloads)
  BY <1>4 DEF BatchOK, WorkloadsOK
<1>7. workloads' = workloads \o f
  BY <1>1
<1>8. f = [i \in DOMAIN batch |-> f[i]]
  OBVIOUS
<1>9. ASSUME NEW j \in DOMAIN batch, NEW g, g = batch[j].resource, NEW w, w = f[j]
      PROVE  /\ g \in Guests /\ IsOf(w, g)'
             /\ w.id = g.id /\ w.kind = Kind(g.type) /\ w.node = Text(g.node)
             /\ w.node = batch[j].node /\ w.kind = batch[j].kind
  <2>1. /\ g \in Guests /\ Wanted(g)
        /\ batch[j] = Entry(Kind(g.type), Text(g.node), g)
    BY <1>4, <1>9 DEF BatchOK
  <2>2. w = Scanned(batch[j], outcomes[j]) /\ outcomes[j] \in {"error", "none", "data"}
    BY <1>9
  <2>3. batch[j].resource = g
    BY <1>9
  <2> HIDE DEF f
  <2>4. IsScanned(w, g, outcomes[j])
    BY <2>1, <2>2, ScannedIs
  <2>5. w.id = g.id /\ w.kind = Kind(g.type) /\ w.node = Text(g.node)
    BY <2>4 DEF IsScanned
  <2>6. batch[j].node = w.node /\ batch[j].kind = w.kind /\ batch[j].resource = g
    BY <2>1, <2>3, <2>5, EntryOf
  <2>7. w.node.word = g.node
    BY <2>5, WordOf
  <2>8. outcomes[j] = "none" =>
          [base |-> cluster.path, what |-> "config", node |-> w.node, id |-> w.id] \in silent'
    <3> SUFFICES ASSUME outcomes[j] = "none"
                 PROVE  [base |-> cluster.path, what |-> "config", node |-> w.node, id |-> w.id] \in silent'
      OBVIOUS
    <3>1. batch # <<>>
      BY NoEntries
    <3>2. options.path = cluster.path
      BY <1>4, <3>1 DEF BatchOK
    <3>3. ConfigRequest(batch[j]) = [base |-> cluster.path, what |-> "config", node |-> w.node, id |-> w.id]
      BY <2>5, <2>6, <3>2 DEF ConfigRequest, Request
    <3>4. ConfigRequest(batch[j]) \in silent'
      BY <1>1
    <3> QED  BY <3>3, <3>4
  <2>9. Shows(w, g) /\ Wanted(g)'
    BY <1>2, <2>1, <2>5, <2>7, WantedStays DEF Shows
  <2>10. IsOf(w, g)'
    BY <1>4, <2>4, <2>5, <2>8, <2>9 DEF IsOf, Shows, IsScanned
  <2> QED  BY <2>1, <2>5, <2>6, <2>10
<1> HIDE DEF f
<1>10. IsList(f) /\ DOMAIN f = DOMAIN batch /\ Len(f) = Len(batch)
  BY <1>6, <1>8, MappedList
<1>11. \A j \in DOMAIN f :
         /\ f[j].id = batch[j].resource.id /\ f[j].node = batch[j].node /\ f[j].kind = batch[j].kind
         /\ f[j].kind = Kind(batch[j].resource.type) /\ f[j].node = Text(batch[j].resource.node)
         /\ batch[j].resource \in Guests
  <2> SUFFICES ASSUME NEW j \in DOMAIN batch
               PROVE  /\ f[j].id = batch[j].resource.id /\ f[j].node = batch[j].node
                      /\ f[j].kind = batch[j].kind /\ f[j].kind = Kind(batch[j].resource.type)
                      /\ f[j].node = Text(batch[j].resource.node)
                      /\ batch[j].resource \in Guests
    BY <1>10
  <2>1. PICK g, w : g = batch[j].resource /\ w = f[j]
    OBVIOUS
  <2> QED  BY <1>9, <2>1
<1>12. /\ IsList(workloads') /\ Len(workloads') = Len(workloads) + Len(f)
       /\ \A i \in DOMAIN workloads' :
            \/ i \in DOMAIN workloads /\ workloads'[i] = workloads[i]
            \/ /\ i \notin DOMAIN workloads /\ i - Len(workloads) \in DOMAIN f
               /\ workloads'[i] = f[i - Len(workloads)]
       /\ \A i \in DOMAIN workloads : i \in DOMAIN workloads' /\ workloads'[i] = workloads[i]
       /\ \A i \in DOMAIN f : i + Len(workloads) \in DOMAIN workloads' /\ workloads'[i + Len(workloads)] = f[i]
  <2>1. IsJoined(workloads', workloads, f)
    BY <1>6, <1>7, <1>10, Joined
  <2> QED  BY <2>1 DEF IsJoined
<1>13. /\ \A i, j \in DOMAIN batch : batch[i].resource.id = batch[j].resource.id => i = j
       /\ \A i \in DOMAIN workloads : \A j \in DOMAIN batch : workloads[i].id # batch[j].resource.id
  BY <1>4 DEF BatchOK, WorkloadsOK
<1>14. GivenOK' /\ OptionsOK'
  BY <1>2, <1>4, GivenStays
<1>15. PhasesOK'
  <2>1. CASE pc = "configs"
    BY <1>2, <1>3, <1>4, <2>1 DEF PhasesOK, Scanning, NodePhases
  <2>2. CASE pc = "vmconfigs"
    BY <1>2, <1>3, <1>4, <2>2 DEF PhasesOK, Scanning, NodePhases
  <2>3. CASE pc = "ctconfigs"
    <3>1. pc' = IF queue' = <<>> THEN "done" ELSE "vms"
      BY <1>3, <2>3 DEF NextNode
    <3> QED  BY <1>2, <1>4, <2>3, <3>1 DEF PhasesOK, Scanning, NodePhases
  <2> QED  BY <1>2, <2>1, <2>2, <2>3 DEF Batches
<1>16. QueueOK'
  <2>1. CASE pc = "configs"
    <3>1. queue' = <<>>
      BY <1>3, <1>4, <2>1 DEF PhasesOK, NodePhases
    <3> QED  BY <3>1, NoQueueNext
  <2>2. CASE pc # "configs"
    <3>1. queue # <<>>
      BY <1>2, <1>4, <2>2 DEF PhasesOK, NodePhases, Batches
    <3>2. queue' = queue \/ queue' = Tail(queue)
      BY <1>2, <1>3, <2>2 DEF Batches, NextNode
    <3> QED  BY <1>4, <3>1, <3>2, StillQueueOK
  <2> QED  BY <2>1, <2>2
<1>17. BatchOK' /\ DOMAIN batch' = {}
  BY <1>2, NoBatchNext
<1>18. WorkloadsOK'
  <2>1. ASSUME NEW i \in DOMAIN workloads, NEW w, w = workloads[i]
        PROVE  \E g \in Guests : IsOf(w, g)'
    BY <1>2, <1>4, <2>1, KnownStays DEF WorkloadsOK
  <2>2. ASSUME NEW i \in DOMAIN workloads', NEW w, w = workloads'[i]
        PROVE  \E g \in Guests : IsOf(w, g)'
    <3>1. CASE i \in DOMAIN workloads /\ workloads'[i] = workloads[i]
      BY <2>1, <2>2, <3>1
    <3>2. CASE i - Len(workloads) \in DOMAIN f /\ workloads'[i] = f[i - Len(workloads)]
      <4>1. PICK j \in DOMAIN batch : w = f[j]
        BY <1>10, <2>2, <3>2
      <4>2. PICK g : g = batch[j].resource
        OBVIOUS
      <4> QED  BY <1>9, <4>1, <4>2
    <3> QED  BY <1>12, <2>2, <3>1, <3>2
  <2>3. ASSUME NEW i \in DOMAIN workloads' PROVE ~ToCome(workloads'[i].node, workloads'[i].kind)
    <3>1. \A j \in DOMAIN workloads : ~ToCome(workloads[j].node, workloads[j].kind)
      BY <1>4 DEF WorkloadsOK
    <3>2. \A j \in DOMAIN f : ~ToCome(f[j].node, f[j].kind)
      BY <1>4, <1>10, <1>11 DEF BatchOK
    <3> QED  BY <1>12, <3>1, <3>2
  <2>4. ASSUME NEW i \in DOMAIN workloads', NEW j \in DOMAIN workloads', workloads'[i].id = workloads'[j].id
        PROVE  i = j
    <3>1. \A m, n \in DOMAIN workloads : workloads[m].id = workloads[n].id => m = n
      BY <1>4 DEF WorkloadsOK
    <3>2. \A m, n \in DOMAIN f : f[m].id = f[n].id => m = n
      BY <1>10, <1>11, <1>13
    <3>3. \A m \in DOMAIN workloads, n \in DOMAIN f : workloads[m].id # f[n].id
      BY <1>10, <1>11, <1>13
    <3>4. DOMAIN workloads' \subseteq Int /\ Len(workloads) \in Nat
      BY <1>6, <1>12, ListOf
    <3>5. CASE i \in DOMAIN workloads /\ j \in DOMAIN workloads
      BY <1>12, <2>4, <3>1, <3>5
    <3>6. CASE i \notin DOMAIN workloads /\ j \notin DOMAIN workloads
      <4>1. i - Len(workloads) = j - Len(workloads)
        BY <1>12, <2>4, <3>2, <3>6
      <4> QED  BY <3>4, <4>1
    <3>7. CASE (i \in DOMAIN workloads) # (j \in DOMAIN workloads)
      BY <1>12, <2>4, <3>3, <3>7
    <3> QED  BY <3>5, <3>6, <3>7
  <2>5. Guests' = Guests
    BY <1>2, WantedStays
  <2>6. \A i \in DOMAIN workloads' : \A n, k :
          n = workloads'[i].node /\ k = workloads'[i].kind => ~ToCome(n, k)'
    BY <1>5, <2>3
  <2> QED  BY <1>12, <1>17, <2>2, <2>4, <2>5, <2>6 DEF WorkloadsOK
<1>19. NoneMissing'
  <2> SUFFICES ASSUME NEW g \in Guests, Wanted(g), Kind(g.type) # ""
               PROVE  InSnapshot(g)' \/ InBatch(g)' \/ HasProblem(g)' \/ IsToCome(g)' \/ Unseen(g)'
    BY <1>2, WantedStays DEF NoneMissing
  <2>1. InSnapshot(g) \/ InBatch(g) \/ HasProblem(g) \/ IsToCome(g) \/ Unseen(g)
    BY <1>2 DEF IInv, NoneMissing, Batches, NodePhases
  <2>2. InSnapshot(g) => InSnapshot(g)'
    BY <1>12 DEF InSnapshot, Shows
  <2>3. ASSUME InBatch(g) PROVE InSnapshot(g)'
    <3>1. PICK j \in DOMAIN batch : batch[j].resource = g
      BY <2>3 DEF InBatch
    <3>2. f[j].id = g.id /\ f[j].kind = Kind(g.type) /\ f[j].node.word = g.node
      BY <1>10, <1>11, <3>1, WordOf
    <3>3. j + Len(workloads) \in DOMAIN workloads' /\ workloads'[j + Len(workloads)] = f[j]
      BY <1>10, <1>12
    <3> QED  BY <3>2, <3>3 DEF InSnapshot, Shows
  <2>4. HasProblem(g) => HasProblem(g)'
    BY <1>4 DEF HasProblem
  <2>5. Unseen(g) => Unseen(g)'
    BY <1>2, <1>4, KnownStays
  <2>6. ASSUME IsToCome(g) PROVE IsToCome(g)'
    <3>1. PICK n \in ToSet(queue) : n.word = g.node /\ ToCome(n, Kind(g.type))
      BY <2>6 DEF IsToCome
    <3>2. ToCome(n, Kind(g.type))'
      BY <1>5, <3>1
    <3>3. n \in ToSet(queue')
      BY <3>2 DEF ToCome, ToSet
    <3> QED  BY <3>1, <3>2, <3>3 DEF IsToCome
  <2> QED  BY <2>1, <2>2, <2>3, <2>4, <2>5, <2>6
<1>20. OrderOK'
  <2>1. pc' # "configs"
    BY <1>2, <1>3 DEF Batches, NextNode
  <2> SUFFICES ASSUME path = "cluster", NEW i \in 2 .. Len(workloads')
               PROVE  Follows(workloads'[i - 1], workloads'[i])
    BY <1>4, <2>1 DEF OrderOK, Follows
  <2>2. pc = "configs" /\ workloads = <<>>
    BY <1>2, <1>4 DEF PhasesOK, Batches, NodePhases
  <2>3. DOMAIN workloads = {} /\ Len(workloads) = 0 /\ DOMAIN workloads' = 1 .. Len(workloads')
        /\ Len(workloads') \in Nat /\ DOMAIN batch = 1 .. Len(batch) /\ Len(f) = Len(batch)
    BY <1>6, <1>10, <1>12, <2>2, ListOf, NoEntries
  <2>4. i \in DOMAIN workloads' /\ i - 1 \in DOMAIN workloads'
    BY <2>3
  <2>5. /\ i \in DOMAIN batch /\ workloads'[i] = f[i]
        /\ i - 1 \in DOMAIN batch /\ workloads'[i - 1] = f[i - 1]
    BY <1>10, <1>12, <2>3, <2>4
  <2>6. Before(batch[i - 1].resource, batch[i].resource)
    <3>1. i \in 2 .. Len(batch)
      BY <1>12, <2>3
    <3> QED  BY <2>2, <3>1 DEF IInv, OrderOK
  <2>7. \A m, n \in DOMAIN f :
          Before(batch[m].resource, batch[n].resource) => Follows(f[m], f[n])
    <3>1. \A m \in DOMAIN f : HasKind(f[m])
      <4>1. \A m \in DOMAIN batch : batch[m].kind # ""
        BY <1>4 DEF BatchOK
      <4> QED  BY <1>10, <1>11, <4>1 DEF HasKind
    <3> QED  BY <1>11, <3>1, BeforeFollows
  <2> QED  BY <1>10, <2>5, <2>6, <2>7
<1> QED  BY <1>14, <1>15, <1>16, <1>17, <1>18, <1>19, <1>20 DEF IInv

-----------------------------------------------------------------------------
(* The invariant, and what follows from it *)

LEMMA InitIsFine == ASSUME Init PROVE IInv
<1>1. /\ queue \in Seq({}) /\ DOMAIN queue = {} /\ batch \in Seq({}) /\ DOMAIN batch = {}
      /\ workloads \in Seq({}) /\ DOMAIN workloads = {} /\ Len(workloads) = 0
  <2>1. queue \in Seq({}) /\ batch \in Seq({}) /\ workloads \in Seq({})
    BY EmptySeq DEF Init
  <2>2. queue = <<>> /\ batch = <<>> /\ workloads = <<>>
    BY DEF Init
  <2> QED  BY <2>1, <2>2
<1>2. IsList(queue) /\ IsList(batch) /\ IsList(workloads)
  BY <1>1, SeqIsList
<1>3. GivenOK /\ OptionsOK
  BY DEF Init, GivenOK, OptionsOK
<1>4. PhasesOK
  BY DEF Init, PhasesOK, NodePhases, Scanning
<1>5. QueueOK
  BY <1>1, <1>2 DEF QueueOK, IsInjective
<1>6. BatchOK
  BY <1>1, <1>2 DEF Init, BatchOK
<1>7. WorkloadsOK
  BY <1>1, <1>2 DEF WorkloadsOK
<1>8. NoneMissing
  BY DEF Init, NoneMissing, NodePhases
<1>9. OrderOK
  BY <1>1 DEF Init, OrderOK
<1> QED  BY <1>3, <1>4, <1>5, <1>6, <1>7, <1>8, <1>9 DEF IInv

LEMMA NextKeeps == ASSUME IInv, [Next]_vars PROVE IInv'
<1>1. CASE New
  BY <1>1, NewKeeps
<1>2. CASE ListCluster
  BY <1>2, ListClusterKeeps
<1>3. CASE ListNodes
  BY <1>3, ListNodesKeeps
<1>4. CASE ListVMs
  BY <1>4, ListGuestsKeeps DEF ListVMs
<1>5. CASE ListContainers
  BY <1>5, ListGuestsKeeps DEF ListContainers
<1>6. CASE ScanWorkloads
  BY <1>6, ScanWorkloadsKeeps
<1>7. CASE Hang
  BY <1>7, SameKeeps DEF Hang, IInv, PhasesOK
<1>8. CASE Cancel
  BY <1>8, SameKeeps DEF Cancel, IInv, PhasesOK
<1>9. CASE UNCHANGED vars
  <2>1. hung' => pc \in Scanning
    BY <1>9 DEF vars, IInv, PhasesOK
  <2>2. UNCHANGED <<input, pc, options, queue, batch, snapshot, path, silent>>
    BY <1>9 DEF vars, input, snapshot
  <2> QED  BY <2>1, <2>2, SameKeeps
<1> QED
  BY <1>1, <1>2, <1>3, <1>4, <1>5, <1>6, <1>7, <1>8, <1>9 DEF Next, Step

LEMMA Invariance == Spec => []IInv
<1>1. Init => IInv
  BY InitIsFine
<1>2. IInv /\ [Next]_vars => IInv'
  BY NextKeeps
<1> QED  BY <1>1, <1>2, PTL DEF Spec

\* New (provider.go) and scanner.New: the options a scan works with are those
\* the ticker, the pool and the client can have, whatever the configuration
\* says; and scan (scanner.go) lists guests only for a node of its queue.
THEOREM TypeCorrectness == Spec => []TypeOK
<1>1. ASSUME IInv PROVE TypeOK
  <2>1. pc \in Scanning \cup {"new", "rejected", "failed", "done"}
    BY <1>1 DEF IInv, PhasesOK
  <2>2. ASSUME pc \notin {"new", "rejected"}
        PROVE  /\ options.pollInterval >= MinPollInterval
               /\ options.timeout # 0
               /\ options.maxConcurrency > 0
               /\ options.ipMode \in DOMAIN IPModes
               /\ options.extractMode \in {"fenced", "loose", "auto"}
               /\ IsInjective(options.includedNodeNames)
               /\ {ToLower(n) : n \in ToSet(options.includedNodeNames)} = options.includedNodes
               /\ options.requiredTags = {Text(w) : w \in Words(config.requiredTags)}
               /\ IsSuffix(APIPath, options.path)
    <3>1. config \in Configs /\ Accepted(config) /\ options = OptionsOf(config)
      BY <1>1, <2>2 DEF IInv, GivenOK, OptionsOK
    <3> QED  BY <3>1, OptionsTyped
  <2>3. /\ batch # <<>> => pc \in Batches
        /\ pc \in {"vms", "vmconfigs", "containers", "ctconfigs"} => queue # <<>>
        /\ hung => pc \in Scanning
    BY <1>1 DEF IInv, PhasesOK, NodePhases
  <2> QED  BY <2>1, <2>2, <2>3 DEF TypeOK
<1> QED  BY <1>1, Invariance, PTL

\* README.md, Configuration, and scan (scanner.go, workloads.go): the snapshot
\* of a scan has every guest the options ask for, once, and no other, whatever
\* the calls answer; a guest that is missing has a problem or could not be
\* seen, and a cluster listing is sorted.
THEOREM SnapshotsAreAsDocumented == Spec => []SnapshotAsDocumented
<1>1. ASSUME IInv PROVE SnapshotAsDocumented
  <2> SUFFICES ASSUME pc = "done" PROVE SnapshotAsDocumented
    BY DEF SnapshotAsDocumented
  <2>1. DOMAIN batch = {} /\ ToSet(queue) = {}
    <3>1. batch = <<>> /\ queue = <<>>
      BY <1>1 DEF IInv, PhasesOK, Batches, NodePhases
    <3> QED  BY <3>1, NoEntries DEF ToSet
  <2>2. \A i, j \in DOMAIN workloads :
          workloads[i].id = workloads[j].id /\ workloads[i].node = workloads[j].node => i = j
    BY <1>1 DEF IInv, WorkloadsOK
  <2>3. ASSUME NEW i \in DOMAIN workloads PROVE \E g \in ToSet(cluster.guests) : IsOf(workloads[i], g)
    BY <1>1 DEF IInv, WorkloadsOK, Guests
  <2>4. ASSUME NEW g \in ToSet(cluster.guests), Wanted(g), Kind(g.type) # ""
        PROVE  InSnapshot(g) \/ HasProblem(g) \/ Unseen(g)
    <3>1. InSnapshot(g) \/ InBatch(g) \/ HasProblem(g) \/ IsToCome(g) \/ Unseen(g)
      BY <1>1, <2>4 DEF IInv, NoneMissing, Guests
    <3>2. ~InBatch(g) /\ ~IsToCome(g)
      BY <2>1 DEF InBatch, IsToCome
    <3> QED  BY <3>1, <3>2
  <2>5. path = "cluster" => \A i \in 2 .. Len(workloads) : Follows(workloads[i - 1], workloads[i])
    BY <1>1 DEF IInv, OrderOK
  <2>6. \A i \in DOMAIN workloads : LET w == workloads[i] IN
          \E g \in ToSet(cluster.guests) :
            /\ Shows(w, g) /\ Wanted(g)
            /\ \/ w.problem /\ w.notes = ""
               \/ [base |-> cluster.path, what |-> "config", node |-> w.node, id |-> w.id] \in silent
               \/ w.notes = g.config.notes /\ w.name \in OwnNames(g)
    BY <2>3 DEF IsOf
  <2>7. \A g \in ToSet(cluster.guests) : (Wanted(g) /\ Kind(g.type) # "") =>
          \/ \E i \in DOMAIN workloads : Shows(workloads[i], g)
          \/ \E p \in problems : p.node.word = g.node /\ p.kind = Kind(g.type)
          \/ Unseen(g)
    BY <2>4 DEF InSnapshot, HasProblem
  <2>8. path = "cluster" =>
          \A i \in 2 .. Len(workloads) : LET v == workloads[i - 1] w == workloads[i] IN
            \/ Place(v.node.word) < Place(w.node.word)
            \/ v.node = w.node /\ v.kind = "vm" /\ w.kind = "container"
            \/ v.node = w.node /\ v.kind = w.kind /\ v.id < w.id
    BY <2>5 DEF Follows
  <2> QED  BY <2>2, <2>6, <2>7, <2>8, Zenon DEF SnapshotAsDocumented
<1> QED  BY <1>1, Invariance, PTL
=============================================================================
