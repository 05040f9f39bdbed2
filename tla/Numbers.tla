------------------------------- MODULE Numbers -------------------------------
(***************************************************************************)
(* Induction over natural numbers as the other proofs use it: over a set   *)
(* of numbers, up to a bound and down from one.                            *)
(***************************************************************************)
EXTENDS Integers, TLAPS, WellFoundedInduction

\* A set of numbers has a least one.
LEMMA LeastNumber ==
  ASSUME NEW T, T \subseteq Nat, T # {}
  PROVE  \E i \in T : \A j \in T : i <= j
<1> DEFINE Below == {p \in Nat \X Nat : p[1] < p[2]}
<1>1. OpToRel(<, Nat) = Below
  BY DEF OpToRel
<1>2. PICK i \in T : \A j \in T : <<j, i>> \notin OpToRel(<, Nat)
  BY NatLessThanWellFounded, WFMin
<1>3. \A j \in T : <<j, i>> \notin Below => i <= j
  OBVIOUS
<1> QED  BY <1>1, <1>2, <1>3

\* What holds of 0, and of a number after it holds of the one before, holds of
\* all the numbers up to the bound.
LEMMA NumbersUpTo ==
  ASSUME NEW m \in Nat, NEW T, 0 \in T, \A n \in 1 .. m : n - 1 \in T => n \in T
  PROVE  \A n \in 0 .. m : n \in T
<1> SUFFICES ASSUME NEW n \in 0 .. m, n \notin T PROVE FALSE
  OBVIOUS
<1> DEFINE out == {i \in 0 .. m : i \notin T}
<1>1. PICK i \in out : \A j \in out : i <= j
  <2>1. out \subseteq Nat /\ out # {}
    OBVIOUS
  <2> HIDE DEF out
  <2> QED  BY <2>1, LeastNumber
<1>2. i \in 1 .. m /\ i - 1 \in 0 .. m
  OBVIOUS
<1>3. i - 1 \in T
  BY <1>1, <1>2
<1> QED  BY <1>1, <1>2, <1>3

\* What holds of a number, and of each one before one it holds of, holds of 0.
LEMMA FromTheEnd ==
  ASSUME NEW m \in Nat, NEW T, m \in T, \A n \in 0 .. m - 1 : n + 1 \in T => n \in T
  PROVE  0 \in T
<1> DEFINE held == {d \in Nat : d <= m /\ m - d \notin T}
<1>1. held = {}
  <2> SUFFICES ASSUME held # {} PROVE FALSE
    OBVIOUS
  <2>1. held \subseteq Nat
    OBVIOUS
  <2> HIDE DEF held
  <2>2. PICK d \in held : \A e \in held : d <= e
    BY <2>1, LeastNumber
  <2>3. d \in Nat /\ d <= m /\ m - d \notin T
    BY DEF held
  <2>4. d # 0
    BY <2>3
  <2>5. d - 1 \notin held /\ d - 1 \in Nat /\ d - 1 <= m
    BY <2>2, <2>3, <2>4
  <2>6. m - (d - 1) \in T /\ m - (d - 1) = (m - d) + 1 /\ m - d \in 0 .. m - 1
    BY <2>3, <2>4, <2>5 DEF held
  <2> QED  BY <2>3, <2>6
<1>2. 0 \in T
  BY <1>1
<1> QED  BY <1>2
==============================================================================
