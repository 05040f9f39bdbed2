------------------------------ MODULE BoundedMap ------------------------------
(***************************************************************************)
(* What a bounded parallel map promises its caller: every item is          *)
(* processed exactly once, at most bound items are being processed at any  *)
(* time, the result of an item ends up in that item's own slot, and the    *)
(* caller gets the slots back only when all of them are filled.            *)
(*                                                                         *)
(* WorkerPool, the model of the pool the scanner runs its per-guest API    *)
(* calls through, implements this specification.                           *)
(***************************************************************************)
EXTENDS Integers, FiniteSets

CONSTANT NoResult  \* the content of a slot before its item is processed

VARIABLES
  items,     \* the items to process
  bound,     \* how many may be in progress at once
  inFlight,  \* the items being processed
  slots,     \* slots[i]: the result of item i; the result of i is written i
  returned   \* the caller has its results

vars == <<items, bound, inFlight, slots, returned>>

Init ==
  /\ IsFiniteSet(items)
  /\ bound \in Nat \ {0}
  /\ inFlight = {}
  /\ slots = [i \in items |-> NoResult]
  /\ returned = FALSE

Begin(i) ==
  /\ ~returned
  /\ i \notin inFlight
  /\ slots[i] = NoResult
  /\ Cardinality(inFlight) < bound
  /\ inFlight' = inFlight \cup {i}
  /\ UNCHANGED <<items, bound, slots, returned>>

Finish(i) ==
  /\ i \in inFlight
  /\ inFlight' = inFlight \ {i}
  /\ slots' = [slots EXCEPT ![i] = i]
  /\ UNCHANGED <<items, bound, returned>>

Return ==
  /\ ~returned
  /\ inFlight = {}
  /\ \A i \in items : slots[i] = i
  /\ returned' = TRUE
  /\ UNCHANGED <<items, bound, inFlight, slots>>

Next ==
  \/ \E i \in items : Begin(i) \/ Finish(i)
  \/ Return

Spec == Init /\ [][Next]_vars

FairSpec == Spec /\ WF_vars(Next)
=============================================================================
