--------------------------- MODULE WorkerPoolProofs ---------------------------
(***************************************************************************)
(* Proofs about WorkerPool, for every number of items and every configured *)
(* concurrency: the inductive invariant, the bound on concurrent calls,    *)
(* the completeness of the results, and that the pool implements the       *)
(* safety part of BoundedMap.                                              *)
(***************************************************************************)
EXTENDS WorkerPool, FiniteSetTheorems, TLAPS

LEMMA LimitFacts ==
  ASSUME TypeOK
  PROVE  /\ maxConcurrency \in Nat \ {0}
         /\ Limit \in Nat
         /\ Limit <= maxConcurrency
BY PoolAssumption DEF TypeOK, Limit

LEMMA ItemsFinite == ASSUME TypeOK PROVE IsFiniteSet(Items)
BY PoolAssumption, FS_Interval DEF TypeOK, Items

\* What no step of the pool changes: the numbers it was set up with, and what
\* is computed from them.
Kept ==
  /\ count \in Nat
  /\ count' = count
  /\ maxConcurrency' = maxConcurrency
  /\ Items' = Items
  /\ Limit' = Limit
  /\ Sequential' = Sequential

LEMMA SetupKept == ASSUME TypeOK, UNCHANGED setup PROVE Kept
BY PoolAssumption DEF TypeOK, setup, Kept, Items, Limit, Sequential

\* The sets the bookkeeping counts are finite, and counted by a number.
LEMMA SetsFinite ==
  ASSUME TypeOK
  PROVE  /\ IsFiniteSet(Holding) /\ Cardinality(Holding) \in Nat
         /\ IsFiniteSet(Active) /\ Cardinality(Active) \in Nat
         /\ IsFiniteSet(Scanning) /\ Cardinality(Scanning) \in Nat
<1>1. Holding \subseteq Items /\ Active \subseteq Items /\ Scanning \subseteq Items
  BY DEF Holding, Active, Scanning
<1> QED  BY <1>1, ItemsFinite, FS_Subset, FS_CardinalityType

\* A set that gains an element counts one more.
LEMMA CountsOneMore ==
  ASSUME NEW S, IsFiniteSet(S), NEW i, i \notin S
  PROVE  Cardinality(S \cup {i}) = Cardinality(S) + 1
BY FS_AddElement

\* A set that loses an element counts one less.
LEMMA CountsOneLess ==
  ASSUME NEW S, IsFiniteSet(S), NEW i \in S
  PROVE  Cardinality(S \ {i}) = Cardinality(S) - 1
BY FS_RemoveElement

\* Whatever was configured, at least one call may be in flight.
LEMMA NormalizedPositive ==
  ASSUME NEW value \in Int
  PROVE  NormalizedMaxConcurrency(value) \in Nat \ {0}
BY DEF NormalizedMaxConcurrency, DefaultMaxConcurrency

LEMMA InitInvariant == Init => IInv
<1> SUFFICES ASSUME Init PROVE IInv  OBVIOUS
<1> USE DEF Init
<1>1. TypeOK
  <2>1. \A value \in Settings : NormalizedMaxConcurrency(value) \in Nat \ {0}
    BY PoolAssumption, NormalizedPositive
  <2>2. count \in Nat
    BY PoolAssumption
  <2>3. maxConcurrency \in Nat \ {0}
    BY <2>1
  <2>4. next \in 0 .. count /\ sem \in Nat /\ wg \in Nat
    BY <2>2
  <2> QED  BY <2>3, <2>4 DEF TypeOK, CallerStates, WorkerStates
<1>2. Holding = {} /\ Active = {}
  BY DEF Holding, Active
<1>3. Counted
  BY <1>1, <1>2, FS_EmptySet, LimitFacts DEF Counted
<1>4. Stored
  BY DEF Stored
<1>5. Phases
  <2>1. \A i \in Items : i \in Nat
    BY <1>1, PoolAssumption DEF TypeOK, Items
  <2>2. count > 0 => 0 \in Items
    BY <1>1, PoolAssumption DEF TypeOK, Items
  <2>3. \A i \in Items : worker[i] = "idle" /\ ~(i < next)
    BY <2>1
  <2> QED  BY <2>2, <2>3 DEF Phases
<1> QED  BY <1>1, <1>3, <1>4, <1>5 DEF IInv

-----------------------------------------------------------------------------
(* Steps that leave the workers and the two counters alone keep Counted. *)

LEMMA CountedUnchanged ==
  ASSUME TypeOK, Counted, UNCHANGED <<setup, sem, wg, worker>>
  PROVE  Counted'
BY SetupKept DEF Counted, Holding, Active, Kept

\* A step of the sequential loop does not touch the counters either.
LEMMA CountedSequential ==
  ASSUME TypeOK, Counted, Sequential, UNCHANGED <<setup, sem, wg>>
  PROVE  Counted'
BY SetupKept DEF Counted, Kept

LEMMA EnterPreserves == IInv /\ Enter => IInv'
<1> SUFFICES ASSUME IInv, Enter PROVE IInv'  OBVIOUS
<1>k. TypeOK /\ Kept
  BY SetupKept DEF IInv, Enter
<1> USE <1>k DEF Kept
<1>1. Counted'  BY CountedUnchanged DEF IInv, Enter
<1>2. Stored'   BY DEF IInv, Enter, Stored
<1>3. TypeOK'   BY DEF IInv, Enter, TypeOK, CallerStates
<1>4. Phases'
  BY PoolAssumption DEF IInv, Enter, Phases, Sequential, TypeOK, Items
<1> QED  BY <1>1, <1>2, <1>3, <1>4 DEF IInv

LEMMA SequentialCallPreserves == IInv /\ SequentialCall => IInv'
<1> SUFFICES ASSUME IInv, SequentialCall PROVE IInv'  OBVIOUS
<1>k. TypeOK /\ Kept
  BY SetupKept DEF IInv, SequentialCall
<1> USE <1>k DEF Kept
<1>0. next \in Items /\ Sequential
  BY PoolAssumption DEF IInv, TypeOK, Phases, SequentialCall, Items
<1>1. Counted'  BY <1>0, CountedSequential DEF IInv, SequentialCall
<1>2. Stored'   BY <1>0 DEF IInv, SequentialCall, Stored, TypeOK
<1>3. TypeOK'   BY <1>0 DEF IInv, SequentialCall, TypeOK, WorkerStates
<1>4. Phases'
  BY <1>0, PoolAssumption DEF IInv, SequentialCall, Phases, Sequential, TypeOK, Items
<1> QED  BY <1>1, <1>2, <1>3, <1>4 DEF IInv

LEMMA SequentialStorePreserves == IInv /\ SequentialStore => IInv'
<1> SUFFICES ASSUME IInv, SequentialStore PROVE IInv'  OBVIOUS
<1>k. TypeOK /\ Kept
  BY SetupKept DEF IInv, SequentialStore
<1> USE <1>k DEF Kept
<1>0. next \in Items /\ Sequential
  BY PoolAssumption DEF IInv, TypeOK, Phases, SequentialStore, Items
<1>1. Counted'  BY <1>0, CountedSequential DEF IInv, SequentialStore
<1>2. Stored'   BY <1>0 DEF IInv, SequentialStore, Stored, TypeOK
<1>3. TypeOK'
  BY <1>0, PoolAssumption DEF IInv, SequentialStore, TypeOK, WorkerStates, Items
<1>4. Phases'
  BY <1>0, PoolAssumption DEF IInv, SequentialStore, Phases, Sequential, TypeOK, Items
<1> QED  BY <1>1, <1>2, <1>3, <1>4 DEF IInv

LEMMA SequentialReturnPreserves == IInv /\ SequentialReturn => IInv'
<1> SUFFICES ASSUME IInv, SequentialReturn PROVE IInv'  OBVIOUS
<1>k. TypeOK /\ Kept
  BY SetupKept DEF IInv, SequentialReturn
<1> USE <1>k DEF Kept
<1>1. Counted'  BY CountedUnchanged DEF IInv, SequentialReturn
<1>2. Stored'   BY DEF IInv, SequentialReturn, Stored
<1>3. TypeOK'   BY DEF IInv, SequentialReturn, TypeOK, CallerStates
<1>4. Phases'
  BY PoolAssumption DEF IInv, SequentialReturn, Phases, Sequential, TypeOK, Items
<1> QED  BY <1>1, <1>2, <1>3, <1>4 DEF IInv

LEMMA SpawnPreserves == IInv /\ Spawn => IInv'
<1> SUFFICES ASSUME IInv, Spawn PROVE IInv'  OBVIOUS
<1>k. TypeOK /\ Kept
  BY SetupKept DEF IInv, Spawn
<1> USE <1>k DEF Kept
<1>0. next \in Items /\ ~Sequential /\ worker[next] = "idle" /\ worker' = [worker EXCEPT ![next] = "spawned"]
  BY PoolAssumption DEF IInv, TypeOK, Phases, Spawn, Items
<1>1. Counted'
  <2>1. Holding' = Holding \cup {next} /\ next \notin Holding
    BY <1>0 DEF Holding, IInv, TypeOK
  <2>2. Active' = Active \cup {next} /\ next \notin Active
    BY <1>0, <2>1 DEF Active, Holding, IInv, TypeOK
  <2>3. Cardinality(Holding') = Cardinality(Holding) + 1
    BY <2>1, SetsFinite, CountsOneMore
  <2>4. Cardinality(Active') = Cardinality(Active) + 1
    BY <2>2, SetsFinite, CountsOneMore
  <2>5. sem' <= Limit
    BY LimitFacts DEF Spawn, IInv, TypeOK
  <2>6. sem' = sem + 1 /\ wg' = wg + 1
    BY DEF Spawn
  <2>7. sem = Cardinality(Holding) /\ wg = Cardinality(Active)
    BY <1>0 DEF IInv, Counted
  <2> QED
    BY <1>0, <2>3, <2>4, <2>5, <2>6, <2>7 DEF Counted, Sequential
<1>2. Stored'   BY <1>0 DEF IInv, Spawn, Stored, TypeOK
<1>3. TypeOK'
  BY <1>0, PoolAssumption DEF IInv, Spawn, TypeOK, WorkerStates, Items
<1>4. Phases'
  BY <1>0, PoolAssumption DEF IInv, Spawn, Phases, Sequential, TypeOK, Items
<1> QED  BY <1>1, <1>2, <1>3, <1>4 DEF IInv

LEMMA EndLoopPreserves == IInv /\ EndLoop => IInv'
<1> SUFFICES ASSUME IInv, EndLoop PROVE IInv'  OBVIOUS
<1>k. TypeOK /\ Kept
  BY SetupKept DEF IInv, EndLoop
<1> USE <1>k DEF Kept
<1>1. Counted'  BY CountedUnchanged DEF IInv, EndLoop
<1>2. Stored'   BY DEF IInv, EndLoop, Stored
<1>3. TypeOK'   BY DEF IInv, EndLoop, TypeOK, CallerStates
<1>4. Phases'
  BY PoolAssumption DEF IInv, EndLoop, Phases, Sequential, TypeOK, Items
<1> QED  BY <1>1, <1>2, <1>3, <1>4 DEF IInv

\* When the WaitGroup is at zero and the loop is over, every goroutine is done.
LEMMA AllFinishedAtWait ==
  ASSUME IInv, pc = "wait", wg = 0
  PROVE  \A i \in Items : worker[i] = "finished"
<1>0. TypeOK /\ count \in Nat
  BY PoolAssumption DEF IInv, TypeOK
<1> USE <1>0
<1>1. ~Sequential /\ next = count
  BY DEF IInv, Phases
<1>2. Cardinality(Active) = 0
  BY <1>1 DEF IInv, Counted
<1>3. Active = {}
  BY <1>2, SetsFinite, FS_EmptySet
<1>4. ASSUME NEW i \in Items PROVE worker[i] = "finished"
  <2>1. worker[i] # "idle"
    BY <1>1, PoolAssumption DEF IInv, Phases, Items
  <2>2. worker[i] \notin {"spawned", "scanning", "stored", "released"}
    BY <1>3 DEF Active, Holding
  <2> QED  BY <2>1, <2>2 DEF IInv, TypeOK, WorkerStates
<1> QED  BY <1>4

LEMMA WaitPreserves == IInv /\ Wait => IInv'
<1> SUFFICES ASSUME IInv, Wait PROVE IInv'  OBVIOUS
<1>k. TypeOK /\ Kept
  BY SetupKept DEF IInv, Wait
<1> USE <1>k DEF Kept
<1>0. \A i \in Items : worker[i] = "finished"
  BY AllFinishedAtWait DEF Wait
<1>1. Counted'  BY CountedUnchanged DEF IInv, Wait
<1>2. Stored'   BY DEF IInv, Wait, Stored
<1>3. TypeOK'   BY DEF IInv, Wait, TypeOK, CallerStates
<1>4. Phases'
  <2>1. pc' = "returned" /\ next = count /\ ~Sequential /\ UNCHANGED <<next, worker>>
    BY DEF IInv, Wait, Phases
  <2>2. \A i \in Items : ~(i > next)
    BY <2>1 DEF Items
  <2> QED  BY <1>0, <2>1, <2>2 DEF Phases
<1> QED  BY <1>1, <1>2, <1>3, <1>4 DEF IInv

-----------------------------------------------------------------------------
\* A worker past "idle" that is not done means the pool runs in parallel, or
\* is the one item the sequential loop is at.
LEMMA ParallelWorker ==
  ASSUME IInv, NEW i \in Items, worker[i] \in {"spawned", "stored", "released"}
  PROVE  /\ ~Sequential
         /\ pc # "returned"
         /\ pc # "sequential"
         /\ i < next
<1>0. count \in Nat
  BY PoolAssumption DEF IInv, TypeOK
<1> USE <1>0
<1>1. ~Sequential
  BY DEF IInv, Phases
<1>2. pc # "returned" /\ pc # "sequential"
  BY <1>1 DEF IInv, Phases
<1>3. ~(i > next)
  BY DEF IInv, Phases
<1>4. i # next
  BY <1>2, PoolAssumption DEF IInv, Phases, Items
<1> QED  BY <1>1, <1>2, <1>3, <1>4, PoolAssumption DEF IInv, TypeOK, Items

LEMMA CallPreserves == ASSUME NEW i \in Items PROVE IInv /\ Call(i) => IInv'
<1> SUFFICES ASSUME IInv, Call(i) PROVE IInv'  OBVIOUS
<1>k. TypeOK /\ Kept
  BY SetupKept DEF IInv, Call
<1> USE <1>k DEF Kept
<1>0. /\ worker[i] = "spawned" /\ worker' = [worker EXCEPT ![i] = "scanning"]
      /\ UNCHANGED <<pc, next, sem, wg, workloads>>
  BY DEF Call
<1>w. ~Sequential /\ pc # "returned" /\ pc # "sequential" /\ i < next
  BY <1>0, ParallelWorker
<1>1. Counted'
  <2>1. Holding' = Holding
    BY <1>0 DEF Holding, IInv, TypeOK
  <2>2. Active' = Active
    BY <1>0, <2>1 DEF Active, IInv, TypeOK
  <2> QED  BY <1>0, <2>1, <2>2 DEF IInv, Counted, Sequential
<1>2. Stored'   BY <1>0 DEF IInv, Stored, TypeOK
<1>3. TypeOK'   BY <1>0 DEF IInv, TypeOK, WorkerStates
<1>4. Phases'
  BY <1>0, <1>w, PoolAssumption DEF IInv, Phases, Sequential, TypeOK, Items
<1> QED  BY <1>1, <1>2, <1>3, <1>4 DEF IInv

LEMMA StorePreserves == ASSUME NEW i \in Items PROVE IInv /\ Store(i) => IInv'
<1> SUFFICES ASSUME IInv, Store(i) PROVE IInv'  OBVIOUS
<1>k. TypeOK /\ Kept
  BY SetupKept DEF IInv, Store
<1> USE <1>k DEF Kept
<1>0. /\ worker[i] = "scanning" /\ worker' = [worker EXCEPT ![i] = "stored"]
      /\ workloads' = [workloads EXCEPT ![i] = i]
      /\ UNCHANGED <<pc, next, sem, wg>>
  BY DEF Store
<1>w. pc # "returned" /\ pc # "sequential" /\ ~Sequential /\ i < next
  <2>1. pc # "sequential"  BY DEF Store
  <2>2. pc # "returned"    BY <1>0 DEF IInv, Phases
  <2>3. pc # "entry" \/ ~(i < next)
    BY PoolAssumption DEF IInv, Phases, Items
  <2>4. ~(i > next) /\ i # next
    BY <1>0, <2>1, PoolAssumption DEF IInv, Phases, Items
  <2>5. i < next
    BY <2>4, PoolAssumption DEF IInv, TypeOK, Items
  <2>6. pc \in {"spawn", "wait"}
    BY <2>1, <2>2, <2>3, <2>5 DEF IInv, TypeOK, CallerStates
  <2> QED  BY <2>1, <2>2, <2>5, <2>6 DEF IInv, Phases
<1>1. Counted'
  <2>1. Holding' = Holding
    BY <1>0 DEF Holding, IInv, TypeOK
  <2>2. Active' = Active
    BY <1>0, <2>1 DEF Active, IInv, TypeOK
  <2> QED  BY <1>0, <2>1, <2>2 DEF IInv, Counted, Sequential
<1>2. Stored'   BY <1>0 DEF IInv, Stored, TypeOK
<1>3. TypeOK'   BY <1>0 DEF IInv, TypeOK, WorkerStates
<1>4. Phases'
  BY <1>0, <1>w, PoolAssumption DEF IInv, Phases, Sequential, TypeOK, Items
<1> QED  BY <1>1, <1>2, <1>3, <1>4 DEF IInv

LEMMA ReleasePreserves == ASSUME NEW i \in Items PROVE IInv /\ Release(i) => IInv'
<1> SUFFICES ASSUME IInv, Release(i) PROVE IInv'  OBVIOUS
<1>k. TypeOK /\ Kept
  BY SetupKept DEF IInv, Release
<1> USE <1>k DEF Kept
<1>0. /\ worker[i] = "stored" /\ worker' = [worker EXCEPT ![i] = "released"]
      /\ sem' = sem - 1
      /\ UNCHANGED <<pc, next, wg, workloads>>
  BY DEF Release
<1>w. ~Sequential /\ pc # "returned" /\ pc # "sequential" /\ i < next
  BY <1>0, ParallelWorker
<1>c. Counted' /\ sem' \in Nat
  <2>1. Holding' = Holding \ {i} /\ i \in Holding
    BY <1>0 DEF Holding, IInv, TypeOK
  <2>2. Active' = Active
    BY <1>0, <2>1 DEF Active, Holding, IInv, TypeOK
  <2>3. Cardinality(Holding') = Cardinality(Holding) - 1
    BY <2>1, SetsFinite, CountsOneLess
  <2>4. Cardinality(Holding') \in Nat
    BY <2>1, SetsFinite, FS_RemoveElement, FS_CardinalityType
  <2>5. sem = Cardinality(Holding) /\ wg = Cardinality(Active) /\ sem <= Limit
    BY <1>w DEF IInv, Counted
  <2>6. sem' = Cardinality(Holding') /\ sem' <= Limit
    BY <1>0, <2>3, <2>5, SetsFinite, LimitFacts
  <2> QED  BY <1>0, <1>w, <2>2, <2>4, <2>5, <2>6 DEF Counted, Sequential
<1>2. Stored'   BY <1>0 DEF IInv, Stored, TypeOK
<1>3. TypeOK'   BY <1>0, <1>c DEF IInv, TypeOK, WorkerStates
<1>4. Phases'
  BY <1>0, <1>w, PoolAssumption DEF IInv, Phases, Sequential, TypeOK, Items
<1> QED  BY <1>c, <1>2, <1>3, <1>4 DEF IInv

LEMMA DonePreserves == ASSUME NEW i \in Items PROVE IInv /\ Done(i) => IInv'
<1> SUFFICES ASSUME IInv, Done(i) PROVE IInv'  OBVIOUS
<1>k. TypeOK /\ Kept
  BY SetupKept DEF IInv, Done
<1> USE <1>k DEF Kept
<1>0. /\ worker[i] = "released" /\ worker' = [worker EXCEPT ![i] = "finished"]
      /\ wg' = wg - 1
      /\ UNCHANGED <<pc, next, sem, workloads>>
  BY DEF Done
<1>w. ~Sequential /\ pc # "returned" /\ pc # "sequential" /\ i < next
  BY <1>0, ParallelWorker
<1>c. Counted' /\ wg' \in Nat
  <2>1. Holding' = Holding
    BY <1>0 DEF Holding, IInv, TypeOK
  <2>2. Active' = Active \ {i} /\ i \in Active
    BY <1>0, <2>1 DEF Active, Holding, IInv, TypeOK
  <2>3. Cardinality(Active') = Cardinality(Active) - 1
    BY <2>2, SetsFinite, CountsOneLess
  <2>4. Cardinality(Active') \in Nat
    BY <2>2, SetsFinite, FS_RemoveElement, FS_CardinalityType
  <2>5. sem = Cardinality(Holding) /\ wg = Cardinality(Active) /\ sem <= Limit
    BY <1>w DEF IInv, Counted
  <2> QED  BY <1>0, <1>w, <2>1, <2>3, <2>4, <2>5 DEF Counted, Sequential
<1>2. Stored'   BY <1>0 DEF IInv, Stored, TypeOK
<1>3. TypeOK'   BY <1>0, <1>c DEF IInv, TypeOK, WorkerStates
<1>4. Phases'
  BY <1>0, <1>w, PoolAssumption DEF IInv, Phases, Sequential, TypeOK, Items
<1> QED  BY <1>c, <1>2, <1>3, <1>4 DEF IInv

LEMMA StutterPreserves == IInv /\ UNCHANGED vars => IInv'
<1> SUFFICES ASSUME IInv, UNCHANGED vars PROVE IInv'  OBVIOUS
<1>k. TypeOK /\ Kept
  BY SetupKept DEF IInv, vars
<1> USE <1>k DEF Kept
<1>1. Counted'  BY CountedUnchanged DEF IInv, vars
<1>2. Stored'   BY DEF IInv, vars, Stored
<1>3. TypeOK'   BY DEF IInv, vars, TypeOK
<1>4. Phases'   BY DEF IInv, vars, Phases
<1> QED  BY <1>1, <1>2, <1>3, <1>4 DEF IInv

LEMMA NextPreserves == IInv /\ [Next]_vars => IInv'
<1> SUFFICES ASSUME IInv, [Next]_vars PROVE IInv'  OBVIOUS
<1>1. CASE Caller
  BY <1>1, EnterPreserves, SequentialCallPreserves, SequentialStorePreserves,
     SequentialReturnPreserves, SpawnPreserves, EndLoopPreserves, WaitPreserves DEF Caller
<1>2. ASSUME NEW i \in Items, Worker(i) PROVE IInv'
  BY <1>2, CallPreserves, StorePreserves, ReleasePreserves, DonePreserves DEF Worker
<1>3. CASE UNCHANGED vars
  BY <1>3, StutterPreserves
<1> QED  BY <1>1, <1>2, <1>3 DEF Next

-----------------------------------------------------------------------------
\* The inductive invariant of the pool: its counters are exactly the
\* goroutines that still owe a token or a Done, and a slot is written exactly
\* when its own item has been processed.
THEOREM Invariance == Spec => []IInv
<1>1. Init => IInv
  BY InitInvariant
<1>2. IInv /\ [Next]_vars => IInv'
  BY NextPreserves
<1> QED  BY <1>1, <1>2, PTL DEF Spec

\* The variables of the pool keep their types; in particular the WaitGroup
\* counter is never decremented below zero.
THEOREM TypeCorrectness == Spec => []TypeOK
<1>1. IInv => TypeOK
  BY DEF IInv
<1> QED  BY <1>1, Invariance, PTL

\* Two guests are never in flight in the sequential loop, and in the parallel
\* one every call in flight has its token.
LEMMA BoundFromInvariant == IInv => AtMostMaxConcurrency
<1> SUFFICES ASSUME IInv PROVE Cardinality(Scanning) <= maxConcurrency
  BY DEF AtMostMaxConcurrency
<1>0. TypeOK
  BY DEF IInv
<1> USE <1>0
<1>1. CASE Sequential
  <2>1. Scanning \subseteq {next}
    BY <1>1, PoolAssumption DEF IInv, Phases, Scanning, TypeOK, Items
  <2>2. IsFiniteSet({next}) /\ Cardinality({next}) = 1
    BY FS_Singleton
  <2>3. Cardinality(Scanning) <= 1
    BY <2>1, <2>2, FS_Subset
  <2> QED  BY <2>3, LimitFacts, SetsFinite
<1>2. CASE ~Sequential
  <2>1. Scanning \subseteq Holding
    BY DEF Scanning, Holding
  <2>2. Cardinality(Scanning) <= Cardinality(Holding)
    BY <2>1, SetsFinite, FS_Subset
  <2>3. Cardinality(Holding) <= Limit
    BY <1>2 DEF IInv, Counted
  <2> QED  BY <2>2, <2>3, LimitFacts, SetsFinite
<1> QED  BY <1>1, <1>2

\* pve.maxConcurrency bounds the API calls in flight, for every number of
\* guests and every setting.
THEOREM ConcurrencyBound == Spec => []AtMostMaxConcurrency
BY BoundFromInvariant, Invariance, PTL

\* What scanWorkloads returns is complete and in the order of its input, and
\* nothing writes to it afterwards.
THEOREM ResultsComplete == Spec => []ReturnsAllInOrder
<1>1. IInv => ReturnsAllInOrder
  BY DEF IInv, Phases, Stored, ReturnsAllInOrder
<1> QED  BY <1>1, Invariance, PTL

-----------------------------------------------------------------------------
(* The pool implements BoundedMap: a call that starts is a Begin, a result  *)
(* that is stored is a Finish, the return is a Return, the rest stutters.   *)

\* The abstract specification counts with the same operator.
LEMMA SameCardinality == ASSUME NEW S PROVE Abstract!Cardinality(S) = Cardinality(S)
BY DEF Abstract!Cardinality, Cardinality

\* ... and calls the same sets finite.
LEMMA SameFiniteness == ASSUME NEW S PROVE Abstract!IsFiniteSet(S) = IsFiniteSet(S)
BY DEF Abstract!IsFiniteSet, IsFiniteSet

LEMMA InitRefines == Init => Abstract!Init
<1> SUFFICES ASSUME Init PROVE Abstract!Init  OBVIOUS
<1>1. Scanning = {}
  BY DEF Init, Scanning
<1>2. TypeOK
  BY InitInvariant DEF IInv
<1>3. maxConcurrency \in Nat \ {0} /\ IsFiniteSet(Items)
  BY <1>2, ItemsFinite DEF TypeOK
<1> QED  BY <1>1, <1>3, SameFiniteness DEF Init, Abstract!Init

\* An item whose call starts finds room: it was not in flight, and once it is
\* the bound still holds.
LEMMA StartRefines ==
  ASSUME IInv, IInv', NEW i \in Items,
         pc # "returned", worker[i] \in {"idle", "spawned"},
         worker' = [worker EXCEPT ![i] = "scanning"],
         UNCHANGED <<setup, pc, workloads>>
  PROVE  Abstract!Begin(i)
<1>k. TypeOK /\ Kept
  BY SetupKept DEF IInv
<1> USE <1>k DEF Kept
<1>1. i \notin Scanning /\ Scanning' = Scanning \cup {i}
  BY DEF Scanning, IInv, TypeOK
<1>2. Cardinality(Scanning') = Cardinality(Scanning) + 1
  BY <1>1, SetsFinite, CountsOneMore
<1>3. Cardinality(Scanning') <= maxConcurrency
  <2>1. AtMostMaxConcurrency'
    BY BoundFromInvariant, PTL
  <2> QED  BY <2>1 DEF AtMostMaxConcurrency
<1>4. Cardinality(Scanning) < maxConcurrency
  BY <1>2, <1>3, SetsFinite, LimitFacts
<1>5. workloads[i] = NoResult
  BY DEF IInv, Stored
<1> QED  BY <1>1, <1>4, <1>5, SameCardinality DEF Abstract!Begin

LEMMA FinishRefines ==
  ASSUME IInv, NEW i \in Items, worker[i] = "scanning",
         NEW w \in {"stored", "finished"},
         worker' = [worker EXCEPT ![i] = w],
         workloads' = [workloads EXCEPT ![i] = i],
         UNCHANGED <<setup, pc>>
  PROVE  Abstract!Finish(i)
<1>k. TypeOK /\ Kept
  BY SetupKept DEF IInv
<1> USE <1>k DEF Kept
<1>1. i \in Scanning /\ Scanning' = Scanning \ {i}
  BY DEF Scanning, IInv, TypeOK
<1> QED  BY <1>1 DEF Abstract!Finish

LEMMA ReturnRefines ==
  ASSUME IInv, IInv', pc # "returned", pc' = "returned", UNCHANGED <<setup, worker, workloads>>
  PROVE  Abstract!Return
<1>k. TypeOK /\ Kept
  BY SetupKept DEF IInv
<1> USE <1>k DEF Kept
<1>1. \A i \in Items : worker[i] = "finished"
  BY DEF IInv, Phases
<1>2. Scanning = {} /\ Scanning' = Scanning
  BY <1>1 DEF Scanning
<1>3. \A i \in Items : workloads[i] = i
  BY <1>1 DEF IInv, Stored
<1> QED  BY <1>2, <1>3 DEF Abstract!Return

\* A step that starts, stores and returns nothing is a stutter of the map.
LEMMA StutterRefines ==
  ASSUME TypeOK, Scanning' = Scanning, UNCHANGED <<setup, workloads>>,
         (pc = "returned")' = (pc = "returned")
  PROVE  UNCHANGED Abstract!vars
BY SetupKept DEF Abstract!vars, Kept

\* No step of the pool changes what it was set up with.
LEMMA PoolSetupFixed == [Next]_vars => UNCHANGED setup
BY DEF Next, Caller, Worker, vars, Enter, SequentialCall, SequentialStore,
   SequentialReturn, Spawn, EndLoop, Wait, Call, Store, Release, Done

LEMMA NextRefines == IInv /\ IInv' /\ [Next]_vars => [Abstract!Next]_(Abstract!vars)
<1> SUFFICES ASSUME IInv, IInv', [Next]_vars
             PROVE  Abstract!Next \/ UNCHANGED Abstract!vars
  OBVIOUS
<1>k. TypeOK /\ Kept
  BY SetupKept, PoolSetupFixed DEF IInv
<1> USE <1>k DEF Kept
<1>1. CASE Enter
  <2>1. CASE count = 0
    BY <1>1, <2>1, ReturnRefines DEF Enter, Abstract!Next
  <2>2. CASE count # 0
    BY <1>1, <2>2, StutterRefines DEF Enter, Scanning
  <2> QED  BY <2>1, <2>2
<1>2. CASE SequentialCall
  <2>1. next \in Items
    BY <1>2, PoolAssumption DEF SequentialCall, IInv, TypeOK, Items
  <2> QED  BY <1>2, <2>1, StartRefines DEF SequentialCall, Abstract!Next
<1>3. CASE SequentialStore
  <2>1. next \in Items
    BY <1>3, PoolAssumption DEF SequentialStore, IInv, TypeOK, Items
  <2> QED  BY <1>3, <2>1, FinishRefines DEF SequentialStore, Abstract!Next
<1>4. CASE SequentialReturn
  BY <1>4, ReturnRefines DEF SequentialReturn, Abstract!Next
<1>5. CASE Spawn
  <2>1. next \in Items /\ worker[next] = "idle"
    BY <1>5, PoolAssumption DEF Spawn, IInv, Phases, TypeOK, Items
  <2>2. Scanning' = Scanning
    BY <1>5, <2>1 DEF Spawn, Scanning, IInv, TypeOK
  <2> QED  BY <1>5, <2>2, StutterRefines DEF Spawn
<1>6. CASE EndLoop
  BY <1>6, StutterRefines DEF EndLoop, Scanning
<1>7. CASE Wait
  BY <1>7, ReturnRefines DEF Wait, Abstract!Next
<1>8. ASSUME NEW i \in Items, Worker(i)
      PROVE  Abstract!Next \/ UNCHANGED Abstract!vars
  <2>1. CASE Call(i)
    <3>1. pc # "returned"
      BY <2>1, ParallelWorker DEF Call
    <3> QED  BY <2>1, <3>1, StartRefines DEF Call, Abstract!Next
  <2>2. CASE Store(i)
    BY <2>2, FinishRefines DEF Store, Abstract!Next
  <2>3. CASE Release(i)
    <3>1. Scanning' = Scanning
      BY <2>3 DEF Release, Scanning, IInv, TypeOK
    <3> QED  BY <2>3, <3>1, StutterRefines DEF Release
  <2>4. CASE Done(i)
    <3>1. Scanning' = Scanning
      BY <2>4 DEF Done, Scanning, IInv, TypeOK
    <3> QED  BY <2>4, <3>1, StutterRefines DEF Done
  <2> QED  BY <1>8, <2>1, <2>2, <2>3, <2>4 DEF Worker
<1>9. CASE UNCHANGED vars
  BY <1>9, StutterRefines DEF vars, Scanning
<1> QED
  BY <1>1, <1>2, <1>3, <1>4, <1>5, <1>6, <1>7, <1>8, <1>9 DEF Next, Caller

\* Every behaviour of the pool is one of the bounded parallel map, fairness
\* apart: at most maxConcurrency items in progress, each processed once, all
\* of them before the caller goes on.
THEOREM PoolRefinesMap == Spec => Abstract!Spec
<1>1. Init => Abstract!Init
  BY InitRefines
<1>2. IInv /\ IInv' /\ [Next]_vars => [Abstract!Next]_(Abstract!vars)
  BY NextRefines
<1> QED  BY <1>1, <1>2, Invariance, PTL DEF Spec, Abstract!Spec
=============================================================================
