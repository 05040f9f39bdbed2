------------------------------ MODULE WorkerPool ------------------------------
(***************************************************************************)
(* The bounded worker pool of the scanner (Scanner.scanWorkloads in        *)
(* proxmox/inventory/scanner/workloads.go, and the same code again in      *)
(* Scanner.ResolveIPs of ip_resolution.go): one goroutine per item, a      *)
(* buffered channel "sem" as semaphore, and a WaitGroup the caller blocks  *)
(* on.  With one item, or a concurrency of one, the caller processes the   *)
(* items itself, in order.                                                 *)
(*                                                                         *)
(* The result of processing item i is abstracted to i itself, so that a    *)
(* result stored in the wrong slot can be told from the right one.         *)
(***************************************************************************)
EXTENDS Integers, FiniteSets

CONSTANTS
  Counts,    \* how many items the pool may be handed
  Settings,  \* the values Options.MaxConcurrency may have, any integers
  NoResult   \* the zero Workload a slot holds before it is written

ASSUME PoolAssumption ==
  /\ Counts \subseteq Nat
  /\ Settings \subseteq Int
  /\ NoResult \notin Nat

DefaultMaxConcurrency == 4

\* normalizedMaxConcurrency: zero and negative settings mean the default.
NormalizedMaxConcurrency(value) == IF value <= 0 THEN DefaultMaxConcurrency ELSE value

VARIABLES
  count,           \* the number of items this pool is handed
  maxConcurrency,  \* Scanner.maxConcurrency
  pc,              \* where the caller is
  next,            \* the caller's loop index
  sem,             \* number of tokens in the semaphore channel
  wg,              \* counter of the WaitGroup
  worker,          \* worker[i]: where the processing of item i is
  workloads        \* the result slots

setup == <<count, maxConcurrency>>

vars == <<setup, pc, next, sem, wg, worker, workloads>>

Items == 0 .. (count - 1)

LimitOffByOne == IF maxConcurrency < count THEN maxConcurrency + 1 ELSE count

\* minInt(s.maxConcurrency, count), the capacity of sem.
Limit == IF maxConcurrency < count THEN maxConcurrency ELSE count

Sequential == count = 1 \/ maxConcurrency <= 1

CallerStates == {"entry", "sequential", "spawn", "wait", "returned"}

\* A goroutine is spawned holding a token; it calls the API ("scanning"),
\* stores its result, takes its token out of sem, then calls wg.Done: the
\* deferred functions run in the reverse of the order they were deferred in.
WorkerStates == {"idle", "spawned", "scanning", "stored", "released", "finished"}

Init ==
  /\ count \in Counts
  /\ \E value \in Settings : maxConcurrency = NormalizedMaxConcurrency(value)
  /\ pc = "entry"
  /\ next = 0
  /\ sem = 0
  /\ wg = 0
  /\ worker = [i \in Items |-> "idle"]
  /\ workloads = [i \in Items |-> NoResult]

-----------------------------------------------------------------------------
(* The caller *)

Enter ==
  /\ pc = "entry"
  /\ pc' = IF count = 0 THEN "returned" ELSE IF Sequential THEN "sequential" ELSE "spawn"
  /\ UNCHANGED <<setup, next, sem, wg, worker, workloads>>

SequentialCall ==
  /\ pc = "sequential"
  /\ next < count
  /\ worker[next] = "idle"
  /\ worker' = [worker EXCEPT ![next] = "scanning"]
  /\ UNCHANGED <<setup, pc, next, sem, wg, workloads>>

SequentialStore ==
  /\ pc = "sequential"
  /\ next < count
  /\ worker[next] = "scanning"
  /\ worker' = [worker EXCEPT ![next] = "finished"]
  /\ workloads' = [workloads EXCEPT ![next] = next]
  /\ next' = next + 1
  /\ UNCHANGED <<setup, pc, sem, wg>>

SequentialReturnEarly ==
  /\ pc = "sequential"
  /\ next = count - 1
  /\ pc' = "returned"
  /\ UNCHANGED <<setup, next, sem, wg, worker, workloads>>

SequentialReturn ==
  /\ pc = "sequential"
  /\ next = count
  /\ pc' = "returned"
  /\ UNCHANGED <<setup, next, sem, wg, worker, workloads>>

SpawnUncounted ==
  /\ pc = "spawn"
  /\ next < count
  /\ sem < Limit
  /\ sem' = sem + 1
  /\ wg' = IF next = count - 1 THEN wg ELSE wg + 1
  /\ worker' = [worker EXCEPT ![next] = "spawned"]
  /\ next' = next + 1
  /\ UNCHANGED <<setup, pc, workloads>>

\* One turn of the spawning loop. It blocks while sem is full; wg.Add and the
\* go statement follow at once and nothing can come between them.
Spawn ==
  /\ pc = "spawn"
  /\ next < count
  /\ sem < Limit
  /\ sem' = sem + 1
  /\ wg' = wg + 1
  /\ worker' = [worker EXCEPT ![next] = "spawned"]
  /\ next' = next + 1
  /\ UNCHANGED <<setup, pc, workloads>>

EndLoop ==
  /\ pc = "spawn"
  /\ next = count
  /\ pc' = "wait"
  /\ UNCHANGED <<setup, next, sem, wg, worker, workloads>>

WaitOnTokens ==
  /\ pc = "wait"
  /\ sem = 0
  /\ pc' = "returned"
  /\ UNCHANGED <<setup, next, sem, wg, worker, workloads>>

\* wg.Wait() returns when the counter is zero.
Wait ==
  /\ pc = "wait"
  /\ wg = 0
  /\ pc' = "returned"
  /\ UNCHANGED <<setup, next, sem, wg, worker, workloads>>

-----------------------------------------------------------------------------
(* The goroutine of item i *)

Call(i) ==
  /\ worker[i] = "spawned"
  /\ worker' = [worker EXCEPT ![i] = "scanning"]
  /\ UNCHANGED <<setup, pc, next, sem, wg, workloads>>

StoreAtLoopIndex(i) ==
  /\ pc # "sequential"
  /\ worker[i] = "scanning"
  /\ worker' = [worker EXCEPT ![i] = "stored"]
  /\ workloads' = [workloads EXCEPT ![IF next < count THEN next ELSE count - 1] = i]
  /\ UNCHANGED <<setup, pc, next, sem, wg>>

\* workloads[index] = scan(index), index being the goroutine's own parameter.
Store(i) ==
  /\ pc # "sequential"
  /\ worker[i] = "scanning"
  /\ worker' = [worker EXCEPT ![i] = "stored"]
  /\ workloads' = [workloads EXCEPT ![i] = i]
  /\ UNCHANGED <<setup, pc, next, sem, wg>>

KeepToken(i) ==
  /\ worker[i] = "stored"
  /\ worker' = [worker EXCEPT ![i] = "released"]
  /\ UNCHANGED <<setup, pc, next, sem, wg, workloads>>

Release(i) ==
  /\ worker[i] = "stored"
  /\ sem' = sem - 1
  /\ worker' = [worker EXCEPT ![i] = "released"]
  /\ UNCHANGED <<setup, pc, next, wg, workloads>>

Done(i) ==
  /\ worker[i] = "released"
  /\ wg' = wg - 1
  /\ worker' = [worker EXCEPT ![i] = "finished"]
  /\ UNCHANGED <<setup, pc, next, sem, workloads>>

-----------------------------------------------------------------------------
Caller ==
  \/ Enter
  \/ SequentialCall
  \/ SequentialStore
  \/ SequentialReturn
  \/ Spawn
  \/ EndLoop
  \/ Wait

Worker(i) == Call(i) \/ Store(i) \/ Release(i) \/ Done(i)

Next == Caller \/ \E i \in Items : Worker(i)

Spec == Init /\ [][Next]_vars

\* The Go scheduler runs every goroutine that is not blocked, and every API
\* call ends: the HTTP client has a timeout and its context may be canceled.
Fairness ==
  /\ WF_vars(Caller)
  /\ \A i \in UNION {0 .. (n - 1) : n \in Counts} : WF_vars(i \in Items /\ Worker(i))

FairSpec == Spec /\ Fairness

-----------------------------------------------------------------------------
Scanning == {i \in Items : worker[i] = "scanning"}
Holding  == {i \in Items : worker[i] \in {"spawned", "scanning", "stored"}}
Active   == Holding \cup {i \in Items : worker[i] = "released"}

\* The types of the variables; the two counters never go below zero (a
\* negative WaitGroup counter panics).
TypeOK ==
  /\ count \in Counts
  /\ maxConcurrency \in Nat \ {0}
  /\ pc \in CallerStates
  /\ next \in 0 .. count
  /\ sem \in Nat
  /\ wg \in Nat
  /\ worker \in [Items -> WorkerStates]
  /\ workloads \in [Items -> Items \cup {NoResult}]

\* README, pve.maxConcurrency: the "maximum concurrent per-guest PVE API calls
\* during scans". Calls in flight never exceed it, whatever the order in which
\* the goroutines start, finish and return their tokens.
AtMostMaxConcurrency == Cardinality(Scanning) <= maxConcurrency

\* When scanWorkloads returns, slot i holds the result of item i for every i,
\* and no goroutine is left that could still write to the slice the caller
\* now owns: the order of the snapshot is the order of the sorted resources.
ReturnsAllInOrder ==
  pc = "returned" =>
    \A i \in Items : workloads[i] = i /\ worker[i] = "finished"

\* The pool ends: no interleaving of the caller blocked on sem with goroutines
\* that have stored but not yet released can stop it for ever.
Terminates == <>(pc = "returned")

(* The bookkeeping behind the bound and the wait, in three parts. *)

\* One token per goroutine that has not released its own, one count per
\* goroutine that has not called Done; the semaphore is never overfull.
Counted ==
  /\ sem = (IF Sequential THEN 0 ELSE Cardinality(Holding))
  /\ wg = (IF Sequential THEN 0 ELSE Cardinality(Active))
  /\ sem <= Limit

\* A slot is written exactly when its item has been processed, and with the
\* result of that item.
Stored ==
  \A i \in Items :
    workloads[i] = IF worker[i] \in {"stored", "released", "finished"} THEN i ELSE NoResult

\* Where the workers can be, given where the caller is.
Phases ==
  /\ pc = "entry" => next = 0
  /\ pc = "sequential" => Sequential
  /\ pc \in {"spawn", "wait"} => ~Sequential
  /\ pc = "wait" => next = count
  /\ pc = "returned" => \A i \in Items : worker[i] = "finished"
  /\ Sequential => \A i \in Items : worker[i] \in {"idle", "scanning", "finished"}
  /\ ~Sequential => \A i \in Items : i < next => worker[i] # "idle"
  /\ Sequential => \A i \in Items : i < next => worker[i] = "finished"
  /\ \A i \in Items : i > next => worker[i] = "idle"
  /\ (pc # "sequential" /\ next < count) => worker[next] = "idle"
  /\ (pc = "sequential" /\ next < count) => worker[next] \in {"idle", "scanning"}

\* The inductive invariant: one token and one wait count per goroutine that
\* still owes them, so a full semaphore means Limit goroutines at work and a
\* zero WaitGroup means none.
IInv == TypeOK /\ Counted /\ Stored /\ Phases

Abstract == INSTANCE BoundedMap WITH
  items    <- Items,
  bound    <- maxConcurrency,
  inFlight <- Scanning,
  slots    <- workloads,
  returned <- (pc = "returned")

\* The pool is a bounded parallel map.
ImplementsBoundedMap == Abstract!FairSpec
=============================================================================
