-------------------------- MODULE BrowserPoolProofs --------------------------
(***************************************************************************)
(* Proofs about BrowserPool, for every set of requests, workers, profiles  *)
(* and backends and every bound.                                           *)
(***************************************************************************)
EXTENDS BrowserPool, FiniteSetTheorems, TLAPS

(***************************************************************************)
(* The inductive invariant.  TypeOK alone is not inductive: that no count  *)
(* goes below zero needs what the counts count, and that a worker's record *)
(* is the one updated needs that the requests past acquire() hold a worker.*)
(***************************************************************************)
HoldsWorker ==
    \A r \in Requests :
        at[r] \in {"arriving", "granted", "opening", "inUse", "released", "closing"}
            => on[r] \in Workers

IInv == TypeOK /\ HoldsWorker /\ LeaseAccounting /\ LaunchAccounting

-----------------------------------------------------------------------------
\* Counting

\* Sets of requests are finite and their sizes are naturals.
LEMMA CountsRequests ==
    ASSUME NEW S \in SUBSET Requests
    PROVE  IsFiniteSet(S) /\ Cardinality(S) \in Nat
  BY PoolAssumption, FS_Subset, FS_CardinalityType

\* Sets of workers are finite and their sizes are naturals.
LEMMA CountsWorkers ==
    ASSUME NEW S \in SUBSET Workers
    PROVE  IsFiniteSet(S) /\ Cardinality(S) \in Nat
  BY PoolAssumption, FS_Subset, FS_CardinalityType

\* A request joins a set of requests.
LEMMA CountJoin ==
    ASSUME NEW S \in SUBSET Requests, NEW r \in Requests, r \notin S
    PROVE  Cardinality(S \cup {r}) = Cardinality(S) + 1
  BY CountsRequests, FS_AddElement

\* A request leaves a set of requests.
LEMMA CountLeave ==
    ASSUME NEW S \in SUBSET Requests, NEW r \in S
    PROVE  /\ Cardinality(S \ {r}) = Cardinality(S) - 1
           /\ Cardinality(S) >= 1
<1>1. IsFiniteSet(S)
  BY CountsRequests
<1>2. Cardinality(S \ {r}) = Cardinality(S) - 1
  BY <1>1, FS_RemoveElement
<1>3. Cardinality(S \ {r}) \in Nat /\ Cardinality(S) \in Nat
  BY CountsRequests
<1>4. QED
  BY <1>2, <1>3

\* replenish() starts between none and as many launches as it is called.
LEMMA ReplenishIsNat ==
    ASSUME TypeOK, NEW calls \in Nat, NEW list \in SUBSET Workers
    PROVE  Replenish(calls, list) \in 0..calls
<1>1. DefaultBackend \in Backends
  BY PoolAssumption DEF DefaultBackend
<1>2. Cardinality(DefaultIn(list)) \in Nat
  BY CountsWorkers DEF DefaultIn
<1>3. launchingOf[DefaultBackend] \in Nat /\ PoolMin \in Nat
  BY <1>1, PoolAssumption DEF TypeOK
<1>4. QED
  BY <1>2, <1>3 DEF Replenish

\* The launches acquire() starts for the workers it buries.
LEMMA AcquireFills ==
    ASSUME TypeOK
    PROVE  Replenish(Cardinality(DefaultIn(Disconnected)), workers \ Disconnected) \in Nat
<1>1. /\ DefaultIn(Disconnected) \in SUBSET Workers
      /\ workers \ Disconnected \in SUBSET Workers
  BY DEF TypeOK, DefaultIn, Disconnected
<1>2. Cardinality(DefaultIn(Disconnected)) \in Nat
  BY <1>1, CountsWorkers
<1>3. QED
  BY <1>1, <1>2, ReplenishIsNat

-----------------------------------------------------------------------------
\* Types

\* What launch() builds is a worker.
LEMMA BornIsWorker ==
    ASSUME NEW p \in Profiles, NEW missed
    PROVE  Born(p, missed) \in WorkerRecord
<1>1. 0 \in Nat /\ 0 \in 0..FailureLimit
  BY PoolAssumption
<1>2. /\ ("disconnected" \notin missed) \in BOOLEAN
      /\ ("close" \notin missed) \in BOOLEAN
      /\ (missed # {}) \in BOOLEAN
  OBVIOUS
<1>3. QED
  BY <1>1, <1>2, Zenon DEF Born, WorkerRecord

\* So is the record a gone worker leaves.
LEMMA GoneIsWorker == Gone \in WorkerRecord
<1> DEFINE b == Born(PlainProfile, {"close", "disconnected"})
<1>1. b \in WorkerRecord
  BY BornIsWorker, PoolAssumption
<1>2. [b EXCEPT !.state = "dead"] \in WorkerRecord
  BY <1>1 DEF WorkerRecord
<1>3. QED
  BY <1>2 DEF Gone

\* initialize() leaves a pool of the right shape with nothing in flight.
LEMMA InitInvariant == Init => IInv
<1>1. SUFFICES ASSUME Init PROVE IInv
  OBVIOUS
<1>2. DefaultBackend \in Backends
  BY PoolAssumption DEF DefaultBackend
<1>3. TypeOK
  <2>1. Born(PlainProfile, {}) \in WorkerRecord /\ Gone \in WorkerRecord
    BY BornIsWorker, GoneIsWorker, PoolAssumption
  <2>2. worker \in [Workers -> WorkerRecord]
    BY <1>1, <2>1 DEF Init
  <2>3. QED
    BY <1>1, <2>2, PoolAssumption DEF Init, TypeOK, Phases
<1>4. HoldsWorker
  BY <1>1 DEF Init, HoldsWorker
<1>5. Cardinality({}) = 0
  BY FS_EmptySet
<1>6. LeaseAccounting
  <2>1. \A w \in Workers : Users(w) = {} /\ worker[w].active = 0
    BY <1>1 DEF Init, Users, Born, Gone
  <2>2. QED
    BY <1>5, <2>1 DEF LeaseAccounting
<1>7. LaunchAccounting
  <2>1. Launchers = {} /\ \A b \in Backends : LaunchersOf(b) = {}
    BY <1>1 DEF Init, Launchers, LaunchersOf
  <2>2. QED
    BY <1>1, <1>5, <2>1 DEF Init, LaunchAccounting
<1>8. QED
  BY <1>3, <1>4, <1>6, <1>7 DEF IInv

\* A launch that ends was counted, in all and for its backend.
LEMMA LauncherIsCounted ==
    ASSUME TypeOK, LaunchAccounting, NEW r \in Launchers
    PROVE  /\ BackendOf[want[r]] \in Backends
           /\ launching - 1 \in Nat
           /\ launchingOf[BackendOf[want[r]]] - 1 \in Nat
<1> DEFINE b == BackendOf[want[r]]
<1>1. b \in Backends
  BY PoolAssumption DEF TypeOK, Launchers
<1>2. Launchers \in SUBSET Requests /\ LaunchersOf(b) \in SUBSET Requests
  BY DEF Launchers, LaunchersOf
<1>3. r \in LaunchersOf(b)
  BY DEF LaunchersOf
<1>4. Cardinality(Launchers) >= 1 /\ Cardinality(LaunchersOf(b)) >= 1
  BY <1>2, <1>3, CountLeave
<1>5. Cardinality(Launchers) \in Nat /\ Cardinality(LaunchersOf(b)) \in Nat
  BY <1>2, CountsRequests
<1>6. /\ launching = Cardinality(Launchers) + filling + settling
      /\ launchingOf[b] = Cardinality(LaunchersOf(b))
                          + (IF b = DefaultBackend THEN filling + settling ELSE 0)
  BY <1>1 DEF LaunchAccounting
<1>7. filling \in Nat /\ settling \in Nat
  BY DEF TypeOK
<1>8. launching - 1 \in Nat /\ launchingOf[b] - 1 \in Nat
  BY <1>4, <1>5, <1>6, <1>7
<1>9. QED
  BY <1>1, <1>8

\* So was a background launch.
LEMMA FillIsCounted ==
    ASSUME TypeOK, LaunchAccounting, filling + settling > 0
    PROVE  /\ DefaultBackend \in Backends
           /\ launching - 1 \in Nat
           /\ launchingOf[DefaultBackend] - 1 \in Nat
<1>1. DefaultBackend \in Backends
  BY PoolAssumption DEF DefaultBackend
<1>2. Launchers \in SUBSET Requests /\ LaunchersOf(DefaultBackend) \in SUBSET Requests
  BY DEF Launchers, LaunchersOf
<1>3. Cardinality(Launchers) \in Nat /\ Cardinality(LaunchersOf(DefaultBackend)) \in Nat
  BY <1>2, CountsRequests
<1>4. /\ launching = Cardinality(Launchers) + filling + settling
      /\ launchingOf[DefaultBackend]
            = Cardinality(LaunchersOf(DefaultBackend)) + filling + settling
  BY <1>1, <1>3 DEF LaunchAccounting, TypeOK
<1>5. filling \in Nat /\ settling \in Nat
  BY DEF TypeOK
<1>6. launching - 1 \in Nat /\ launchingOf[DefaultBackend] - 1 \in Nat
  BY <1>3, <1>4, <1>5
<1>7. QED
  BY <1>1, <1>6

\* Listing a worker keeps the records well formed.
LEMMA ListKeepsTypes ==
    ASSUME TypeOK, NEW w \in Workers, NEW p \in Profiles, List(w, p)
    PROVE  /\ workers' \subseteq Workers
           /\ worker' \in [Workers -> WorkerRecord]
           /\ backingOff' \in [Backends -> BOOLEAN]
<1>1. PICK missed \in Missable : worker' = [worker EXCEPT ![w] = Born(p, missed)]
  BY DEF List
<1>2. Born(p, missed) \in WorkerRecord
  BY BornIsWorker
<1>3. worker' \in [Workers -> WorkerRecord]
  BY <1>1, <1>2 DEF TypeOK
<1>4. workers' \subseteq Workers /\ backingOff' \in [Backends -> BOOLEAN]
  BY DEF List, TypeOK
<1>5. QED
  BY <1>3, <1>4

\* Starting background launches keeps the counters natural.
LEMMA FillingKeepsTypes ==
    ASSUME TypeOK, NEW n \in Nat, BeginFilling(n)
    PROVE  /\ launching' \in Nat
           /\ launchingOf' \in [Backends -> Nat]
           /\ filling' \in Nat
  BY PoolAssumption DEF TypeOK, BeginFilling, DefaultBackend

\* So does starting one more for a request.
LEMMA LaunchKeepsTypes ==
    ASSUME TypeOK, NEW n \in Nat, NEW r \in Requests, Launch(r, n)
    PROVE  /\ launching' \in Nat
           /\ launchingOf' \in [Backends -> Nat]
           /\ filling' \in Nat
<1>1. \A b \in Backends :
        launchingOf[b] + (IF b = DefaultBackend THEN n ELSE 0)
                       + (IF b = BackendOf[want[r]] THEN 1 ELSE 0) \in Nat
  BY DEF TypeOK
<1>2. launchingOf' \in [Backends -> Nat]
  BY <1>1 DEF Launch
<1>3. launching' \in Nat /\ filling' \in Nat
  BY DEF Launch, TypeOK
<1>4. QED
  BY <1>2, <1>3

\* The requests whose record of a worker an action updates.
LEMMA HolderIsTyped ==
    ASSUME TypeOK, HoldsWorker, NEW r \in Requests,
           at[r] \in {"arriving", "granted", "opening", "inUse", "released", "closing"}
    PROVE  on[r] \in Workers /\ worker[on[r]] \in WorkerRecord
  BY DEF TypeOK, HoldsWorker

\* A request with an open context is counted by its worker.
LEMMA UserIsCounted ==
    ASSUME IInv, NEW r \in Requests, at[r] \in {"opening", "inUse"}
    PROVE  /\ on[r] \in Workers
           /\ worker[on[r]].active >= 1
<1>1. on[r] \in Workers
  BY DEF IInv, HoldsWorker
<1>2. r \in Users(on[r]) /\ Users(on[r]) \in SUBSET Requests
  BY DEF Users
<1>3. Cardinality(Users(on[r])) >= 1
  BY <1>2, CountLeave
<1>4. QED
  BY <1>1, <1>3 DEF IInv, LeaseAccounting

\* The steps of one request keep the types.
LEMMA RequestKeepsTypes ==
    ASSUME IInv, NEW r \in Requests, RequestStep(r)
    PROVE  TypeOK'
<1> USE DEF Phases
<1>0. TypeOK /\ HoldsWorker /\ LaunchAccounting
  BY DEF IInv
<1>1. CASE Acquire(r)
  <2> DEFINE n == Replenish(Cardinality(DefaultIn(Disconnected)), workers \ Disconnected)
  <2>1. n \in Nat
    BY <1>0, AcquireFills
  <2>2. workers' \subseteq Workers /\ worker' \in [Workers -> WorkerRecord]
    BY <1>0, <1>1 DEF Acquire, BuryDisconnected, TypeOK, WorkerRecord
  <2>3. /\ at' \in [Requests -> Phases]
        /\ on' \in [Requests -> Workers \cup {NoWorker}]
    BY <1>0, <1>1 DEF Acquire, Grant, Refuse, Launch, LeastActive, Available, TypeOK
  <2>4. /\ launching' \in Nat
        /\ launchingOf' \in [Backends -> Nat]
        /\ filling' \in Nat
    <3>1. CASE BeginFilling(n)
      BY <1>0, <2>1, <3>1, FillingKeepsTypes
    <3>2. CASE Launch(r, n)
      BY <1>0, <2>1, <3>2, LaunchKeepsTypes
    <3>3. QED
      BY <1>1, <3>1, <3>2 DEF Acquire, Grant, Refuse
  <2>5. QED
    BY <1>0, <1>1, <2>2, <2>3, <2>4 DEF Acquire, TypeOK
<1>2. CASE LaunchReturns(r)
  <2>1. PICK w \in Unused : List(w, want[r]) /\ on' = [on EXCEPT ![r] = w]
    BY <1>2 DEF LaunchReturns
  <2>2. w \in Workers /\ want[r] \in Profiles
    BY <1>0 DEF Unused, TypeOK
  <2>3. /\ workers' \subseteq Workers
        /\ worker' \in [Workers -> WorkerRecord]
        /\ backingOff' \in [Backends -> BOOLEAN]
    BY <1>0, <2>1, <2>2, ListKeepsTypes
  <2>4. QED
    BY <1>0, <1>2, <2>1, <2>2, <2>3 DEF LaunchReturns, TypeOK
<1>3. CASE LaunchSettles(r) \/ LaunchFails(r)
  <2>1. r \in Launchers
    BY <1>3 DEF LaunchSettles, LaunchFails, Launchers
  <2>2. /\ BackendOf[want[r]] \in Backends
        /\ launching - 1 \in Nat
        /\ launchingOf[BackendOf[want[r]]] - 1 \in Nat
    BY <1>0, <2>1, LauncherIsCounted
  <2>3. launching' \in Nat /\ launchingOf' \in [Backends -> Nat]
    BY <1>0, <1>3, <2>2 DEF LaunchSettles, LaunchFails, EndLaunch, TypeOK
  <2>4. QED
    BY <1>0, <1>3, <2>2, <2>3 DEF LaunchSettles, LaunchFails, TypeOK
<1>4. CASE Count(r)
  <2>1. on[r] \in Workers /\ worker[on[r]] \in WorkerRecord
    BY <1>0, <1>4, HolderIsTyped DEF Count
  <2>2. worker' \in [Workers -> WorkerRecord]
    BY <1>0, <1>4, <2>1 DEF Count, TypeOK, WorkerRecord
  <2>3. QED
    BY <1>0, <1>4, <2>2 DEF Count, TypeOK, launchVars
<1>5. CASE Open(r)
  BY <1>0, <1>5 DEF Open, TypeOK, launchVars
<1>6. CASE OpenFails(r)
  <2>1. on[r] \in Workers /\ worker[on[r]] \in WorkerRecord
    BY <1>0, <1>6, HolderIsTyped DEF OpenFails
  <2>2. worker' \in [Workers -> WorkerRecord]
    <3> DEFINE old == worker[on[r]]
               failures == IF old.failures < FailureLimit
                           THEN old.failures + 1 ELSE FailureLimit
               state == IF failures >= FailureLimit THEN "draining" ELSE old.state
    <3>1. failures \in 0..FailureLimit
      BY <2>1, PoolAssumption DEF WorkerRecord
    <3>2. state \in {"healthy", "draining", "dead"}
      BY <2>1 DEF WorkerRecord
    <3>3. worker' = [worker EXCEPT ![on[r]] =
                        [@ EXCEPT !.failures = failures, !.state = state]]
      BY <1>6 DEF OpenFails
    <3> HIDE DEF failures, state
    <3>4. [old EXCEPT !.failures = failures, !.state = state] \in WorkerRecord
      BY <2>1, <3>1, <3>2 DEF WorkerRecord
    <3>5. QED
      BY <1>0, <2>1, <3>3, <3>4 DEF TypeOK
  <2>3. QED
    BY <1>0, <1>6, <2>2 DEF OpenFails, TypeOK, launchVars
<1>7. CASE Release(r)
  <2>1. on[r] \in Workers /\ worker[on[r]] \in WorkerRecord
    BY <1>0, <1>7, HolderIsTyped DEF Release
  <2>2. worker[on[r]].active >= 1
    BY <1>7, UserIsCounted DEF Release
  <2>3. worker' \in [Workers -> WorkerRecord]
    BY <1>0, <1>7, <2>1, <2>2 DEF Release, TypeOK, WorkerRecord
  <2>4. QED
    BY <1>0, <1>7, <2>3 DEF Release, TypeOK, launchVars
<1>8. CASE Recycle(r)
  <2>1. on[r] \in Workers /\ worker[on[r]] \in WorkerRecord
    BY <1>0, <1>8, HolderIsTyped DEF Recycle
  <2>2. worker' \in [Workers -> WorkerRecord]
    <3>1. PICK worn \in BOOLEAN : Keep(r, worn) \/ Retire(r, worn)
      BY <1>8 DEF Recycle
    <3>2. /\ [worker[on[r]] EXCEPT !.state = "draining"] \in WorkerRecord
          /\ [worker[on[r]] EXCEPT !.state = "dead", !.ending = TRUE] \in WorkerRecord
      BY <2>1 DEF WorkerRecord
    <3>3. \/ worker' = worker
          \/ worker' = [worker EXCEPT ![on[r]] = [@ EXCEPT !.state = "draining"]]
          \/ worker' = [worker EXCEPT ![on[r]] = [@ EXCEPT !.state = "dead", !.ending = TRUE]]
      BY <1>0, <2>1, <3>1 DEF Keep, Retire, TypeOK, WorkerRecord
    <3>4. QED
      BY <1>0, <2>1, <3>2, <3>3 DEF TypeOK
  <2>3. QED
    BY <1>0, <1>8, <2>2 DEF Recycle, Keep, Retire, TypeOK, launchVars
<1>9. CASE Closed(r)
  <2> DEFINE calls == IF Backend(on[r]) = DefaultBackend THEN 1 ELSE 0
  <2>1. Replenish(calls, workers) \in Nat
    BY <1>0, ReplenishIsNat DEF TypeOK
  <2>2. /\ launching' \in Nat
        /\ launchingOf' \in [Backends -> Nat]
        /\ filling' \in Nat
    BY <1>0, <1>9, <2>1, FillingKeepsTypes DEF Closed
  <2>3. QED
    BY <1>0, <1>9, <2>2 DEF Closed, TypeOK
<1>10. QED
  BY <1>1, <1>2, <1>3, <1>4, <1>5, <1>6, <1>7, <1>8, <1>9 DEF RequestStep

\* Every step keeps the types.
LEMMA NextKeepsTypes ==
    ASSUME IInv, Next
    PROVE  TypeOK'
<1> USE DEF Phases
<1>0. TypeOK /\ HoldsWorker /\ LaunchAccounting
  BY DEF IInv
<1>1. ASSUME NEW r \in Requests, RequestStep(r)
      PROVE  TypeOK'
  BY <1>1, RequestKeepsTypes
<1>2. ASSUME NEW r \in Requests, NEW p \in Profiles, Request(r, p)
      PROVE  TypeOK'
  BY <1>0, <1>2 DEF Request, TypeOK, launchVars
<1>3. CASE FillReturns
  <2>1. PICK w \in Unused : List(w, PlainProfile)
    BY <1>3 DEF FillReturns
  <2>2. w \in Workers /\ PlainProfile \in Profiles
    BY PoolAssumption DEF Unused
  <2>3. /\ workers' \subseteq Workers
        /\ worker' \in [Workers -> WorkerRecord]
        /\ backingOff' \in [Backends -> BOOLEAN]
    BY <1>0, <2>1, <2>2, ListKeepsTypes
  <2>4. QED
    BY <1>0, <1>3, <2>3 DEF FillReturns, TypeOK, requestVars
<1>4. CASE FillSettles \/ FillFails
  <2>1. filling + settling > 0
    BY <1>0, <1>4 DEF FillSettles, FillFails, TypeOK
  <2>2. /\ DefaultBackend \in Backends
        /\ launching - 1 \in Nat
        /\ launchingOf[DefaultBackend] - 1 \in Nat
    BY <1>0, <2>1, FillIsCounted
  <2>3. launching' \in Nat /\ launchingOf' \in [Backends -> Nat]
    BY <1>0, <1>4, <2>2 DEF FillSettles, FillFails, EndLaunch, TypeOK
  <2>4. CASE FillSettles
    BY <1>0, <2>3, <2>4 DEF FillSettles, TypeOK, requestVars
  <2>5. CASE FillFails
    <3>1. filling' \in Nat
      BY <1>0, <2>5 DEF FillFails, TypeOK
    <3>2. /\ backingOff \in [Backends -> BOOLEAN]
          /\ backingOff' = [backingOff EXCEPT ![DefaultBackend] = TRUE]
      BY <1>0, <2>5 DEF FillFails, TypeOK
    <3>3. backingOff' \in [Backends -> BOOLEAN]
      BY <3>2, Zenon
    <3>4. QED
      BY <1>0, <2>3, <2>5, <3>1, <3>3 DEF FillFails, TypeOK, requestVars
  <2>6. QED
    BY <1>4, <2>4, <2>5
<1>5. ASSUME NEW w \in Workers, OnDisconnected(w)
      PROVE  TypeOK'
  <2>1. worker[w] \in WorkerRecord
    BY <1>0 DEF TypeOK
  <2> DEFINE state == IF worker[w].state = "healthy" THEN "draining" ELSE worker[w].state
             ending == worker[w].ending \/ worker[w].state = "healthy"
  <2>2. state \in {"healthy", "draining", "dead"} /\ ending \in BOOLEAN
    BY <2>1 DEF WorkerRecord
  <2>3. worker' = [worker EXCEPT ![w] =
                      [@ EXCEPT !.connected = FALSE, !.state = state, !.ending = ending]]
    BY <1>5 DEF OnDisconnected
  <2> HIDE DEF state, ending
  <2>4. [worker[w] EXCEPT !.connected = FALSE, !.state = state, !.ending = ending]
           \in WorkerRecord
    BY <2>1, <2>2 DEF WorkerRecord
  <2>5. worker' \in [Workers -> WorkerRecord]
    BY <1>0, <2>3, <2>4 DEF TypeOK
  <2>6. QED
    BY <1>0, <1>5, <2>5 DEF OnDisconnected, TypeOK, requestVars, launchVars
<1>6. ASSUME NEW w \in Workers, OnClose(w)
      PROVE  TypeOK'
  <2> DEFINE calls == IF worker[w].state # "dead" /\ Backend(w) = DefaultBackend
                      THEN 1 ELSE 0
  <2>1. Replenish(calls, workers \ {w}) \in Nat
    BY <1>0, ReplenishIsNat DEF TypeOK
  <2>2. /\ launching' \in Nat
        /\ launchingOf' \in [Backends -> Nat]
        /\ filling' \in Nat
    BY <1>0, <1>6, <2>1, FillingKeepsTypes DEF OnClose
  <2>3. worker' \in [Workers -> WorkerRecord]
    <3>1. worker' = [worker EXCEPT ![w] = [@ EXCEPT !.alive = FALSE, !.state = "dead"]]
      BY <1>6 DEF OnClose
    <3>2. [worker[w] EXCEPT !.alive = FALSE, !.state = "dead"] \in WorkerRecord
      BY <1>0 DEF TypeOK, WorkerRecord
    <3>3. QED
      BY <1>0, <3>1, <3>2 DEF TypeOK
  <2>4. QED
    BY <1>0, <1>6, <2>2, <2>3 DEF OnClose, TypeOK, requestVars
<1>7. ASSUME NEW w \in Workers, Crash(w)
      PROVE  TypeOK'
  <2>1. worker' \in [Workers -> WorkerRecord]
    BY <1>0, <1>7 DEF Crash, TypeOK, WorkerRecord
  <2>2. QED
    BY <1>0, <1>7, <2>1 DEF Crash, TypeOK, requestVars, launchVars
<1>8. ASSUME NEW b \in Backends, BackoffExpires(b)
      PROVE  TypeOK'
  BY <1>0, <1>8 DEF BackoffExpires, TypeOK, requestVars
<1>9. CASE PressureMoves
  <2>1. softPressure' \in BOOLEAN
    BY <1>9, PoolAssumption DEF PressureMoves
  <2>2. QED
    BY <1>0, <1>9, <2>1 DEF PressureMoves, TypeOK, requestVars, launchVars
<1>10. CASE Close
  <2>1. worker' \in [Workers -> WorkerRecord]
    BY <1>0, <1>10 DEF Close, TypeOK, WorkerRecord
  <2>2. QED
    BY <1>0, <1>10, <2>1 DEF Close, TypeOK, requestVars, launchVars
<1>11. QED
  BY <1>1, <1>2, <1>3, <1>4, <1>5, <1>6, <1>7, <1>8, <1>9, <1>10 DEF Next, FillStep

\* Every request past acquire() holds the worker acquire() gave it, until
\* recycle() is done with it.
LEMMA NextKeepsHolders ==
    ASSUME IInv, Next
    PROVE  HoldsWorker'
<1>0. TypeOK /\ HoldsWorker
  BY DEF IInv
<1>1. ASSUME NEW r \in Requests, Acquire(r)
      PROVE  HoldsWorker'
  <2>1. \A p \in Profiles : LeastActive(Available(p)) \subseteq Workers
    BY <1>0 DEF LeastActive, Available, TypeOK
  <2>2. \/ /\ at' = [at EXCEPT ![r] = "granted"]
           /\ \E w \in Workers : on' = [on EXCEPT ![r] = w]
        \/ /\ at' = [at EXCEPT ![r] = "idle"]
           /\ on' = on
        \/ /\ at' = [at EXCEPT ![r] = "launching"]
           /\ on' = on
    BY <1>0, <1>1, <2>1 DEF Acquire, Grant, Refuse, Launch, TypeOK
  <2>3. QED
    BY <1>0, <2>2 DEF HoldsWorker, TypeOK
<1>2. ASSUME NEW r \in Requests, LaunchReturns(r)
      PROVE  HoldsWorker'
  BY <1>0, <1>2 DEF LaunchReturns, Unused, HoldsWorker, TypeOK
<1>3. ASSUME NEW r \in Requests,
             \/ LaunchSettles(r) \/ LaunchFails(r) \/ Count(r) \/ Open(r)
             \/ OpenFails(r) \/ Release(r)
      PROVE  HoldsWorker'
  <2>1. /\ on' = on
        /\ \E phase \in {"granted", "idle", "opening", "inUse", "released"} :
              at' = [at EXCEPT ![r] = phase]
        /\ on[r] \in Workers \/ at' = [at EXCEPT ![r] = "idle"]
    BY <1>0, <1>3
    DEF LaunchSettles, LaunchFails, Count, Open, OpenFails, Release, HoldsWorker
  <2>2. QED
    BY <1>0, <2>1 DEF HoldsWorker, TypeOK
<1>4. ASSUME NEW r \in Requests, Recycle(r) \/ Closed(r)
      PROVE  HoldsWorker'
  <2>1. \/ /\ at' = [at EXCEPT ![r] = "idle"]
           /\ on' = [on EXCEPT ![r] = NoWorker]
        \/ /\ at' = [at EXCEPT ![r] = "closing"]
           /\ on' = on
           /\ on[r] \in Workers
    BY <1>0, <1>4 DEF Recycle, Keep, Retire, Closed, HoldsWorker
  <2>2. QED
    BY <1>0, <2>1 DEF HoldsWorker, TypeOK
<1>5. ASSUME NEW r \in Requests, NEW p \in Profiles, Request(r, p)
      PROVE  HoldsWorker'
  BY <1>0, <1>5 DEF Request, HoldsWorker, TypeOK
<1>6. ASSUME UNCHANGED <<at, on>>
      PROVE  HoldsWorker'
  BY <1>0, <1>6 DEF HoldsWorker
<1>7. QED
  BY <1>1, <1>2, <1>3, <1>4, <1>5, <1>6
  DEF Next, RequestStep, FillStep, FillReturns, FillSettles, FillFails, OnDisconnected,
      OnClose, Crash, BackoffExpires, PressureMoves, Close, requestVars

-----------------------------------------------------------------------------
\* Leases

\* A step that opens and closes no context keeps the counts.
LEMMA LeaseFrame ==
    ASSUME LeaseAccounting,
           \A w \in Workers : /\ Users(w)' = Users(w)
                              /\ worker'[w].active = worker[w].active
    PROVE  LeaseAccounting'
  BY DEF LeaseAccounting

\* Nobody uses a worker whose name is taken for a new one.
LEMMA UnusedHasNoUsers ==
    ASSUME IInv, NEW w \in Unused
    PROVE  Users(w) = {} /\ worker[w].active = 0
<1>1. Users(w) = {} /\ w \in Workers
  BY DEF Unused, Users
<1>2. Cardinality({}) = 0
  BY FS_EmptySet
<1>3. QED
  BY <1>1, <1>2 DEF IInv, LeaseAccounting

\* Listing a worker leaves every count of contexts alone.
LEMMA ListKeepsActive ==
    ASSUME IInv, NEW v \in Unused, NEW p \in Profiles, List(v, p)
    PROVE  \A w \in Workers : worker'[w].active = worker[w].active
<1>1. PICK missed \in Missable : worker' = [worker EXCEPT ![v] = Born(p, missed)]
  BY DEF List
<1>2. Born(p, missed).active = 0 /\ worker[v].active = 0
  BY UnusedHasNoUsers DEF Born
<1>3. QED
  BY <1>1, <1>2 DEF IInv, TypeOK

\* Every step keeps worker.active equal to the requests that use the worker.
LEMMA NextKeepsLeases ==
    ASSUME IInv, Next
    PROVE  LeaseAccounting'
<1>0. TypeOK /\ HoldsWorker /\ LeaseAccounting
  BY DEF IInv
<1>1. ASSUME NEW r \in Requests, Count(r)
      PROVE  LeaseAccounting'
  <2>1. PICK w \in Workers : w = on[r] /\ worker[w] \in WorkerRecord
    BY <1>0, <1>1, HolderIsTyped DEF Count
  <2>2. /\ r \notin Users(w) /\ Users(w)' = Users(w) \cup {r}
        /\ \A v \in Workers \ {w} : Users(v)' = Users(v)
    BY <1>0, <1>1, <2>1 DEF Count, Users, TypeOK
  <2>3. Cardinality(Users(w)') = Cardinality(Users(w)) + 1
    BY <2>2, CountJoin DEF Users
  <2>4. /\ worker'[w].active = worker[w].active + 1
        /\ \A v \in Workers \ {w} : worker'[v] = worker[v]
    BY <1>0, <1>1, <2>1 DEF Count, TypeOK, WorkerRecord
  <2>5. worker'[w].active = Cardinality(Users(w)')
    BY <1>0, <2>1, <2>3, <2>4 DEF LeaseAccounting
  <2>6. ASSUME NEW v \in Workers \ {w}
        PROVE  worker'[v].active = Cardinality(Users(v)')
    BY <1>0, <2>2, <2>4 DEF LeaseAccounting
  <2>7. \A v \in Workers : worker'[v].active = Cardinality(Users(v)')
    BY <2>5, <2>6
  <2>8. QED
    BY <2>7 DEF LeaseAccounting
<1>2. ASSUME NEW r \in Requests, Release(r)
      PROVE  LeaseAccounting'
  <2>1. PICK w \in Workers : w = on[r] /\ worker[w] \in WorkerRecord
    BY <1>0, <1>2, HolderIsTyped DEF Release
  <2>2. /\ r \in Users(w) /\ Users(w)' = Users(w) \ {r}
        /\ \A v \in Workers \ {w} : Users(v)' = Users(v)
    BY <1>0, <1>2, <2>1 DEF Release, Users, TypeOK
  <2>3. Cardinality(Users(w)') = Cardinality(Users(w)) - 1
    BY <2>2, CountLeave DEF Users
  <2>4. /\ worker'[w].active = worker[w].active - 1
        /\ \A v \in Workers \ {w} : worker'[v] = worker[v]
    BY <1>0, <1>2, <2>1 DEF Release, TypeOK, WorkerRecord
  <2>5. worker'[w].active = Cardinality(Users(w)')
    BY <1>0, <2>1, <2>3, <2>4 DEF LeaseAccounting
  <2>6. ASSUME NEW v \in Workers \ {w}
        PROVE  worker'[v].active = Cardinality(Users(v)')
    BY <1>0, <2>2, <2>4 DEF LeaseAccounting
  <2>7. \A v \in Workers : worker'[v].active = Cardinality(Users(v)')
    BY <2>5, <2>6
  <2>8. QED
    BY <2>7 DEF LeaseAccounting
<1>3. ASSUME NEW r \in Requests, LaunchReturns(r)
      PROVE  LeaseAccounting'
  <2>1. PICK v \in Unused : List(v, want[r]) /\ on' = [on EXCEPT ![r] = v]
    BY <1>3 DEF LaunchReturns
  <2>2. \A w \in Workers : worker'[w].active = worker[w].active
    BY <1>0, <2>1, ListKeepsActive DEF TypeOK
  <2>3. \A w \in Workers : Users(w)' = Users(w)
    BY <1>0, <1>3, <2>1 DEF LaunchReturns, Users, TypeOK
  <2>4. QED
    BY <1>0, <2>2, <2>3, LeaseFrame
<1>4. CASE FillReturns
  <2>1. PICK v \in Unused : List(v, PlainProfile)
    BY <1>4 DEF FillReturns
  <2>2. \A w \in Workers : worker'[w].active = worker[w].active
    BY <2>1, ListKeepsActive, PoolAssumption
  <2>3. \A w \in Workers : Users(w)' = Users(w)
    BY <1>4 DEF FillReturns, Users, requestVars
  <2>4. QED
    BY <1>0, <2>2, <2>3, LeaseFrame
<1>5. ASSUME NEW r \in Requests,
             \/ Acquire(r) \/ LaunchSettles(r) \/ LaunchFails(r) \/ Open(r)
             \/ OpenFails(r) \/ Recycle(r) \/ Closed(r)
             \/ \E p \in Profiles : Request(r, p)
      PROVE  LeaseAccounting'
  <2>1. \A w \in Workers : worker'[w].active = worker[w].active
    <3>1. CASE Acquire(r)
      BY <1>0, <3>1 DEF Acquire, BuryDisconnected, TypeOK, WorkerRecord
    <3>2. CASE OpenFails(r)
      BY <1>0, <3>2 DEF OpenFails, TypeOK, WorkerRecord
    <3>3. CASE Recycle(r)
      BY <1>0, <3>3 DEF Recycle, Keep, Retire, TypeOK, WorkerRecord
    <3>4. QED
      BY <1>5, <3>1, <3>2, <3>3 DEF LaunchSettles, LaunchFails, Open, Closed, Request
  <2>2. \A w \in Workers : Users(w)' = Users(w)
    <3>1. CASE Acquire(r)
      <4>1. \/ /\ at' = [at EXCEPT ![r] = "granted"]
               /\ \E w \in Workers : on' = [on EXCEPT ![r] = w]
            \/ /\ at' = [at EXCEPT ![r] = "idle"]
               /\ on' = on
            \/ /\ at' = [at EXCEPT ![r] = "launching"]
               /\ on' = on
        BY <1>0, <3>1
        DEF Acquire, Grant, Refuse, Launch, LeastActive, Available, TypeOK
      <4>2. at[r] = "refreshing"
        BY <3>1 DEF Acquire
      <4>3. QED
        BY <1>0, <4>1, <4>2 DEF Users, TypeOK
    <3>2. CASE Recycle(r) \/ Closed(r)
      BY <1>0, <3>2 DEF Recycle, Keep, Retire, Closed, Users, TypeOK
    <3>3. CASE LaunchSettles(r) \/ LaunchFails(r) \/ Open(r) \/ OpenFails(r)
      BY <1>0, <3>3 DEF LaunchSettles, LaunchFails, Open, OpenFails, Users, TypeOK
    <3>4. ASSUME NEW p \in Profiles, Request(r, p)
          PROVE  \A w \in Workers : Users(w)' = Users(w)
      BY <1>0, <3>4 DEF Request, Users, TypeOK
    <3>5. QED
      BY <1>5, <3>1, <3>2, <3>3, <3>4
  <2>3. QED
    BY <1>0, <2>1, <2>2, LeaseFrame
<1>6. ASSUME \/ FillSettles \/ FillFails \/ PressureMoves \/ Close
             \/ \E b \in Backends : BackoffExpires(b)
             \/ \E w \in Workers : OnDisconnected(w) \/ OnClose(w) \/ Crash(w)
      PROVE  LeaseAccounting'
  <2>1. \A w \in Workers : worker'[w].active = worker[w].active
    <3>1. ASSUME NEW w \in Workers, OnDisconnected(w) \/ OnClose(w) \/ Crash(w)
          PROVE  \A v \in Workers : worker'[v].active = worker[v].active
      BY <1>0, <3>1 DEF OnDisconnected, OnClose, Crash, TypeOK, WorkerRecord
    <3>2. CASE Close
      BY <1>0, <3>2 DEF Close, TypeOK, WorkerRecord
    <3>3. QED
      BY <1>6, <3>1, <3>2 DEF FillSettles, FillFails, PressureMoves, BackoffExpires
  <2>2. UNCHANGED <<at, on>>
    BY <1>6 DEF FillSettles, FillFails, PressureMoves, Close, BackoffExpires,
                OnDisconnected, OnClose, Crash, requestVars
  <2>3. \A w \in Workers : Users(w)' = Users(w)
    BY <2>2 DEF Users
  <2>4. QED
    BY <1>0, <2>1, <2>3, LeaseFrame
<1>7. QED
  BY <1>1, <1>2, <1>3, <1>4, <1>5, <1>6 DEF Next, RequestStep, FillStep

-----------------------------------------------------------------------------
\* Launches

\* The requests in launch() stay the same.
SameLaunchers ==
    /\ Launchers' = Launchers
    /\ \A b \in Backends : LaunchersOf(b)' = LaunchersOf(b)

\* A step that neither starts nor ends a launch keeps the counts.
LEMMA LaunchFrame ==
    ASSUME LaunchAccounting, SameLaunchers,
           UNCHANGED <<launching, launchingOf, filling, settling>>
    PROVE  LaunchAccounting'
  BY DEF LaunchAccounting, SameLaunchers

\* replenish() counts the launches it starts.
LEMMA FillingIsCounted ==
    ASSUME TypeOK, LaunchAccounting, SameLaunchers, NEW n \in Nat,
           BeginFilling(n), settling' = settling
    PROVE  LaunchAccounting'
<1>1. Launchers \in SUBSET Requests /\ \A b \in Backends : LaunchersOf(b) \in SUBSET Requests
  BY DEF Launchers, LaunchersOf
<1>2. /\ Cardinality(Launchers) \in Nat
      /\ \A b \in Backends : Cardinality(LaunchersOf(b)) \in Nat
  BY <1>1, CountsRequests
<1>3. launching' = Cardinality(Launchers') + filling' + settling'
  BY <1>2 DEF LaunchAccounting, SameLaunchers, BeginFilling, TypeOK
<1>4. ASSUME NEW b \in Backends
      PROVE  launchingOf'[b] = Cardinality(LaunchersOf(b)')
                  + (IF b = DefaultBackend THEN filling' + settling' ELSE 0)
  BY <1>2 DEF LaunchAccounting, SameLaunchers, BeginFilling, TypeOK
<1>5. QED
  BY <1>3, <1>4 DEF LaunchAccounting

\* A request that stays in launch(), or outside, changes nothing.
LEMMA StaysLauncher ==
    ASSUME TypeOK, NEW r \in Requests, NEW phase \in Phases,
           at' = [at EXCEPT ![r] = phase], UNCHANGED want,
           at[r] \in {"launching", "arriving"} <=> phase \in {"launching", "arriving"}
    PROVE  SameLaunchers
  BY DEF TypeOK, Launchers, LaunchersOf, SameLaunchers

\* acquire() counts the launch it starts together with those of replenish().
LEMMA LaunchIsCounted ==
    ASSUME TypeOK, LaunchAccounting, NEW r \in Requests, at[r] = "refreshing",
           NEW n \in Nat, Launch(r, n), UNCHANGED <<want, settling>>
    PROVE  LaunchAccounting'
<1>1. PICK own \in Backends : own = BackendOf[want[r]] /\ own = BackendOf[want'[r]]
  BY PoolAssumption DEF TypeOK
<1>2. /\ Launchers' = Launchers \cup {r} /\ r \notin Launchers
      /\ LaunchersOf(own)' = LaunchersOf(own) \cup {r} /\ r \notin LaunchersOf(own)
      /\ \A b \in Backends \ {own} : LaunchersOf(b)' = LaunchersOf(b)
  BY <1>1 DEF Launch, Launchers, LaunchersOf, TypeOK
<1>3. Launchers \in SUBSET Requests /\ \A b \in Backends : LaunchersOf(b) \in SUBSET Requests
  BY DEF Launchers, LaunchersOf
<1>4. /\ Cardinality(Launchers) \in Nat
      /\ \A b \in Backends : Cardinality(LaunchersOf(b)) \in Nat
  BY <1>3, CountsRequests
<1>5. /\ Cardinality(Launchers') = Cardinality(Launchers) + 1
      /\ Cardinality(LaunchersOf(own)') = Cardinality(LaunchersOf(own)) + 1
  BY <1>2, <1>3, CountJoin
<1>6. launching' = Cardinality(Launchers') + filling' + settling'
  BY <1>4, <1>5 DEF LaunchAccounting, Launch, TypeOK
<1>7. ASSUME NEW b \in Backends
      PROVE  launchingOf'[b] = Cardinality(LaunchersOf(b)')
                  + (IF b = DefaultBackend THEN filling' + settling' ELSE 0)
  <2>1. launchingOf'[b] = launchingOf[b] + (IF b = DefaultBackend THEN n ELSE 0)
                                         + (IF b = own THEN 1 ELSE 0)
    BY <1>1 DEF Launch
  <2>2. launchingOf[b] = Cardinality(LaunchersOf(b))
                  + (IF b = DefaultBackend THEN filling + settling ELSE 0)
    BY DEF LaunchAccounting
  <2>3. Cardinality(LaunchersOf(b)') = Cardinality(LaunchersOf(b))
                                       + (IF b = own THEN 1 ELSE 0)
    BY <1>2, <1>4, <1>5
  <2>4. filling' = filling + n /\ filling \in Nat /\ settling \in Nat
    BY DEF Launch, TypeOK
  <2>5. QED
    BY <1>4, <2>1, <2>2, <2>3, <2>4
<1>8. QED
  BY <1>6, <1>7 DEF LaunchAccounting

\* The finally block takes off the count what launch() put on it.
LEMMA EndIsCounted ==
    ASSUME TypeOK, LaunchAccounting, NEW r \in Requests, LaunchSettles(r) \/ LaunchFails(r)
    PROVE  LaunchAccounting'
<1>1. PICK own \in Backends : own = BackendOf[want[r]]
  BY PoolAssumption DEF TypeOK
<1>2. /\ Launchers' = Launchers \ {r} /\ r \in Launchers
      /\ LaunchersOf(own)' = LaunchersOf(own) \ {r} /\ r \in LaunchersOf(own)
      /\ \A b \in Backends \ {own} : LaunchersOf(b)' = LaunchersOf(b)
  BY <1>1 DEF LaunchSettles, LaunchFails, Launchers, LaunchersOf, TypeOK
<1>3. Launchers \in SUBSET Requests /\ \A b \in Backends : LaunchersOf(b) \in SUBSET Requests
  BY DEF Launchers, LaunchersOf
<1>4. /\ Cardinality(Launchers) \in Nat
      /\ \A b \in Backends : Cardinality(LaunchersOf(b)) \in Nat
  BY <1>3, CountsRequests
<1>5. /\ Cardinality(Launchers') = Cardinality(Launchers) - 1
      /\ Cardinality(LaunchersOf(own)') = Cardinality(LaunchersOf(own)) - 1
  BY <1>2, <1>3, CountLeave
<1>6. /\ launching' = launching - 1
      /\ launchingOf' = [launchingOf EXCEPT ![own] = @ - 1]
      /\ filling' = filling /\ settling' = settling
  BY <1>1 DEF LaunchSettles, LaunchFails, EndLaunch
<1>7. launching' = Cardinality(Launchers') + filling' + settling'
  BY <1>4, <1>5, <1>6 DEF LaunchAccounting, TypeOK
<1>8. ASSUME NEW b \in Backends
      PROVE  launchingOf'[b] = Cardinality(LaunchersOf(b)')
                  + (IF b = DefaultBackend THEN filling' + settling' ELSE 0)
  <2>1. launchingOf'[b] = launchingOf[b] - (IF b = own THEN 1 ELSE 0)
    BY <1>6 DEF TypeOK
  <2>2. launchingOf[b] = Cardinality(LaunchersOf(b))
                  + (IF b = DefaultBackend THEN filling + settling ELSE 0)
    BY DEF LaunchAccounting
  <2>3. Cardinality(LaunchersOf(b)') = Cardinality(LaunchersOf(b))
                                       - (IF b = own THEN 1 ELSE 0)
    BY <1>2, <1>4, <1>5
  <2>4. filling \in Nat /\ settling \in Nat
    BY DEF TypeOK
  <2>5. QED
    BY <1>4, <1>6, <2>1, <2>2, <2>3, <2>4
<1>9. QED
  BY <1>7, <1>8 DEF LaunchAccounting

\* A background launch is counted from replenish() to its finally block.
LEMMA FillStepsAreCounted ==
    ASSUME TypeOK, LaunchAccounting, FillStep
    PROVE  LaunchAccounting'
<1>1. SameLaunchers
  BY DEF FillStep, FillReturns, FillSettles, FillFails, requestVars, SameLaunchers,
         Launchers, LaunchersOf
<1>2. Launchers \in SUBSET Requests /\ \A b \in Backends : LaunchersOf(b) \in SUBSET Requests
  BY DEF Launchers, LaunchersOf
<1>3. /\ Cardinality(Launchers) \in Nat
      /\ \A b \in Backends : Cardinality(LaunchersOf(b)) \in Nat
  BY <1>2, CountsRequests
<1>4. PICK ended \in {0, 1} :
        /\ launching' = launching - ended
        /\ filling' + settling' = filling + settling - ended
        /\ filling' \in Int /\ settling' \in Int
        /\ launchingOf' = IF ended = 0 THEN launchingOf
                          ELSE [launchingOf EXCEPT ![DefaultBackend] = @ - 1]
  BY DEF FillStep, FillReturns, FillSettles, FillFails, EndLaunch, TypeOK
<1>5. launching' = Cardinality(Launchers') + filling' + settling'
  <2>1. launching = Cardinality(Launchers) + filling + settling
    BY DEF LaunchAccounting
  <2>2. Cardinality(Launchers') = Cardinality(Launchers)
    BY <1>1 DEF SameLaunchers
  <2>3. launching \in Nat /\ filling \in Nat /\ settling \in Nat
    BY DEF TypeOK
  <2>4. ended \in Int /\ launching' = launching - ended
        /\ filling' + settling' = filling + settling - ended
        /\ filling' \in Int /\ settling' \in Int
    BY <1>4
  <2>5. Cardinality(Launchers) \in Nat
    BY <1>3
  <2>6. launching' = Cardinality(Launchers) + (filling + settling - ended)
    BY <2>1, <2>3, <2>4, <2>5
  <2>7. QED
    BY <2>2, <2>4, <2>5, <2>6
<1>6. ASSUME NEW b \in Backends
      PROVE  launchingOf'[b] = Cardinality(LaunchersOf(b)')
                  + (IF b = DefaultBackend THEN filling' + settling' ELSE 0)
  <2>1. launchingOf'[b] = launchingOf[b] - (IF b = DefaultBackend THEN ended ELSE 0)
    BY <1>4 DEF TypeOK
  <2>2. launchingOf[b] = Cardinality(LaunchersOf(b))
                  + (IF b = DefaultBackend THEN filling + settling ELSE 0)
    BY DEF LaunchAccounting
  <2>3. filling \in Nat /\ settling \in Nat
    BY DEF TypeOK
  <2>4. Cardinality(LaunchersOf(b)') = Cardinality(LaunchersOf(b))
    BY <1>1 DEF SameLaunchers
  <2>5. Cardinality(LaunchersOf(b)) \in Nat
    BY <1>3
  <2>6. ended \in Int /\ filling' + settling' = filling + settling - ended
    BY <1>4
  <2>7. CASE b = DefaultBackend
    BY <2>1, <2>2, <2>3, <2>4, <2>5, <2>6, <2>7
  <2>8. CASE b # DefaultBackend
    BY <2>1, <2>2, <2>4, <2>5, <2>8
  <2>9. QED
    BY <2>7, <2>8
<1>7. QED
  BY <1>5, <1>6 DEF LaunchAccounting

\* Every step keeps the launch counters equal to the launches in flight.
LEMMA NextKeepsLaunches ==
    ASSUME IInv, Next
    PROVE  LaunchAccounting'
<1> USE DEF Phases
<1>0. TypeOK /\ HoldsWorker /\ LaunchAccounting
  BY DEF IInv
<1>1. ASSUME NEW r \in Requests, Acquire(r)
      PROVE  LaunchAccounting'
  <2>1. PICK n \in Nat : /\ Grant(r, n) \/ Refuse(r, n) \/ Launch(r, n)
                         /\ at[r] = "refreshing"
                         /\ UNCHANGED <<want, settling>>
    BY <1>0, <1>1, AcquireFills DEF Acquire
  <2>2. CASE Launch(r, n)
    BY <1>0, <2>1, <2>2, LaunchIsCounted
  <2>3. CASE Grant(r, n) \/ Refuse(r, n)
    <3>1. BeginFilling(n) /\ SameLaunchers
      <4>1. BeginFilling(n) /\ \E phase \in {"granted", "idle"} : at' = [at EXCEPT ![r] = phase]
        BY <2>3 DEF Grant, Refuse
      <4>2. QED
        BY <1>0, <2>1, <4>1, StaysLauncher
    <3>2. QED
      BY <1>0, <2>1, <3>1, FillingIsCounted
  <2>4. QED
    BY <2>1, <2>2, <2>3
<1>2. ASSUME NEW r \in Requests, LaunchSettles(r) \/ LaunchFails(r)
      PROVE  LaunchAccounting'
  BY <1>0, <1>2, EndIsCounted
<1>3. ASSUME NEW r \in Requests,
             \/ LaunchReturns(r) \/ Count(r) \/ Open(r) \/ OpenFails(r)
             \/ Release(r) \/ Recycle(r)
      PROVE  LaunchAccounting'
  <2>1. \E phase \in Phases :
          /\ at' = [at EXCEPT ![r] = phase]
          /\ at[r] \in {"launching", "arriving"} <=> phase \in {"launching", "arriving"}
    BY <1>3 DEF LaunchReturns, Count, Open, OpenFails, Release, Recycle, Keep, Retire
  <2>2. UNCHANGED <<want, launching, launchingOf, filling, settling>>
    BY <1>3 DEF LaunchReturns, Count, Open, OpenFails, Release, Recycle, launchVars
  <2>3. SameLaunchers
    BY <1>0, <2>1, <2>2, StaysLauncher
  <2>4. QED
    BY <1>0, <2>2, <2>3, LaunchFrame
<1>4. ASSUME NEW r \in Requests, Closed(r)
      PROVE  LaunchAccounting'
  <2> DEFINE calls == IF Backend(on[r]) = DefaultBackend THEN 1 ELSE 0
  <2>1. Replenish(calls, workers) \in Nat
    BY <1>0, ReplenishIsNat DEF TypeOK
  <2>2. /\ at' = [at EXCEPT ![r] = "idle"] /\ at[r] = "closing"
        /\ UNCHANGED <<want, settling>>
        /\ BeginFilling(Replenish(calls, workers))
    BY <1>4 DEF Closed
  <2>3. SameLaunchers
    BY <1>0, <2>2, StaysLauncher
  <2>4. QED
    BY <1>0, <2>1, <2>2, <2>3, FillingIsCounted
<1>5. ASSUME NEW r \in Requests, NEW p \in Profiles, Request(r, p)
      PROVE  LaunchAccounting'
  <2>1. SameLaunchers
    BY <1>0, <1>5 DEF Request, TypeOK, SameLaunchers, Launchers, LaunchersOf
  <2>2. UNCHANGED <<launching, launchingOf, filling, settling>>
    BY <1>5 DEF Request, launchVars
  <2>3. QED
    BY <1>0, <2>1, <2>2, LaunchFrame
<1>6. CASE FillStep
  BY <1>0, <1>6, FillStepsAreCounted
<1>7. ASSUME UNCHANGED requestVars
      PROVE  SameLaunchers
  BY <1>7 DEF requestVars, SameLaunchers, Launchers, LaunchersOf
<1>8. ASSUME NEW w \in Workers, OnClose(w)
      PROVE  LaunchAccounting'
  <2> DEFINE calls == IF worker[w].state # "dead" /\ Backend(w) = DefaultBackend
                      THEN 1 ELSE 0
  <2>1. Replenish(calls, workers \ {w}) \in Nat
    BY <1>0, ReplenishIsNat DEF TypeOK
  <2>2. /\ UNCHANGED <<requestVars, settling>>
        /\ BeginFilling(Replenish(calls, workers \ {w}))
    BY <1>8 DEF OnClose
  <2>3. QED
    BY <1>0, <1>7, <2>1, <2>2, FillingIsCounted
<1>9. ASSUME \/ PressureMoves \/ Close
             \/ \E b \in Backends : BackoffExpires(b)
             \/ \E w \in Workers : OnDisconnected(w) \/ Crash(w)
      PROVE  LaunchAccounting'
  <2>1. UNCHANGED <<requestVars, launching, launchingOf, filling, settling>>
    BY <1>9 DEF PressureMoves, Close, BackoffExpires, OnDisconnected, Crash, launchVars
  <2>2. QED
    BY <1>0, <1>7, <2>1, LaunchFrame
<1>10. QED
  BY <1>1, <1>2, <1>3, <1>4, <1>5, <1>6, <1>8, <1>9 DEF Next, RequestStep

-----------------------------------------------------------------------------
\* The inductive invariant, and what it gives

\* A step that changes nothing keeps the invariant.
LEMMA StutterKeepsInvariant ==
    ASSUME IInv, UNCHANGED vars
    PROVE  IInv'
  BY DEF IInv, vars, requestVars, launchVars, TypeOK, HoldsWorker, LeaseAccounting, Users,
         LaunchAccounting, Launchers, LaunchersOf

\* IInv holds in every state of the pool.
LEMMA Invariance == Spec => []IInv
<1>1. IInv /\ [Next]_vars => IInv'
  BY NextKeepsTypes, NextKeepsHolders, NextKeepsLeases, NextKeepsLaunches,
     StutterKeepsInvariant DEF IInv
<1>2. QED
  BY InitInvariant, <1>1, PTL DEF Spec

\* The pool's state keeps its shape: no count of contexts or launches goes
\* below zero, however failures, crashes and retirements interleave.
THEOREM PoolTypeCorrect == Spec => []TypeOK
<1>1. IInv => TypeOK
  BY DEF IInv
<1>2. QED
  BY Invariance, <1>1, PTL

\* active++ and active-- of withContext() always pair up: worker.active is the
\* number of requests that use the worker.
THEOREM LeasesAccounted == Spec => []LeaseAccounting
<1>1. IInv => LeaseAccounting
  BY DEF IInv
<1>2. QED
  BY Invariance, <1>1, PTL

\* launching and launchingByBackend count exactly the calls of launch() that
\* are in flight, those of acquire() and those of replenish().
THEOREM LaunchesAccounted == Spec => []LaunchAccounting
<1>1. IInv => LaunchAccounting
  BY DEF IInv
<1>2. QED
  BY Invariance, <1>1, PTL

-----------------------------------------------------------------------------
\* The list and the states of the workers

\* Every step keeps healthy workers on the list and dead ones off it.
LEMMA NextKeepsServing ==
    ASSUME IInv, ListedAreServing, Next
    PROVE  ListedAreServing'
<1>0. TypeOK /\ HoldsWorker
  BY DEF IInv
<1>1. ASSUME UNCHANGED workers,
             \A w \in Workers : \/ worker'[w].state = worker[w].state
                               \/ worker'[w].state = "draining"
      PROVE  ListedAreServing'
  BY <1>1 DEF ListedAreServing
<1>2. ASSUME NEW r \in Requests, Acquire(r)
      PROVE  ListedAreServing'
  BY <1>0, <1>2 DEF Acquire, BuryDisconnected, Disconnected, ListedAreServing, TypeOK,
                    WorkerRecord
<1>3. ASSUME NEW v \in Workers, NEW p \in Profiles, List(v, p)
      PROVE  ListedAreServing'
  <2>1. /\ worker'[v].state = "healthy"
        /\ \A w \in Workers \ {v} : worker'[w] = worker[w]
        /\ workers' = workers \cup {v}
    BY <1>0, <1>3 DEF List, Born, TypeOK
  <2>2. QED
    BY <2>1 DEF ListedAreServing
<1>4. ASSUME NEW r \in Requests, LaunchReturns(r)
      PROVE  ListedAreServing'
  BY <1>0, <1>3, <1>4 DEF LaunchReturns, Unused, TypeOK
<1>5. CASE FillReturns
  BY <1>3, <1>5, PoolAssumption DEF FillReturns, Unused
<1>6. ASSUME NEW r \in Requests, Recycle(r)
      PROVE  ListedAreServing'
  <2>1. PICK worn \in BOOLEAN : Keep(r, worn) \/ Retire(r, worn)
    BY <1>6 DEF Recycle
  <2>2. CASE Keep(r, worn)
    <3>1. \A w \in Workers : \/ worker'[w].state = worker[w].state
                             \/ worker'[w].state = "draining"
      BY <1>0, <2>2 DEF Keep, TypeOK, WorkerRecord
    <3>2. QED
      BY <1>1, <2>2, <3>1 DEF Keep
  <2>3. CASE Retire(r, worn)
    <3>1. on[r] \in Workers /\ worker[on[r]] \in WorkerRecord
      BY <1>0, <1>6, HolderIsTyped DEF Recycle
    <3>2. /\ worker'[on[r]].state = "dead"
          /\ \A w \in Workers \ {on[r]} : worker'[w] = worker[w]
          /\ workers' = workers \ {on[r]}
      BY <1>0, <2>3, <3>1 DEF Retire, TypeOK, WorkerRecord
    <3>3. QED
      BY <3>1, <3>2 DEF ListedAreServing
  <2>4. QED
    BY <2>1, <2>2, <2>3
<1>7. ASSUME NEW r \in Requests,
             \/ LaunchSettles(r) \/ LaunchFails(r) \/ Count(r) \/ Open(r)
             \/ OpenFails(r) \/ Release(r) \/ Closed(r)
             \/ \E p \in Profiles : Request(r, p)
      PROVE  ListedAreServing'
  <2>1. UNCHANGED workers
    BY <1>7 DEF LaunchSettles, LaunchFails, Count, Open, OpenFails, Release, Closed, Request
  <2>2. \A w \in Workers : \/ worker'[w].state = worker[w].state
                           \/ worker'[w].state = "draining"
    BY <1>0, <1>7 DEF LaunchSettles, LaunchFails, Count, Open, OpenFails, Release, Closed,
                      Request, TypeOK, WorkerRecord
  <2>3. QED
    BY <1>1, <2>1, <2>2
<1>8. ASSUME NEW v \in Workers, OnDisconnected(v) \/ Crash(v)
      PROVE  ListedAreServing'
  <2>1. UNCHANGED workers
    BY <1>8 DEF OnDisconnected, Crash
  <2>2. worker[v] \in WorkerRecord
    BY <1>0 DEF TypeOK
  <2>3. CASE OnDisconnected(v)
    <3>1. worker'[v].state
             = IF worker[v].state = "healthy" THEN "draining" ELSE worker[v].state
      BY <1>0, <2>2, <2>3 DEF OnDisconnected, TypeOK, WorkerRecord
    <3>2. \A w \in Workers \ {v} : worker'[w] = worker[w]
      BY <1>0, <2>3 DEF OnDisconnected, TypeOK
    <3>3. QED
      BY <1>1, <2>1, <3>1, <3>2
  <2>4. CASE Crash(v)
    <3>1. worker'[v].state = worker[v].state
      BY <1>0, <2>2, <2>4 DEF Crash, TypeOK, WorkerRecord
    <3>2. \A w \in Workers \ {v} : worker'[w] = worker[w]
      BY <1>0, <2>4 DEF Crash, TypeOK
    <3>3. QED
      BY <1>1, <2>1, <3>1, <3>2
  <2>5. QED
    BY <1>8, <2>3, <2>4
<1>9. ASSUME NEW v \in Workers, OnClose(v)
      PROVE  ListedAreServing'
  <2>1. /\ worker'[v].state = "dead"
        /\ \A w \in Workers \ {v} : worker'[w] = worker[w]
        /\ workers' = workers \ {v}
    BY <1>0, <1>9 DEF OnClose, TypeOK, WorkerRecord
  <2>2. QED
    BY <2>1 DEF ListedAreServing
<1>10. CASE Close
  BY <1>0, <1>10 DEF Close, ListedAreServing, TypeOK, WorkerRecord
<1>11. ASSUME \/ FillSettles \/ FillFails \/ PressureMoves
              \/ \E b \in Backends : BackoffExpires(b)
       PROVE  ListedAreServing'
  BY <1>11 DEF FillSettles, FillFails, PressureMoves, BackoffExpires, ListedAreServing
<1>12. QED
  BY <1>2, <1>4, <1>5, <1>6, <1>7, <1>8, <1>9, <1>10, <1>11
  DEF Next, RequestStep, FillStep

\* The list of the pool holds every healthy worker and no dead one: markDead(),
\* retire() and close() change the state and the list together, and nothing
\* turns a worker off the list healthy again.
THEOREM ListServes == Spec => []ListedAreServing
<1>1. Init => ListedAreServing
  BY DEF Init, ListedAreServing, Born, Gone
<1>2. IInv /\ ListedAreServing /\ [Next]_vars => ListedAreServing'
  BY NextKeepsServing DEF ListedAreServing, vars
<1>3. QED
  BY <1>1, <1>2, Invariance, PTL DEF Spec

-----------------------------------------------------------------------------
\* Retirement

\* recycle() retires a worker only when no context is open on it.
LEMMA RetiredIsIdle ==
    ASSUME IInv, NEW r \in Requests, NEW worn, Recycle(r), Retire(r, worn)
    PROVE  on[r] \in Workers /\ Users(on[r]) = {}
<1>1. on[r] \in Workers /\ worker[on[r]] \in WorkerRecord
  BY HolderIsTyped DEF IInv, Recycle
<1>2. worker[on[r]].active = 0
  BY <1>1 DEF Retire, Keeps, WorkerRecord
<1>3. Cardinality(Users(on[r])) = 0
  BY <1>1, <1>2 DEF IInv, LeaseAccounting
<1>4. Users(on[r]) \in SUBSET Requests
  BY DEF Users
<1>5. IsFiniteSet(Users(on[r]))
  BY <1>4, CountsRequests
<1>6. QED
  BY <1>1, <1>3, <1>5, FS_EmptySet

\* No step but close() takes a sound worker off the list, and so closes its
\* process, while a context is open on it: the active > 0 test of recycle()
\* sees every request, whoever else drained the worker.
THEOREM RunningIsNotRecycled == Spec => RunningNotRecycled
<1> DEFINE Spares == \A w \in workers :
                        w \notin workers' /\ worker[w].connected /\ ~worker[w].ending
                            => Users(w) = {} \/ closed'
<1>1. IInv /\ [Next]_vars => Spares
  <2>1. SUFFICES ASSUME IInv, [Next]_vars, NEW w \in workers,
                        w \notin workers', worker[w].connected, ~worker[w].ending
                 PROVE  Users(w) = {} \/ closed'
    OBVIOUS
  <2>2. CASE UNCHANGED workers
    BY <2>1, <2>2
  <2>3. ASSUME NEW r \in Requests, Acquire(r)
        PROVE  FALSE
    BY <2>1, <2>3 DEF Acquire, BuryDisconnected, Disconnected
  <2>4. ASSUME NEW r \in Requests, Recycle(r)
        PROVE  Users(w) = {}
    <3>1. PICK worn \in BOOLEAN : Keep(r, worn) \/ Retire(r, worn)
      BY <2>4 DEF Recycle
    <3>2. Retire(r, worn) /\ w = on[r]
      BY <2>1, <3>1 DEF Keep, Retire
    <3>3. QED
      BY <2>1, <2>4, <3>2, RetiredIsIdle
  <2>5. ASSUME NEW v \in Workers, OnClose(v)
        PROVE  FALSE
    BY <2>1, <2>5 DEF OnClose
  <2>6. CASE Close
    BY <2>6 DEF Close
  <2>7. QED
    BY <2>1, <2>2, <2>3, <2>4, <2>5, <2>6
    DEF Next, RequestStep, FillStep, LaunchReturns, LaunchSettles, LaunchFails, Count, Open,
        OpenFails, Release, Closed, Request, FillReturns, FillSettles, FillFails, List,
        OnDisconnected, Crash, BackoffExpires, PressureMoves, vars
<1>2. IInv /\ [Next]_vars => [Spares]_vars
  BY <1>1
<1>3. QED
  BY Invariance, <1>2, PTL DEF Spec, RunningNotRecycled

\* A draining worker only a request can take off the list: its "close" event is
\* not to come by itself, nor was it missed with the browser gone.
Unowned(w) ==
    /\ worker[w].state = "draining"
    /\ worker[w].alive => ~worker[w].ending
    /\ ~worker[w].alive => worker[w].connected

\* DrainingHasOwner in these terms.
Owned == \A w \in workers : Unowned(w) => WillRecycle(w) # {}
LEMMA OwnersRecycle == DrainingHasOwner <=> Owned
  BY DEF DrainingHasOwner, Owned, Unowned, Stranded

\* A step that drains no listed worker and ends no request's hold keeps owners.
LEMMA OwnerFrame ==
    ASSUME Owned,
           \A w \in workers' :
               /\ Unowned(w)' => w \in workers /\ Unowned(w)
               /\ WillRecycle(w) \subseteq WillRecycle(w)'
    PROVE  Owned'
  BY DEF Owned

\* Listing a worker strands nobody: it is healthy.
LEMMA ListStrandsNobody ==
    ASSUME TypeOK, NEW v \in Workers, NEW p \in Profiles, List(v, p), NEW w \in workers',
           Unowned(w)'
    PROVE  w \in workers /\ Unowned(w)
<1>1. /\ worker'[v].state = "healthy"
      /\ \A u \in Workers \ {v} : worker'[u] = worker[u]
      /\ workers' = workers \cup {v}
  BY DEF List, Born, TypeOK
<1>2. QED
  BY <1>1 DEF Unowned, TypeOK

\* Every step leaves a draining worker on the list somebody who will retire it.
LEMMA NextKeepsOwners ==
    ASSUME IInv, Owned, Next
    PROVE  Owned'
<1>0. TypeOK /\ HoldsWorker /\ workers \subseteq Workers
  BY DEF IInv, TypeOK
<1>1. ASSUME NEW r \in Requests, Acquire(r)
      PROVE  Owned'
  <2>1. \A w \in workers' : Unowned(w)' => w \in workers /\ Unowned(w)
    BY <1>0, <1>1 DEF Acquire, BuryDisconnected, Unowned
  <2>2. /\ at[r] = "refreshing"
        /\ \A q \in Requests \ {r} : at'[q] = at[q] /\ on'[q] = on[q]
    BY <1>0, <1>1 DEF Acquire, Grant, Refuse, Launch, TypeOK
  <2>3. \A w \in Workers : WillRecycle(w) \subseteq WillRecycle(w)'
    BY <2>2 DEF WillRecycle
  <2>4. workers' \subseteq Workers
    BY <1>0, <1>1 DEF Acquire, BuryDisconnected
  <2>5. QED
    BY <2>1, <2>3, <2>4, OwnerFrame
<1>2. ASSUME NEW r \in Requests, LaunchReturns(r)
      PROVE  Owned'
  <2>1. PICK v \in Unused : List(v, want[r]) /\ on' = [on EXCEPT ![r] = v]
    BY <1>2 DEF LaunchReturns
  <2>2. v \in Workers /\ want[r] \in Profiles
    BY <1>0 DEF Unused, TypeOK
  <2>3. \A w \in workers' : Unowned(w)' => w \in workers /\ Unowned(w)
    BY <1>0, <2>1, <2>2, ListStrandsNobody
  <2>4. /\ at[r] = "launching"
        /\ \A q \in Requests \ {r} : at'[q] = at[q] /\ on'[q] = on[q]
    BY <1>0, <1>2, <2>1 DEF LaunchReturns, TypeOK
  <2>5. \A w : WillRecycle(w) \subseteq WillRecycle(w)'
    BY <2>4 DEF WillRecycle
  <2>6. QED
    BY <2>3, <2>5, OwnerFrame
<1>3. CASE FillReturns
  <2>1. PICK v \in Unused : List(v, PlainProfile)
    BY <1>3 DEF FillReturns
  <2>2. v \in Workers /\ PlainProfile \in Profiles
    BY PoolAssumption DEF Unused
  <2>3. \A w \in workers' : Unowned(w)' => w \in workers /\ Unowned(w)
    BY <1>0, <2>1, <2>2, ListStrandsNobody
  <2>4. \A w : WillRecycle(w) \subseteq WillRecycle(w)'
    BY <1>3 DEF FillReturns, WillRecycle, requestVars
  <2>5. QED
    BY <2>3, <2>4, OwnerFrame
<1>4. ASSUME NEW r \in Requests, OpenFails(r)
      PROVE  Owned'
  <2>1. on[r] \in Workers
    BY <1>0, <1>4 DEF OpenFails, HoldsWorker
  <2>2. /\ workers' = workers
        /\ \A w \in Workers \ {on[r]} : worker'[w] = worker[w]
    BY <1>0, <1>4, <2>1 DEF OpenFails, TypeOK
  <2>3. \A w : WillRecycle(w) \subseteq WillRecycle(w)'
    BY <1>0, <1>4 DEF OpenFails, WillRecycle, TypeOK
  <2>4. r \in WillRecycle(on[r])'
    BY <1>0, <1>4 DEF OpenFails, WillRecycle, TypeOK
  <2>5. ASSUME NEW w \in workers', Unowned(w)'
        PROVE  WillRecycle(w)' # {}
    <3>1. CASE w = on[r]
      <4>1. WillRecycle(w)' = {q \in Requests : on'[q] = w /\
                at'[q] \in {"arriving", "granted", "opening", "inUse", "released"}}
        BY DEF WillRecycle
      <4>2. on'[r] = w /\ at'[r] = "inUse"
        BY <1>0, <1>4, <3>1 DEF OpenFails, TypeOK
      <4>3. QED
        BY <4>1, <4>2
    <3>2. CASE w # on[r]
      BY <1>0, <2>2, <2>3, <2>5, <3>2 DEF Owned, Unowned
    <3>3. QED
      BY <3>1, <3>2
  <2>6. QED
    BY <2>5 DEF Owned
<1>5. ASSUME NEW r \in Requests, Recycle(r)
      PROVE  Owned'
  <2>1. PICK worn \in BOOLEAN : Keep(r, worn) \/ Retire(r, worn)
    BY <1>5 DEF Recycle
  <2>2. PICK v \in Workers : v = on[r] /\ worker[v] \in WorkerRecord
    BY <1>0, <1>5, HolderIsTyped DEF Recycle
  <2>3. /\ at[r] = "released"
        /\ \A w \in Workers \ {v} : worker'[w] = worker[w]
        /\ \A q \in Requests \ {r} : at'[q] = at[q] /\ on'[q] = on[q]
    BY <1>0, <1>5, <2>1, <2>2 DEF Recycle, Keep, Retire, TypeOK
  <2>4. workers' \subseteq workers
    BY <2>1 DEF Keep, Retire
  <2>5. ASSUME NEW w \in workers' \ {v}, Unowned(w)'
        PROVE  WillRecycle(w)' # {}
    <3>1. worker'[w] = worker[w] /\ w \in workers
      BY <1>0, <2>3, <2>4
    <3>2. WillRecycle(w) \subseteq WillRecycle(w)'
      BY <2>2, <2>3 DEF WillRecycle
    <3>3. QED
      BY <2>5, <3>1, <3>2 DEF Owned, Unowned
  <2>6. ASSUME v \in workers', worker'[v].state = "draining"
        PROVE  WillRecycle(v)' # {}
    <3>1. Keep(r, worn)
      BY <2>1, <2>2, <2>6 DEF Retire
    <3>2. worker[v].active > 0
      BY <1>0, <2>2, <2>6, <3>1 DEF Keep, Keeps, TypeOK, WorkerRecord
    <3>3. IsFiniteSet(Users(v)) /\ Cardinality(Users(v)) # 0
      BY <2>2, <3>2, CountsRequests DEF IInv, LeaseAccounting, Users
    <3>4. PICK q \in Users(v) : TRUE
      BY <3>3, FS_EmptySet
    <3>5. q \in Requests \ {r} /\ at[q] \in {"opening", "inUse"} /\ on[q] = v
      BY <2>3, <3>4 DEF Users
    <3>6. at'[q] \in {"opening", "inUse"} /\ on'[q] = v
      BY <2>3, <3>5
    <3>7. q \in WillRecycle(v)'
      BY <3>5, <3>6 DEF WillRecycle
    <3>8. QED
      BY <3>7
  <2>7. QED
    BY <2>5, <2>6 DEF Owned, Unowned
<1>6. ASSUME NEW r \in Requests,
             \/ LaunchSettles(r) \/ LaunchFails(r) \/ Count(r) \/ Open(r) \/ Release(r)
             \/ Closed(r) \/ \E p \in Profiles : Request(r, p)
      PROVE  Owned'
  <2>1. \A w \in workers' : Unowned(w)' => w \in workers /\ Unowned(w)
    <3>1. UNCHANGED workers
      BY <1>6 DEF LaunchSettles, LaunchFails, Count, Open, Release, Closed, Request
    <3>2. \A w \in Workers : /\ worker'[w].state = worker[w].state
                             /\ worker'[w].alive = worker[w].alive
                             /\ worker'[w].ending = worker[w].ending
                             /\ worker'[w].connected = worker[w].connected
      BY <1>0, <1>6 DEF LaunchSettles, LaunchFails, Count, Open, Release, Closed, Request,
                        TypeOK, WorkerRecord
    <3>3. QED
      BY <1>0, <3>1, <3>2 DEF Unowned
  <2>2. \A w \in Workers : WillRecycle(w) \subseteq WillRecycle(w)'
    BY <1>0, <1>6 DEF LaunchSettles, LaunchFails, Count, Open, Release, Closed, Request,
                      WillRecycle, TypeOK
  <2>3. workers' \subseteq Workers
    BY <1>0, <1>6 DEF LaunchSettles, LaunchFails, Count, Open, Release, Closed, Request
  <2>4. QED
    BY <2>1, <2>2, <2>3, OwnerFrame
<1>7. ASSUME NEW v \in Workers, OnDisconnected(v) \/ OnClose(v) \/ Crash(v)
      PROVE  Owned'
  <2>1. \A w \in Workers : Unowned(w)' => Unowned(w)
    <3>1. worker[v] \in WorkerRecord /\ \A w \in Workers \ {v} : worker'[w] = worker[w]
      BY <1>0, <1>7 DEF OnDisconnected, OnClose, Crash, TypeOK
    <3>2. Unowned(v)' => Unowned(v)
      <4>1. CASE OnDisconnected(v)
        BY <1>0, <3>1, <4>1 DEF OnDisconnected, Unowned, TypeOK, WorkerRecord
      <4>2. CASE OnClose(v)
        BY <1>0, <3>1, <4>2 DEF OnClose, Unowned, TypeOK, WorkerRecord
      <4>3. CASE Crash(v)
        BY <1>0, <3>1, <4>3 DEF Crash, Unowned, TypeOK, WorkerRecord
      <4>4. QED
        BY <1>7, <4>1, <4>2, <4>3
    <3>3. QED
      BY <3>1, <3>2 DEF Unowned
  <2>2. workers' \subseteq workers /\ UNCHANGED <<at, on>>
    BY <1>7 DEF OnDisconnected, OnClose, Crash, requestVars
  <2>3. \A w : WillRecycle(w) \subseteq WillRecycle(w)'
    BY <2>2 DEF WillRecycle
  <2>4. QED
    BY <1>0, <2>1, <2>2, <2>3, OwnerFrame
<1>8. CASE Close
  BY <1>8 DEF Close, Owned
<1>9. ASSUME \/ FillSettles \/ FillFails \/ PressureMoves
             \/ \E b \in Backends : BackoffExpires(b)
      PROVE  Owned'
  BY <1>9 DEF FillSettles, FillFails, PressureMoves, BackoffExpires, requestVars,
              Owned, Unowned, WillRecycle
<1>10. QED
  BY <1>1, <1>2, <1>3, <1>4, <1>5, <1>6, <1>7, <1>8, <1>9
  DEF Next, RequestStep, FillStep

\* A draining worker on the list has a request that will retire it, or a process
\* that is ending and whose "close" event markDead() will hear; the only ones
\* forgotten there are those whose "close" event was missed and whose browser has
\* disconnected (pool.ts:450).
THEOREM DrainingIsOwned == Spec => []DrainingHasOwner
<1>1. Init => Owned
  BY DEF Init, Owned, Unowned, Born
<1>2. IInv /\ Owned /\ [Next]_vars => Owned'
  <2>1. ASSUME Owned, UNCHANGED vars
        PROVE  Owned'
    BY <2>1 DEF Owned, Unowned, WillRecycle, vars, requestVars
  <2>2. QED
    BY <2>1, NextKeepsOwners
<1>3. QED
  BY <1>1, <1>2, OwnersRecycle, Invariance, PTL DEF Spec

-----------------------------------------------------------------------------
\* The bounds on browsers

\* The browsers of the default backend, which replenish() keeps up, and those
\* of the others: listed, and awaited by a request.
OwnListed == DefaultIn(workers)
OtherListed == {w \in workers : Backend(w) # DefaultBackend}
OwnAwaited == {r \in Requests : at[r] = "launching" /\ BackendOf[want[r]] = DefaultBackend}
OtherAwaited == {r \in Requests : at[r] = "launching" /\ BackendOf[want[r]] # DefaultBackend}

Own == Cardinality(OwnListed) + Cardinality(OwnAwaited) + filling
Other == Cardinality(OtherListed) + Cardinality(OtherAwaited)

(***************************************************************************)
(* The bound alone is not inductive: what replenish() may add depends on   *)
(* which browsers are of its backend.  Above poolMax, those are at most    *)
(* poolMin, and the others never pass poolMax by themselves.               *)
(***************************************************************************)
BrowsersFit ==
    /\ Other =< PoolMax
    /\ Own + Other =< PoolMax \/ Own =< PoolMin

\* A set without some of its elements is no larger.
LEMMA FewerWorkers ==
    ASSUME NEW S \in SUBSET Workers, NEW T \in SUBSET S
    PROVE  Cardinality(T) \in Nat /\ Cardinality(S) \in Nat /\ Cardinality(T) =< Cardinality(S)
  BY CountsWorkers, FS_Subset
LEMMA FewerRequests ==
    ASSUME NEW S \in SUBSET Requests, NEW T \in SUBSET S
    PROVE  Cardinality(T) \in Nat /\ Cardinality(S) \in Nat /\ Cardinality(T) =< Cardinality(S)
  BY CountsRequests, FS_Subset

LEMMA PartsAreCounted ==
    ASSUME TypeOK
    PROVE  /\ OwnListed \in SUBSET Workers /\ OtherListed \in SUBSET Workers
           /\ OwnAwaited \in SUBSET Requests /\ OtherAwaited \in SUBSET Requests
           /\ Cardinality(OwnListed) \in Nat /\ Cardinality(OtherListed) \in Nat
           /\ Cardinality(OwnAwaited) \in Nat /\ Cardinality(OtherAwaited) \in Nat
           /\ Own \in Nat /\ Other \in Nat
<1>1. /\ OwnListed \in SUBSET Workers /\ OtherListed \in SUBSET Workers
      /\ OwnAwaited \in SUBSET Requests /\ OtherAwaited \in SUBSET Requests
  BY DEF TypeOK, OwnListed, DefaultIn, OtherListed, OwnAwaited, OtherAwaited
<1>2. /\ Cardinality(OwnListed) \in Nat /\ Cardinality(OtherListed) \in Nat
      /\ Cardinality(OwnAwaited) \in Nat /\ Cardinality(OtherAwaited) \in Nat
  BY <1>1, CountsWorkers, CountsRequests
<1>3. QED
  BY <1>1, <1>2 DEF TypeOK, Own, Other

\* The pool's browsers are those of the default backend and the others.
LEMMA PartsMakeBrowsers == ASSUME TypeOK PROVE Browsers = Own + Other
<1> DEFINE awaited == {r \in Requests : at[r] = "launching"}
<1>1. /\ OwnListed \in SUBSET Workers /\ OtherListed \in SUBSET Workers
      /\ OwnAwaited \in SUBSET Requests /\ OtherAwaited \in SUBSET Requests
  BY PartsAreCounted
<1>2. /\ IsFiniteSet(OwnListed) /\ IsFiniteSet(OtherListed) /\ IsFiniteSet(OwnAwaited)
      /\ IsFiniteSet(OtherAwaited)
  BY <1>1, CountsWorkers, CountsRequests
<1>3. /\ workers = OwnListed \cup OtherListed /\ OwnListed \cap OtherListed = {}
      /\ awaited = OwnAwaited \cup OtherAwaited /\ OwnAwaited \cap OtherAwaited = {}
  BY DEF OwnListed, DefaultIn, OtherListed, OwnAwaited, OtherAwaited
<1>4. /\ Cardinality(OwnListed \cap OtherListed) = 0 /\ Cardinality(OwnAwaited \cap OtherAwaited) = 0
      /\ Cardinality(workers) = Cardinality(OwnListed \cup OtherListed)
      /\ Cardinality(awaited) = Cardinality(OwnAwaited \cup OtherAwaited)
  BY <1>3, FS_EmptySet
<1>5. /\ Cardinality(OwnListed \cup OtherListed)
            = Cardinality(OwnListed) + Cardinality(OtherListed) - Cardinality(OwnListed \cap OtherListed)
      /\ Cardinality(OwnAwaited \cup OtherAwaited)
            = Cardinality(OwnAwaited) + Cardinality(OtherAwaited) - Cardinality(OwnAwaited \cap OtherAwaited)
  BY <1>2, FS_Union
<1>6. /\ Cardinality(workers) = Cardinality(OwnListed) + Cardinality(OtherListed)
      /\ Cardinality(awaited) = Cardinality(OwnAwaited) + Cardinality(OtherAwaited)
  <2> HIDE DEF awaited
  <2>1. QED
    BY <1>4, <1>5, PartsAreCounted
<1>7. Browsers = Cardinality(workers) + Cardinality(awaited) + filling
  BY DEF Browsers
<1> HIDE DEF awaited
<1>8. QED
  BY <1>6, <1>7, PartsAreCounted DEF Own, Other, TypeOK

\* A step that lists nobody, launches nothing and fills nothing.
FewerParts ==
    /\ OwnListed' \subseteq OwnListed /\ OtherListed' \subseteq OtherListed
    /\ OwnAwaited' \subseteq OwnAwaited /\ OtherAwaited' \subseteq OtherAwaited

LEMMA PartsShrink ==
    ASSUME TypeOK, FewerParts
    PROVE  /\ Cardinality(OwnListed') \in Nat /\ Cardinality(OtherListed') \in Nat
           /\ Cardinality(OwnAwaited') \in Nat /\ Cardinality(OtherAwaited') \in Nat
           /\ Cardinality(OwnListed') =< Cardinality(OwnListed)
           /\ Cardinality(OtherListed') =< Cardinality(OtherListed)
           /\ Cardinality(OwnAwaited') =< Cardinality(OwnAwaited)
           /\ Cardinality(OtherAwaited') =< Cardinality(OtherAwaited)
<1>1. OwnListed' \in SUBSET OwnListed /\ OtherListed' \in SUBSET OtherListed
      /\ OwnAwaited' \in SUBSET OwnAwaited /\ OtherAwaited' \in SUBSET OtherAwaited
  BY DEF FewerParts
<1>2. QED
  BY <1>1, PartsAreCounted, FewerWorkers, FewerRequests

LEMMA ShrinkFits ==
    ASSUME TypeOK, BrowsersFit, FewerParts, filling' \in Nat, filling' =< filling
    PROVE  BrowsersFit'
<1>1. PoolMax \in Nat /\ PoolMin \in Nat /\ filling \in Nat
  BY PoolAssumption DEF TypeOK
<1>2. QED
  BY <1>1, PartsAreCounted, PartsShrink DEF BrowsersFit, Own, Other

\* The launches in flight for the default backend are on its count.
LEMMA AwaitedAreCounted ==
    ASSUME TypeOK, LaunchAccounting
    PROVE  /\ Cardinality(OwnAwaited) + filling =< launchingOf[DefaultBackend]
           /\ Cardinality(OwnAwaited) + Cardinality(OtherAwaited) + filling =< launching
           /\ launchingOf[DefaultBackend] \in Nat /\ launching \in Nat
<1>1. DefaultBackend \in Backends
  BY PoolAssumption DEF DefaultBackend
<1>2. Launchers \in SUBSET Requests /\ LaunchersOf(DefaultBackend) \in SUBSET Requests
  BY DEF Launchers, LaunchersOf
<1>3. OwnAwaited \in SUBSET LaunchersOf(DefaultBackend)
      /\ OwnAwaited \cup OtherAwaited \in SUBSET Launchers
  BY DEF OwnAwaited, OtherAwaited, Launchers, LaunchersOf
<1>4. /\ Cardinality(OwnAwaited) =< Cardinality(LaunchersOf(DefaultBackend))
      /\ Cardinality(OwnAwaited \cup OtherAwaited) =< Cardinality(Launchers)
      /\ Cardinality(LaunchersOf(DefaultBackend)) \in Nat /\ Cardinality(Launchers) \in Nat
  BY <1>2, <1>3, FewerRequests
<1>5. Cardinality(OwnAwaited \cup OtherAwaited) = Cardinality(OwnAwaited) + Cardinality(OtherAwaited)
  <2>1. IsFiniteSet(OwnAwaited) /\ IsFiniteSet(OtherAwaited)
    BY PartsAreCounted, CountsRequests
  <2>2. Cardinality(OwnAwaited \cap OtherAwaited) = 0
    <3>1. OwnAwaited \cap OtherAwaited = {}
      BY DEF OwnAwaited, OtherAwaited
    <3>2. QED
      BY <3>1, FS_EmptySet
  <2>3. Cardinality(OwnAwaited \cup OtherAwaited)
          = Cardinality(OwnAwaited) + Cardinality(OtherAwaited) - Cardinality(OwnAwaited \cap OtherAwaited)
    BY <2>1, FS_Union
  <2>4. QED
    BY <2>2, <2>3, PartsAreCounted
<1>6. /\ launching = Cardinality(Launchers) + filling + settling
      /\ launchingOf[DefaultBackend] = Cardinality(LaunchersOf(DefaultBackend)) + (filling + settling)
  BY <1>1 DEF LaunchAccounting
<1>7. filling \in Nat /\ settling \in Nat
  BY DEF TypeOK
<1>8. QED
  BY <1>1, <1>4, <1>5, <1>6, <1>7, PartsAreCounted DEF TypeOK

\* What replenish() launches brings the default backend to poolMin at most.
LEMMA FillFits ==
    ASSUME TypeOK, LaunchAccounting, BrowsersFit, FewerParts, NEW calls \in Nat,
           NEW n, n = Replenish(calls, workers'), filling' = filling + n,
           OwnListed' = DefaultIn(workers'), workers' \subseteq Workers
    PROVE  BrowsersFit'
<1>1. n \in Nat
  <2>1. workers' \in SUBSET Workers
    OBVIOUS
  <2>2. Replenish(calls, workers') \in 0..calls
    BY <2>1, ReplenishIsNat
  <2>3. QED
    BY <2>2
<1>2. CASE n = 0
  BY <1>2, ShrinkFits DEF TypeOK
<1>3. CASE n # 0
  <2>1. PoolMax \in Nat /\ PoolMin \in Nat /\ filling \in Nat
    BY PoolAssumption DEF TypeOK
  <2>2. launchingOf[DefaultBackend] \in Nat
    BY AwaitedAreCounted
  <2>3. Cardinality(DefaultIn(workers')) \in Nat
    BY PartsShrink
  <2>4. n =< PoolMin - Cardinality(DefaultIn(workers')) - launchingOf[DefaultBackend]
    BY <1>1, <1>3, <2>1, <2>2, <2>3 DEF Replenish
  <2>5. Own' = Cardinality(OwnListed') + Cardinality(OwnAwaited') + filling + n
        /\ Other' = Cardinality(OtherListed') + Cardinality(OtherAwaited')
    BY <1>1, <2>1, PartsShrink DEF Own, Other
  <2>6. Own' =< PoolMin
    BY <1>1, <2>1, <2>2, <2>3, <2>4, <2>5, AwaitedAreCounted, PartsShrink, PartsAreCounted
  <2>7. Other' =< PoolMax
    BY <2>1, <2>5, PartsShrink, PartsAreCounted DEF BrowsersFit, Other
  <2>8. QED
    BY <2>6, <2>7 DEF BrowsersFit
<1>4. QED
  BY <1>2, <1>3

\* Workers leave the list, or nothing but their state changes.
LEMMA ListedShrink ==
    ASSUME TypeOK, workers' \subseteq workers, \A w \in workers' : worker'[w].profile = worker[w].profile
    PROVE  /\ OwnListed' \subseteq OwnListed /\ OtherListed' \subseteq OtherListed
           /\ OwnListed' = DefaultIn(workers') /\ OtherListed' = workers' \ DefaultIn(workers')
  BY DEF OwnListed, OtherListed, DefaultIn, Backend

\* A request leaves launchBrowserWorker(), or was not there.
LEMMA AwaitedShrink ==
    ASSUME TypeOK, NEW r \in Requests, NEW phase \in Phases \ {"launching"},
           at' = [at EXCEPT ![r] = phase], \A q \in Requests \ {r} : want'[q] = want[q]
    PROVE  OwnAwaited' \subseteq OwnAwaited /\ OtherAwaited' \subseteq OtherAwaited
  BY DEF TypeOK, OwnAwaited, OtherAwaited

LEMMA AwaitedStay ==
    ASSUME UNCHANGED requestVars
    PROVE  OwnAwaited' \subseteq OwnAwaited /\ OtherAwaited' \subseteq OtherAwaited
  BY DEF requestVars, OwnAwaited, OtherAwaited

\* Burying disconnected workers changes no worker's backend.
LEMMA BuriedShrink ==
    ASSUME TypeOK, BuryDisconnected
    PROVE  /\ OwnListed' \subseteq OwnListed /\ OtherListed' \subseteq OtherListed
           /\ OwnListed' = DefaultIn(workers') /\ OtherListed' = workers' \ DefaultIn(workers')
           /\ workers' \subseteq workers
<1>1. workers' \subseteq workers /\ workers \subseteq Workers
  BY DEF TypeOK, BuryDisconnected
<1>2. \A w \in workers' : worker'[w].profile = worker[w].profile
  BY <1>1 DEF BuryDisconnected
<1>3. QED
  BY <1>1, <1>2, ListedShrink

\* acquire() launches one more only while everything fits under poolMax.
LEMMA LaunchFits ==
    ASSUME TypeOK, LaunchAccounting, BrowsersFit, BuryDisconnected, NEW r \in Requests,
           at[r] = "refreshing", NEW n \in Nat, Launch(r, n), UNCHANGED want
    PROVE  BrowsersFit'
<1> DEFINE list == workers \ Disconnected
<1>1. /\ OwnListed' = DefaultIn(list) /\ OtherListed' = list \ DefaultIn(list)
      /\ list \in SUBSET Workers
  BY BuriedShrink DEF BuryDisconnected, TypeOK
<1>2. Cardinality(list) = Cardinality(OwnListed') + Cardinality(OtherListed')
      /\ Cardinality(list) \in Nat /\ Cardinality(OwnListed') \in Nat /\ Cardinality(OtherListed') \in Nat
  <2>1. DefaultIn(list) \in SUBSET Workers /\ list \ DefaultIn(list) \in SUBSET Workers
        /\ list = DefaultIn(list) \cup (list \ DefaultIn(list))
        /\ DefaultIn(list) \cap (list \ DefaultIn(list)) = {}
    BY <1>1 DEF DefaultIn
  <2>2. IsFiniteSet(DefaultIn(list)) /\ IsFiniteSet(list \ DefaultIn(list))
        /\ Cardinality(DefaultIn(list)) \in Nat /\ Cardinality(list \ DefaultIn(list)) \in Nat
    BY <2>1, CountsWorkers
  <2>3. Cardinality(DefaultIn(list) \cup (list \ DefaultIn(list)))
          = Cardinality(DefaultIn(list)) + Cardinality(list \ DefaultIn(list))
            - Cardinality(DefaultIn(list) \cap (list \ DefaultIn(list)))
    BY <2>2, FS_Union
  <2>4. Cardinality(DefaultIn(list) \cap (list \ DefaultIn(list))) = 0
        /\ Cardinality(list) = Cardinality(DefaultIn(list) \cup (list \ DefaultIn(list)))
    BY <2>1, FS_EmptySet
  <2> HIDE DEF list
  <2>5. Cardinality(list) = Cardinality(DefaultIn(list)) + Cardinality(list \ DefaultIn(list))
        /\ Cardinality(list) \in Nat
    BY <2>2, <2>3, <2>4
  <2>6. QED
    BY <1>1, <2>2, <2>5
<1>3. /\ at' = [at EXCEPT ![r] = "launching"] /\ filling' = filling + n
      /\ ~(Cardinality(list) + launching + n >= PoolMax)
  BY DEF Launch, AtCapacity
<1>4. /\ Cardinality(OwnAwaited') \in Nat /\ Cardinality(OtherAwaited') \in Nat
      /\ Cardinality(OwnAwaited') + Cardinality(OtherAwaited')
            = Cardinality(OwnAwaited) + Cardinality(OtherAwaited) + 1
  <2>1. r \notin OwnAwaited /\ r \notin OtherAwaited
    BY DEF OwnAwaited, OtherAwaited
  <2>2. OwnAwaited \in SUBSET Requests /\ OtherAwaited \in SUBSET Requests
        /\ Cardinality(OwnAwaited) \in Nat /\ Cardinality(OtherAwaited) \in Nat
    BY PartsAreCounted
  <2>3. CASE BackendOf[want[r]] = DefaultBackend
    <3>1. OwnAwaited' = OwnAwaited \cup {r} /\ OtherAwaited' = OtherAwaited
      BY <1>3, <2>3 DEF TypeOK, OwnAwaited, OtherAwaited
    <3>2. Cardinality(OwnAwaited \cup {r}) = Cardinality(OwnAwaited) + 1
      BY <2>1, <2>2, CountJoin
    <3>3. QED
      BY <2>2, <3>1, <3>2
  <2>4. CASE BackendOf[want[r]] # DefaultBackend
    <3>1. OtherAwaited' = OtherAwaited \cup {r} /\ OwnAwaited' = OwnAwaited
      BY <1>3, <2>4 DEF TypeOK, OwnAwaited, OtherAwaited
    <3>2. Cardinality(OtherAwaited \cup {r}) = Cardinality(OtherAwaited) + 1
      BY <2>1, <2>2, CountJoin
    <3>3. QED
      BY <2>2, <3>1, <3>2
  <2>5. QED
    BY <2>3, <2>4
<1> HIDE DEF list
<1>5. PoolMax \in Nat /\ filling \in Nat
  BY PoolAssumption DEF TypeOK
<1>6. /\ Own' = Cardinality(OwnListed') + Cardinality(OwnAwaited') + filling'
      /\ Other' = Cardinality(OtherListed') + Cardinality(OtherAwaited')
  BY DEF Own, Other
<1>7. Own' + Other' =< PoolMax /\ Own' \in Nat /\ Other' \in Nat
  BY <1>2, <1>3, <1>4, <1>5, <1>6, AwaitedAreCounted, PartsAreCounted
<1>8. Other' =< PoolMax
  <2>1. \A m, n0, k \in Nat : m + n0 =< k => n0 =< k
    OBVIOUS
  <2>2. QED
    BY <1>5, <1>7, <2>1
<1>9. QED
  BY <1>7, <1>8 DEF BrowsersFit

\* A worker is listed in place of the launch that made it.
LEMMA ListedCounts ==
    ASSUME TypeOK, NEW v \in Workers \ workers, NEW p \in Profiles, List(v, p)
    PROVE  IF BackendOf[p] = DefaultBackend
           THEN /\ Cardinality(OwnListed') = Cardinality(OwnListed) + 1
                /\ OtherListed' = OtherListed
           ELSE /\ Cardinality(OtherListed') = Cardinality(OtherListed) + 1
                /\ OwnListed' = OwnListed
<1>1. /\ worker'[v].profile = p /\ \A w \in Workers \ {v} : worker'[w] = worker[w]
      /\ workers' = workers \cup {v} /\ workers \subseteq Workers
  BY DEF List, Born, TypeOK
<1>2. v \notin OwnListed /\ v \notin OtherListed
  BY DEF OwnListed, OtherListed, DefaultIn
<1>3. IsFiniteSet(OwnListed) /\ IsFiniteSet(OtherListed)
  BY PartsAreCounted, CountsWorkers
<1>4. Cardinality(OwnListed \cup {v}) = Cardinality(OwnListed) + 1
      /\ Cardinality(OtherListed \cup {v}) = Cardinality(OtherListed) + 1
  BY <1>2, <1>3, FS_AddElement
<1>5. CASE BackendOf[p] = DefaultBackend
  <2>1. OwnListed' = OwnListed \cup {v} /\ OtherListed' = OtherListed
    BY <1>1, <1>5 DEF OwnListed, OtherListed, DefaultIn, Backend
  <2>2. QED
    BY <1>4, <1>5, <2>1
<1>6. CASE BackendOf[p] # DefaultBackend
  <2>1. OtherListed' = OtherListed \cup {v} /\ OwnListed' = OwnListed
    BY <1>1, <1>6 DEF OwnListed, OtherListed, DefaultIn, Backend
  <2>2. QED
    BY <1>4, <1>6, <2>1
<1>7. QED
  BY <1>5, <1>6

LEMMA ReturnFits == ASSUME TypeOK, BrowsersFit, NEW r \in Requests, LaunchReturns(r) PROVE BrowsersFit'
<1>1. PICK v \in Unused : List(v, want[r])
  BY DEF LaunchReturns
<1>2. /\ at[r] = "launching" /\ at' = [at EXCEPT ![r] = "arriving"] /\ UNCHANGED <<want, filling>>
  BY DEF LaunchReturns
<1>3. v \in Workers \ workers /\ want[r] \in Profiles
  BY DEF Unused, TypeOK
<1>4. IF BackendOf[want[r]] = DefaultBackend
      THEN /\ Cardinality(OwnListed') = Cardinality(OwnListed) + 1
           /\ OtherListed' = OtherListed
      ELSE /\ Cardinality(OtherListed') = Cardinality(OtherListed) + 1
           /\ OwnListed' = OwnListed
  BY <1>1, <1>3, ListedCounts
<1>5. OwnAwaited \in SUBSET Requests /\ OtherAwaited \in SUBSET Requests
  BY PartsAreCounted
<1>6. CASE BackendOf[want[r]] = DefaultBackend
  <2>1. OwnAwaited' = OwnAwaited \ {r} /\ OtherAwaited' = OtherAwaited /\ r \in OwnAwaited
    BY <1>2, <1>6 DEF TypeOK, OwnAwaited, OtherAwaited
  <2>2. Cardinality(OwnAwaited \ {r}) = Cardinality(OwnAwaited) - 1
    BY <1>5, <2>1, CountLeave
  <2>3. Own' = Own /\ Other' = Other
    BY <1>2, <1>4, <1>6, <2>1, <2>2, PartsAreCounted DEF Own, Other, TypeOK
  <2>4. QED
    BY <2>3 DEF BrowsersFit
<1>7. CASE BackendOf[want[r]] # DefaultBackend
  <2>1. OtherAwaited' = OtherAwaited \ {r} /\ OwnAwaited' = OwnAwaited /\ r \in OtherAwaited
    BY <1>2, <1>7 DEF TypeOK, OwnAwaited, OtherAwaited
  <2>2. Cardinality(OtherAwaited \ {r}) = Cardinality(OtherAwaited) - 1
    BY <1>5, <2>1, CountLeave
  <2>3. Own' = Own /\ Other' = Other
    BY <1>2, <1>4, <1>7, <2>1, <2>2, PartsAreCounted DEF Own, Other, TypeOK
  <2>4. QED
    BY <2>3 DEF BrowsersFit
<1>8. QED
  BY <1>6, <1>7

LEMMA FillReturnFits == ASSUME TypeOK, BrowsersFit, FillReturns PROVE BrowsersFit'
<1>1. PICK v \in Unused : List(v, PlainProfile)
  BY DEF FillReturns
<1>2. UNCHANGED requestVars /\ filling' = filling - 1 /\ filling \in Nat
  BY DEF FillReturns, TypeOK
<1>3. v \in Workers \ workers /\ PlainProfile \in Profiles
      /\ BackendOf[PlainProfile] = DefaultBackend
  BY PoolAssumption DEF Unused, DefaultBackend
<1>4. Cardinality(OwnListed') = Cardinality(OwnListed) + 1 /\ OtherListed' = OtherListed
  BY <1>1, <1>3, ListedCounts
<1>5. OwnAwaited' = OwnAwaited /\ OtherAwaited' = OtherAwaited
  BY <1>2 DEF requestVars, OwnAwaited, OtherAwaited
<1>6. Own' = Own /\ Other' = Other
  BY <1>2, <1>4, <1>5, PartsAreCounted DEF Own, Other
<1>7. QED
  BY <1>6 DEF BrowsersFit

LEMMA InitBrowsersFit == Init => BrowsersFit
<1> SUFFICES ASSUME Init PROVE BrowsersFit
  OBVIOUS
<1>1. TypeOK /\ PoolMin \in Nat /\ PoolMax \in Nat
  BY InitInvariant, PoolAssumption DEF IInv
<1>2. OtherListed = {} /\ OwnAwaited = {} /\ OtherAwaited = {} /\ OwnListed = workers
  BY <1>1 DEF Init, OtherListed, OwnListed, DefaultIn, OwnAwaited, OtherAwaited, Backend, Born,
              DefaultBackend, TypeOK
<1>3. Cardinality(OtherListed) = 0 /\ Cardinality(OwnAwaited) = 0 /\ Cardinality(OtherAwaited) = 0
      /\ Cardinality(OwnListed) = PoolMin /\ filling = 0
  BY <1>2, FS_EmptySet DEF Init
<1>4. Own = PoolMin /\ Other = 0
  BY <1>1, <1>3 DEF Own, Other
<1>5. QED
  BY <1>1, <1>4 DEF BrowsersFit

LEMMA AcquireFits == ASSUME IInv, BrowsersFit, NEW r \in Requests, Acquire(r) PROVE BrowsersFit'
<1> DEFINE calls == Cardinality(DefaultIn(Disconnected))
<1> DEFINE n == Replenish(calls, workers \ Disconnected)
<1>1. TypeOK /\ LaunchAccounting /\ n \in Nat
  BY AcquireFills DEF IInv
<1>2. calls \in Nat
  <2>1. DefaultIn(Disconnected) \in SUBSET Workers
    BY <1>1 DEF TypeOK, DefaultIn, Disconnected
  <2>2. QED
    BY <2>1, CountsWorkers
<1>3. BuryDisconnected /\ at[r] = "refreshing" /\ UNCHANGED want
      /\ (Grant(r, n) \/ Refuse(r, n) \/ Launch(r, n))
  BY DEF Acquire
<1>4. workers' = workers \ Disconnected /\ workers' \subseteq Workers
  BY <1>1, <1>3 DEF BuryDisconnected, TypeOK
<1>5. n = Replenish(calls, workers')
  BY <1>4
<1> HIDE DEF n, calls
<1>6. CASE Launch(r, n)
  BY <1>1, <1>3, <1>6, LaunchFits
<1>7. CASE Grant(r, n) \/ Refuse(r, n)
  <2>1. PICK phase \in Phases \ {"launching"} : at' = [at EXCEPT ![r] = phase]
    BY <1>7 DEF Grant, Refuse, Phases
  <2>2. FewerParts
    BY <1>1, <1>3, <2>1, AwaitedShrink, BuriedShrink DEF FewerParts
  <2>3. filling' = filling + n /\ OwnListed' = DefaultIn(workers')
    BY <1>1, <1>3, <1>7, BuriedShrink DEF Grant, Refuse, BeginFilling
  <2>4. QED
    BY <1>1, <1>2, <1>4, <1>5, <2>2, <2>3, FillFits
<1>8. QED
  BY <1>3, <1>6, <1>7

LEMMA ClosedFits == ASSUME IInv, BrowsersFit, NEW r \in Requests, Closed(r) PROVE BrowsersFit'
<1> DEFINE calls == IF Backend(on[r]) = DefaultBackend THEN 1 ELSE 0
<1>1. TypeOK /\ LaunchAccounting /\ calls \in Nat
  BY DEF IInv
<1>2. /\ UNCHANGED <<workers, worker, want>> /\ at' = [at EXCEPT ![r] = "idle"]
      /\ filling' = filling + Replenish(calls, workers)
  BY DEF Closed, BeginFilling
<1> HIDE DEF calls
<1>3. workers' \subseteq Workers /\ Replenish(calls, workers) = Replenish(calls, workers')
  BY <1>1, <1>2 DEF TypeOK
<1>4. FewerParts /\ OwnListed' = DefaultIn(workers')
  BY <1>1, <1>2, ListedShrink, AwaitedShrink DEF FewerParts, Phases
<1>5. QED
  BY <1>1, <1>2, <1>3, <1>4, FillFits

LEMMA OnCloseFits == ASSUME IInv, BrowsersFit, NEW w \in Workers, OnClose(w) PROVE BrowsersFit'
<1> DEFINE calls == IF worker[w].state # "dead" /\ Backend(w) = DefaultBackend THEN 1 ELSE 0
<1>1. TypeOK /\ LaunchAccounting /\ calls \in Nat
  BY DEF IInv
<1>2. /\ workers' = workers \ {w} /\ UNCHANGED requestVars
      /\ worker' = [worker EXCEPT ![w].alive = FALSE, ![w].state = "dead"]
      /\ filling' = filling + Replenish(calls, workers \ {w})
  BY DEF OnClose, BeginFilling
<1> HIDE DEF calls
<1>3. workers' \subseteq Workers /\ workers' \subseteq workers
      /\ Replenish(calls, workers \ {w}) = Replenish(calls, workers')
  BY <1>1, <1>2 DEF TypeOK
<1>4. \A v \in workers' : worker'[v].profile = worker[v].profile
  BY <1>1, <1>2, <1>3 DEF TypeOK
<1>5. FewerParts /\ OwnListed' = DefaultIn(workers')
  BY <1>1, <1>2, <1>3, <1>4, ListedShrink, AwaitedStay DEF FewerParts
<1>6. QED
  BY <1>1, <1>2, <1>3, <1>5, FillFits

\* A step that lists no worker and moves none to another profile.
NoneAdded == workers' \subseteq workers /\ \A w \in Workers : worker'[w].profile = worker[w].profile

\* The requests' other steps, and the events.
LEMMA OtherStepsFit ==
    ASSUME IInv, BrowsersFit,
           \/ \E r \in Requests : \/ LaunchSettles(r) \/ LaunchFails(r) \/ Count(r) \/ Open(r)
                                  \/ OpenFails(r) \/ Release(r) \/ Recycle(r)
                                  \/ \E p \in Profiles : Request(r, p)
           \/ FillSettles \/ FillFails \/ PressureMoves \/ Close
           \/ \E w \in Workers : OnDisconnected(w) \/ Crash(w)
           \/ \E b \in Backends : BackoffExpires(b)
    PROVE  BrowsersFit'
<1>1. TypeOK
  BY DEF IInv
<1>2. NoneAdded
  <2>1. CASE \/ \E r \in Requests : \/ LaunchSettles(r) \/ LaunchFails(r) \/ Open(r)
                                    \/ \E p \in Profiles : Request(r, p)
             \/ FillSettles \/ FillFails \/ PressureMoves \/ \E b \in Backends : BackoffExpires(b)
    <3>1. UNCHANGED <<workers, worker>>
      BY <2>1 DEF LaunchSettles, LaunchFails, Open, Request, FillSettles, FillFails, PressureMoves,
                  BackoffExpires
    <3>2. QED
      BY <3>1 DEF NoneAdded
  <2>2. ASSUME NEW r \in Requests, Count(r) \/ Release(r)
        PROVE  NoneAdded
    BY <1>1, <2>2 DEF TypeOK, WorkerRecord, Count, Release, NoneAdded
  <2>7. ASSUME NEW r \in Requests, OpenFails(r)
        PROVE  NoneAdded
    <3>1. PICK failures, state : worker' = [worker EXCEPT ![on[r]].failures = failures, ![on[r]].state = state]
      BY <2>7 DEF OpenFails
    <3>2. QED
      BY <1>1, <2>7, <3>1 DEF TypeOK, WorkerRecord, OpenFails, NoneAdded
  <2>8. ASSUME NEW r \in Requests, NEW worn \in BOOLEAN, Keep(r, worn)
        PROVE  NoneAdded
    BY <1>1, <2>8 DEF TypeOK, WorkerRecord, Keep, NoneAdded
  <2>9. ASSUME NEW r \in Requests, NEW worn \in BOOLEAN, Retire(r, worn)
        PROVE  NoneAdded
    BY <1>1, <2>9 DEF TypeOK, WorkerRecord, Retire, NoneAdded
  <2>3. ASSUME NEW r \in Requests, Recycle(r)
        PROVE  NoneAdded
    BY <2>3, <2>8, <2>9 DEF Recycle
  <2>4. CASE Close
    BY <1>1, <2>4 DEF TypeOK, WorkerRecord, Close, NoneAdded
  <2>5. CASE \E w \in Workers : OnDisconnected(w) \/ Crash(w)
    <3>1. workers' = workers
      BY <2>5 DEF OnDisconnected, Crash
    <3>2. ASSUME NEW w \in Workers, OnDisconnected(w)
          PROVE  \A v \in Workers : worker'[v].profile = worker[v].profile
      BY <1>1, <3>2 DEF TypeOK, WorkerRecord, OnDisconnected
    <3>3. ASSUME NEW w \in Workers, Crash(w)
          PROVE  \A v \in Workers : worker'[v].profile = worker[v].profile
      BY <1>1, <3>3 DEF TypeOK, WorkerRecord, Crash
    <3>4. QED
      BY <2>5, <3>1, <3>2, <3>3 DEF NoneAdded
  <2>6. QED
    BY <2>1, <2>2, <2>3, <2>4, <2>5, <2>7
<1>3. filling' \in Nat /\ filling' =< filling
  <2>1. CASE FillFails
    BY <1>1, <2>1 DEF FillFails, TypeOK
  <2>2. CASE ~FillFails
    <3>1. filling' = filling
      BY <2>2 DEF LaunchSettles, LaunchFails, Count, Open, OpenFails, Release, Recycle, Request, FillSettles,
                  PressureMoves, Close, OnDisconnected, Crash, BackoffExpires, launchVars
    <3>2. QED
      BY <1>1, <3>1 DEF TypeOK
  <2>3. QED
    BY <2>1, <2>2
<1>4. OwnAwaited' \subseteq OwnAwaited /\ OtherAwaited' \subseteq OtherAwaited
  <2>1. ASSUME NEW r \in Requests, NEW phase \in Phases \ {"launching"}, at' = [at EXCEPT ![r] = phase],
               UNCHANGED want \/ \E p \in Profiles : want' = [want EXCEPT ![r] = p]
        PROVE  OwnAwaited' \subseteq OwnAwaited /\ OtherAwaited' \subseteq OtherAwaited
    <3>1. \A q \in Requests \ {r} : want'[q] = want[q]
      BY <1>1, <2>1 DEF TypeOK
    <3>2. QED
      BY <1>1, <2>1, <3>1, AwaitedShrink
  <2>2. ASSUME NEW r \in Requests,
               \/ LaunchSettles(r) \/ LaunchFails(r) \/ Count(r) \/ Open(r) \/ OpenFails(r)
               \/ Release(r) \/ Recycle(r) \/ \E p \in Profiles : Request(r, p)
        PROVE  OwnAwaited' \subseteq OwnAwaited /\ OtherAwaited' \subseteq OtherAwaited
    <3>1. PICK phase \in Phases \ {"launching"} : at' = [at EXCEPT ![r] = phase]
      BY <2>2 DEF LaunchSettles, LaunchFails, Count, Open, OpenFails, Release, Recycle, Keep, Retire,
                  Request, Phases
    <3>2. UNCHANGED want \/ \E p \in Profiles : want' = [want EXCEPT ![r] = p]
      BY <2>2 DEF LaunchSettles, LaunchFails, Count, Open, OpenFails, Release, Recycle, Request
    <3>3. QED
      BY <2>1, <3>1, <3>2
  <2>3. CASE UNCHANGED requestVars
    BY <2>3, AwaitedStay
  <2>4. QED
    BY <2>2, <2>3 DEF FillSettles, FillFails, PressureMoves, Close, OnDisconnected, Crash, BackoffExpires
<1>5. FewerParts
  BY <1>1, <1>2, <1>4, ListedShrink DEF FewerParts, TypeOK, NoneAdded
<1>6. QED
  BY <1>1, <1>3, <1>5, ShrinkFits

LEMMA BrowsersStayFit == ASSUME IInv, BrowsersFit, [Next]_vars PROVE BrowsersFit'
<1>1. TypeOK
  BY DEF IInv
<1>2. CASE UNCHANGED vars
  BY <1>2 DEF vars, requestVars, launchVars, BrowsersFit, Own, Other, OwnListed, OtherListed, DefaultIn,
              Backend, OwnAwaited, OtherAwaited
<1>3. CASE Next
  BY <1>1, <1>3, AcquireFits, ClosedFits, OnCloseFits, OtherStepsFit, ReturnFits, FillReturnFits
     DEF Next, RequestStep, FillStep
<1>4. QED
  BY <1>2, <1>3

LEMMA BrowsersAlwaysFit == Spec => [](IInv /\ BrowsersFit)
<1>1. IInv /\ BrowsersFit /\ [Next]_vars => BrowsersFit'
  BY BrowsersStayFit
<1>2. QED
  BY Invariance, InitBrowsersFit, <1>1, PTL DEF Spec

\* acquire() and replenish(): however requests, background launches, crashes
\* and retirements interleave, the pool has at most poolMax browsers, and with
\* several backends poolMin more, those replenish() launched unasked.
THEOREM OvershootIsBounded == Spec => []OvershootBound
<1>1. IInv /\ BrowsersFit => OvershootBound
  <2> SUFFICES ASSUME IInv, BrowsersFit PROVE OvershootBound
    OBVIOUS
  <2>1. TypeOK /\ PoolMin \in Nat /\ PoolMax \in Nat
    BY PoolAssumption DEF IInv
  <2>2. Browsers = Own + Other /\ Own \in Nat /\ Other \in Nat
    BY <2>1, PartsAreCounted, PartsMakeBrowsers
  <2>3. \A a, b, m, k \in Nat : b =< k /\ (a + b =< k \/ a =< m) => a + b =< k + m
    OBVIOUS
  <2>4. QED
    BY <2>1, <2>2, <2>3 DEF BrowsersFit, OvershootBound
<1>2. QED
  BY BrowsersAlwaysFit, <1>1, PTL

\* With a single backend poolMax is never passed.
THEOREM PoolIsBounded ==
    ASSUME \A p \in Profiles : BackendOf[p] = DefaultBackend
    PROVE  Spec => []PoolBound
<1>1. IInv /\ BrowsersFit => PoolBound
  <2> SUFFICES ASSUME IInv, BrowsersFit PROVE PoolBound
    OBVIOUS
  <2>1. TypeOK /\ PoolMin \in Nat /\ PoolMax \in Nat /\ PoolMin =< PoolMax
    BY PoolAssumption DEF IInv
  <2>2. Browsers = Own + Other /\ Own \in Nat
    BY <2>1, PartsAreCounted, PartsMakeBrowsers
  <2>3. OtherListed = {} /\ OtherAwaited = {}
    BY <2>1 DEF OtherListed, OtherAwaited, Backend, TypeOK, WorkerRecord
  <2>4. Cardinality(OtherListed) = 0 /\ Cardinality(OtherAwaited) = 0
    BY <2>3, FS_EmptySet
  <2>5. Other = 0
    BY <2>4 DEF Other
  <2>6. QED
    BY <2>1, <2>2, <2>5 DEF BrowsersFit, PoolBound
<1>2. QED
  BY BrowsersAlwaysFit, <1>1, PTL
=============================================================================
