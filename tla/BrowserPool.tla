----------------------------- MODULE BrowserPool -----------------------------
(***************************************************************************)
(* The browser pool (src/execution/pool.ts): BrowserServer processes       *)
(* shared by requests that each borrow one BrowserContext.  An action is   *)
(* the code between two awaits of withContext(), launch(), recycle() and   *)
(* replenish(), or one event of Playwright.                                *)
(*                                                                         *)
(* at[r] is where request r is in withContext():                           *)
(*   idle        outside                                                   *)
(*   refreshing  acquire() awaits refreshMemory()                          *)
(*   launching   launch() awaits launchBrowserWorker()                     *)
(*   arriving    launch() has listed the worker and awaits refreshMemory() *)
(*   granted     acquire() has returned, active is not yet incremented     *)
(*   opening     awaits newContext()                                       *)
(*   inUse       awaits the task, then context.close()                     *)
(*   released    awaits refreshMemory() before recycle()                   *)
(*   closing     recycle() awaits server.close() and refreshMemory()       *)
(*                                                                         *)
(* The launches of replenish() run in the background.  Age, RSS and the    *)
(* job count of a worker only decide whether recycle() finds it worn: any  *)
(* request may find that.  The /metrics counters are left out, and the     *)
(* order of the list, which only breaks ties, is not kept.                 *)
(***************************************************************************)
EXTENDS Integers, FiniteSets

CONSTANTS
    Requests,           \* calls of withContext(), each made again and again
    Workers,            \* names of workers; that of a gone one is used again
    NoWorker,
    Profiles,           \* the values of browserProfileKey()
    Backends,
    BackendOf,          \* [Profiles -> Backends]
    PlainProfile,       \* the default backend launched without options
    PoolMin, PoolMax, ContextsPerWorker, FailureLimit,
    Missable,           \* the sets of events a new worker may have missed
    SoftLevels          \* the values softPressure takes

ASSUME PoolAssumption ==
    /\ IsFiniteSet(Requests) /\ IsFiniteSet(Workers)
    /\ NoWorker \notin Workers
    /\ PlainProfile \in Profiles
    /\ BackendOf \in [Profiles -> Backends]
    /\ PoolMin \in Nat /\ PoolMax \in Nat \ {0} /\ PoolMin =< PoolMax
    /\ ContextsPerWorker \in Nat \ {0} /\ FailureLimit \in Nat \ {0}
    /\ Missable \subseteq SUBSET {"close", "disconnected"}
    /\ SoftLevels \subseteq BOOLEAN /\ FALSE \in SoftLevels

DefaultBackend == BackendOf[PlainProfile]

VARIABLES
    workers,      \* this.workers
    worker,       \* the Worker objects, listed or not, and their processes
    at, want, on, \* per request: phase, profile asked for, worker held
    launching,    \* this.launching
    launchingOf,  \* this.launchingByBackend
    filling,      \* launches of replenish() awaiting launchBrowserWorker()
    settling,     \* launches of replenish() that have listed their worker
    backingOff,   \* per backend: nextLaunchAt is in the future
    softPressure, \* memory.totalRssMb >= memorySoftMb
    closed

requestVars == <<at, want, on>>
launchVars == <<launching, launchingOf, filling, settling, backingOff>>
vars == <<workers, worker, requestVars, launchVars, softPressure, closed>>

Phases == {"idle", "refreshing", "launching", "arriving", "granted", "opening",
           "inUse", "released", "closing"}

\* connected: browser.isConnected().  alive: the "close" event of the server
\* is still to come.  ending: the process has crashed or been told to close.
WorkerRecord ==
    [profile : Profiles, state : {"healthy", "draining", "dead"}, active : Nat,
     failures : 0..FailureLimit, connected : BOOLEAN, alive : BOOLEAN, ending : BOOLEAN]

\* A worker as launch() builds it.  A process that died before the handlers
\* were attached may have emitted either event, or both, to nobody.
Born(p, missed) ==
    [profile |-> p, state |-> "healthy", active |-> 0, failures |-> 0,
     connected |-> "disconnected" \notin missed,
     alive |-> "close" \notin missed,
     ending |-> missed # {}]

Gone == [Born(PlainProfile, {"close", "disconnected"}) EXCEPT !.state = "dead"]

Backend(w) == BackendOf[worker[w].profile]
DefaultIn(list) == {w \in list : Backend(w) = DefaultBackend}

\* Names nothing refers to any more.
Unused ==
    {w \in Workers \ workers :
        ~worker[w].alive /\ ~worker[w].connected /\ \A r \in Requests : on[r] # w}

-----------------------------------------------------------------------------
\* Launching

\* Mutation: launches in flight are not counted.
ReplenishUncounted(calls, list) ==
    LET missing == PoolMin - Cardinality(DefaultIn(list))
        room == IF missing > 0 THEN missing ELSE 0
    IN  IF closed \/ backingOff[DefaultBackend] THEN 0
        ELSE IF calls < room THEN calls ELSE room

(***************************************************************************)
(* How many of so many replenish() calls for the default backend, one      *)
(* after the other, start a launch, list being the workers they leave.     *)
(* replenish() of any other backend wants no worker and does nothing.      *)
(***************************************************************************)
Replenish(calls, list) ==
    LET missing == PoolMin - Cardinality(DefaultIn(list)) - launchingOf[DefaultBackend]
        room == IF missing > 0 THEN missing ELSE 0
    IN  IF closed \/ backingOff[DefaultBackend] THEN 0
        ELSE IF calls < room THEN calls ELSE room

\* n launches of replenish() begin.
BeginFilling(n) ==
    /\ launching' = launching + n
    /\ launchingOf' = [launchingOf EXCEPT ![DefaultBackend] = @ + n]
    /\ filling' = filling + n

\* Mutation: every launch is taken off the count of the default backend.
EndDefaultLaunch(b) ==
    /\ launching' = launching - 1
    /\ launchingOf' = [launchingOf EXCEPT ![DefaultBackend] = @ - 1]

\* The finally block of launch().
EndLaunch(b) ==
    /\ launching' = launching - 1
    /\ launchingOf' = [launchingOf EXCEPT ![b] = @ - 1]

\* launchBrowserWorker() has returned: the worker is listed.
List(w, p) ==
    /\ \E missed \in Missable : worker' = [worker EXCEPT ![w] = Born(p, missed)]
    /\ workers' = workers \cup {w}
    /\ backingOff' = [backingOff EXCEPT ![BackendOf[p]] = FALSE]

LaunchReturns(r) ==
    /\ at[r] = "launching"
    /\ \E w \in Unused :
        /\ List(w, want[r])
        /\ on' = [on EXCEPT ![r] = w]
    /\ at' = [at EXCEPT ![r] = "arriving"]
    /\ UNCHANGED <<want, launching, launchingOf, filling, settling, softPressure, closed>>

LaunchSettles(r) ==
    /\ at[r] = "arriving"
    /\ at' = [at EXCEPT ![r] = "granted"]
    /\ EndLaunch(BackendOf[want[r]])
    /\ UNCHANGED <<workers, worker, want, on, filling, settling, backingOff, softPressure,
                   closed>>

\* Mutation: the catch block takes the launch off the count as well.
LaunchFailsTwice(r) ==
    /\ at[r] = "launching"
    /\ at' = [at EXCEPT ![r] = "idle"]
    /\ backingOff' = [backingOff EXCEPT ![BackendOf[want[r]]] = TRUE]
    /\ launching' = launching - 2
    /\ launchingOf' = [launchingOf EXCEPT ![BackendOf[want[r]]] = @ - 1]
    /\ UNCHANGED <<workers, worker, want, on, filling, settling, softPressure, closed>>

LaunchFails(r) ==
    /\ at[r] = "launching"
    /\ at' = [at EXCEPT ![r] = "idle"]
    /\ backingOff' = [backingOff EXCEPT ![BackendOf[want[r]]] = TRUE]
    /\ EndLaunch(BackendOf[want[r]])
    /\ UNCHANGED <<workers, worker, want, on, filling, settling, softPressure, closed>>

FillReturns ==
    /\ filling > 0
    /\ \E w \in Unused : List(w, PlainProfile)
    /\ filling' = filling - 1
    /\ settling' = settling + 1
    /\ UNCHANGED <<requestVars, launching, launchingOf, softPressure, closed>>

FillSettles ==
    /\ settling > 0
    /\ settling' = settling - 1
    /\ EndLaunch(DefaultBackend)
    /\ UNCHANGED <<workers, worker, requestVars, filling, backingOff, softPressure, closed>>

FillFails ==
    /\ filling > 0
    /\ filling' = filling - 1
    /\ backingOff' = [backingOff EXCEPT ![DefaultBackend] = TRUE]
    /\ EndLaunch(DefaultBackend)
    /\ UNCHANGED <<workers, worker, requestVars, settling, softPressure, closed>>

-----------------------------------------------------------------------------
\* withContext() and acquire()

Request(r, p) ==
    /\ at[r] = "idle"
    /\ ~closed
    /\ at' = [at EXCEPT ![r] = "refreshing"]
    /\ want' = [want EXCEPT ![r] = p]
    /\ UNCHANGED <<workers, worker, on, launchVars, softPressure, closed>>

\* Healthy workers acquire() finds disconnected: it buries them first.
Disconnected == {w \in workers : worker[w].state = "healthy" /\ ~worker[w].connected}

Available(p) ==
    {w \in workers : /\ worker[w].state = "healthy" /\ worker[w].connected
                     /\ worker[w].profile = p
                     /\ worker[w].active < ContextsPerWorker}

LeastActive(S) == {w \in S : \A v \in S : worker[w].active =< worker[v].active}

\* Mutation: launches in flight are forgotten.
ListIsFull(list, n) == Cardinality(list) >= PoolMax

AtCapacity(list, n) == Cardinality(list) + launching + n >= PoolMax

BuryDisconnected ==
    /\ workers' = workers \ Disconnected
    /\ worker' = [w \in Workers |-> IF w \in Disconnected
                                    THEN [worker[w] EXCEPT !.state = "dead"] ELSE worker[w]]

Grant(r, n) ==
    /\ \E w \in LeastActive(Available(want[r])) : on' = [on EXCEPT ![r] = w]
    /\ at' = [at EXCEPT ![r] = "granted"]
    /\ BeginFilling(n)

Refuse(r, n) ==
    /\ Available(want[r]) = {}
    /\ \/ softPressure
       \/ AtCapacity(workers \ Disconnected, n)
       \/ backingOff[BackendOf[want[r]]]
    /\ at' = [at EXCEPT ![r] = "idle"]
    /\ on' = on
    /\ BeginFilling(n)

Launch(r, n) ==
    /\ Available(want[r]) = {}
    /\ ~softPressure
    /\ ~AtCapacity(workers \ Disconnected, n)
    /\ ~backingOff[BackendOf[want[r]]]
    /\ at' = [at EXCEPT ![r] = "launching"]
    /\ on' = on
    /\ launching' = launching + n + 1
    /\ launchingOf' = [b \in Backends |-> launchingOf[b]
                          + (IF b = DefaultBackend THEN n ELSE 0)
                          + (IF b = BackendOf[want[r]] THEN 1 ELSE 0)]
    /\ filling' = filling + n

Acquire(r) ==
    LET n == Replenish(Cardinality(DefaultIn(Disconnected)), workers \ Disconnected) IN
    /\ at[r] = "refreshing"
    /\ BuryDisconnected
    /\ Grant(r, n) \/ Refuse(r, n) \/ Launch(r, n)
    /\ UNCHANGED <<want, settling, backingOff, softPressure, closed>>

Count(r) ==
    /\ at[r] = "granted"
    /\ at' = [at EXCEPT ![r] = "opening"]
    /\ worker' = [worker EXCEPT ![on[r]].active = @ + 1]
    /\ UNCHANGED <<workers, want, on, launchVars, softPressure, closed>>

Open(r) ==
    /\ at[r] = "opening"
    /\ worker[on[r]].connected
    /\ at' = [at EXCEPT ![r] = "inUse"]
    /\ UNCHANGED <<workers, worker, want, on, launchVars, softPressure, closed>>

\* Mutation: the error leaves without the finally block.
OpenFailsOutright(r) ==
    /\ at[r] = "opening"
    /\ at' = [at EXCEPT ![r] = "idle"]
    /\ on' = [on EXCEPT ![r] = NoWorker]
    /\ UNCHANGED <<workers, worker, want, launchVars, softPressure, closed>>

\* newContext() rejects: recordFailure(), whatever state the worker is in.
\* Only whether failures has reached the limit is ever read: it stops there.
OpenFails(r) ==
    LET failures == IF worker[on[r]].failures < FailureLimit
                    THEN worker[on[r]].failures + 1 ELSE FailureLimit IN
    /\ at[r] = "opening"
    /\ at' = [at EXCEPT ![r] = "inUse"]
    /\ worker' = [worker EXCEPT
            ![on[r]].failures = failures,
            ![on[r]].state = IF failures >= FailureLimit THEN "draining" ELSE @]
    /\ UNCHANGED <<workers, want, on, launchVars, softPressure, closed>>

\* The task and context.close() are over, well or not.
Release(r) ==
    /\ at[r] = "inUse"
    /\ at' = [at EXCEPT ![r] = "released"]
    /\ worker' = [worker EXCEPT ![on[r]].active = @ - 1]
    /\ UNCHANGED <<workers, want, on, launchVars, softPressure, closed>>

-----------------------------------------------------------------------------
\* recycle()

\* Mutation: open contexts are not looked at.
KeepsWhenHealthy(w, worn) == ~worn /\ worker[w].state = "healthy"

\* Mutation: only a worn worker is retired.
KeepsUnlessWorn(w, worn) == worker[w].active > 0 \/ ~worn

Keeps(w, worn) == worker[w].active > 0 \/ (~worn /\ worker[w].state = "healthy")

Keep(r, worn) ==
    /\ Keeps(on[r], worn)
    /\ worker' = [worker EXCEPT ![on[r]].state = IF worn THEN "draining" ELSE @]
    /\ at' = [at EXCEPT ![r] = "idle"]
    /\ on' = [on EXCEPT ![r] = NoWorker]
    /\ UNCHANGED workers

\* Mutation: retire() leaves the worker on the list.
RetireListed(r, worn) ==
    /\ ~Keeps(on[r], worn)
    /\ worker' = [worker EXCEPT ![on[r]].state = "dead", ![on[r]].ending = TRUE]
    /\ at' = [at EXCEPT ![r] = "closing"]
    /\ UNCHANGED <<on, workers>>

Retire(r, worn) ==
    /\ ~Keeps(on[r], worn)
    /\ worker' = [worker EXCEPT ![on[r]].state = "dead", ![on[r]].ending = TRUE]
    /\ workers' = workers \ {on[r]}
    /\ at' = [at EXCEPT ![r] = "closing"]
    /\ on' = on

Recycle(r) ==
    /\ at[r] = "released"
    /\ \E worn \in BOOLEAN : Keep(r, worn) \/ Retire(r, worn)
    /\ UNCHANGED <<want, launchVars, softPressure, closed>>

\* server.close() has resolved, or rejected unheeded.  recycle() awaits the
\* replenish(), but nothing follows it: the launch runs in the background.
Closed(r) ==
    LET calls == IF Backend(on[r]) = DefaultBackend THEN 1 ELSE 0 IN
    /\ at[r] = "closing"
    /\ BeginFilling(Replenish(calls, workers))
    /\ at' = [at EXCEPT ![r] = "idle"]
    /\ on' = [on EXCEPT ![r] = NoWorker]
    /\ UNCHANGED <<workers, worker, want, settling, backingOff, softPressure, closed>>

-----------------------------------------------------------------------------
\* Events

\* Mutation: the handler does not close the server.
OnDisconnectedOnly(w) ==
    /\ worker[w].connected
    /\ worker' = [worker EXCEPT
            ![w].connected = FALSE,
            ![w].state = IF @ = "healthy" THEN "draining" ELSE @]
    /\ UNCHANGED <<workers, requestVars, launchVars, softPressure, closed>>

OnDisconnected(w) ==
    /\ worker[w].connected
    /\ worker' = [worker EXCEPT
            ![w].connected = FALSE,
            ![w].state = IF @ = "healthy" THEN "draining" ELSE @,
            ![w].ending = @ \/ worker[w].state = "healthy"]
    /\ UNCHANGED <<workers, requestVars, launchVars, softPressure, closed>>

\* The process is gone: markDead().
OnClose(w) ==
    LET calls == IF worker[w].state # "dead" /\ Backend(w) = DefaultBackend THEN 1 ELSE 0 IN
    /\ worker[w].alive
    /\ worker[w].ending
    /\ worker' = [worker EXCEPT ![w].alive = FALSE, ![w].state = "dead"]
    /\ workers' = workers \ {w}
    /\ BeginFilling(Replenish(calls, workers \ {w}))
    /\ UNCHANGED <<requestVars, settling, backingOff, softPressure, closed>>

Crash(w) ==
    /\ worker[w].alive
    /\ ~worker[w].ending
    /\ worker' = [worker EXCEPT ![w].ending = TRUE]
    /\ UNCHANGED <<workers, requestVars, launchVars, softPressure, closed>>

\* refreshMemory() caches a figure on the other side of the soft limit.
PressureMoves ==
    /\ softPressure' \in SoftLevels \ {softPressure}
    /\ UNCHANGED <<workers, worker, requestVars, launchVars, closed>>

BackoffExpires(b) ==
    /\ backingOff[b]
    /\ backingOff' = [backingOff EXCEPT ![b] = FALSE]
    /\ UNCHANGED <<workers, worker, requestVars, launching, launchingOf, filling, settling,
                   softPressure, closed>>

Close ==
    /\ ~closed
    /\ closed' = TRUE
    /\ workers' = {}
    /\ worker' = [w \in Workers |->
            IF w \in workers THEN [worker[w] EXCEPT !.state = "dead", !.ending = TRUE]
            ELSE worker[w]]
    /\ UNCHANGED <<requestVars, launchVars, softPressure>>

-----------------------------------------------------------------------------
\* initialize() has listed poolMin plain workers, and nothing else happened.
Init ==
    /\ workers \in SUBSET Workers
    /\ Cardinality(workers) = PoolMin
    /\ worker = [w \in Workers |-> IF w \in workers THEN Born(PlainProfile, {}) ELSE Gone]
    /\ at = [r \in Requests |-> "idle"]
    /\ want = [r \in Requests |-> PlainProfile]
    /\ on = [r \in Requests |-> NoWorker]
    /\ launching = 0
    /\ launchingOf = [b \in Backends |-> 0]
    /\ filling = 0
    /\ settling = 0
    /\ backingOff = [b \in Backends |-> FALSE]
    /\ softPressure = FALSE
    /\ closed = FALSE

RequestStep(r) ==
    \/ Acquire(r)
    \/ LaunchReturns(r) \/ LaunchSettles(r) \/ LaunchFails(r)
    \/ Count(r) \/ Open(r) \/ OpenFails(r) \/ Release(r)
    \/ Recycle(r) \/ Closed(r)

FillStep == FillReturns \/ FillSettles \/ FillFails

Next ==
    \/ \E r \in Requests : RequestStep(r) \/ \E p \in Profiles : Request(r, p)
    \/ FillStep
    \/ \E w \in Workers : OnDisconnected(w) \/ OnClose(w) \/ Crash(w)
    \/ \E b \in Backends : BackoffExpires(b)
    \/ PressureMoves
    \/ Close

Spec == Init /\ [][Next]_vars

(***************************************************************************)
(* Each await of a request ends (Playwright's own timeouts and the job     *)
(* timeout bound them), and a process that is ending emits its events.     *)
(* Nothing is assumed of crashes, memory, new requests or shutdown.        *)
(***************************************************************************)
Fairness ==
    /\ \A r \in Requests : WF_vars(RequestStep(r))
    /\ \A w \in Workers : WF_vars(OnClose(w))
    /\ \A w \in Workers : WF_vars(worker[w].ending /\ OnDisconnected(w))

FairSpec == Spec /\ Fairness

-----------------------------------------------------------------------------
\* Properties

Users(w) == {r \in Requests : at[r] \in {"opening", "inUse"} /\ on[r] = w}

\* The shape of the state of class BrowserPool: no counter goes negative.
TypeOK ==
    /\ workers \subseteq Workers
    /\ worker \in [Workers -> WorkerRecord]
    /\ at \in [Requests -> Phases]
    /\ want \in [Requests -> Profiles]
    /\ on \in [Requests -> Workers \cup {NoWorker}]
    /\ launching \in Nat
    /\ launchingOf \in [Backends -> Nat]
    /\ filling \in Nat
    /\ settling \in Nat
    /\ backingOff \in [Backends -> BOOLEAN]
    /\ softPressure \in BOOLEAN
    /\ closed \in BOOLEAN

\* worker.active is the number of requests between its increment and its
\* decrement, whatever became of the worker meanwhile: crashed, retired,
\* drained, dropped by close().
LeaseAccounting == \A w \in Workers : worker[w].active = Cardinality(Users(w))

\* Requests in launch(), and those launching backend b.
Launchers == {r \in Requests : at[r] \in {"launching", "arriving"}}
LaunchersOf(b) == {r \in Launchers : BackendOf[want[r]] = b}

\* The counters that bound the pool count exactly the launches in flight, per
\* backend and in all, whichever way launches end.
LaunchAccounting ==
    /\ launching = Cardinality(Launchers) + filling + settling
    /\ \A b \in Backends :
        launchingOf[b] = Cardinality(LaunchersOf(b))
                         + (IF b = DefaultBackend THEN filling + settling ELSE 0)

\* The list holds the serving workers and nothing else: every healthy worker
\* is on it, no dead one is.
ListedAreServing ==
    \A w \in Workers : /\ worker[w].state = "healthy" => w \in workers
                       /\ w \in workers => worker[w].state # "dead"

\* The browsers of the pool: the listed ones, and those being launched.
Browsers ==
    Cardinality(workers) + Cardinality({r \in Requests : at[r] = "launching"}) + filling

\* The pool never has more than poolMax browsers.
PoolBound == Browsers =< PoolMax

\* With several backends the pool passes poolMax by poolMin browsers at most:
\* only replenish() launches without looking at poolMax.
OvershootBound == Browsers =< PoolMax + PoolMin

\* The requests that will run recycle() on w, or use it and then run it.
WillRecycle(w) ==
    {r \in Requests : on[r] = w /\ at[r] \in {"arriving", "granted", "opening", "inUse",
                                              "released"}}

\* The one way a worker is forgotten on the list, where it takes a place of
\* poolMax until close(): its "close" event came before launch() listened, its
\* "disconnected" event made it draining, so that acquire() does not bury it
\* any more, and no request that would retire it holds it.
Stranded(w) ==
    /\ w \in workers /\ worker[w].state = "draining" /\ WillRecycle(w) = {}
    /\ ~worker[w].alive /\ ~worker[w].connected

\* A draining worker on the list has somebody who will take it off: a request
\* that will retire it, or its "close" event, which is still to come from a
\* process that is ending.  The stranded are the one exception: no draining
\* worker that is still connected, or whose events were heard, is forgotten.
DrainingHasOwner ==
    \A w \in workers : worker[w].state = "draining" =>
        \/ WillRecycle(w) # {}
        \/ worker[w].alive /\ worker[w].ending
        \/ Stranded(w)

\* The pool tells a sound worker to close only when no context is open on it,
\* unless the pool itself closes.
RunningNotRecycled ==
    [][\A w \in workers :
        w \notin workers' /\ worker[w].connected /\ ~worker[w].ending
            => Users(w) = {} \/ closed']_vars

\* A draining worker leaves the list, whatever events were missed, or it is
\* stranded there as told above.
DrainingLeaves ==
    \A w \in Workers :
        (w \in workers /\ worker[w].state = "draining") ~> (w \notin workers \/ Stranded(w))
=============================================================================
