--------------------------- MODULE AdmissionQueue ---------------------------
(***************************************************************************)
(* The in-process admission queue (src/queue.ts).  Node runs one callback  *)
(* at a time, so an action is the code between two awaits: run() with the  *)
(* drain() it calls, the task's own completion, and the promise callback   *)
(* that gives the slot back and drains.                                    *)
(*                                                                         *)
(* rss is the memory figure the pool last cached (pool.memorySnapshot());  *)
(* it moves at any time.  Megabytes are small naturals.  The rejection     *)
(* counters and the queueMs timings only feed /metrics and are left out.   *)
(***************************************************************************)
EXTENDS Integers, Sequences, FiniteSets

CONSTANTS
    Jobs,             \* calls of run(); a refused one may be sent again
    Workloads,        \* the WorkloadKinds in play
    WorkloadOf,       \* [Jobs -> Workloads]
    DefaultEstimate,  \* defaultEstimates
    MaxConcurrency, QueueMax,
    HardMb, ReserveMb,
    HistoryMax,       \* samples kept per workload (128 in the code)
    RssLevels         \* the values the cached memory figure takes

ASSUME QueueAssumption ==
    /\ IsFiniteSet(Jobs)
    /\ WorkloadOf \in [Jobs -> Workloads]
    /\ DefaultEstimate \in [Workloads -> Nat \ {0}]
    /\ MaxConcurrency \in Nat \ {0}
    /\ QueueMax \in Nat
    /\ HardMb \in Nat /\ ReserveMb \in Nat /\ HardMb > ReserveMb
    /\ HistoryMax \in Nat \ {0}
    /\ RssLevels \subseteq Nat /\ RssLevels # {}

VARIABLES
    status,     \* where each call is
    pending,    \* pending[]
    active,     \* active
    samples,    \* samples, per workload
    alerted,    \* queueAlerted
    before,     \* the memory figure each running task started from
    rss,        \* memorySnapshot().totalRssMb
    drainRss,   \* history: the figure the last drain() read
    accepted,   \* history: the calls accepted, in order
    started     \* history: the calls started, in order

historyVars == <<drainRss, accepted, started>>
vars == <<status, pending, active, samples, alerted, before, rss, historyVars>>

\* A call is outside (never sent, or refused and free to be sent again), in
\* pending[], running, recorded (its task is over, its slot not yet given
\* back), or settled.
Outside == {"new", "refusedMemory", "refusedQueue"}
InFlight == {"running", "recorded"}
Settled == {"resolved", "rejected"}
Statuses == Outside \cup {"pending"} \cup InFlight \cup Settled

Holding == {j \in Jobs : status[j] \in InFlight}
SettledJobs == {j \in Jobs : status[j] \in Settled}

-----------------------------------------------------------------------------
\* Estimates

\* The smallest value with at least Rank values at or below it, Rank being
\* ceil(0.9 n): the element the sorted copy has at that index.
Rank(n) == (9 * n + 9) \div 10

P90(values, fallback) ==
    IF values = <<>> THEN fallback
    ELSE CHOOSE v \in {values[i] : i \in 1..Len(values)} :
            /\ Cardinality({i \in 1..Len(values) : values[i] =< v}) >= Rank(Len(values))
            /\ Cardinality({i \in 1..Len(values) : values[i] < v}) < Rank(Len(values))

Estimate(w) == P90(samples[w], DefaultEstimate[w])

\* Mutation: the growth of a task whose process tree shrank is kept as it is.
RawGrowth(j) == rss - before[j]

Growth(j) == IF rss - before[j] > 1 THEN rss - before[j] ELSE 1

RecordSample(w, value) ==
    LET history == Append(samples[w], value)
        n == Len(history)
    IN  samples' = [samples EXCEPT ![w] =
            IF n > HistoryMax THEN SubSeq(history, n - HistoryMax + 1, n) ELSE history]

-----------------------------------------------------------------------------
\* drain()

Budget == HardMb - ReserveMb

MemorySlots(j, mem) ==
    LET slots == (Budget - mem) \div Estimate(WorkloadOf[j])
    IN  IF slots > 0 THEN slots ELSE 0

MayStart(j, inFlight, mem) ==
    /\ inFlight < MaxConcurrency
    /\ inFlight < MemorySlots(j, mem)

\* Mutation: nothing ever arms the alert again.
NeverRearmed(queue, al) == al

AlertAfter(queue, al) == al /\ queue # <<>>

(***************************************************************************)
(* The loop takes calls off the front of queue until one may not start or  *)
(* none is left: it takes the k that satisfies the first two conjuncts.    *)
(* inFlight, st and al are active, status and queueAlerted as the caller   *)
(* of drain() leaves them.                                                 *)
(***************************************************************************)
Drain(queue, inFlight, st, al) ==
    \E k \in 0..Len(queue) :
        LET taken == {queue[i] : i \in 1..k} IN
        /\ \A i \in 1..k : MayStart(queue[i], inFlight + i - 1, rss)
        /\ k < Len(queue) => ~MayStart(queue[k + 1], inFlight + k, rss)
        /\ alerted' = AlertAfter(queue, al)
        /\ pending' = SubSeq(queue, k + 1, Len(queue))
        /\ active' = inFlight + k
        /\ status' = [j \in Jobs |-> IF j \in taken THEN "running" ELSE st[j]]
        /\ before' = [j \in Jobs |-> IF j \in taken THEN rss
                                     ELSE IF st[j] = "running" THEN before[j] ELSE 0]
        /\ drainRss' = rss
        /\ started' = started \o SubSeq(queue, 1, k)

-----------------------------------------------------------------------------
\* run()

\* Mutation: the admission test forgets the reserve.
RefusesAboveHard(j) == rss + Estimate(WorkloadOf[j]) > HardMb

MemoryRefuses(j) ==
    \/ rss >= HardMb
    \/ rss + Estimate(WorkloadOf[j]) > Budget

\* Mutation: off by one.
QueueOverfull == Len(pending) > QueueMax

QueueFull == Len(pending) >= QueueMax

QueueingBegins == pending # <<>> \/ active >= MaxConcurrency

RefuseForMemory(j) ==
    /\ status[j] \in Outside
    /\ MemoryRefuses(j)
    /\ status' = [status EXCEPT ![j] = "refusedMemory"]
    /\ UNCHANGED <<pending, active, samples, alerted, before, rss, historyVars>>

RefuseForQueue(j) ==
    /\ status[j] \in Outside
    /\ ~MemoryRefuses(j)
    /\ QueueFull
    /\ status' = [status EXCEPT ![j] = "refusedQueue"]
    /\ UNCHANGED <<pending, active, samples, alerted, before, rss, historyVars>>

Admit(j) ==
    /\ status[j] \in Outside
    /\ ~MemoryRefuses(j)
    /\ ~QueueFull
    /\ accepted' = Append(accepted, j)
    /\ Drain(Append(pending, j), active,
             [status EXCEPT ![j] = "pending"], alerted \/ QueueingBegins)
    /\ UNCHANGED <<samples, rss>>

Run(j) == RefuseForMemory(j) \/ RefuseForQueue(j) \/ Admit(j)

-----------------------------------------------------------------------------
\* The end of a task

\* The task returns: its memory growth becomes a sample.  The slot is given
\* back by a later microtask.
Finish(j) ==
    /\ status[j] = "running"
    /\ status' = [status EXCEPT ![j] = "recorded"]
    /\ RecordSample(WorkloadOf[j], Growth(j))
    /\ before' = [before EXCEPT ![j] = 0]
    /\ UNCHANGED <<pending, active, alerted, rss, historyVars>>

Settle(j) ==
    /\ status[j] = "recorded"
    /\ Drain(pending, active - 1, [status EXCEPT ![j] = "resolved"], alerted)
    /\ UNCHANGED <<samples, rss, accepted>>

\* Mutation: the rejection callback gives the slot back without draining.
FailWithoutDrain(j) ==
    /\ status[j] = "running"
    /\ active' = active - 1
    /\ status' = [status EXCEPT ![j] = "rejected"]
    /\ before' = [before EXCEPT ![j] = 0]
    /\ UNCHANGED <<pending, samples, alerted, rss, historyVars>>

\* Mutation: the rejection callback drains without giving the slot back.
FailKeepingSlot(j) ==
    /\ status[j] = "running"
    /\ Drain(pending, active, [status EXCEPT ![j] = "rejected"], alerted)
    /\ UNCHANGED <<samples, rss, accepted>>

\* The task throws: no sample, and the slot is given back by the callback
\* the rejection runs.
Fail(j) ==
    /\ status[j] = "running"
    /\ Drain(pending, active - 1, [status EXCEPT ![j] = "rejected"], alerted)
    /\ UNCHANGED <<samples, rss, accepted>>

\* The pool caches another memory figure: nothing calls drain() for it.
MemoryMoves ==
    /\ rss' \in RssLevels \ {rss}
    /\ UNCHANGED <<status, pending, active, samples, alerted, before, historyVars>>

-----------------------------------------------------------------------------
Init ==
    /\ status = [j \in Jobs |-> "new"]
    /\ pending = <<>>
    /\ active = 0
    /\ samples = [w \in Workloads |-> <<>>]
    /\ alerted = FALSE
    /\ before = [j \in Jobs |-> 0]
    /\ rss \in RssLevels
    /\ drainRss = rss
    /\ accepted = <<>>
    /\ started = <<>>

Next ==
    \/ \E j \in Jobs : Run(j) \/ Finish(j) \/ Settle(j) \/ Fail(j)
    \/ MemoryMoves

Spec == Init /\ [][Next]_vars

(***************************************************************************)
(* Every task ends (each workload runs under the job timeout), the event   *)
(* loop runs every queued callback, and a caller that was refused tries    *)
(* again: the errors are marked retryable.  Memory moves as it likes.      *)
(***************************************************************************)
Fairness ==
    \A j \in Jobs : /\ WF_vars(Finish(j) \/ Fail(j))
                    /\ WF_vars(Settle(j))
                    /\ WF_vars(Run(j))

FairSpec == Spec /\ Fairness

-----------------------------------------------------------------------------
\* Properties

\* The shape of the state of class AdmissionQueue.
TypeOK ==
    /\ status \in [Jobs -> Statuses]
    /\ pending \in Seq(Jobs)
    /\ active \in Nat
    /\ samples \in [Workloads -> Seq(Nat \ {0})]
    /\ alerted \in BOOLEAN
    /\ before \in [Jobs -> Nat]
    /\ rss \in RssLevels
    /\ drainRss \in RssLevels
    /\ accepted \in Seq(Jobs)
    /\ started \in Seq(Jobs)

\* active counts exactly the calls that hold a slot, whichever way calls are
\* refused, finish, fail and drain, and never passes maxConcurrency.
SlotAccounting ==
    /\ active = Cardinality(Holding)
    /\ active =< MaxConcurrency

\* drain() never leaves a call waiting that it could have started: outside
\* the gap between a task's end and its callback, the head of the queue was
\* not startable with the memory figure the last drain() read.
WorkConserving ==
    (pending # <<>> /\ \A j \in Jobs : status[j] # "recorded")
        => ~MayStart(Head(pending), active, drainRss)

\* The admission test and the slot arithmetic of drain() agree: a call that
\* run() accepts while nothing runs and nothing waits starts in that call.
IdleAdmissionStarts ==
    [][(active = 0 /\ pending = <<>>) => pending' = <<>>]_vars

\* Once the queue has gone idle the operator alert is armed again.
IdleRearmsAlert == (active = 0 /\ pending = <<>>) => ~alerted

\* Every accepted call ends.
AcceptedCallsEnd ==
    \A j \in Jobs : status[j] = "pending" ~> status[j] \in Settled

\* The queue keeps its promise: acceptance order is start order, and both
\* bounds hold.
Contract == INSTANCE AdmissionContract
    WITH begun <- Len(started), settled <- SettledJobs

KeepsContract == Contract!ContractSpec

=============================================================================
