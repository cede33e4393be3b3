---------------------------- MODULE RequestPolicies ----------------------------
(***************************************************************************)
(* The hooks around every request (server/lifecycle.ts), the usage table   *)
(* they keep (storage/operations.ts) and the alerts they raise (alerts.ts).*)
(*                                                                         *)
(* Requests that carry no known key, or one not allowed for their route,   *)
(* are answered before any state changes and are left out.                 *)
(***************************************************************************)
EXTENDS Server, FiniteSets, Functions

CONSTANTS
    Keys,           \* API keys
    Calls,          \* requests in progress at a time
    RateLimit,      \* rateLimitPerMinute
    DailyLimit,     \* dailyRequestLimit; 0: none
    Minute,         \* 60000 ms in ticks: the rate window, the cooldown of alerts
    DayTicks,       \* a day in ticks
    Events,         \* alerts considered, of "queue", "rejection", "timeout", "error"
                    \*   and "health-failure"
    None

ASSUME PolicyAssumption ==
    /\ IsFiniteSet(Calls) /\ None \notin [startedAt : Nat, count : Nat]
    /\ RateLimit \in Nat \ {0} /\ DailyLimit \in Nat
    /\ Minute \in Nat \ {0} /\ DayTicks \in Nat \ {0}

VARIABLES
    counters,   \* per key: [startedAt, count], or None
    usage,      \* usage_counters: per key and day [requests, outcomes]; the
                \*   successful and the failed are counted together
    call,       \* per request: its key and "idle", "handling", "refused"
    lastSent,   \* per event: when its alert was last sent, or None
    passed,     \* history: per key and tick, the requests let through since the
                \*   process started
    alerts      \* history: per event, when it last went out since then (or None),
                \*   and whether two went out within a minute

policyVars == <<counters, usage, call, lastSent, passed, alerts>>

Days == 0..(LastTick \div DayTicks)
Today == now \div DayTicks
Alarms == {"queue", "health-failure"}  \* those no answer raises
Statuses == {"answered", "rejection"} \cup (Events \ Alarms)

NoAlert == [last |-> None, crowded |-> FALSE]
NoCall == [key |-> None, stage |-> "idle"]

\* What the process keeps in memory, at its start.
PolicyForget ==
    /\ counters' = [k \in Keys |-> None] /\ call' = [c \in Calls |-> NoCall]
    /\ lastSent' = [e \in Events |-> None]
    /\ passed' = [k \in Keys |-> [t \in 0..LastTick |-> 0]]
    /\ alerts' = [e \in Events |-> NoAlert]

-----------------------------------------------------------------------------
\* onRequest

\* The counter of a key with one more request: of a new window, or of its own.
\* Bound: counts past the limit are alike.
Counted(k) ==
    IF counters[k] = None THEN [startedAt |-> now, count |-> 1]
    ELSE IF now - counters[k].startedAt >= Minute THEN [startedAt |-> now, count |-> 1]
    ELSE [counters[k] EXCEPT !.count = IF @ > RateLimit THEN @ ELSE @ + 1]

\* Mutation: one more.
HasQuotaMore(k) == DailyLimit = 0 \/ usage[k][Today].requests <= DailyLimit

HasQuota(k) == DailyLimit = 0 \/ usage[k][Today].requests < DailyLimit

\* Mutation: the reservation is made first.
ReservedFirst(k, ok) == [usage EXCEPT ![k][Today].requests = @ + 1]

\* reserveUsage(), reached by requests within the rate.
Reserved(k, ok) == IF ok THEN [usage EXCEPT ![k][Today].requests = @ + 1] ELSE usage

Receive(c, k) ==
    /\ server = "up" /\ call[c].stage = "idle"
    /\ counters' = [counters EXCEPT ![k] = Counted(k)]
    /\ LET ok == counters'[k].count <= RateLimit /\ HasQuota(k) IN
         /\ usage' = Reserved(k, ok)
         /\ call' = [call EXCEPT ![c] = [key |-> k, stage |-> IF ok THEN "handling" ELSE "refused"]]
         /\ passed' = IF ok THEN [passed EXCEPT ![k][now] = @ + 1] ELSE passed
    /\ UNCHANGED <<lastSent, alerts>>

-----------------------------------------------------------------------------
\* onResponse

Marked(e) == [lastSent EXCEPT ![e] = now]

Recent(t) == t # None /\ now - t < Minute

\* notifyOperationalAlert(): nothing during the cooldown; whether the alert
\* arrives makes no difference.
Notify(e) ==
    IF Recent(lastSent[e]) THEN UNCHANGED <<lastSent, alerts>>
    ELSE /\ lastSent' = Marked(e)
         /\ alerts' = [alerts EXCEPT ![e] =
                [last |-> now, crowded |-> @.crowded \/ Recent(@.last)]]

\* recordUsageOutcome(): only for requests that were let through, and on the
\* day the answer is sent, if a request came on that day.
Booked(c) ==
    IF call[c].stage = "refused" \/ usage[call[c].key][Today].requests = 0 THEN usage
    ELSE [usage EXCEPT ![call[c].key][Today].outcomes = @ + 1]

Respond(c, status) ==
    /\ Running /\ call[c].stage # "idle"
    /\ call[c].stage = "refused" => status = "rejection"
    /\ usage' = Booked(c)
    /\ call' = [call EXCEPT ![c] = NoCall]
    /\ IF status \in Events THEN Notify(status) ELSE UNCHANGED <<lastSent, alerts>>
    /\ UNCHANGED <<counters, passed>>

\* The connection goes, or becomes a WebSocket: no hook sees an answer.
Vanish(c) ==
    /\ Running /\ call[c].stage # "idle"
    /\ call' = [call EXCEPT ![c] = NoCall]
    /\ UNCHANGED <<counters, usage, lastSent, passed, alerts>>

\* The queue is congested, or /readyz finds the service unhealthy.
Raise(e) == Running /\ Notify(e) /\ UNCHANGED <<counters, usage, call, passed>>

PolicyInit ==
    /\ counters = [k \in Keys |-> None] /\ call = [c \in Calls |-> NoCall]
    /\ lastSent = [e \in Events |-> None]
    /\ passed = [k \in Keys |-> [t \in 0..LastTick |-> 0]]
    /\ alerts = [e \in Events |-> NoAlert]
    /\ usage = [k \in Keys |-> [d \in Days |-> [requests |-> 0, outcomes |-> 0]]]

PolicyStep ==
    \/ \E c \in Calls, k \in Keys : Receive(c, k)
    \/ \E c \in Calls, status \in Statuses : Respond(c, status)
    \/ \E c \in Calls : Vanish(c)
    \/ \E e \in Events \cap Alarms : Raise(e)

-----------------------------------------------------------------------------
\* Properties

PolicyTypeOK ==
    /\ \A k \in Keys : counters[k] = None \/ counters[k] \in [startedAt : 0..LastTick, count : 1..(RateLimit + 1)]
    /\ usage \in [Keys -> [Days -> [requests : Nat, outcomes : Nat]]]
    /\ call \in [Calls -> [key : Keys \cup {None}, stage : {"idle", "handling", "refused"}]]
    /\ lastSent \in [Events -> (0..LastTick) \cup {None}]

\* Whatever windows the code happens to open, no minute sees twice the limit of
\* a key let through, as long as the process lives: where two windows meet, the
\* request that opened the earlier one came before that minute.
RateBound ==
    \A k \in Keys, t \in 0..LastTick :
        SumFunctionOnSet(passed[k], {u \in 0..LastTick : u >= t /\ u < t + Minute}) < 2 * RateLimit

\* Several requests at a time never exceed the daily quota, and no restart
\* gives it back.
DailyBound ==
    DailyLimit > 0 => \A k \in Keys, d \in Days : usage[k][d].requests <= DailyLimit

\* What is reserved covers the outcomes booked and the requests at work, whatever
\* day they are booked on.
OutcomesAreReserved ==
    \A k \in Keys :
        SumFunctionOnSet([d \in Days |-> usage[k][d].outcomes], Days)
            + Cardinality({c \in Calls : call[c] = [key |-> k, stage |-> "handling"]})
          <= SumFunctionOnSet([d \in Days |-> usage[k][d].requests], Days)

\* A request that is refused, for its rate or for its quota, takes no quota: until
\* the first restart, which forgets who passed, a day's requests are those let
\* through.
RefusedTakeNothing ==
    starts = 1 => \A k \in Keys, d \in Days :
        usage[k][d].requests = SumFunctionOnSet(passed[k], {t \in 0..LastTick : t \div DayTicks = d})

\* At most one alert per event and minute goes out, as long as the process lives.
AlertsAreSpaced == \A e \in Events : ~alerts[e].crowded

\* The limits hold whatever calls overlap: that of requests per day however the
\* server is restarted, and those per minute, of requests and of alerts, within
\* one life of the process, which keeps them in memory.
LimitsHold == PolicyTypeOK /\ RateBound /\ DailyBound /\ AlertsAreSpaced

\* The usage rows tell what was let through: refused requests take nothing and
\* outcomes are of requests that were reserved.
UsageIsTrue == OutcomesAreReserved /\ RefusedTakeNothing
=============================================================================
