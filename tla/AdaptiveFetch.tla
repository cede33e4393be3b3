---------------------------- MODULE AdaptiveFetch ----------------------------
(***************************************************************************)
(* Fetching a page: runFetch() of server/core/fetch.ts around              *)
(* adaptiveFetch() of execution/content.ts (HTTP first, then a browser if  *)
(* the page needs one), the fallback from backend to backend when a page   *)
(* shows an access challenge (execution/challenge-fallback.ts), which      *)
(* screenshots, PDFs, recordings and workflows share, and the history of   *)
(* the site (execution/domain-observations.ts).                            *)
(*                                                                         *)
(* The response cache is the one ResponseCache models, seen from outside;  *)
(* the admission queue delays or refuses a call, and the pool refuses an   *)
(* attempt or fails it, at any time: whether it is full, under pressure or *)
(* backing off from a launch is a matter of BrowserPool.                   *)
(***************************************************************************)
EXTENDS Naturals, SequencesExt

CONSTANTS
    Calls,      \* fetches at work at a time
    Wants,      \* what is asked for: [op, strategy, backend, cacheable]; op is
                \*   "fetch", or what browsers alone do: "pdf", which stands for
                \*   screenshots too, or "workflow"
    Fallbacks,  \* the backends after the preferred one, in order
    Stock,      \* "playwright-chromium"
    Enabled,    \* enabledBrowserBackends
    Capable,    \* per op: the backends that can do it
    MaxSamples, \* maximumSamplesPerDomain
    MaxRedirects, \* 5 in the code
    None

ASSUME FetchAssumption ==
    /\ MaxSamples \in Nat \ {0} /\ MaxRedirects \in Nat
    /\ Fallbacks \in Seq(Range(Fallbacks)) /\ None \notin Calls

VARIABLES
    fetch,      \* per call [want, at, hops, rest, tried, result]; hops: the
                \*   redirects its HTTP request has followed
    flight,     \* ResponseCache.inflight: per want, the call that computes it, or None
    stored,     \* per want: "none", or what the cache holds, "clean" or "challenge"
    history     \* DomainObservationStore, for one site: [shells, sufficient]

fetchVars == <<fetch, flight, stored, history>>

Idle == [want |-> None, at |-> "idle", hops |-> 0, rest |-> <<>>, tried |-> <<>>,
         result |-> "none"]
Waiting == {"cached", "joined", "queued", "http", "admission", "browser", "storing"}
Outcomes == {"refused", "unavailable", "challenge"}

NoHistory == [shells |-> 0, sufficient |-> 0]
Samples(h) == h.shells + h.sufficient
Put(c, x) == fetch' = [fetch EXCEPT ![c] = x]

-----------------------------------------------------------------------------

\* What of s is in S, each once: filter() with indexOf(), as a recursive
\* function, of which more can be proved than of SelectSeq.
Listed(s, S) ==
    LET kept[n \in Nat] ==
            IF n = 0 THEN <<>>
            ELSE IF s[n] \in S \ Range(kept[n - 1]) THEN Append(kept[n - 1], s[n])
            ELSE kept[n - 1]
    IN kept[Len(s)]

\* challengeFallbackBackends(), less those that cannot do what is asked.
Candidates(w) == Listed(<<w.backend>> \o Fallbacks, Enabled \cap Capable[w.op])

\* coalesce(): the flight is over with its factory.
Landed(w) == [flight EXCEPT ![w] = None]

\* The flight of a call carries those that have joined it.
Ended(c, x) ==
    [d \in Calls |->
        IF d = c THEN x
        ELSE IF fetch[c].want.cacheable /\ fetch[d].at = "joined" /\ fetch[d].want = fetch[c].want
        THEN [x EXCEPT !.at = "done"] ELSE fetch[d]]

\* The call ends with a result; flights and failed calls do not reach the cache.
Finish(c, x) ==
    /\ fetch' = Ended(c, [x EXCEPT !.at = "done", !.hops = 0, !.rest = <<>>])
    /\ flight' = IF x.want.cacheable THEN Landed(x.want) ELSE flight

\* Mutation: what the cache may hold is decided before the page is seen.
ResultCacheableAlways(w, result) == w.cacheable

\* resultCacheable
ResultCacheable(w, result) == w.cacheable /\ result = "clean"

\* A page has come of it; what a workflow found on the way may be too much.
Deliver(c, x, result) ==
    \/ IF ResultCacheable(x.want, result)
       THEN Put(c, [x EXCEPT !.at = "storing", !.result = result]) /\ flight' = flight
       ELSE Finish(c, [x EXCEPT !.result = result])
    \/ x.want.op = "workflow" /\ Finish(c, [x EXCEPT !.result = "oversized"])

Fail(c, x) == Finish(c, [x EXCEPT !.result = "failed"])

\* Mutation: a challenge met before a backend fails is forgotten.
LastPageForgetful(tried) ==
    tried # <<>> /\ Last(tried)[2] = "challenge"

\* The chain has a page to give, if only one with a challenge.
LastPage(tried) == \E i \in DOMAIN tried : tried[i][2] = "challenge"

\* runChallengeFallback() goes on after tried, with rest before it.
Continue(c, x, tried, rest) ==
    IF rest # <<>>
    THEN Put(c, [x EXCEPT !.at = "admission", !.rest = rest, !.tried = tried]) /\ flight' = flight
    ELSE LET y == [x EXCEPT !.rest = <<>>, !.tried = tried] IN
         IF LastPage(tried) THEN Deliver(c, y, "challenge") ELSE Fail(c, y)

\* selectBrowserBackend() and what follows it.
Render(c, x) ==
    IF x.want.op = "fetch" /\ x.want.backend \notin Enabled THEN Fail(c, x)
    ELSE Continue(c, x, <<>>, Candidates(x.want))

-----------------------------------------------------------------------------
\* A call arrives; its URL is checked, then the cache is asked.
Ask(c, w) ==
    /\ fetch[c].at = "idle"
    /\ Put(c, [Idle EXCEPT !.want = w, !.at = IF w.cacheable THEN "cached" ELSE "queued"])
    /\ UNCHANGED <<flight, stored, history>>

\* The cache answers: a hit, unless it is a challenge that an earlier release
\* stored, which is deleted; otherwise the call joins a flight or is one.
CacheAnswers(c) ==
    LET x == fetch[c] IN
    /\ x.at = "cached"
    /\ IF stored[x.want] = "clean"
       THEN Put(c, [x EXCEPT !.at = "done", !.result = "clean"]) /\ UNCHANGED <<flight, stored>>
       ELSE /\ stored' = [stored EXCEPT ![x.want] = "none"]
            /\ IF flight[x.want] # None
               THEN Put(c, [x EXCEPT !.at = "joined"]) /\ flight' = flight
               ELSE Put(c, [x EXCEPT !.at = "queued"]) /\ flight' = [flight EXCEPT ![x.want] = c]
    /\ history' = history

\* The queue refuses the call or starts it.  adaptiveFetch() first reads the
\* history, which is dropped when it is old.
Start(c) ==
    LET x == fetch[c] IN
    /\ x.at = "queued"
    /\ \/ Fail(c, x) /\ history' = history
       \/ /\ x.want.op = "fetch" /\ history' \in {history, NoHistory}
          /\ IF x.want.strategy = "browser" THEN Render(c, x)
             ELSE Put(c, [x EXCEPT !.at = "http"]) /\ flight' = flight
       \/ x.want.op # "fetch" /\ Render(c, x) /\ history' = history
    /\ UNCHANGED <<stored>>

\* Mutation: the sample just recorded is never the one taken out.
TrimmedOther(h, shell) ==
    IF Samples(h) <= MaxSamples THEN h
    ELSE IF shell /\ h.sufficient > 0 THEN [h EXCEPT !.sufficient = @ - 1]
    ELSE IF ~shell /\ h.shells > 0 THEN [h EXCEPT !.shells = @ - 1]
    ELSE [h EXCEPT !.shells = @ - (IF shell THEN 1 ELSE 0),
                   !.sufficient = @ - (IF shell THEN 0 ELSE 1)]

\* Of too many samples, one of the more frequent kind goes.
Trimmed(h, shell) ==
    IF Samples(h) <= MaxSamples THEN h
    ELSE IF h.shells >= h.sufficient THEN [h EXCEPT !.shells = @ - 1]
    ELSE [h EXCEPT !.sufficient = @ - 1]

\* DomainObservationStore.record()
Recorded(shell) ==
    Trimmed([history EXCEPT !.shells = @ + (IF shell THEN 1 ELSE 0),
                            !.sufficient = @ + (IF shell THEN 0 ELSE 1)], shell)

\* The answer of httpFetch() is a redirect: it is followed, unless its address
\* is refused, which is an answer like none, or it is one too many.
Redirected(c) ==
    LET x == fetch[c] IN
    /\ x.at = "http"
    /\ IF x.hops = MaxRedirects THEN Fail(c, x)
       ELSE Put(c, [x EXCEPT !.hops = @ + 1]) /\ flight' = flight
    /\ UNCHANGED <<stored, history>>

\* The answer to the HTTP request: none; one of another kind or with a status
\* that ends it; a page that is sufficient; one that is the shell of an
\* application; one with a challenge, which counts as a shell.
HttpAnswers(c) ==
    LET x == [fetch[c] EXCEPT !.hops = 0] IN
    /\ x.at = "http"
    /\ \E answer \in {"none", "other", "sufficient", "shell", "challenge"} :
         /\ history' = IF answer \in {"none", "other"} THEN history
                       ELSE Recorded(answer \in {"shell", "challenge"})
         /\ CASE answer = "none" -> Fail(c, x)
              [] answer = "challenge" /\ x.want.strategy = "http" -> Deliver(c, x, "challenge")
              [] answer \in {"shell", "challenge"} /\ x.want.strategy = "auto" -> Render(c, x)
              [] OTHER -> Deliver(c, x, "clean")
    /\ UNCHANGED <<stored>>

-----------------------------------------------------------------------------
\* pool.browserAdmission() for the next backend of the chain.
Admission(c) ==
    LET x == fetch[c]  b == Head(x.rest) IN
    /\ x.at = "admission"
    /\ \/ Put(c, [x EXCEPT !.at = "browser"]) /\ flight' = flight
       \/ Continue(c, x, Append(x.tried, <<b, "refused">>), Tail(x.rest))
    /\ UNCHANGED <<stored, history>>

\* The backends left after one that showed a challenge.
Onward(x) == Tail(x.rest)

\* Mutation: an attempt that fails is made again.
GiveUpNever(c, x) == Put(c, [x EXCEPT !.at = "admission"]) /\ flight' = flight

\* An error of an attempt is the call's.
GiveUp(c, x) == Fail(c, x)

\* How the launch of a worker fails: as a backend that is unavailable or with
\* the error of its connection, which no catch clause of launchBrowserWorker()
\* sees; for stock Chromium there is none.
LaunchErrors(b) == IF b = Stock THEN {"error"} ELSE {"error", "unavailable"}

\* What the page of an attempt is: a fetch, a screenshot or a PDF ends with its
\* first error; the steps of a workflow may fail in a page with a challenge.
CapturedPage(challenge, error) ==
    IF error THEN "error" ELSE IF challenge THEN "challenge" ELSE "clean"
WorkflowPage(challenge, error) ==
    IF challenge THEN "challenge" ELSE IF error THEN "error" ELSE "clean"
PageOf(op, challenge, error) ==
    IF op = "workflow" THEN WorkflowPage(challenge, error) ELSE CapturedPage(challenge, error)

\* The attempt ends: in its page, where challenge says that the page still
\* showed one in the end, and error that anything else failed, the pool among
\* it; or with the launch of a worker.
Attempt(c) ==
    LET x == fetch[c]  b == Head(x.rest) IN
    /\ x.at = "browser"
    /\ \/ \E challenge, error \in BOOLEAN :
            CASE PageOf(x.want.op, challenge, error) = "clean" ->
                     Deliver(c, [x EXCEPT !.rest = <<>>], "clean")
              [] PageOf(x.want.op, challenge, error) = "challenge" ->
                     Continue(c, x, Append(x.tried, <<b, "challenge">>), Onward(x))
              [] OTHER -> GiveUp(c, x)
       \/ \E e \in LaunchErrors(b) :
            IF e = "error" THEN GiveUp(c, x)
            ELSE Continue(c, x, Append(x.tried, <<b, "unavailable">>), Tail(x.rest))
    /\ UNCHANGED <<stored, history>>

\* cache.put(), which may fail.
Stored(c) ==
    LET x == fetch[c] IN
    /\ x.at = "storing"
    /\ \/ stored' = [stored EXCEPT ![x.want] = x.result] /\ Finish(c, x)
       \/ Fail(c, x) /\ stored' = stored
    /\ history' = history

\* The caller takes the result.
Take(c) ==
    /\ fetch[c].at = "done" /\ Put(c, Idle)
    /\ UNCHANGED <<flight, stored, history>>

\* The cache loses an entry, by its lifetime or for want of room; another site
\* takes the place of this one's history.
Lost(w) ==
    /\ stored[w] # "none" /\ stored' = [stored EXCEPT ![w] = "none"]
    /\ UNCHANGED <<fetch, flight, history>>
Evicted ==
    /\ history # NoHistory /\ history' = NoHistory
    /\ UNCHANGED <<fetch, flight, stored>>

-----------------------------------------------------------------------------
FetchInit ==
    /\ fetch = [c \in Calls |-> Idle] /\ flight = [w \in Wants |-> None]
    /\ stored \in [Wants -> {"none", "challenge"}]
    /\ \A w \in Wants : ~w.cacheable => stored[w] = "none"
    /\ history = NoHistory

\* A call goes on.
FetchStep(c) ==
    CacheAnswers(c) \/ Start(c) \/ Redirected(c) \/ HttpAnswers(c) \/ Admission(c) \/ Attempt(c) \/ Stored(c)

FetchAround ==
    \/ \E w \in Wants : Lost(w)
    \/ Evicted

-----------------------------------------------------------------------------
\* Properties

FetchTypeOK ==
    /\ fetch \in [Calls -> [want : Wants \cup {None}, at : Waiting \cup {"idle", "done"},
                            hops : 0..MaxRedirects,
                            rest : Seq(Enabled), tried : Seq(Enabled \X Outcomes),
                            result : {"none", "clean", "challenge", "failed", "oversized"}]]
    /\ flight \in [Wants -> Calls \cup {None}]
    /\ stored \in [Wants -> {"none", "clean", "challenge"}]
    /\ history \in [shells : 0..MaxSamples, sufficient : 0..MaxSamples]
    /\ Samples(history) <= MaxSamples

Tried(c) == {fetch[c].tried[i][1] : i \in DOMAIN fetch[c].tried}
Saw(c, outcome) == \E i \in DOMAIN fetch[c].tried : fetch[c].tried[i][2] = outcome

\* No backend is tried twice for one call, whichever the preferred one is.
EachBackendOnce ==
    \A c \in Calls : \A i, j \in DOMAIN fetch[c].tried :
        fetch[c].tried[i][1] = fetch[c].tried[j][1] => i = j

\* The backends of the chain: stock Chromium is one only when preferred.
Chain(w) == ({w.backend} \cup Range(Fallbacks)) \cap Enabled \cap Capable[w.op]

\* What challengeRemaining says is true: a page of a browser is delivered with
\* a challenge only after every backend of the chain that can do it has been
\* tried, and a call that comes to that point with any page delivers it
\* instead of an error, unless it is too large.
MarkIsHonest ==
    \A c \in Calls :
        fetch[c].at = "done" /\ fetch[c].tried # <<>>
            /\ Tried(c) = Chain(fetch[c].want) /\ fetch[c].result # "oversized"
            => (fetch[c].result # "clean" /\ (fetch[c].result = "challenge" <=> Saw(c, "challenge")))
ChallengeMeansAll ==
    \A c \in Calls :
        fetch[c].at = "done" /\ fetch[c].result = "challenge" /\ fetch[c].want.strategy # "http"
            => Tried(c) = Chain(fetch[c].want)

\* No page with a challenge is ever stored: docs/browser-backends.md.  Those
\* an earlier release left are only ever removed.
NoChallengeStored ==
    [][\A w \in Wants : stored'[w] = "challenge" => stored[w] = "challenge"]_fetchVars

\* A call that waits for another's result has one to wait for, and a flight
\* on record is in the air: nobody waits for a call that has ended.
JoinedHaveAFlight ==
    /\ \A c \in Calls : fetch[c].at = "joined" => flight[fetch[c].want] # None
    /\ \A w \in Wants : flight[w] # None =>
           fetch[flight[w]].want = w /\ fetch[flight[w]].at \in Waiting \ {"cached", "joined"}

\* A history that is full loses its weight and never gains any: a sample of
\* the rarer kind takes the place of one of the other, a sample of the more
\* frequent kind is dropped, and once balanced it does not move.
Imbalance(h) == IF h.shells > h.sufficient THEN h.shells - h.sufficient ELSE h.sufficient - h.shells
FullHistoryLosesWeight ==
    [][Samples(history) = MaxSamples /\ Samples(history') = MaxSamples
         => Imbalance(history') <= Imbalance(history)]_fetchVars

\* Every call ends.
FetchesEnd ==
    \A c \in Calls : fetch[c].at \in Waiting ~> fetch[c].at = "done"

\* What a caller is told of challenges is what its attempts have seen, each
\* backend tried once, and who joined another call waits for one in the air.
FetchesAreHonest ==
    EachBackendOnce /\ MarkIsHonest /\ ChallengeMeansAll /\ JoinedHaveAFlight
=============================================================================
