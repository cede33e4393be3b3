# OpenBrowse in TLA+

OpenBrowse is a self-hosted gateway that fetches pages over HTTP or with a
browser.  It is one Node process: everything below runs in callbacks of one
event loop, so code between two `await`s is atomic and every `await` is a place
where any other request may run.  That is the grain of the models: **an action
is the code between two awaits, or one event.**

## 1. The system

| component | source (`src/src/`) | state | operations |
|---|---|---|---|
| Admission queue | `queue.ts` | `pending[]`, `active`, samples per workload, `queueAlerted` | `run`, `drain`, the settling callbacks |
| Browser pool | `execution/pool.ts`, `browser-launchers.ts` | list of workers, launch counters, back-off, cached memory figure, `closed` | `withContext`, `acquire`, `launch`, `recycle`, `replenish`, `close`, Playwright's events |
| Response cache | `cache.ts`, `storage/cache-store.ts`, `server/core/fetch.ts` | memory LRU and its byte count, in-flight tasks, disk rows, files | `get`, `put`, `delete`, `purge`, `coalesce`, eviction |
| Live sessions | `execution/sessions.ts`, `storage/sessions.ts`, `storage/handoffs.ts`, `server/routes/sessions/*`, `server/core/agent.ts`, `server/core/bql.ts` | `active`, `tracing`, expiry timers, session rows, handoff rows | `get`/`create`, `close`, expiry, traces, redeem, and each handler that uses a session |
| Socket bridges | `server/routes/sockets.ts`, `cdp.ts` | client and upstream socket, buffered messages, the browser | connect, forward, timeout, cleanup |
| Reconnectable CDP targets | `cdp-reconnect.ts` | targets and their timers | `create`, `get`, `close`, `closeAll` |
| Background jobs | `storage/jobs.ts`, `storage/artifacts.ts`, routes in `admin.ts` and `execution.ts`, `automation/integrations.ts` | job rows, artifacts | create, update, webhook |
| Request policies | `server/lifecycle.ts`, `storage/operations.ts`, `alerts.ts` | rate windows, daily usage, last alert | the request hooks |
| Adaptive fetch and challenge fallback | `execution/content.ts`, `challenge-fallback.ts`, `backends.ts`, `http.ts`, `media.ts`, `workflow.ts`, `server/core/fetch.ts` | flights, none else across requests | HTTP first, then browsers, one attempt per backend |
| Domain observations | `execution/domain-observations.ts` | bounded counts per domain | `record`, `get` |
| Site map | `automation/map.ts` | local to a request | bounded breadth-first search |
| Assembly and shutdown | `server.ts`, `index.ts`, `storage.ts` | the parts | start, ordered close |

How they interact.  A `/v1/fetch` passes the request policies, asks the cache,
and on a miss shares one in-flight task that enters the **queue**; the task it
runs (`adaptiveFetch`) may borrow a context from the **pool**, possibly once per
backend through the challenge fallback.  The queue and the pool share one piece
of state, the memory figure the pool caches (`pool.memorySnapshot()`,
`server.ts:77`).  Jobs and crawls run the same path in the background and write
rows and webhooks.  Sessions, socket bridges and CDP targets launch browsers of
their own, outside the pool.  Everything persistent is in one SQLite database,
whose calls are synchronous, and in files, whose calls are not.

What makes it hard:

* checks that an `await` separates from their use (`acquire` and `active++`,
  `closed` and `launch`, `sessions.get`, the one-viewer rule, cache disk reads);
* Playwright's `close` and `disconnected` events, in either order, possibly
  before anybody listens; timers that outlive the entry they were set for;
* counters kept on several paths (`active`, `launching`, `memoryBytes`);
* work that only a later call would wake (`drain()`, `replenish()`);
* two sources of truth (memory and disk, row and file, session row and browser);
* a client that leaves, or a process that crashes or stops, between two of
  those writes.

What correctness means, per component, is the list of properties in section 3.
The hazards, each at its line, are in `PROJECT.json`.

## 2. What is modelled

| module | models |
|---|---|
| `AdmissionContract` | what the queue promises: calls start in acceptance order, two bounds |
| `AdmissionQueue` | `queue.ts`, whole; refines `AdmissionContract` |
| `BrowserPool` | `execution/pool.ts`, whole |
| `ResponseCache` | `cache.ts`, `storage/cache-store.ts`, the cached path of `server/core/fetch.ts` |
| `LiveSessions` | `execution/sessions.ts`, session and handoff rows, every handler on a session, BrowserQL |
| `SocketBridges` | `server/routes/sockets.ts`, `cdp.ts`, `cdp-reconnect.ts` |
| `Server` | the clock and the life of the process |
| `RequestPolicies` | the request hooks of `server/lifecycle.ts`, usage rows, alerts; extends `Server` |
| `Jobs` | captures, crawls, artifacts, webhooks; extends `Server` |
| `Service` | composes `Server`, `RequestPolicies` and `Jobs` |
| `AdaptiveFetch` | `runFetch()`, `adaptiveFetch()`, `httpFetch()`'s redirects, the challenge fallback, domain observations |
| `SiteCrawl` | `mapSite()` over the fetches of `AdaptiveFetch`, which it extends |
| `MC*` | instances of these for TLC |
| `AdmissionQueueProofs`, `BrowserPoolProofs`, `ResponseCacheProofs`, `LiveSessionsProofs`, `SocketBridgesProofs`, `ServiceProofs`, `SiteCrawlProofs` | theorems about them (section 5) |
| `SumTheorems` | lemmas the proofs share: induction over sets, sums |

### AdmissionQueue

`status[j]` is where a call of `run()` is: outside, pending, running, recorded
(its task is over and its sample taken, its slot not yet given back: the slot
comes back one microtask later), or settled.  `RefuseForMemory`,
`RefuseForQueue` and `Admit` are the three ways through `run()`; `Finish`,
`Settle` and `Fail` the ends of a task.  `Drain` is the loop of `drain()` as a
relation: the number of calls it takes off the front is the one for which each
taken call could start and the next one could not.  `samples` and `P90` keep
the estimates of the code, so a head's estimate changes as calls end; `rss` is
the memory figure, which moves at any moment in `RssLevels` and never causes a
drain.  `drainRss`, `accepted` and `started` are history.

Left out: counters and timings that feed only `/metrics`; the delivery of the
alert.

### BrowserPool

`at[r]` is the await a `withContext()` call is in (the header of the module
lists them), `on[r]` the worker it holds.  `worker[w]` is the Worker object
together with its process: `connected` is `browser.isConnected()`, `alive` says
the server's `close` event is still to come, `ending` that the process has
crashed or been told to close.  A Worker object outlives its place on the list,
and the model keeps it until nothing refers to it; then its name is used again.
`filling` and `settling` count the launches `replenish()` started in the
background.

`Missable` lists which events a new process may have emitted before `launch()`
attached its handlers.  Age, RSS and job count of a worker only decide whether
`recycle()` finds it worn; the model lets any request find that.  Left out:
the statistics counters, launch options, the order of the list.

### ResponseCache

`at[r]` is the await a cacheable `/v1/fetch` is in, `want[r]` its key, `held[r]`
the body it has read or fetched.  `memory` is the Map of `Cache` in its order,
`inflight` names the request that runs the task of a key, `row` and `file` are
the two halves of the disk layer: a row changes in the step that runs the SQL
statement, a file only when `unlink()` or `writeFile()` completes.  `purging`
holds the files `purge()` is unlinking (two purges of one key that overlap
count as one), `todo` and `victim` are the local state of each `evict()`.
`Write` and `Evicted` include everything up to the next await: the insert, the
test of the limit, the next victim or else `putMemory()` and the end of the task.
`removed` is history: keys deleted or purged while no request was reading or
evicting for them, and not stored since.

A body is a model value with a length; a challenge page is a body that only an
earlier release would have stored, the one case in which `runFetch()` deletes
what it has just read.  Entries and rows expire at any moment, so ages are not
compared.  `Faults` adds failing writes and a restart that leaves rows and
files behind.  Left out: requests that bypass the cache, `stats()`, the order in
which `evict()` visits rows (any row may be the victim), a file read while it is
half written.

### LiveSessions

A handler looks its session up once, keeps the `StoredSession` and then makes
calls that each await.  It is modelled by its **program**, the sequence of those
calls (`req[r].todo`: `get`, `use`, `save`, `trace`, `stop`, `close`, `remove`),
and by the program of its `catch` or `finally` clause (`rescue`).  The programs
are the definitions from `Inspect` to `Delete`, the fields of BrowserQL and the
steps of the agent tool, each mapped to the handler it stands for.

`active[s]` is the entry of the manager, a browser; `timer` the sessions with an
entry in `expiryTimers`; `stray` counts timers whose entry another `set()` took:
they fire all the same and close what is there then.  `row`, `viewers`, `expired`
and `grant` are the database.  `Get`, `Admitted` and `Launched` are the three
parts of `get()`/`create()` between awaits: the sweep of expired sessions, the
one-viewer test, the launch.  `shared`, `overwritten` and `leaked` are history;
they name the situations in which the code is known to lose a browser, so that
the invariants can say that there are no others.  `rivals`, likewise, are the viewers
that were launching together when one last passed the one-viewer rule.  A browser may crash at any
time and, as in the code, nobody listens.

Left out: what happens inside the page (a step that ends or throws), proxies,
profiles' contents.

### SocketBridges

One bridge is a client socket, the handler that serves it (`stage`), an upstream
socket and a browser, which belongs to the bridge, to its session or to a target
(`Peer`).  `pending` is `pendingMessages`, `sent` and `through` number the messages of
the client.  `proc[o]` follows `launchCdpBrowser()`, `launchServer()` or
`sessions.get()`, whose `create()` may throw before it has a browser (`LaunchFails`)
or after (`SessionFails`, recorded in `lost`); `kill` and `deadline` are the timers,
`stopping` the calls of `stop()` that await the browser.  The `close` handler of a
client exists only from `Pipe` on, as in the code, which is what `left` records.
`down` is the end of the server by the unhandled rejection of a `cleanup()` that
throws, in its archive, its deletion or its webhooks.  Left out: what upstream sends,
launch options, owners and tokens.

### Server, RequestPolicies, Jobs, Service

`Server` has the clock (`now`, in ticks) and the state of the process: `up`,
`closing`, `down`, with a bounded number of starts.  `RequestPolicies` is the
`onRequest` hook after authentication (`Receive`: rate window, then daily
reservation), the `onResponse` hook (`Respond`: outcome, alert) and requests no
hook sees the end of (`Vanish`).  `Jobs` follows each job's function from await
to await.  Webhooks are dispatched when they can be decrypted (`Tell`).  When they cannot,
a crawl that has stored "complete" meets the rejection one await later, stores
"failed" in its `catch` clause (`Overturned`), whose own dispatch fails the same way,
and then the process ends (`Thrown`); a stop may come between any two of these, and
`Unhook` may delete the webhook meanwhile.  `unheard` is history.  `Service`
says what a request that is let through does to make a job and what a stop, a
kill and a restart do to each part: rows stay, memory goes.

Left out: authentication, CORS, audit rows, retries of a webhook.

### AdaptiveFetch and SiteCrawl

`fetch[c].at` is where a call is: asking the cache, joined to another's flight,
queued, at its HTTP request (`hops` redirects so far), asking the pool for the
next backend, in a browser, storing.  `tried` is the list of attempts.
`Candidates` is the order of backends, `Continue` the loop of
`runChallengeFallback()`, `PageOf` what a fetch, a capture or a workflow makes of
a challenge and an error in its page, `LaunchErrors` what the launchers turn a
failed launch into.  Queue, pool and cache are seen from outside: they refuse,
answer, fail or lose an entry at any time.  `history` is the record of one site.

`SiteCrawl` adds the walk: `Turn` is a turn of its loop, with an address that
`assertSafeUrl()` refuses, which fails the walk; `Expand` what follows the fetch of
a page, `Finished` the end.  Sites are link structures; the links of a page are
queued in any order, and those that controls name once more though they were seen.

Left out: how a page is rendered or judged (outcomes are chosen freely), wait
conditions, the content of plans, labels and search in a map, and what a recording adds
after the fallback has chosen a page (`media.ts:158`), whose own errors fail the request.
`NoChallengeStored` is about storing: that a challenge page which an earlier release
stored is deleted when it is read is `ResponseCache`'s matter.

## 3. What is checked

All figures are for two workers of a small machine.

| run | instance | properties | states, time |
|---|---|---|---|
| `queue_safety` | two workloads (estimates 1 and 2, budget 4); four calls, two slots, two places, memory at 0, 3 and 6, two samples | `TypeOK`, `SlotAccounting`, `WorkConserving`, `IdleRearmsAlert`, `IdleAdmissionStarts`, `KeepsContract` | 592 000, 14 s |
| `queue_liveness` | three calls; memory at 0 or 2, so one heavy call always fits | `AcceptedCallsEnd` | 6 400, 2 s |
| `pool_single` | two requests, three processes, one backend, `poolMin` 1, `poolMax` 2, one context each, crashes with missed events, soft pressure | `TypeOK`, `LeaseAccounting`, `ListedAreServing`, `PoolBound`, `DrainingHasOwner`, `RunningNotRecycled` | 1 672 000, 48 s |
| `pool_multi` | the same with two backends and `poolMax` 1 | `OvershootBound`, `LaunchAccounting` | 4 223 000, 105 s |
| `pool_drain` | two requests on a worker of two contexts, either event missed, fairness | `DrainingLeaves` | 78 000, 16 s |
| `cache_safety` | three requests, two keys, bodies of length 2 and 1, memory for 2, disk for 3, no faults | `TypeOK`, `LayersBounded`, `SingleFlight`, `FilesAreOwned` | 254 000, 15 s |
| `cache_faults` | two requests, crashes and failing writes, fairness | `RemovedStaysRemoved`, `RequestsEnd` | 141 000, 45 s |
| `sessions_overlap` | one session, two handlers at a time of every kind, two browsers, a handoff | `TypeOK`, `ManagerIsSound`, `SpentGrantsMove` | 1 849 000, 40 s |
| `sessions_viewers` | two sessions, POST and DELETE by two handlers at a time, timers and crashes, fairness | `ManagerIsSound`, `OneViewer`, `HandlersAndBrowsersEnd` | 171 000, 67 s |
| `bridges` | one bridge of any of the six kinds, one target, three messages, fairness | `InOrder`, `BridgesAreSound`, `BridgesEnd` | 33 200, 10 s |
| `service` | one key, two requests at a time and per window, a job, three ticks over two days, two starts | `LimitsHold`, `UsageIsTrue`, `JobsAreTrue`, `EndedStays` | 2 900 000, 85 s |
| `crawl` | two clients and a walk over every site of three pages; three enabled backends of four, two samples, two redirects, fairness | `FetchesAreHonest`, `MapIsRight`, `NoChallengeStored`, `FullHistoryLosesWeight`, `FetchesAndMapsEnd` | 184 000, 60 s |

Some of these are conjunctions of named parts, each stated above its own
definition:

* `LayersBounded`: `MemoryAccounting` (the byte count is the sum of the entries,
  one per key, within its limit) and `DiskBounded` (above the disk limit somebody
  is evicting).
* `ManagerIsSound`: `BrowsersAreEntries` (a running browser is the entry of its
  session or one of the two known losses took it), `OnlySharedAreOverwritten`
  (an entry is replaced only where two handlers overlapped), `DeletedIsClosed`
  (nothing of a deleted session stays in the manager), `TracingIsReal`.
* `BridgesAreSound`: types, `BrowserHasAnEnd` (a timer or a client that is there
  will end each browser, but for two the code forgets), `ListedIsNotStopped`, `RowOutlivesBrowser`;
  `BridgesEnd`: `BrowsersEnd`, `BridgesCleanUp`, `ClientsEnd`.
* `LimitsHold`: types, `RateBound` (no minute sees twice the limit), `DailyBound`,
  `AlertsAreSpaced` (the first and the last within one life of the process);
  `UsageIsTrue`: `OutcomesAreReserved`, `RefusedTakeNothing`; `JobsAreTrue`: types,
  `CompleteIsUsable`, `CrawledIsComplete`, `ToldIsTrue`, `RunningIsRunning`.
* `FetchesAreHonest`: `EachBackendOnce`, `MarkIsHonest`, `ChallengeMeansAll`,
  `JoinedHaveAFlight`; `MapIsRight`: types, `DepthIsShortest`, `MapIsComplete`;
  `FetchesAndMapsEnd`: `FetchesEnd`, `MapsEnd`.

Bounds.  *Queue*: four calls of two sizes fill two slots and two places with a call of
each size in front of the other, and a fifth call would only repeat a status.  Memory
takes the three values that matter to a head of either size: nothing limits, a heavy
call does not fit, nothing fits.  A refused call may be sent again, so runs are
unbounded although the set of calls is not.  *Pool*: the interesting cases need two
requests (one retires what the other was given), a worker being launched beside a
listed one, and a third process for the replacement of one that is still ending;
failures saturate at `FailureLimit` because the code only asks whether the limit is
reached.  *Cache*: a third request beside two that share a key or evict at the same
time; the limits are the smallest at which one body fills the memory and two overflow
the disk, so every put evicts something.  Its view drops `removed`, which no property
of that run reads, and the key of an idle request.  *Sessions*: overlap needs two
handlers on one session; what sessions do to each other (the sweep, the one-viewer
rule) needs two sessions, and two handlers for two launches that overlap; names of
browsers that are gone are used again, and with none free a launch can only fail.
*Bridges*: bridges meet only in a target, so one bridge, of any kind, beside a target
that is closed under it shows what there is; of its three messages one comes before,
one during and one after the launch.  *Service*: two calls reach every race of the
hooks; with two requests to a window of two ticks, a minute sees requests of two
windows and the last one of a window is not its first; midnight is at the third tick;
a second start is what the daily quota and the jobs must survive.  *Crawl*: three
pages are the least with two ways of different length to one; every link structure,
both depths and both maxima are tried; `MaxRedirects` is 2 instead of 5 and
`MaxSamples` 2, the least at which a full history can lean to a side.  While a walk
runs no other client asks: the history they share decides nothing of what a walk does
next.

Symmetry is used in safety runs only (requests and workers, requests and
browsers, requests of the cache).  Deadlock is checked wherever the instance
cannot stop; where a cfg says otherwise the system comes to rest: a closed pool,
sessions each given out once, connections each made once, a server whose starts
are used up.

Fairness.  `AdmissionQueue`: a running task ends, because each workload runs
under the job timeout; a queued callback runs; a refused caller tries again,
because the errors are marked retryable (without this the stall of section 4 only
gets worse).  Memory is given no fairness.  `BrowserPool`: each await of a
request ends (Playwright's timeouts), and a process that is ending emits its
events.  `ResponseCache`: every await of a request ends.  `LiveSessions`: every
handler's call ends, by Playwright's timeouts at the latest, sessions expire and
their timers fire, a browser told to close ends.  `SocketBridges`: timers fire,
launches end, sockets that are closed close, processes told to close end; no
client has to connect, send or leave.  `Service` assumes nothing: its properties are
safety properties.  `SiteCrawl`: a call at
work and the walk go on; no caller has to ask.  `ResponseCache` and `SiteCrawl` see a wait
in the queue as an await like others: `RequestsEnd` and `FetchesAndMapsEnd` **assume
that it ends**, which item 2 of section 4 says it may not; `AcceptedCallsEnd` says where
it does.  Crashes, faults, purges and new
requests are given no fairness anywhere.

## 4. Disagreements met while modelling

The models follow the code.  Where a text or a test of the repository, or the
purpose of the code, says something else, the properties above are stated as
far as they hold, and this is the rest:

1. **Silent queueing** (`queue.ts:87`).  The alert looks at `pending` and
   `maxConcurrency`, while `drain()` also stops at `memorySlots`: a call that
   waits for memory starts the queue without an alert, although
   `tests/unit/queue.test.ts:13` "notifies once when work begins queueing".
2. **Stall** (`queue.ts:167`).  Nothing drains when memory comes back.  With
   nothing running and the queue full every `run()` is refused before it would
   drain, and the waiting calls wait for ever; `queue.test.ts:49` speaks of
   rejecting "instead of stalling".  With room in the queue the next accepted
   call wakes it, which is why `AcceptedCallsEnd` is checked where memory never
   falls below one call.
3. **poolMax with several backends** (`pool.ts:529`).  `recycle()` frees a
   place, awaits the end of the process, and `replenish()` launches without
   comparing with `browserPoolMax`; a request of another backend may have taken
   the place.  `OvershootBound` says by how much the bound can be passed;
   `replenish()` also launches under soft memory pressure, where `acquire()`
   would refuse to.
4. **Contexts per process** (`pool.ts:330`).  `acquire()` hands out the last
   place of a worker twice, because `active` goes up after its promise was
   delivered.
5. **Removed entries come back** (`cache.ts:35`).  `get()` has found the row and
   awaits the file; `purge()` or `delete()` removes memory, row and file; `get()`
   then puts what it read into memory (`tests/unit/cache.test.ts:6` "removes an
   entry from memory and persistent storage").  `RemovedStaysRemoved` says that
   there is no other way back.
6. **Two browsers for one session** (`sessions.ts:120`).  `get()` finds no entry
   and awaits `create()`; a second handler does the same, and the browser of the
   first is never closed (`overwritten`).
7. **A browser without an owner** (`sessions.ts:70`).  When what follows the
   launch in `create()` throws, nobody closes the server it launched (`leaked`): for a
   Playwright bridge or a CDP bridge to a session, too (`lost` in `SocketBridges`).
8. **Two viewers** (`sessions.ts:49`).  "Only one live VNC session may run per
   OpenBrowse instance" (`docs/implementation-matrix.md:23`, too) is tested before
   awaits and claimed after them: two viewers whose `create()` overlap both get a
   browser.  `OneViewer` says that this is the only way (`rivals`).
9. **Clients that leave early** (`sockets.ts:85`).  The `close` handler is
   registered after the launch; the browser of a native bridge whose client left
   before has no timer and runs until the server stops (`left`).  This one and the
   one of item 7 are what `BrowserHasAnEnd` and `BrowsersEnd` except (`Forgotten`).
10. **A cleanup that throws** (`sockets.ts:87`).  `cleanup()` has no `catch`: an
    archive, a deletion or a dispatch of webhooks that fails is an unhandled rejection,
    which ends the process.
11. **Unreadable webhooks** (`execution.ts:204`).  A crawl whose pages were fetched is
    stored complete, with its result; when its owner's webhooks cannot be decrypted it
    is then stored failed, without it, and the process ends unless the webhook has
    been deleted meanwhile.  `CrawledIsComplete` and `EndedStays` make that exception:
    no other job changes after its end, and this one only while nobody was told.
12. **Jobs across a restart** (`admin.ts:141`).  A job cut by a stop says
    "running" for ever; `RunningIsRunning` makes that exception.
13. **Attempts** (`docs/implementation-matrix.md:7`, "auto has a two-attempt
    ceiling").  `auto` makes its HTTP request and then tries every capable
    backend; `EachBackendOnce` is the ceiling the code keeps.
14. **A launch error nobody catches** (`browser-launchers.ts:197`).  `return
    connectServer(...)` without `await` leaves the `try` block before it fails, so
    an unavailable backend ends the chain with an error (`LaunchErrors`).
15. **A stranded worker** (`pool.ts:450`).  When the `close` event of a process came
    before `launch()` attached its handlers, its `disconnected` event makes the worker
    draining; `acquire()` buries disconnected workers only when they are healthy, so
    that one which no request holds, such as one that `replenish()` launched, stays on the list and
    takes a place of `browserPoolMax` until `close()` (`Stranded`).  `DrainingHasOwner` and
    `DrainingLeaves` say that no other draining worker is forgotten.

## 5. What is proved

The `*Proofs` modules prove the theorems below for every value of the constants
that satisfies the assumptions named in the models: any numbers of calls,
requests, workers, backends, keys, sessions, bridges, jobs and pages, and any
limits.  A theorem marked * states a property some run checks on a small
instance; the others state a named part of one.

| module, assumptions | theorem | statement |
|---|---|---|
| `AdmissionQueueProofs`, `QueueAssumption` | `TypeCorrect` * | `Spec => []TypeOK` |
| | `SlotsAccounted` * | `Spec => []SlotAccounting` |
| | `NoStartableCallWaits` * | `Spec => []WorkConserving` |
| | `IdleQueueIsArmed` * | `Spec => []IdleRearmsAlert` |
| | `IdleCallsStart` * | `Spec => IdleAdmissionStarts`, an action property |
| | `ContractKept` * | `Spec => KeepsContract`, the refinement of `AdmissionContract` |
| `BrowserPoolProofs`, `PoolAssumption` | `PoolTypeCorrect` * | `Spec => []TypeOK` |
| | `LeasesAccounted` *, `LaunchesAccounted` * | `Spec => []LeaseAccounting`, `Spec => []LaunchAccounting` |
| | `ListServes` * | `Spec => []ListedAreServing` |
| | `RunningIsNotRecycled` * | `Spec => RunningNotRecycled`, an action property |
| | `DrainingIsOwned` * | `Spec => []DrainingHasOwner` |
| | `OvershootIsBounded` * | `Spec => []OvershootBound` |
| | `PoolIsBounded` * | `Spec => []PoolBound`, if every profile has the default backend |
| `ResponseCacheProofs`, `CacheAssumption` | `RequestsCoalesced` * | `Spec => []SingleFlight`, with faults or without |
| | `CacheTypeCorrect` * | `Spec => []TypeOK`, with faults or without |
| | `MemoryIsCounted` | `Spec => []MemoryAccounting`, with faults or without |
| | `RemovedStays` * | `Spec => []RemovedStaysRemoved`, with faults or without |
| | `LayersHold` * | `Spec => []LayersBounded`, if `Faults = FALSE` |
| | `NoFileLeaks` * | `Spec => []FilesAreOwned`, if `Faults = FALSE` |
| `LiveSessionsProofs`, `SessionAssumption`, `MenuAssumption` | `SessionTypeCorrect` * | `Spec => []TypeOK` |
| | `ManagerSound` * | `Spec => []ManagerIsSound` |
| | `GrantsMove` * | `Spec => []SpentGrantsMove` |
| | `OneViewerOrRivals` * | `Spec => []OneViewer` |
| `SocketBridgesProofs`, `BridgeAssumption` | `MessagesInOrder` * | `Spec => []InOrder` |
| | `BridgesSound` * | `Spec => []BridgesAreSound` |
| `ServiceProofs`, `ServerAssumption`, `JobAssumption`, `PolicyAssumption`, `ServiceAssumption` | `JobsTold` * | `Spec => []JobsAreTrue` |
| | `EndedJobsStay` * | `Spec => EndedStays`, an action property |
| | `QuotaAndAlertsHold` | `Spec => [](DailyBound /\ AlertsAreSpaced)` |
| | `LimitsAlwaysHold` * | `Spec => []LimitsHold` |
| | `UsageTellsTheTruth` * | `Spec => []UsageIsTrue` |
| `SiteCrawlProofs`, `FetchAssumption`, `CrawlAssumption` | `ChallengesStayOut` * | `Spec => NoChallengeStored`, an action property |
| | `FullHistoryBalances` * | `Spec => FullHistoryLosesWeight`, an action property |
| | `NobodyWaitsInVain` | `Spec => []JoinedHaveAFlight` |
| | `CallersAreToldTheTruth` * | `Spec => []FetchesAreHonest` |
| | `FetchTypesHold` | `Spec => []FetchTypeOK` |
| | `DistancesAreRight` | `Spec => [](DepthIsShortest /\ MapIsComplete)` |
| | `MapsAreRight` * | `Spec => []MapIsRight`, which adds the types |

*Sums and induction.*  `SumTheorems` has what the other modules need of
`SumFunctionOnSet`, a fold.  The library states induction over an operator, which
no prover here can instantiate; `NumberInduction` and `SubsetInduction` state it
over a set instead, derived from the well-foundedness of < and of the subsets of a
finite set.  With the latter the fold is shown to exist (`SumsExist`), to satisfy
its recursion whatever element it takes first (`SumRecursion`), and from there to
add, split, shift and compare like a sum.  `IterationExists` makes recursive functions
over the numbers usable: what is defined by a first value and a step exists, so the
function that satisfies the recursive definition does (`ListedSteps`, `WithinSteps`), and
`NumberInduction` says the rest of it.

*Queue.*  The inductive invariant `IInv` ties together what `SlotAccounting`
alone cannot see: the calls in `pending` are distinct and are exactly those
whose status says so; `active` counts the rest in flight; `accepted` is
`started` followed by `pending`, without repetition.  `CutQueue` and `ConcatElems` are the
facts about cutting a duplicate-free sequence at k, `ElemsCount` about its
size; `DrainKeepsInvariant` is the one place where the loop is reasoned about,
and each way into `drain()` cites it.  `WorkConserving` and `IdleRearmsAlert`
are then preserved step by step under `IInv`.  The refinement maps the contract's
`begun` to the length of `started`: a step of `Admit` accepts one and begins
some, a step of `Settle` or `Fail` settles one and begins some, all others
stutter.  `IdleAdmissionStarts` needs that an estimate is a positive number: the value
that `P90` chooses exists (`P90Exists`: the least of the samples with enough
samples at or below it; those below it are the ones at or below the next smaller
value, so too few).  Then what passes the admission test of `run()` has at least one
slot by the division of `drain()`, and nothing can stay in a queue nobody drains.

*Pool.*  `IInv` adds `HoldsWorker` to the properties: a request in a phase that uses a
worker has one, and one that does not, has none.  Without it the decrement of `active`
could not be matched with a user.  The two counting invariants are proved through
`CountJoin` and `CountLeave` (a set of requests that one request enters or leaves),
and phase changes that move nobody through `LeaseFrame`, `LaunchFrame` and
`OwnerFrame`.  `ListedAreServing` and `DrainingHasOwner`, which excepts the workers of
disagreement 15 and no others, are inductive once `IInv` is known;
`RunningNotRecycled` follows because the only step that takes a connected worker off
the list while the pool is open is `Retire`, whose guard reads `active`, which counts
the users.

The bounds need to know whose browsers there are.  `OvershootBound` alone is not
preserved: what `replenish()` adds depends on how many browsers of the default
backend it sees, and says nothing of the others.  `BrowsersFit` splits the
browsers, listed and awaited, into `Own` and `Other`: the others stay within
`poolMax`, and past `poolMax` the own ones are `poolMin` at most.  An `acquire()` that
launches has seen room for one more of either kind (`AcquireFits`); a `replenish()`
fills up to `poolMin` and no further (`FillFits`); every other step has no more of
either kind afterwards (`ShrinkFits`).  Both bounds follow by arithmetic.

*Cache.*  `SingleFlight` relates the in-flight table to the phases of the
requests and is inductive with their shapes; `JoinKeepsFlight`,
`EndKeepsFlight` and `MoveKeepsFlight` are the three ways a request can change
it, and each action cites one.  `FilesAreOwned` also needs `VictimIsEvicted`: a
request that starts to write has no file it still means to unlink, so it
cannot lose one by choosing the next victim.  The proof then follows a row that
goes to the request or the purge that takes over its file.  The assumption on
`Faults` is needed: a crash leaves files nobody owns.

The memory layer needs `MInv`: the list has one entry per key and `memoryBytes` is
what the entries weigh (`Sound`), and a request that is about to store a body has
one (`BodiesHeld`).  A list without one entry weighs that entry less (by the
lemmas about sums over intervals), the loop of `putMemory()` stops because an empty list
weighs nothing, and so the count is exact and the bound holds after every step,
for a body larger than the limit too.  `Gone`, for `RemovedStaysRemoved`, adds to it
that nobody who will put a removed key is under way (`NobodyPuts`).  `SomebodyEvicts`, for
the disk bound, says that above the limit some `evict()` still has every row on its
list: a put that finds the disk layer too large starts one, only it removes rows from
its own list, and it ends below the limit.  A crash forgets it, hence the
assumption on `Faults`.

*Sessions.*  `IInv` is about programs.  `ProgramsFit`: what is left of a handler's
program never uses a session before it has got it, and its rescue begins with a call of
the manager.  `Alone` and `HandlersFit`: a session that is not shared has one
handler, and the next call of that handler says what the manager has of the session.
`EntriesDiffer` and `HeldIsOwn`: no browser is the entry of two
sessions.  `GoneIsQuiet` strengthens `DeletedIsClosed` to the handlers of a deleted
session.  Every handler moves in one of a few ways (to the rest of its program,
to its rescue, into an await), which have a lemma each.  `GrantsFit`, for
`SpentGrantsMove`, says that an open grant is one to a session still stored,
since deletion revokes it.  `ViewersFit`, for `OneViewer`, says of
viewers that have a browser and of viewers that launch one that any two are rivals;
`rivals` is set when one more passes the rule, at which moment no viewer has a browser.
`UnusedIsQuiet` is what keeps a session from becoming a viewer later.

*Bridges.*  `InOrder` needs `MessagesFit`: an upstream that is open has nothing buffered in
front of it.  `EndsFit` says of each kind of bridge at which stage it has a browser, what
a client nobody has connected can have, and that cleanup ends the browser before it
deletes the row; most steps touch one owner only, which `Apart` states once.

*Service.*  `JInv` relates the stage of a job's function to the row it has written
(`StageFits`) and the row to artifact, result and webhooks (`RowFits`); a stop, a kill
and a start keep both because they reset functions and mark the rows they cut.
`EndedStays` follows since a function that still writes runs beside a row that says
"running", or is a crawl between its two writes, of which nobody was told.  `PInv`
carries the quota and the time of the last alert over requests and restarts.  For
`RateBound`, `RateFits` says of each key that the requests since its window opened are
counted and within the limit, that none came after the window would have closed, that
there is one fewer after its first tick, and that of any minute reaching into the
window the part before it has one fewer than the limit: so a minute that sees two
windows sees fewer than twice the limit.  That sum starts anew with the process: the
code's windows, as its memory of alerts, are lost with it. For `UsageIsTrue` the rows
are summed over days: an outcome may be booked on a later day than its request, so it
is compared with what all days reserved, and the requests being handled count as
reserved (`ReservedFor`).

*Fetches.*  `FInv` ties the in-flight table to the calls: who computes a page
is in the table, who joined has somebody there, and what is being stored shows no
challenge.  The last is why `NoChallengeStored` holds: the test that precedes a store
and the store are steps apart.  `Honest`, for `FetchesAreHonest`, says that the
backends a call has tried and those it has left split the chain (`Splits`), and
that its mark of a challenge agrees with what they showed; `NextBackend`
is the step from one to the next.  That they are all there at first, each once,
is `ChainIsListed`, by induction over the list that `challengeFallbackBackends()` filters.

*Walk.*  `DepthIsShortest` and `MapIsComplete` compare what is listed with `Within[d]`,
the pages d links from the seed over the pages that gave their links; that set grows
while the walk reads pages, so neither is inductive.  `WalkFits` says it without
distances: the queue is sorted, over two depths at most, and nothing listed is deeper
than what waits (`QueueSorted`); every depth above zero comes from a link of a page
one less deep (`Reached`); and every page a read page at depth e links to is
`Minded` at e + 1: not listed with more, and looked at or waiting with no more.
`Turn` keeps this because it takes the least deep, `Expand` because the page just read is the
last listed and the deepest (`FetchFits`), so nothing its links lead to can have been
listed with more (`ReadWalks`).  Two inductions over the distance then give
both directions: what is `Within[n]` is minded at n (`WithinIsMinded`), and what is
listed with depth n is `Within[n]` (`FoundIsWithin`).  At the end of a walk with
room nothing waits, so what is minded is listed.

Only model-checked: liveness, since the prover has neither fairness nor ENABLED.
These are `AcceptedCallsEnd`, `DrainingLeaves`, `RequestsEnd`,
`HandlersAndBrowsersEnd`, `BridgesEnd` and `FetchesAndMapsEnd`.
Every other property of the runs is a theorem, three of them under a condition that
the table names: `PoolBound`, `LayersBounded` and `FilesAreOwned`.

## 6. Not modelled, and why

* *Process memory* (`process-memory.ts`): a reading of `/proc`.  Its result enters
  queue and pool as a figure that moves at any time.
* *Page readiness* (`waitForBrowserReadiness()`, `observeChallengeResolution()`): they
  poll one page inside an attempt, under a limit; `AdaptiveFetch` has the ways an
  attempt can end.
* *URL policy and bounds* (`security.ts`, `bounds.ts`, `execution/shared.ts`), *extraction
  and rendering* (`article.ts`, `markdown.ts`, performance and Lighthouse reports),
  *input schemas, configuration, telemetry, error pages, encryption*: functions
  of their input without behaviour over time.  That they may refuse or throw is
  an outcome where they are called.
* *MCP, BrowserQL and the HTTP routes*, partly: what they do to sessions, jobs and
  fetches is modelled there, each BrowserQL field and each step of the agent tool
  as a program of `LiveSessions`.  Parsing, dispatch, the wording of answers and the routes that
  only read are left out.
* *Server assembly and shutdown*, partly: `Service` has the life of the process
  with policies and jobs; `closeAll()` of sessions and targets and `close()` of the
  pool are actions of their own modules.  No module composes all of them: the
  parts share nothing but the order in which they are closed and the memory figure, which
  queue and pool already see move at any time.
* There is no abstract specification of the cache.  One that may forget any entry
  at any moment promises what `NoChallengeStored` and `RemovedStaysRemoved`
  already state.
