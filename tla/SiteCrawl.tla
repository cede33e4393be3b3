------------------------------ MODULE SiteCrawl ------------------------------
(***************************************************************************)
(* mapSite() of automation/map.ts: a walk over the pages of a site, breadth*)
(* first, each page fetched by adaptiveFetch() without the cache, beside   *)
(* the fetches of other clients.                                           *)
(***************************************************************************)
EXTENDS AdaptiveFetch, FiniteSets

CONSTANTS
    Pages,      \* URLs of the site
    Sites,      \* link structures: per page [links, tab]; tab: a view to list
    Seed,       \* the URL to start from
    Maps,       \* [maximum, maxDepth, matched]: limits, and the pages the
                \*   patterns let through
    Mapper,     \* the call of the walk
    MapWant     \* what it asks for

ASSUME CrawlAssumption ==
    /\ IsFiniteSet(Pages) /\ Seed \in Pages /\ Mapper \in Calls
    /\ MapWant \in Wants /\ ~MapWant.cacheable
    /\ Sites \subseteq [Pages -> [links : SUBSET Pages, tab : BOOLEAN]]
    /\ Maps \subseteq [maximum : Nat, maxDepth : Nat, matched : SUBSET Pages]

VARIABLES
    site,       \* the site as it is while it is mapped
    limits,     \* what was asked for
    at,         \* "idle", "next", "fetching", "done" or "failed"
    pending,    \* pages to look at: a queue of [page, depth]
    seen,       \* pages and views looked at
    results,    \* what is found: a sequence of [page, depth, view]
    readPages   \* history: pages whose links were seen

crawlVars == <<site, limits, at, pending, seen, results, readPages>>
vars == <<fetchVars, crawlVars>>

NoSite == [p \in Pages |-> [links |-> {}, tab |-> FALSE]]
NoLimits == [maximum |-> 0, maxDepth |-> 0, matched |-> {}]
Views == {"page", "view"}

-----------------------------------------------------------------------------
\* Bound: a walk begins when no fetch is at work and nothing is remembered of
\* earlier ones, and no other client asks while it lasts: the history, which
\* they share, decides nothing of what a walk does next.
Map(s, m) ==
    /\ at = "idle" /\ at' = "next"
    /\ \A c \in Calls : fetch[c] = Idle
    /\ history = NoHistory
    /\ site' = s /\ limits' = m /\ results' = <<>> /\ seen' = {} /\ readPages' = {}
    /\ pending' = <<[page |-> Seed, depth |-> 0]>>
    /\ UNCHANGED fetchVars

\* Mutation: a page is looked at as often as it is linked.
FreshAlways(p) == TRUE

Fresh(p) == <<p, "page">> \notin seen

\* The links of a page at this depth are not followed.
Deep(depth) == depth >= limits.maxDepth

Room == Len(results) < limits.maximum

\* What is left to look at after page p.
Left(p) == Tail(pending)

\* A turn of the loop: the next page, unless it was seen, its address is not
\* allowed, which fails the walk, or the patterns exclude it.
Turn ==
    LET p == Head(pending) IN
    /\ at = "next" /\ pending # <<>> /\ Room
    /\ pending' = Left(p)
    /\ IF ~Fresh(p.page)
       THEN UNCHANGED <<at, seen, results, fetch>>
       ELSE /\ seen' = seen \cup {<<p.page, "page">>}
            /\ \/ at' = "failed" /\ UNCHANGED <<results, fetch>>
               \/ /\ p.page \notin limits.matched
                  /\ UNCHANGED <<at, results, fetch>>
               \/ /\ p.page \in limits.matched
                  /\ results' = Append(results, [page |-> p.page, depth |-> p.depth, view |-> "page"])
                  /\ IF Deep(p.depth) THEN UNCHANGED <<at, fetch>>
                     ELSE /\ at' = "fetching"
                          /\ Put(Mapper, [Idle EXCEPT !.want = MapWant, !.at = "queued"])
    /\ UNCHANGED <<site, limits, readPages, flight, stored, history>>

Queued(found) == pending \o found

\* The view of a page is listed while there is room, and once.
ViewsListed(p) == site[p.page].tab /\ Room /\ <<p.page, "view">> \notin seen

\* The page has been fetched: its links are queued, in whatever order it has
\* them, unless it is not HTML or shows a challenge, whose page has none; a
\* failure fails the walk. A control, unlike a link, is queued though its page
\* has been seen.
Expand ==
    LET p == Last(results)
        known == {q \in Pages : <<q, "page">> \in seen} IN
    /\ at = "fetching" /\ fetch[Mapper].at = "done"
    /\ Put(Mapper, Idle)
    /\ \/ /\ fetch[Mapper].result = "failed" /\ at' = "failed"
          /\ UNCHANGED <<pending, results, seen, readPages>>
       \/ /\ fetch[Mapper].result # "failed" /\ at' = "next"
          /\ UNCHANGED <<pending, results, seen, readPages>>
       \/ /\ fetch[Mapper].result = "clean" /\ at' = "next"
          /\ readPages' = readPages \cup {p.page}
          /\ \E again \in SUBSET (site[p.page].links \cap known) :
             \E links \in SetToSeqs((site[p.page].links \ known) \cup again) :
                pending' = Queued([i \in DOMAIN links |-> [page |-> links[i], depth |-> p.depth + 1]])
          /\ IF ViewsListed(p)
             THEN /\ results' = Append(results, [page |-> p.page, depth |-> p.depth, view |-> "view"])
                  /\ seen' = seen \cup {<<p.page, "view">>}
             ELSE UNCHANGED <<results, seen>>
    /\ UNCHANGED <<site, limits, flight, stored, history>>

Finished ==
    /\ at = "next" /\ (pending = <<>> \/ ~Room)
    /\ at' = "done"
    /\ UNCHANGED <<fetchVars, site, limits, pending, seen, results, readPages>>

\* The caller has its answer.
Answered ==
    /\ at \in {"done", "failed"} /\ at' = "idle"
    /\ site' = NoSite /\ limits' = NoLimits /\ results' = <<>> /\ seen' = {} /\ readPages' = {}
    /\ pending' = <<>>
    /\ UNCHANGED fetchVars

-----------------------------------------------------------------------------
Init ==
    /\ FetchInit
    /\ site = NoSite /\ limits = NoLimits /\ at = "idle"
    /\ pending = <<>> /\ seen = {} /\ results = <<>> /\ readPages = {}

\* The walk goes on.
Walk == Turn \/ Expand \/ Finished

Next ==
    \/ \E c \in Calls : FetchStep(c) /\ UNCHANGED crawlVars
    \/ \E c \in Calls \ {Mapper} :
          /\ (\E w \in Wants \ {MapWant} : at = "idle" /\ Ask(c, w)) \/ Take(c)
          /\ UNCHANGED crawlVars
    \/ FetchAround /\ UNCHANGED crawlVars
    \/ \E s \in Sites, m \in Maps : Map(s, m)
    \/ Walk \/ Answered

\* Requests to targets end, by their timeouts at the latest, and so do calls
\* of the pool and of the cache.  That a wait in the queue ends is assumed:
\* AdmissionQueue says when it does (AcceptedCallsEnd).
Spec ==
    /\ Init /\ [][Next]_vars /\ WF_vars(Walk)
    /\ \A c \in Calls : WF_vars(FetchStep(c) /\ UNCHANGED crawlVars)

-----------------------------------------------------------------------------
\* Properties

TypeOK ==
    /\ FetchTypeOK
    /\ site \in Sites \cup {NoSite} /\ limits \in Maps \cup {NoLimits}
    /\ at \in {"idle", "next", "fetching", "done", "failed"}
    /\ pending \in Seq([page : Pages, depth : Nat])
    /\ seen \subseteq Pages \X Views /\ readPages \subseteq Pages
    /\ results \in Seq([page : Pages, depth : Nat, view : Views])

Found == {results[i].page : i \in {j \in DOMAIN results : results[j].view = "page"}}

\* The pages at most d links from the seed, over pages the patterns let
\* through and whose links were seen.
Within[d \in Nat] ==
    IF d = 0 THEN {Seed} \cap limits.matched
    ELSE Within[d - 1] \cup
         ((UNION {site[p].links : p \in Within[d - 1] \cap readPages}) \cap limits.matched)

\* A page is listed once, with the least number of links that lead to it, and
\* no more than the maximum is listed.
DepthIsShortest ==
    /\ \A i, j \in DOMAIN results : results[i].page = results[j].page /\ results[i].view = results[j].view => i = j
    /\ \A i \in DOMAIN results : results[i].view = "page" =>
           /\ results[i].page \in Within[results[i].depth]
           /\ results[i].depth > 0 => results[i].page \notin Within[results[i].depth - 1]
    /\ Len(results) <= limits.maximum

\* A walk that ends below the maximum has found every page within its depth,
\* as far as pages gave their links.
MapIsComplete ==
    at = "done" /\ Len(results) < limits.maximum =>
        Found = Within[limits.maxDepth]

\* Every walk ends.
MapsEnd == (at = "next") ~> (at \in {"done", "failed"})

\* The map is the breadth-first map of what the pages gave.
MapIsRight == TypeOK /\ DepthIsShortest /\ MapIsComplete

\* Every call and every walk ends.
FetchesAndMapsEnd == FetchesEnd /\ MapsEnd
=============================================================================
