---------------------------- MODULE SiteCrawlProofs ----------------------------
(***************************************************************************)
(* No page with a challenge reaches the cache, whoever waits for another's *)
(* fetch has one to wait for, callers are told the truth of the backends   *)
(* that were tried, the history of a site loses its weight, and a map      *)
(* lists every page at its distance from the seed, for any calls, requests,*)
(* backends and sites.                                                     *)
(***************************************************************************)
EXTENDS SiteCrawl, SequenceTheorems, SumTheorems, TLAPS

\* Calls past the cache, whose page is being made.
Active == {"queued", "http", "admission", "browser", "storing"}

Shaped(x) == {"want", "at", "result"} \subseteq DOMAIN x

\* A call that asked the cache computes the page or waits for the call that
\* does, and what is being stored shows no challenge.
CallFits(c) ==
    /\ Shaped(fetch[c])
    /\ fetch[c].at \in Waiting \cup {"idle", "done"}
    /\ fetch[c].at \in Waiting => fetch[c].want \in Wants
    /\ fetch[c].at \in {"cached", "joined"} => fetch[c].want.cacheable
    /\ fetch[c].at = "joined" => flight[fetch[c].want] # None
    /\ fetch[c].at \in Active /\ fetch[c].want.cacheable => flight[fetch[c].want] = c
    /\ fetch[c].at = "storing" => fetch[c].result = "clean"

FlightFits(w) ==
    flight[w] # None =>
        w.cacheable /\ fetch[flight[w]].want = w /\ fetch[flight[w]].at \in Active

CallsFit ==
    /\ DOMAIN fetch = Calls /\ flight \in [Wants -> Calls \cup {None}]
    /\ (\A c \in Calls : CallFits(c)) /\ \A w \in Wants : FlightFits(w)

StoredFits == stored \in [Wants -> {"none", "clean", "challenge"}]

HistoryFits ==
    /\ history \in [shells : 0..MaxSamples, sufficient : 0..MaxSamples]
    /\ Samples(history) <= MaxSamples

\* The call of the walk is at work only while the walk waits for it.
MapperFits == at # "fetching" => fetch[Mapper].at = "idle"

FInv == CallsFit /\ StoredFits /\ HistoryFits /\ MapperFits

-----------------------------------------------------------------------------
\* How a call goes on

\* It goes to another stage, or it ends.
Moves(c, y) ==
    /\ Shaped(y) /\ y.want = fetch[c].want /\ y.at \in Active
    /\ y.at = "storing" => y.result = "clean"
    /\ Put(c, y) /\ flight' = flight
Ends(c, y) == Shaped(y) /\ y.want = fetch[c].want /\ Finish(c, y)
GoesOn(c) == \E y : Moves(c, y) \/ Ends(c, y)

LEMMA MovesFit ==
    ASSUME CallsFit, NEW c \in Calls, fetch[c].at \in Active, NEW y, Moves(c, y)
    PROVE  CallsFit'
<1>1. DOMAIN fetch' = Calls /\ fetch'[c] = y /\ \A d \in Calls \ {c} : fetch'[d] = fetch[d]
  BY DEF CallsFit, Moves, Put
<1>2. flight' = flight /\ CallFits(c)
  BY DEF CallsFit, Moves
<1>3. CallFits(c)'
  BY <1>1, <1>2 DEF CallFits, Moves, Active, Waiting
<1>4. ASSUME NEW d \in Calls PROVE CallFits(d)'
  <2>1. CASE d # c
    BY <1>1, <1>2, <2>1 DEF CallsFit, CallFits
  <2>2. QED
    BY <1>3, <2>1
<1>5. ASSUME NEW w \in Wants PROVE FlightFits(w)'
  <2>1. FlightFits(w) /\ flight[w] \in Calls \cup {None}
    BY DEF CallsFit
  <2>2. CASE flight[w] = c
    BY <1>1, <1>2, <2>1, <2>2 DEF FlightFits, Moves
  <2>3. CASE flight[w] # c
    BY <1>1, <1>2, <2>1, <2>3 DEF FlightFits
  <2>4. QED
    BY <2>2, <2>3
<1>6. QED
  BY <1>1, <1>2, <1>4, <1>5 DEF CallsFit

LEMMA EndsFit ==
    ASSUME CallsFit, NEW c \in Calls, fetch[c].at \in Active, NEW y, Ends(c, y)
    PROVE  /\ CallsFit' /\ fetch'[c].at = "done"
           /\ \A d \in Calls : fetch[d].at = "idle" /\ d # c => fetch'[d].at = "idle"
<1> DEFINE w == fetch[c].want
<1> DEFINE z == [y EXCEPT !.at = "done", !.hops = 0, !.rest = <<>>]
<1>1. /\ fetch' = Ended(c, z) /\ flight' = IF w.cacheable THEN Landed(w) ELSE flight
  BY DEF Ends, Finish
<1>2. Shaped(z) /\ z.at = "done" /\ Shaped([z EXCEPT !.at = "done"]) /\ [z EXCEPT !.at = "done"].at = "done"
  BY DEF Ends, Shaped
<1> HIDE DEF z
<1>3. /\ DOMAIN fetch' = Calls /\ fetch'[c] = z
      /\ \A d \in Calls \ {c} :
           fetch'[d] = IF w.cacheable /\ fetch[d].at = "joined" /\ fetch[d].want = w
                       THEN [z EXCEPT !.at = "done"] ELSE fetch[d]
  BY <1>1 DEF Ended
<1>4. CallFits(c) /\ w \in Wants
  BY DEF CallsFit, CallFits, Active, Waiting
<1>5. /\ flight' \in [Wants -> Calls \cup {None}]
      /\ w.cacheable => flight[w] = c /\ flight'[w] = None
      /\ \A v \in Wants : v # w => flight'[v] = flight[v]
      /\ ~w.cacheable => flight' = flight
  <2>1. w.cacheable => flight[w] = c
    BY <1>4 DEF CallFits
  <2>2. CASE w.cacheable
    BY <1>1, <1>4, <2>1, <2>2 DEF Landed, CallsFit
  <2>3. CASE ~w.cacheable
    BY <1>1, <2>3 DEF CallsFit
  <2>4. QED
    BY <2>2, <2>3
<1> HIDE DEF w
<1>6. ASSUME NEW d \in Calls PROVE CallFits(d)' /\ (fetch[d].at = "idle" /\ d # c => fetch'[d].at = "idle")
  <2>1. CASE d = c
    BY <1>2, <1>3, <2>1 DEF CallFits, Active, Waiting
  <2>2. CASE d # c /\ w.cacheable /\ fetch[d].at = "joined" /\ fetch[d].want = w
    <3>1. fetch'[d] = [z EXCEPT !.at = "done"]
      BY <1>3, <2>2
    <3>2. QED
      BY <1>2, <2>2, <3>1 DEF CallFits, Active, Waiting
  <2>3. CASE d # c /\ ~(w.cacheable /\ fetch[d].at = "joined" /\ fetch[d].want = w)
    <3>1. fetch'[d] = fetch[d] /\ CallFits(d)
      BY <1>3, <2>3 DEF CallsFit
    <3>2. fetch[d].at = "joined" => flight'[fetch[d].want] # None
      BY <1>5, <2>3, <3>1 DEF CallFits, Waiting
    <3>3. fetch[d].at \in Active /\ fetch[d].want.cacheable => flight'[fetch[d].want] = d
      BY <1>5, <2>3, <3>1 DEF CallFits, Waiting, Active
    <3>4. QED
      BY <3>1, <3>2, <3>3 DEF CallFits
  <2>4. QED
    BY <2>1, <2>2, <2>3
<1>7. ASSUME NEW v \in Wants, flight'[v] # None PROVE FlightFits(v)'
  <2>1. \/ flight'[v] = flight[v] /\ v # w
        \/ ~w.cacheable /\ flight'[v] = flight[v]
    BY <1>5, <1>7
  <2>2. flight[v] # None /\ FlightFits(v) /\ flight[v] \in Calls
    BY <1>7, <2>1 DEF CallsFit
  <2>3. flight[v] # c /\ fetch[flight[v]].at # "joined"
    BY <2>1, <2>2 DEF FlightFits, Active, w
  <2>4. fetch'[flight[v]] = fetch[flight[v]]
    BY <1>3, <2>2, <2>3
  <2>5. QED
    BY <2>1, <2>2, <2>4 DEF FlightFits
<1>8. \A v \in Wants : FlightFits(v)'
  BY <1>7 DEF FlightFits
<1>9. QED
  BY <1>2, <1>3, <1>5, <1>6, <1>8 DEF CallsFit

\* A copy of a call in which none of the fields that matter is changed.
Same(c, x) == Shaped(x) /\ x.want = fetch[c].want

LEMMA FailGoesOn == ASSUME NEW c, NEW x, Same(c, x), Fail(c, x) PROVE GoesOn(c)
<1> DEFINE y == [x EXCEPT !.result = "failed"]
<1>1. Ends(c, y)
  BY DEF Same, Shaped, Fail, Ends
<1>2. QED
  BY <1>1 DEF GoesOn

LEMMA DeliverGoesOn == ASSUME NEW c, NEW x, NEW result, Same(c, x), Deliver(c, x, result) PROVE GoesOn(c)
<1>1. CASE ResultCacheable(x.want, result) /\ Put(c, [x EXCEPT !.at = "storing", !.result = result])
           /\ flight' = flight
  <2> DEFINE y == [x EXCEPT !.at = "storing", !.result = result]
  <2>1. Moves(c, y)
    BY <1>1 DEF Same, Shaped, Moves, Active, ResultCacheable
  <2>2. QED
    BY <2>1 DEF GoesOn
<1>2. CASE Finish(c, [x EXCEPT !.result = result])
  <2> DEFINE y == [x EXCEPT !.result = result]
  <2>1. Ends(c, y)
    BY <1>2 DEF Same, Shaped, Ends
  <2>2. QED
    BY <2>1 DEF GoesOn
<1>3. CASE Finish(c, [x EXCEPT !.result = "oversized"])
  <2> DEFINE y == [x EXCEPT !.result = "oversized"]
  <2>1. Ends(c, y)
    BY <1>3 DEF Same, Shaped, Ends
  <2>2. QED
    BY <2>1 DEF GoesOn
<1>4. QED
  BY <1>1, <1>2, <1>3 DEF Deliver

LEMMA PutGoesOn ==
    ASSUME NEW c, NEW y, Same(c, y), y.at \in Active \ {"storing"}, Put(c, y), flight' = flight
    PROVE  GoesOn(c)
  BY DEF Same, Moves, GoesOn

LEMMA ContinueGoesOn ==
    ASSUME NEW c, NEW x, NEW tried, NEW rest, Same(c, x), Continue(c, x, tried, rest)
    PROVE  GoesOn(c)
<1>1. CASE rest # <<>>
  <2> DEFINE y == [x EXCEPT !.at = "admission", !.rest = rest, !.tried = tried]
  <2>1. Same(c, y) /\ y.at \in Active \ {"storing"} /\ Put(c, y) /\ flight' = flight
    BY <1>1 DEF Same, Shaped, Continue, Active
  <2>2. QED
    BY <2>1, PutGoesOn
<1>2. CASE rest = <<>>
  <2> DEFINE y == [x EXCEPT !.rest = <<>>, !.tried = tried]
  <2>1. Same(c, y) /\ (Deliver(c, y, "challenge") \/ Fail(c, y))
    BY <1>2 DEF Same, Shaped, Continue
  <2>2. QED
    BY <2>1, DeliverGoesOn, FailGoesOn
<1>3. QED
  BY <1>1, <1>2

LEMMA RenderGoesOn == ASSUME NEW c, NEW x, Same(c, x), Render(c, x) PROVE GoesOn(c)
  BY FailGoesOn, ContinueGoesOn DEF Render

-----------------------------------------------------------------------------
\* The steps of a call

LEMMA SameSelf == ASSUME CallsFit, NEW c \in Calls PROVE Same(c, fetch[c])
  BY DEF CallsFit, CallFits, Same

LEMMA StartGoesOn == ASSUME CallsFit, NEW c \in Calls, Start(c) PROVE GoesOn(c)
<1> DEFINE x == fetch[c]
<1>1. Same(c, x)
  BY SameSelf
<1>2. CASE Fail(c, x) \/ Render(c, x)
  BY <1>1, <1>2, FailGoesOn, RenderGoesOn
<1>3. CASE Put(c, [x EXCEPT !.at = "http"]) /\ flight' = flight
  <2> DEFINE y == [x EXCEPT !.at = "http"]
  <2>1. Same(c, y) /\ y.at \in Active \ {"storing"} /\ Put(c, y)
    BY <1>1, <1>3 DEF Same, Shaped, Active
  <2>2. QED
    BY <1>3, <2>1, PutGoesOn
<1>4. QED
  BY <1>2, <1>3 DEF Start

LEMMA HttpGoesOn == ASSUME CallsFit, NEW c \in Calls, Redirected(c) \/ HttpAnswers(c) PROVE GoesOn(c)
<1>1. Same(c, fetch[c])
  BY SameSelf
<1>2. CASE Redirected(c)
  <2>1. CASE Fail(c, fetch[c])
    BY <1>1, <2>1, FailGoesOn
  <2>2. CASE Put(c, [fetch[c] EXCEPT !.hops = @ + 1]) /\ flight' = flight
    <3> DEFINE y == [fetch[c] EXCEPT !.hops = @ + 1]
    <3>1. Same(c, y) /\ y.at = fetch[c].at /\ Put(c, y)
      BY <1>1, <2>2 DEF Same, Shaped
    <3>2. y.at \in Active \ {"storing"}
      BY <1>2, <3>1 DEF Redirected, Active
    <3>3. QED
      BY <2>2, <3>1, <3>2, PutGoesOn
  <2>3. QED
    BY <1>2, <2>1, <2>2 DEF Redirected
<1>3. CASE HttpAnswers(c)
  <2> DEFINE x == [fetch[c] EXCEPT !.hops = 0]
  <2>1. Same(c, x)
    BY <1>1 DEF Same, Shaped
  <2>2. Fail(c, x) \/ Render(c, x) \/ Deliver(c, x, "challenge") \/ Deliver(c, x, "clean")
    BY <1>3 DEF HttpAnswers
  <2> HIDE DEF x
  <2>3. QED
    BY <2>1, <2>2, FailGoesOn, RenderGoesOn, DeliverGoesOn
<1>4. QED
  BY <1>2, <1>3

LEMMA AdmissionGoesOn == ASSUME CallsFit, NEW c \in Calls, Admission(c) PROVE GoesOn(c)
<1>1. Same(c, fetch[c])
  BY SameSelf
<1>2. CASE Put(c, [fetch[c] EXCEPT !.at = "browser"]) /\ flight' = flight
  <2> DEFINE y == [fetch[c] EXCEPT !.at = "browser"]
  <2>1. Same(c, y) /\ y.at \in Active \ {"storing"} /\ Put(c, y)
    BY <1>1, <1>2 DEF Same, Shaped, Active
  <2>2. QED
    BY <1>2, <2>1, PutGoesOn
<1>3. QED
  BY <1>1, <1>2, ContinueGoesOn DEF Admission

LEMMA AttemptGoesOn == ASSUME CallsFit, NEW c \in Calls, Attempt(c) PROVE GoesOn(c)
<1> DEFINE x == fetch[c]
<1> DEFINE y == [x EXCEPT !.rest = <<>>]
<1>1. Same(c, x) /\ Same(c, y)
  BY SameSelf DEF Same, Shaped
<1>2. \/ Deliver(c, y, "clean") \/ GiveUp(c, x)
      \/ \E tried, rest : Continue(c, x, tried, rest)
  BY DEF Attempt
<1> HIDE DEF y
<1>3. QED
  BY <1>1, <1>2, DeliverGoesOn, FailGoesOn, ContinueGoesOn DEF GiveUp

LEMMA StoredEnds == ASSUME CallsFit, NEW c \in Calls, Stored(c) PROVE \E y : Ends(c, y)
<1>1. Same(c, fetch[c])
  BY SameSelf
<1>2. CASE Finish(c, fetch[c])
  BY <1>1, <1>2 DEF Same, Ends
<1>3. CASE Fail(c, fetch[c])
  <2> DEFINE y == [fetch[c] EXCEPT !.result = "failed"]
  <2>1. Ends(c, y)
    BY <1>1, <1>3 DEF Same, Shaped, Fail, Ends
  <2>2. QED
    BY <2>1
<1>4. QED
  BY <1>2, <1>3 DEF Stored

LEMMA GoesOnFits ==
    ASSUME CallsFit, NEW c \in Calls, fetch[c].at \in Active, GoesOn(c)
    PROVE  CallsFit' /\ \A d \in Calls : fetch[d].at = "idle" => fetch'[d].at = "idle"
<1>1. ASSUME NEW y, Moves(c, y) PROVE \A d \in Calls : fetch[d].at = "idle" => fetch'[d].at = "idle"
  BY <1>1 DEF Moves, Put, CallsFit, Active
<1>2. QED
  BY <1>1, MovesFit, EndsFit DEF GoesOn, Active

\* A call that is not at work takes another place: it asks, or it is taken.
LEMMA PlacedFit ==
    ASSUME CallsFit, NEW c \in Calls, fetch[c].at \notin Active, NEW y, Shaped(y), Put(c, y), flight' = flight,
           \/ y.at \in {"idle", "done"}
           \/ y.at \in {"cached", "queued"} /\ y.want \in Wants /\ (y.at = "cached" <=> y.want.cacheable)
    PROVE  CallsFit'
<1>1. DOMAIN fetch' = Calls /\ fetch'[c] = y /\ \A d \in Calls \ {c} : fetch'[d] = fetch[d]
  BY DEF CallsFit, Put
<1>2. CallFits(c)'
  BY <1>1 DEF CallFits, Active, Waiting
<1>3. ASSUME NEW d \in Calls PROVE CallFits(d)'
  <2>1. CASE d # c
    BY <1>1, <2>1 DEF CallsFit, CallFits
  <2>2. QED
    BY <1>2, <2>1
<1>4. ASSUME NEW w \in Wants PROVE FlightFits(w)'
  BY <1>1 DEF CallsFit, FlightFits
<1>5. QED
  BY <1>1, <1>3, <1>4 DEF CallsFit

LEMMA CacheAnswersFits == ASSUME CallsFit, StoredFits, NEW c \in Calls, CacheAnswers(c) PROVE CallsFit'
<1> DEFINE x == fetch[c]
<1>1. CallFits(c) /\ x.at = "cached" /\ x.want \in Wants /\ x.want.cacheable
  BY DEF CallsFit, CallFits, CacheAnswers, Waiting
<1>2. CASE Put(c, [x EXCEPT !.at = "done", !.result = "clean"]) /\ flight' = flight
  <2> DEFINE y == [x EXCEPT !.at = "done", !.result = "clean"]
  <2>1. Shaped(y) /\ y.at = "done" /\ Put(c, y)
    BY <1>1, <1>2 DEF CallFits, Shaped
  <2>2. QED
    BY <1>1, <1>2, <2>1, PlacedFit DEF Active
<1>3. CASE flight[x.want] # None /\ Put(c, [x EXCEPT !.at = "joined"]) /\ flight' = flight
  <2> DEFINE y == [x EXCEPT !.at = "joined"]
  <2>1. Shaped(y) /\ y.at = "joined" /\ y.want = x.want
    BY <1>1 DEF CallFits, Shaped
  <2>2. DOMAIN fetch' = Calls /\ fetch'[c] = y /\ \A d \in Calls \ {c} : fetch'[d] = fetch[d]
    BY <1>3 DEF CallsFit, Put
  <2>3. CallFits(c)'
    BY <1>1, <1>3, <2>1, <2>2 DEF CallFits, Active, Waiting
  <2>4. ASSUME NEW d \in Calls PROVE CallFits(d)'
    <3>1. CASE d # c
      BY <1>3, <2>2, <3>1 DEF CallsFit, CallFits
    <3>2. QED
      BY <2>3, <3>1
  <2>5. ASSUME NEW w \in Wants PROVE FlightFits(w)'
    BY <1>1, <1>3, <2>2 DEF CallsFit, FlightFits, Active
  <2>6. QED
    BY <1>3, <2>2, <2>4, <2>5 DEF CallsFit
<1>4. CASE flight[x.want] = None /\ Put(c, [x EXCEPT !.at = "queued"])
           /\ flight' = [flight EXCEPT ![x.want] = c]
  <2> DEFINE y == [x EXCEPT !.at = "queued"]
  <2>1. Shaped(y) /\ y.at = "queued" /\ y.want = x.want
    BY <1>1 DEF CallFits, Shaped
  <2>2. DOMAIN fetch' = Calls /\ fetch'[c] = y /\ \A d \in Calls \ {c} : fetch'[d] = fetch[d]
    BY <1>4 DEF CallsFit, Put
  <2>3. /\ flight' \in [Wants -> Calls \cup {None}] /\ flight'[x.want] = c /\ c # None
        /\ \A w \in Wants : w # x.want => flight'[w] = flight[w]
    BY <1>1, <1>4, FetchAssumption DEF CallsFit
  <2>4. CallFits(c)'
    BY <1>1, <2>1, <2>2, <2>3 DEF CallFits, Active, Waiting
  <2>5. ASSUME NEW d \in Calls, d # c PROVE CallFits(d)'
    <3>1. fetch'[d] = fetch[d] /\ CallFits(d)
      BY <2>2, <2>5 DEF CallsFit
    <3>2. fetch[d].at = "joined" => flight'[fetch[d].want] # None
      BY <2>3, <3>1 DEF CallFits, Waiting
    <3>3. fetch[d].at \in Active /\ fetch[d].want.cacheable => fetch[d].want # x.want
      BY <1>1, <1>4, <3>1, FetchAssumption DEF CallFits
    <3>4. fetch[d].at \in Active => fetch[d].want \in Wants
      BY <3>1 DEF CallFits, Active, Waiting
    <3>5. fetch[d].at \in Active /\ fetch[d].want.cacheable => flight'[fetch[d].want] = d
      BY <2>3, <3>1, <3>3, <3>4 DEF CallFits
    <3>6. QED
      BY <3>1, <3>2, <3>5 DEF CallFits
  <2>6. ASSUME NEW w \in Wants PROVE FlightFits(w)'
    <3>1. CASE w = x.want
      BY <1>1, <2>1, <2>2, <2>3, <3>1 DEF FlightFits, Active
    <3>2. CASE w # x.want
      <4>1. flight'[w] = flight[w] /\ FlightFits(w) /\ flight[w] \in Calls \cup {None}
        BY <2>3, <3>2 DEF CallsFit
      <4>2. flight[w] # None => flight[w] # c
        BY <1>1, <4>1 DEF FlightFits, Active
      <4>3. QED
        BY <2>2, <4>1, <4>2 DEF FlightFits
    <3>3. QED
      BY <3>1, <3>2
  <2>7. QED
    BY <2>2, <2>3, <2>4, <2>5, <2>6 DEF CallsFit
<1>5. QED
  BY <1>2, <1>3, <1>4 DEF CacheAnswers

LEMMA FetchStepFits ==
    ASSUME CallsFit, StoredFits, NEW c \in Calls, FetchStep(c)
    PROVE  CallsFit' /\ \A d \in Calls : fetch[d].at = "idle" => fetch'[d].at = "idle"
<1>1. CASE CacheAnswers(c)
  <2>1. ASSUME NEW d \in Calls, fetch[d].at = "idle" PROVE fetch'[d] = fetch[d]
    BY <1>1, <2>1 DEF CacheAnswers, CallsFit, Put
  <2>2. QED
    BY <1>1, <2>1, CacheAnswersFits
<1>2. CASE Start(c) \/ Redirected(c) \/ HttpAnswers(c) \/ Admission(c) \/ Attempt(c)
  <2>1. GoesOn(c)
    BY <1>2, StartGoesOn, HttpGoesOn, AdmissionGoesOn, AttemptGoesOn
  <2>2. fetch[c].at \in Active
    BY <1>2 DEF Start, Redirected, HttpAnswers, Admission, Attempt, Active
  <2>3. QED
    BY <2>1, <2>2, GoesOnFits
<1>3. CASE Stored(c)
  <2>1. GoesOn(c) /\ fetch[c].at \in Active
    BY <1>3, StoredEnds DEF GoesOn, Stored, Active
  <2>2. QED
    BY <2>1, GoesOnFits
<1>4. QED
  BY <1>1, <1>2, <1>3 DEF FetchStep

-----------------------------------------------------------------------------
\* What is stored and what is remembered

NoNewChallenge == \A w \in Wants : stored'[w] = "challenge" => stored[w] = "challenge"

LEMMA FetchStepStores ==
    ASSUME CallsFit, StoredFits, NEW c \in Calls, FetchStep(c)
    PROVE  StoredFits' /\ NoNewChallenge
<1>1. CASE stored' = stored
  BY <1>1 DEF StoredFits, NoNewChallenge
<1>2. ASSUME NEW w \in Wants, stored' = [stored EXCEPT ![w] = "none"] PROVE StoredFits' /\ NoNewChallenge
  BY <1>2 DEF StoredFits, NoNewChallenge
<1>3. CASE Stored(c)
  <2>1. fetch[c].result = "clean" /\ fetch[c].want \in Wants
    BY <1>3 DEF Stored, CallsFit, CallFits, Waiting
  <2>2. stored' = stored \/ stored' = [stored EXCEPT ![fetch[c].want] = "clean"]
    BY <1>3, <2>1 DEF Stored
  <2>3. CASE stored' = [stored EXCEPT ![fetch[c].want] = "clean"]
    BY <2>1, <2>3 DEF StoredFits, NoNewChallenge
  <2>4. QED
    BY <1>1, <2>2, <2>3
<1>4. CASE CacheAnswers(c)
  <2>1. fetch[c].want \in Wants
    BY <1>4 DEF CacheAnswers, CallsFit, CallFits, Waiting
  <2>2. QED
    BY <1>1, <1>2, <1>4, <2>1 DEF CacheAnswers
<1>5. CASE Start(c) \/ Redirected(c) \/ HttpAnswers(c) \/ Admission(c) \/ Attempt(c)
  BY <1>1, <1>5 DEF Start, Redirected, HttpAnswers, Admission, Attempt
<1>6. QED
  BY <1>3, <1>4, <1>5 DEF FetchStep

Balances ==
    Samples(history) = MaxSamples /\ Samples(history') = MaxSamples
        => Imbalance(history') <= Imbalance(history)

LEMMA MoreSamples ==
    ASSUME NEW h \in [shells : Nat, sufficient : Nat], NEW m \in Nat, NEW n \in Nat
    PROVE  LET g == [h EXCEPT !.shells = @ + m, !.sufficient = @ + n]
           IN  g \in [shells : Nat, sufficient : Nat] /\ g.shells = h.shells + m
               /\ g.sufficient = h.sufficient + n
<1> DEFINE f == [h EXCEPT !.shells = @ + m]
<1>1. f \in [shells : Nat, sufficient : Nat] /\ f.shells = h.shells + m /\ f.sufficient = h.sufficient
  OBVIOUS
<1>2. [h EXCEPT !.shells = @ + m, !.sufficient = @ + n] = [f EXCEPT !.sufficient = @ + n]
  OBVIOUS
<1> HIDE DEF f
<1>3. [f EXCEPT !.sufficient = @ + n] \in [shells : Nat, sufficient : Nat]
      /\ [f EXCEPT !.sufficient = @ + n].shells = f.shells
      /\ [f EXCEPT !.sufficient = @ + n].sufficient = f.sufficient + n
  BY <1>1
<1>4. QED
  BY <1>1, <1>2, <1>3

\* DomainObservationStore.record(): one sample in, and one out of the more
\* frequent kind when there were too many.
LEMMA RecordedFits ==
    ASSUME HistoryFits, NEW shell \in BOOLEAN, history' = Recorded(shell)
    PROVE  HistoryFits' /\ Balances
<1> DEFINE a == history.shells + (IF shell THEN 1 ELSE 0)
<1> DEFINE b == history.sufficient + (IF shell THEN 0 ELSE 1)
<1> DEFINE g == [history EXCEPT !.shells = @ + (IF shell THEN 1 ELSE 0),
                             !.sufficient = @ + (IF shell THEN 0 ELSE 1)]
<1>1. history.shells \in Nat /\ history.sufficient \in Nat /\ MaxSamples \in Nat \ {0}
      /\ history.shells + history.sufficient <= MaxSamples
  BY FetchAssumption DEF HistoryFits, Samples
<1>2. g \in [shells : Nat, sufficient : Nat] /\ g.shells = a /\ g.sufficient = b
  <2>1. history \in [shells : Nat, sufficient : Nat]
    BY <1>1 DEF HistoryFits
  <2>2. (IF shell THEN 1 ELSE 0) \in Nat /\ (IF shell THEN 0 ELSE 1) \in Nat
    OBVIOUS
  <2>3. QED
    BY <2>1, <2>2, MoreSamples
<1>3. history' = Trimmed(g, shell)
  BY DEF Recorded
<1>4. a \in Nat /\ b \in Nat /\ a + b = history.shells + history.sufficient + 1
  BY <1>1
<1> HIDE DEF g
<1>5. history' \in [shells : Int, sufficient : Int]
      /\ history'.shells = (IF a + b > MaxSamples /\ a >= b THEN a - 1 ELSE a)
      /\ history'.sufficient = (IF a + b > MaxSamples /\ ~(a >= b) THEN b - 1 ELSE b)
  <2> HIDE DEF a, b
  <2>1. QED
    BY <1>1, <1>2, <1>3, <1>4 DEF Trimmed, Samples
<1>6. HistoryFits'
  <2> HIDE DEF a, b
  <2>1. QED
    BY <1>1, <1>4, <1>5 DEF HistoryFits, Samples
<1>7. Balances
  BY <1>1, <1>4, <1>5 DEF Balances, Samples, Imbalance
<1>8. QED
  BY <1>6, <1>7

LEMMA ForgottenFits == ASSUME HistoryFits, history' \in {history, NoHistory} PROVE HistoryFits' /\ Balances
<1>1. CASE history' = history
  <2>1. Imbalance(history) \in Int
    BY DEF HistoryFits, Imbalance
  <2>2. QED
    BY <1>1, <2>1 DEF HistoryFits, Balances
<1>2. CASE history' = NoHistory
  BY <1>2, FetchAssumption DEF HistoryFits, Balances, NoHistory, Samples
<1>3. QED
  BY <1>1, <1>2

LEMMA FetchStepRemembers == ASSUME HistoryFits, NEW c \in Calls, FetchStep(c) PROVE HistoryFits' /\ Balances
<1>1. CASE HttpAnswers(c)
  <2>1. PICK answer \in {"none", "other", "sufficient", "shell", "challenge"} :
          history' = IF answer \in {"none", "other"} THEN history
                     ELSE Recorded(answer \in {"shell", "challenge"})
    BY <1>1 DEF HttpAnswers
  <2>2. (answer \in {"shell", "challenge"}) \in BOOLEAN
    OBVIOUS
  <2>3. QED
    BY <2>1, <2>2, RecordedFits, ForgottenFits
<1>2. CASE CacheAnswers(c) \/ Start(c) \/ Redirected(c) \/ Admission(c) \/ Attempt(c) \/ Stored(c)
  <2>1. history' \in {history, NoHistory}
    BY <1>2 DEF CacheAnswers, Start, Redirected, Admission, Attempt, Stored
  <2>2. QED
    BY <2>1, ForgottenFits
<1>3. QED
  BY <1>1, <1>2 DEF FetchStep

-----------------------------------------------------------------------------
\* The walk and the clients

LEMMA InitFits == Init => FInv
<1> SUFFICES ASSUME Init PROVE FInv
  OBVIOUS
<1>1. /\ DOMAIN fetch = Calls /\ \A c \in Calls : fetch[c] = Idle
      /\ flight \in [Wants -> Calls \cup {None}] /\ \A w \in Wants : flight[w] = None
  BY DEF Init, FetchInit
<1>2. Shaped(Idle) /\ Idle.at = "idle"
  BY DEF Idle, Shaped
<1>3. CallsFit
  BY <1>1, <1>2 DEF CallsFit, CallFits, FlightFits, Waiting, Active
<1>4. StoredFits
  BY DEF Init, FetchInit, StoredFits
<1>5. HistoryFits
  BY FetchAssumption DEF Init, FetchInit, HistoryFits, NoHistory, Samples
<1>6. MapperFits
  BY <1>1, <1>2, CrawlAssumption DEF MapperFits
<1>7. QED
  BY <1>3, <1>4, <1>5, <1>6 DEF FInv

\* What every step keeps.
Kept == FInv' /\ [NoNewChallenge]_fetchVars /\ [Balances]_fetchVars

LEMMA FetchStepKeeps == ASSUME FInv, NEW c \in Calls, FetchStep(c), UNCHANGED crawlVars PROVE Kept
<1>1. /\ CallsFit' /\ StoredFits' /\ HistoryFits' /\ NoNewChallenge /\ Balances
      /\ \A d \in Calls : fetch[d].at = "idle" => fetch'[d].at = "idle"
  BY FetchStepFits, FetchStepStores, FetchStepRemembers DEF FInv
<1>2. MapperFits'
  BY <1>1, CrawlAssumption DEF FInv, MapperFits, crawlVars
<1>3. QED
  BY <1>1, <1>2 DEF Kept, FInv

LEMMA QuietKeeps ==
    ASSUME FInv, CallsFit', MapperFits', UNCHANGED <<stored, history>>
    PROVE  Kept
<1>1. StoredFits' /\ NoNewChallenge
  BY DEF FInv, StoredFits, NoNewChallenge
<1>2. HistoryFits' /\ Balances
  BY ForgottenFits DEF FInv
<1>3. QED
  BY <1>1, <1>2 DEF Kept, FInv

LEMMA AskKeeps ==
    ASSUME FInv, NEW c \in Calls \ {Mapper}, NEW w \in Wants, Ask(c, w), UNCHANGED crawlVars
    PROVE  Kept
<1> DEFINE y == [Idle EXCEPT !.want = w, !.at = IF w.cacheable THEN "cached" ELSE "queued"]
<1>1. Shaped(y) /\ y.want = w /\ y.at = IF w.cacheable THEN "cached" ELSE "queued"
  BY DEF Idle, Shaped
<1>2. Put(c, y) /\ UNCHANGED <<flight, stored, history>> /\ fetch[c].at = "idle"
  BY DEF Ask
<1> HIDE DEF y
<1>3. CallsFit'
  BY <1>1, <1>2, PlacedFit DEF FInv, Active
<1>4. MapperFits'
  BY <1>2, CrawlAssumption DEF FInv, MapperFits, crawlVars, Put
<1>5. QED
  BY <1>2, <1>3, <1>4, QuietKeeps

LEMMA TakeKeeps == ASSUME FInv, NEW c \in Calls \ {Mapper}, Take(c), UNCHANGED crawlVars PROVE Kept
<1>1. Shaped(Idle) /\ Idle.at = "idle"
  BY DEF Idle, Shaped
<1>2. Put(c, Idle) /\ UNCHANGED <<flight, stored, history>> /\ fetch[c].at = "done"
  BY DEF Take
<1>3. CallsFit'
  BY <1>1, <1>2, PlacedFit DEF FInv, Active
<1>4. MapperFits'
  BY <1>2, CrawlAssumption DEF FInv, MapperFits, crawlVars, Put
<1>5. QED
  BY <1>2, <1>3, <1>4, QuietKeeps

LEMMA AroundKeeps == ASSUME FInv, FetchAround, UNCHANGED crawlVars PROVE Kept
<1>1. UNCHANGED <<fetch, flight, at>>
  BY DEF FetchAround, Lost, Evicted, crawlVars
<1>2. CallsFit'
  BY <1>1 DEF FInv, CallsFit, CallFits, FlightFits
<1>3. MapperFits'
  BY <1>1 DEF FInv, MapperFits
<1>4. StoredFits' /\ NoNewChallenge
  BY DEF FInv, FetchAround, Lost, Evicted, StoredFits, NoNewChallenge
<1>5. HistoryFits' /\ Balances
  BY ForgottenFits DEF FInv, FetchAround, Lost, Evicted
<1>6. QED
  BY <1>2, <1>3, <1>4, <1>5 DEF Kept, FInv

LEMMA CallsStay == ASSUME CallsFit, UNCHANGED <<fetch, flight>> PROVE CallsFit'
  BY DEF CallsFit, CallFits, FlightFits

LEMMA TurnKeeps == ASSUME FInv, Turn PROVE Kept
<1>1. UNCHANGED <<flight, stored, history>> /\ at = "next"
  BY DEF Turn
<1>2. CASE fetch' = fetch /\ at' \in {at, "failed"}
  <2>1. CallsFit' /\ MapperFits'
    BY <1>1, <1>2, CallsStay DEF FInv, MapperFits
  <2>2. QED
    BY <1>1, <2>1, QuietKeeps
<1>3. CASE at' = "fetching" /\ Put(Mapper, [Idle EXCEPT !.want = MapWant, !.at = "queued"])
  <2> DEFINE y == [Idle EXCEPT !.want = MapWant, !.at = "queued"]
  <2>1. Shaped(y) /\ y.want = MapWant /\ y.at = "queued" /\ Put(Mapper, y)
    BY <1>3 DEF Idle, Shaped
  <2> HIDE DEF y
  <2>2. fetch[Mapper].at = "idle" /\ Mapper \in Calls
    BY <1>1, CrawlAssumption DEF FInv, MapperFits
  <2>3. CallsFit'
    BY <1>1, <2>1, <2>2, CrawlAssumption, PlacedFit DEF FInv, Active
  <2>4. MapperFits'
    BY <1>3 DEF MapperFits
  <2>5. QED
    BY <1>1, <2>3, <2>4, QuietKeeps
<1>4. QED
  BY <1>2, <1>3 DEF Turn

LEMMA ExpandKeeps == ASSUME FInv, Expand PROVE Kept
<1>1. UNCHANGED <<flight, stored, history>> /\ fetch[Mapper].at = "done" /\ Put(Mapper, Idle)
  BY DEF Expand
<1>2. Shaped(Idle) /\ Idle.at = "idle" /\ Mapper \in Calls
  BY CrawlAssumption DEF Idle, Shaped
<1>3. CallsFit'
  BY <1>1, <1>2, PlacedFit DEF FInv, Active
<1>4. MapperFits'
  BY <1>1, <1>2 DEF FInv, CallsFit, MapperFits, Put
<1>5. QED
  BY <1>1, <1>3, <1>4, QuietKeeps

LEMMA WalkerKeeps ==
    ASSUME FInv, UNCHANGED fetchVars,
           Finished \/ Answered \/ \E s \in Sites, m \in Maps : Map(s, m)
    PROVE  Kept
<1>1. at # "fetching"
  BY DEF Finished, Answered, Map
<1>2. CallsFit' /\ MapperFits'
  BY <1>1, CallsStay DEF FInv, MapperFits, fetchVars
<1>3. QED
  BY <1>2, QuietKeeps DEF fetchVars

LEMMA StepKeeps == ASSUME FInv, [Next]_vars PROVE Kept
<1>1. ASSUME UNCHANGED vars PROVE Kept
  <2>1. UNCHANGED <<fetch, flight, stored, history, at>>
    BY <1>1 DEF vars, fetchVars, crawlVars
  <2>2. CallsFit' /\ MapperFits'
    BY <2>1, CallsStay DEF FInv, MapperFits
  <2>3. QED
    BY <2>1, <2>2, QuietKeeps
<1>2. ASSUME Finished \/ Answered \/ \E s \in Sites, m \in Maps : Map(s, m) PROVE Kept
  BY <1>2, WalkerKeeps DEF Finished, Answered, Map
<1>3. ASSUME Next PROVE Kept
  BY <1>2, <1>3, FetchStepKeeps, AskKeeps, TakeKeeps, AroundKeeps, TurnKeeps, ExpandKeeps DEF Next, Walk
<1>4. QED
  BY <1>1, <1>3

LEMMA Invariant == Spec => []FInv
<1>1. FInv /\ [Next]_vars => FInv'
  BY StepKeeps DEF Kept
<1>2. QED
  BY InitFits, <1>1, PTL DEF Spec

-----------------------------------------------------------------------------
\* execution/challenge-fallback.ts, server/core/fetch.ts: no page that still
\* shows a challenge is ever stored, by whatever chain of backends it came,
\* and those an earlier release left are only ever removed.
THEOREM ChallengesStayOut == Spec => NoChallengeStored
<1>1. FInv /\ [Next]_vars =>
          [\A w \in Wants : stored'[w] = "challenge" => stored[w] = "challenge"]_fetchVars
  BY StepKeeps DEF Kept, NoNewChallenge
<1>2. QED
  BY Invariant, <1>1, PTL DEF Spec, NoChallengeStored

\* execution/domain-observations.ts: once a history is full, no sample makes
\* it lean further to either side, for every size of the history.
THEOREM FullHistoryBalances == Spec => FullHistoryLosesWeight
<1>1. FInv /\ [Next]_vars =>
          [Samples(history) = MaxSamples /\ Samples(history') = MaxSamples
             => Imbalance(history') <= Imbalance(history)]_fetchVars
  BY StepKeeps DEF Kept, Balances
<1>2. QED
  BY Invariant, <1>1, PTL DEF Spec, FullHistoryLosesWeight

\* coalesce() of cache.ts around the fetch: a call that joined
\* another waits for one that is at work on what it wants, however calls end.
THEOREM NobodyWaitsInVain == Spec => []JoinedHaveAFlight
<1>1. FInv => JoinedHaveAFlight
  BY DEF FInv, CallsFit, CallFits, FlightFits, JoinedHaveAFlight, Active, Waiting
<1>2. QED
  BY Invariant, <1>1, PTL

-----------------------------------------------------------------------------
\* What a caller is told of its attempts

Names(tried) == {tried[i][1] : i \in DOMAIN tried}
Once(tried) == \A i, j \in DOMAIN tried : tried[i][1] = tried[j][1] => i = j
Tries == Seq(Enabled \X Outcomes)

Records ==
    [want : Wants \cup {None}, at : Waiting \cup {"idle", "done"}, hops : 0..MaxRedirects,
     rest : Seq(Enabled), tried : Tries,
     result : {"none", "clean", "challenge", "failed", "oversized"}]

\* MarkIsHonest and ChallengeMeansAll of a call that ends as x.
TellsTruth(x) ==
    /\ x.tried # <<>> /\ Names(x.tried) = Chain(x.want) /\ x.result # "oversized" =>
           x.result # "clean" /\ (x.result = "challenge" <=> LastPage(x.tried))
    /\ x.result = "challenge" /\ x.want.strategy # "http" => Names(x.tried) = Chain(x.want)

\* The backends tried and those left are the chain, and none is in both.
Splits(w, tried, rest) ==
    /\ tried \in Tries /\ rest \in Seq(Enabled)
    /\ Once(tried) /\ IsInjective(rest)
    /\ Names(tried) \cap Range(rest) = {} /\ Names(tried) \cup Range(rest) = Chain(w)

\* Some backend has not been tried, or none was asked for.
Open(x) == x.tried = <<>> \/ Names(x.tried) # Chain(x.want)

Honest(x) ==
    /\ Once(x.tried)
    /\ x.at \in {"idle", "cached", "joined", "queued", "http"} => x.tried = <<>>
    /\ x.at \in {"admission", "browser"} =>
           x.rest # <<>> /\ x.want \in Wants /\ Splits(x.want, x.tried, x.rest)
    /\ x.at = "storing" => Open(x)
    /\ x.at = "done" => TellsTruth(x)

AllHonest == fetch \in [Calls -> Records] /\ \A c \in Calls : Honest(fetch[c])

LEMMA PutHonest ==
    ASSUME AllHonest, NEW c \in Calls, NEW y \in Records, Honest(y), Put(c, y)
    PROVE  AllHonest'
  BY DEF AllHonest, Put

LEMMA IdleHonest == Idle \in Records /\ Honest(Idle)
<1>1. <<>> \in Seq(Enabled) /\ <<>> \in Tries /\ 0 \in 0..MaxRedirects
  BY FetchAssumption DEF Tries
<1>2. Idle \in Records
  BY <1>1 DEF Idle, Records
<1>3. Once(<<>>)
  BY DEF Once
<1>4. QED
  BY <1>2, <1>3 DEF Idle, Honest

\* A call ends and tells those that joined it what it tells its caller.
LEMMA FinishHonest ==
    ASSUME AllHonest, NEW c \in Calls, NEW x \in Records, Once(x.tried), TellsTruth(x), Finish(c, x)
    PROVE  AllHonest'
<1> DEFINE z == [x EXCEPT !.at = "done", !.hops = 0, !.rest = <<>>]
<1>1. <<>> \in Seq(Enabled) /\ 0 \in 0..MaxRedirects
  BY FetchAssumption
<1>2. z \in Records /\ z.at = "done" /\ z.tried = x.tried /\ z.want = x.want /\ z.result = x.result
  BY <1>1 DEF Records, Waiting
<1>3. Honest(z)
  BY <1>2 DEF Honest, TellsTruth
<1>4. fetch' = Ended(c, z)
  BY DEF Finish
<1> HIDE DEF z
<1> DEFINE copy == [z EXCEPT !.at = "done"]
<1>5. copy \in Records /\ copy.at = "done" /\ copy.tried = z.tried /\ copy.want = z.want
      /\ copy.result = z.result
  BY <1>2 DEF Records
<1>6. Honest(copy)
  BY <1>2, <1>3, <1>5 DEF Honest, TellsTruth
<1>7. \A d \in Calls : fetch'[d] \in {z, copy, fetch[d]}
  BY <1>4 DEF Ended
<1>8. fetch' \in [Calls -> Records]
  BY <1>2, <1>4, <1>5 DEF Ended, AllHonest
<1> HIDE DEF copy
<1>9. QED
  BY <1>3, <1>6, <1>7, <1>8 DEF AllHonest

LEMMA FailHonest ==
    ASSUME AllHonest, NEW c \in Calls, NEW x \in Records, Once(x.tried),
           Open(x) \/ ~LastPage(x.tried), Fail(c, x)
    PROVE  AllHonest'
<1> DEFINE y == [x EXCEPT !.result = "failed"]
<1>1. y \in Records /\ y.tried = x.tried /\ y.want = x.want /\ y.result = "failed"
  BY DEF Records
<1>2. Finish(c, y)
  BY DEF Fail
<1> HIDE DEF y
<1>3. TellsTruth(y)
  BY <1>1 DEF TellsTruth, Open
<1>4. QED
  BY <1>1, <1>2, <1>3, FinishHonest

LEMMA DeliverHonest ==
    ASSUME AllHonest, NEW c \in Calls, NEW x \in Records, NEW result \in {"clean", "challenge"},
           Once(x.tried), result = "clean" => Open(x),
           result = "challenge" => /\ x.tried = <<>> \/ LastPage(x.tried)
                                   /\ x.want.strategy = "http" \/ Names(x.tried) = Chain(x.want),
           Deliver(c, x, result)
    PROVE  AllHonest'
<1>1. CASE ResultCacheable(x.want, result) /\ Put(c, [x EXCEPT !.at = "storing", !.result = result])
  <2> DEFINE y == [x EXCEPT !.at = "storing", !.result = result]
  <2>1. y \in Records /\ y.at = "storing" /\ y.tried = x.tried /\ y.want = x.want
    BY DEF Records, Waiting
  <2>2. Put(c, y) /\ Open(x)
    BY <1>1 DEF ResultCacheable
  <2> HIDE DEF y
  <2>3. Honest(y)
    BY <2>1, <2>2 DEF Honest, Open
  <2>4. QED
    BY <2>1, <2>2, <2>3, PutHonest
<1>2. CASE Finish(c, [x EXCEPT !.result = result])
  <2> DEFINE y == [x EXCEPT !.result = result]
  <2>1. y \in Records /\ y.tried = x.tried /\ y.want = x.want /\ y.result = result
    BY DEF Records
  <2>2. Finish(c, y)
    BY <1>2
  <2> HIDE DEF y
  <2>3. TellsTruth(y)
    BY <2>1 DEF TellsTruth, Open
  <2>4. QED
    BY <2>1, <2>2, <2>3, FinishHonest
<1>3. CASE Finish(c, [x EXCEPT !.result = "oversized"])
  <2> DEFINE y == [x EXCEPT !.result = "oversized"]
  <2>1. y \in Records /\ y.tried = x.tried /\ y.result = "oversized"
    BY DEF Records
  <2>2. Finish(c, y)
    BY <1>3
  <2> HIDE DEF y
  <2>3. TellsTruth(y)
    BY <2>1 DEF TellsTruth
  <2>4. QED
    BY <2>1, <2>2, <2>3, FinishHonest
<1>4. QED
  BY <1>1, <1>2, <1>3 DEF Deliver

\* runChallengeFallback() after some backends, with the others before it.
LEMMA ContinueHonest ==
    ASSUME AllHonest, NEW c \in Calls, NEW x \in Records, NEW tried, NEW rest,
           x.want \in Wants, Splits(x.want, tried, rest), Continue(c, x, tried, rest)
    PROVE  AllHonest'
<1>1. CASE rest # <<>>
  <2> DEFINE y == [x EXCEPT !.at = "admission", !.rest = rest, !.tried = tried]
  <2>1. y \in Records /\ y.at = "admission" /\ y.rest = rest /\ y.tried = tried /\ y.want = x.want
    BY DEF Records, Splits, Waiting
  <2>2. Put(c, y)
    BY <1>1 DEF Continue
  <2> HIDE DEF y
  <2>3. Honest(y)
    BY <1>1, <2>1 DEF Honest, Splits
  <2>4. QED
    BY <2>1, <2>2, <2>3, PutHonest
<1>2. CASE rest = <<>>
  <2> DEFINE y == [x EXCEPT !.rest = <<>>, !.tried = tried]
  <2>1. y \in Records /\ y.tried = tried /\ y.want = x.want
    BY <1>2 DEF Records, Splits
  <2>2. Range(rest) = {}
    BY <1>2 DEF Range
  <2>3. Once(tried) /\ Names(tried) = Chain(x.want)
    BY <2>2 DEF Splits
  <2>4. IF LastPage(tried) THEN Deliver(c, y, "challenge") ELSE Fail(c, y)
    BY <1>2 DEF Continue
  <2> HIDE DEF y
  <2>5. CASE LastPage(tried)
    BY <2>1, <2>3, <2>4, <2>5, DeliverHonest
  <2>6. CASE ~LastPage(tried)
    BY <2>1, <2>3, <2>4, <2>6, FailHonest
  <2>7. QED
    BY <2>5, <2>6
<1>3. QED
  BY <1>1, <1>2

-----------------------------------------------------------------------------
\* The backends before a call

\* The members of S that are among the first n of s.
Among(s, n, S) == {s[i] : i \in 1..n} \cap S

\* How Listed goes through s.
Keeps(kept, s, S) ==
    /\ kept[0] = <<>>
    /\ \A n \in Nat :
         kept[n + 1] = IF s[n + 1] \in S \ Range(kept[n]) THEN Append(kept[n], s[n + 1]) ELSE kept[n]

LEMMA ListedSteps ==
    ASSUME NEW s, NEW S, Len(s) \in Nat
    PROVE  \E kept : Keeps(kept, s, S) /\ Listed(s, S) = kept[Len(s)]
<1> DEFINE Step(n, q) == IF s[n] \in S \ Range(q) THEN Append(q, s[n]) ELSE q
           D == Nat \X Seq(S)
           G == [x \in D |-> <<x[1] + 1, Step(x[1] + 1, x[2])>>]
           a == <<0, <<>>>>
<1>1. MapsInto(G, D) /\ a \in D
  <2>1. ASSUME NEW x \in D PROVE <<x[1] + 1, Step(x[1] + 1, x[2])>> \in D
    <3>1. x[1] + 1 \in Nat /\ x[2] \in Seq(S)
      OBVIOUS
    <3>2. Step(x[1] + 1, x[2]) \in Seq(S)
      BY <3>1, AppendProperties
    <3> HIDE DEF Step
    <3>3. QED
      BY <3>1, <3>2
  <2>2. a \in D
    BY EmptySeq
  <2> HIDE DEF D, Step
  <2>3. QED
    BY <2>1, <2>2 DEF MapsInto
<1> HIDE DEF G
<1>2. PICK f : Iterates(f, D, G, a)
  <2> HIDE DEF D, a
  <2>1. QED
    BY <1>1, IterationExists
<1>3. \A n \in Nat : f[n] \in D /\ f[n + 1] = <<f[n][1] + 1, Step(f[n][1] + 1, f[n][2])>>
  <2> HIDE DEF Step
  <2>1. ASSUME NEW n \in Nat PROVE f[n] \in D /\ f[n + 1] = G[f[n]]
    BY <1>2 DEF Iterates
  <2>2. \A x \in D : G[x] = <<x[1] + 1, Step(x[1] + 1, x[2])>>
    BY DEF G
  <2> HIDE DEF D
  <2>3. QED
    BY <2>1, <2>2
<1>4. f[0] = a
  BY <1>2 DEF Iterates
<1>5. \A n \in Nat : f[n][1] = n
  <2> DEFINE T == {n \in Nat : f[n][1] = n}
  <2>1. 0 \in T
    BY <1>4
  <2>2. ASSUME NEW n \in Nat, n \in T PROVE n + 1 \in T
    <3> HIDE DEF Step, D
    <3>1. f[n + 1] = <<f[n][1] + 1, Step(f[n][1] + 1, f[n][2])>> /\ f[n][1] = n
      BY <1>3, <2>2
    <3>2. f[n + 1] = <<n + 1, Step(n + 1, f[n][2])>>
      BY <3>1
    <3>3. f[n + 1][1] = n + 1
      BY <3>2
    <3>4. QED
      BY <3>3
  <2> HIDE DEF T
  <2>3. Nat \subseteq T
    BY <2>1, <2>2, NumberInduction
  <2>4. QED
    BY <2>3 DEF T
<1> DEFINE g == [n \in Nat |-> f[n][2]]
<1>6. \A n \in Nat : g[n + 1] = Step(n + 1, g[n])
  <2> HIDE DEF Step, D
  <2>1. ASSUME NEW n \in Nat PROVE f[n + 1][2] = Step(n + 1, f[n][2])
    <3>1. f[n + 1] = <<f[n][1] + 1, Step(f[n][1] + 1, f[n][2])>> /\ f[n][1] = n
      BY <1>3, <1>5
    <3>2. f[n + 1] = <<n + 1, Step(n + 1, f[n][2])>>
      BY <3>1
    <3>3. QED
      BY <3>2
  <2>2. \A n \in Nat : n + 1 \in Nat /\ g[n] = f[n][2]
    OBVIOUS
  <2> HIDE DEF g
  <2>3. QED
    BY <2>1, <2>2
<1>7. g[0] = <<>>
  BY <1>4
<1> DEFINE Solves(k) ==
             k = [n \in Nat |-> IF n = 0 THEN <<>>
                                ELSE IF s[n] \in S \ Range(k[n - 1]) THEN Append(k[n - 1], s[n])
                                ELSE k[n - 1]]
<1>8. Solves(g)
  <2>1. g = [n \in Nat |-> g[n]]
    OBVIOUS
  <2> HIDE DEF g
  <2>2. ASSUME NEW n \in Nat PROVE g[n] = IF n = 0 THEN <<>> ELSE Step(n, g[n - 1])
    <3>1. CASE n = 0
      BY <1>7, <3>1
    <3>2. CASE n # 0
      <4>1. n - 1 \in Nat /\ (n - 1) + 1 = n
        BY <3>2
      <4> HIDE DEF Step
      <4>2. QED
        BY <1>6, <3>2, <4>1
    <3>3. QED
      BY <3>1, <3>2
  <2>3. QED
    BY <2>1, <2>2
<1> DEFINE kept == CHOOSE k : Solves(k)
<1>9. Listed(s, S) = kept[Len(s)]
  BY DEF Listed
<1> HIDE DEF Solves
<1>10. Solves(kept)
  BY <1>8
<1> HIDE DEF kept
<1>11. /\ kept[0] = <<>>
       /\ \A n \in Nat :
            kept[n + 1] = IF s[n + 1] \in S \ Range(kept[n]) THEN Append(kept[n], s[n + 1]) ELSE kept[n]
  <2>1. kept[0] = <<>>
    BY <1>10 DEF Solves
  <2>2. ASSUME NEW n \in Nat PROVE kept[n + 1] = IF s[n + 1] \in S \ Range(kept[n]) THEN Append(kept[n], s[n + 1]) ELSE kept[n]
    <3>1. n + 1 \in Nat /\ n + 1 # 0 /\ (n + 1) - 1 = n
      OBVIOUS
    <3>2. QED
      BY <1>10, <3>1 DEF Solves
  <2>3. QED
    BY <2>1, <2>2
<1>12. QED
  BY <1>9, <1>11 DEF Keeps

\* What is kept is in S, each once, and nothing of S is left out.
LEMMA ListedFits ==
    ASSUME NEW T, NEW s \in Seq(T), NEW S
    PROVE  /\ Listed(s, S) \in Seq(S) /\ IsInjective(Listed(s, S))
           /\ Range(Listed(s, S)) = {s[i] : i \in 1..Len(s)} \cap S
<1> DEFINE Fits(q, n) == q \in Seq(S) /\ IsInjective(q) /\ Range(q) = Among(s, n, S)
<1>1. Len(s) \in Nat
  BY LenProperties
<1>2. PICK kept : Keeps(kept, s, S) /\ Listed(s, S) = kept[Len(s)]
  BY <1>1, ListedSteps
<1> DEFINE A == {n \in Nat : Fits(kept[n], n)}
<1>3. 0 \in A
  <2>1. Among(s, 0, S) = {}
    BY DEF Among
  <2>2. <<>> \in Seq(S) /\ IsInjective(<<>>) /\ Range(<<>>) = {}
    BY EmptySeq DEF IsInjective, Range
  <2>3. QED
    BY <1>2, <2>1, <2>2 DEF Keeps
<1>4. ASSUME NEW n \in Nat, n \in A PROVE n + 1 \in A
  <2> DEFINE q == kept[n]
             e == s[n + 1]
  <2>1. q \in Seq(S) /\ IsInjective(q) /\ Range(q) = Among(s, n, S)
    BY <1>4
  <2>2. Among(s, n + 1, S) = Among(s, n, S) \cup ({e} \cap S)
    <3>1. \A i \in 1..(n + 1) : i \in 1..n \/ i = n + 1
      OBVIOUS
    <3>2. (\A i \in 1..n : i \in 1..(n + 1)) /\ n + 1 \in 1..(n + 1)
      OBVIOUS
    <3>3. QED
      BY <3>1, <3>2 DEF Among
  <2>3. kept[n + 1] = IF e \in S \ Range(q) THEN Append(q, e) ELSE q
    BY <1>2 DEF Keeps
  <2> HIDE DEF q, e
  <2>4. ASSUME e \in S \ Range(q) PROVE Fits(kept[n + 1], n + 1)
    <3>1. /\ Append(q, e) \in Seq(S) /\ Len(Append(q, e)) = Len(q) + 1 /\ Append(q, e)[Len(q) + 1] = e
          /\ (\A i \in 1..Len(q) : Append(q, e)[i] = q[i]) /\ Len(q) \in Nat
          /\ DOMAIN q = 1..Len(q)
      BY <2>1, <2>4, AppendProperties, LenProperties
    <3>2. DOMAIN Append(q, e) = 1..(Len(q) + 1)
      BY <3>1, LenProperties
    <3>3. \A i \in 1..(Len(q) + 1) : i \in 1..Len(q) \/ i = Len(q) + 1
      BY <3>1
    <3>4. (\A i \in 1..Len(q) : i \in 1..(Len(q) + 1)) /\ Len(q) + 1 \in 1..(Len(q) + 1)
      BY <3>1
    <3>5. \A i \in 1..Len(q) : q[i] # e
      BY <2>4, <3>1 DEF Range
    <3>6. IsInjective(Append(q, e))
      <4>1. \A i, j \in 1..Len(q) : q[i] = q[j] => i = j
        BY <2>1, <3>1 DEF IsInjective
      <4>2. \A i, j \in 1..(Len(q) + 1) : Append(q, e)[i] = Append(q, e)[j] => i = j
        BY <3>1, <3>3, <3>5, <4>1
      <4>3. QED
        BY <3>2, <4>2 DEF IsInjective
    <3>7. Range(Append(q, e)) = Range(q) \cup {e}
      <4>1. ASSUME NEW z \in Range(Append(q, e)) PROVE z \in Range(q) \cup {e}
        BY <3>1, <3>2, <3>3, <4>1 DEF Range
      <4>2. ASSUME NEW z \in Range(q) \cup {e} PROVE z \in Range(Append(q, e))
        BY <3>1, <3>2, <3>4, <4>2 DEF Range
      <4>3. QED
        BY <4>1, <4>2
    <3>8. Range(Append(q, e)) = Among(s, n + 1, S)
      BY <2>1, <2>2, <2>4, <3>7
    <3>9. kept[n + 1] = Append(q, e)
      BY <2>3, <2>4
    <3>10. QED
      BY <3>1, <3>6, <3>8, <3>9
  <2>5. ASSUME e \notin S \ Range(q) PROVE Fits(kept[n + 1], n + 1)
    <3>1. kept[n + 1] = q
      BY <2>3, <2>5
    <3>2. Range(q) = Among(s, n + 1, S)
      BY <2>1, <2>2, <2>5
    <3>3. QED
      BY <2>1, <3>1, <3>2
  <2>6. Fits(kept[n + 1], n + 1)
    BY <2>4, <2>5
  <2> HIDE DEF Fits
  <2>7. QED
    BY <2>6
<1> HIDE DEF A
<1>5. Nat \subseteq A
  BY <1>3, <1>4, NumberInduction
<1>6. Fits(kept[Len(s)], Len(s))
  BY <1>1, <1>5 DEF A
<1>7. QED
  BY <1>2, <1>6 DEF Among

\* Candidates lists the chain, each backend once, whatever the order is.
ListsChain(w) ==
    LET listed == Candidates(w) IN
    listed \in Seq(Enabled) /\ IsInjective(listed) /\ Range(listed) = Chain(w)

LEMMA ChainIsListed == ASSUME NEW w PROVE ListsChain(w)
<1> DEFINE s == <<w.backend>> \o Fallbacks
           S == Enabled \cap Capable[w.op]
           T == {w.backend} \cup Range(Fallbacks)
<1>1. /\ <<w.backend>> \in Seq(T) /\ Fallbacks \in Seq(T) /\ Len(<<w.backend>>) = 1
      /\ Len(Fallbacks) \in Nat /\ DOMAIN Fallbacks = 1..Len(Fallbacks)
  <2>1. Fallbacks \in Seq(Range(Fallbacks))
    BY FetchAssumption
  <2>2. Len(Fallbacks) \in Nat /\ DOMAIN Fallbacks = 1..Len(Fallbacks)
    BY <2>1, LenProperties
  <2>3. Fallbacks \in [1..Len(Fallbacks) -> T]
    BY <2>1, LenProperties
  <2>4. Fallbacks \in Seq(T)
    BY <2>2, <2>3, SeqDef
  <2>5. QED
    BY <2>2, <2>4
<1> HIDE DEF T
<1>2. /\ s \in Seq(T) /\ Len(s) = 1 + Len(Fallbacks)
      /\ \A i \in 1..(1 + Len(Fallbacks)) :
           s[i] = IF i <= 1 THEN <<w.backend>>[i] ELSE Fallbacks[i - 1]
  BY <1>1, ConcatProperties
<1> HIDE DEF s
<1>3. {s[i] : i \in 1..Len(s)} = {w.backend} \cup Range(Fallbacks)
  <2>1. ASSUME NEW i \in 1..Len(s) PROVE s[i] \in {w.backend} \cup Range(Fallbacks)
    <3>1. CASE i = 1
      BY <1>1, <1>2, <3>1
    <3>2. CASE i # 1
      <4>1. i - 1 \in 1..Len(Fallbacks) /\ ~(i <= 1)
        BY <1>1, <1>2, <3>2
      <4>2. QED
        BY <1>1, <1>2, <4>1 DEF Range
    <3>3. QED
      BY <3>1, <3>2
  <2>2. 1 \in 1..Len(s) /\ s[1] = w.backend
    BY <1>1, <1>2
  <2>3. ASSUME NEW i \in 1..Len(Fallbacks) PROVE i + 1 \in 1..Len(s) /\ s[i + 1] = Fallbacks[i]
    <3>1. i + 1 \in 1..(1 + Len(Fallbacks)) /\ ~(i + 1 <= 1) /\ (i + 1) - 1 = i
      BY <1>1
    <3>2. QED
      BY <1>2, <3>1
  <2>4. \A b \in Range(Fallbacks) : \E i \in 1..Len(s) : s[i] = b
    BY <1>1, <2>3 DEF Range
  <2>5. QED
    BY <2>1, <2>2, <2>4
<1>4. /\ Listed(s, S) \in Seq(S) /\ IsInjective(Listed(s, S))
      /\ Range(Listed(s, S)) = {s[i] : i \in 1..Len(s)} \cap S
  <2> HIDE DEF S
  <2>1. QED
    BY <1>2, ListedFits
<1>5. Candidates(w) = Listed(s, S)
  BY DEF Candidates, s
<1>6. Listed(s, S) \in Seq(Enabled)
  <2>1. Listed(s, S) \in [1..Len(Listed(s, S)) -> S] /\ Len(Listed(s, S)) \in Nat
    BY <1>4, LenProperties
  <2>2. Listed(s, S) \in [1..Len(Listed(s, S)) -> Enabled]
    BY <2>1
  <2>3. QED
    BY <2>1, <2>2, SeqDef
<1>7. QED
  BY <1>3, <1>4, <1>5, <1>6 DEF ListsChain, Chain

\* selectBrowserBackend(): the whole chain is before the call.
LEMMA RenderHonest ==
    ASSUME AllHonest, NEW c \in Calls, NEW x \in Records, x.want \in Wants,
           x.tried = <<>>, Render(c, x)
    PROVE  AllHonest'
<1>1. Once(<<>>) /\ Names(<<>>) = {} /\ <<>> \in Tries
  BY DEF Once, Names, Tries
<1>2. CASE Fail(c, x)
  BY <1>1, <1>2, FailHonest DEF Open
<1>3. CASE Continue(c, x, <<>>, Candidates(x.want))
  <2>1. Splits(x.want, <<>>, Candidates(x.want))
    BY <1>1, ChainIsListed DEF Splits, ListsChain
  <2>2. QED
    BY <1>3, <2>1, ContinueHonest
<1>4. QED
  BY <1>2, <1>3 DEF Render

\* A backend goes from those left to those tried; until then it is one of the
\* chain that has not been tried.
LEMMA NextBackend ==
    ASSUME NEW w, NEW tried, NEW rest, Splits(w, tried, rest), rest # <<>>, NEW outcome \in Outcomes
    PROVE  /\ Splits(w, Append(tried, <<Head(rest), outcome>>), Tail(rest))
           /\ Names(tried) # Chain(w)
<1> DEFINE b == Head(rest)
           t == Append(tried, <<b, outcome>>)
           r == Tail(rest)
<1>1. /\ rest \in Seq(Enabled) /\ tried \in Seq(Enabled \X Outcomes) /\ Len(rest) \in Nat \ {0}
      /\ Len(tried) \in Nat
  BY DEF Splits, Tries
<1>2. b \in Enabled /\ b = rest[1] /\ b \in Range(rest)
  BY <1>1 DEF Range
<1>3. b \notin Names(tried) /\ b \in Chain(w)
  BY <1>2 DEF Splits
<1>4. /\ t \in Tries /\ DOMAIN t = 1..(Len(tried) + 1) /\ t[Len(tried) + 1] = <<b, outcome>>
      /\ \A i \in DOMAIN tried : t[i] = tried[i]
      /\ DOMAIN tried = 1..Len(tried)
  BY <1>1, <1>2 DEF Tries
<1>5. /\ r \in Seq(Enabled) /\ DOMAIN r = 1..(Len(rest) - 1) /\ DOMAIN rest = 1..Len(rest)
      /\ \A i \in DOMAIN r : r[i] = rest[i + 1]
  BY <1>1
<1> HIDE DEF b, t, r
<1>6. Names(t) = Names(tried) \cup {b}
  <2>1. \A i \in DOMAIN t : i \in DOMAIN tried \/ i = Len(tried) + 1
    BY <1>1, <1>4
  <2>2. DOMAIN tried \subseteq DOMAIN t /\ Len(tried) + 1 \in DOMAIN t
    BY <1>1, <1>4
  <2>3. QED
    BY <1>4, <2>1, <2>2 DEF Names
<1>7. Once(t)
  <2>1. \A i \in DOMAIN t : i \in DOMAIN tried \/ i = Len(tried) + 1
    BY <1>1, <1>4
  <2>2. \A i \in DOMAIN tried : t[i][1] # b
    BY <1>3, <1>4 DEF Names
  <2>3. \A i, j \in DOMAIN tried : tried[i][1] = tried[j][1] => i = j
    BY DEF Splits, Once
  <2>4. QED
    BY <1>4, <2>1, <2>2, <2>3 DEF Once
<1>8. \A i, j \in DOMAIN rest : rest[i] = rest[j] => i = j
  BY DEF Splits, IsInjective
<1>9. \A i \in DOMAIN r : i + 1 \in DOMAIN rest /\ i + 1 # 1
  BY <1>1, <1>5
<1>10. IsInjective(r)
  <2>1. ASSUME NEW i \in DOMAIN r, NEW j \in DOMAIN r, r[i] = r[j] PROVE i = j
    <3>1. i + 1 = j + 1
      BY <1>5, <1>8, <1>9, <2>1
    <3>2. i \in Int /\ j \in Int
      BY <1>1, <1>5
    <3>3. QED
      BY <3>1, <3>2
  <2>2. QED
    BY <2>1 DEF IsInjective
<1>11. Range(rest) = Range(r) \cup {b} /\ b \notin Range(r)
  <2>1. 1 \in DOMAIN rest /\ \A i \in DOMAIN rest : i = 1 \/ (i - 1 \in DOMAIN r /\ i - 1 + 1 = i)
    BY <1>1, <1>5
  <2>2. Range(r) \subseteq Range(rest)
    BY <1>5, <1>9 DEF Range
  <2>3. \A i \in DOMAIN rest : rest[i] \in Range(r) \cup {b}
    BY <1>2, <1>5, <2>1 DEF Range
  <2>4. \A i \in DOMAIN r : r[i] # b
    BY <1>2, <1>5, <1>8, <1>9, <2>1
  <2>5. QED
    BY <1>2, <2>2, <2>3, <2>4 DEF Range
<1>12. Names(t) \cap Range(r) = {} /\ Names(t) \cup Range(r) = Chain(w)
  BY <1>6, <1>11 DEF Splits
<1>13. Splits(w, t, r)
  BY <1>4, <1>5, <1>7, <1>10, <1>12 DEF Splits
<1>14. QED
  BY <1>3, <1>13 DEF b, t, r

-----------------------------------------------------------------------------
\* The steps of a call, a client and the walk.

LEMMA HonestCall ==
    ASSUME FInv, AllHonest, NEW c \in Calls
    PROVE  /\ fetch[c] \in Records /\ Honest(fetch[c])
           /\ fetch[c].at \in Waiting => fetch[c].want \in Wants
  BY DEF FInv, CallsFit, CallFits, AllHonest

LEMMA StartHonest ==
    ASSUME FInv, AllHonest, NEW c \in Calls, Start(c)
    PROVE  AllHonest'
<1> DEFINE x == fetch[c]
<1>1. x \in Records /\ x.at = "queued" /\ x.tried = <<>> /\ Once(x.tried) /\ x.want \in Wants
  BY HonestCall DEF Start, Honest, Waiting
<1>2. CASE Fail(c, x)
  BY <1>1, <1>2, FailHonest DEF Open
<1>3. CASE Render(c, x)
  BY <1>1, <1>3, RenderHonest
<1>4. CASE Put(c, [x EXCEPT !.at = "http"])
  <2> DEFINE y == [x EXCEPT !.at = "http"]
  <2>1. y \in Records /\ y.at = "http" /\ y.tried = x.tried
    BY <1>1 DEF Records, Waiting
  <2>2. Put(c, y)
    BY <1>4
  <2> HIDE DEF y
  <2>3. Honest(y)
    BY <1>1, <2>1 DEF Honest
  <2>4. QED
    BY <2>1, <2>2, <2>3, PutHonest
<1>5. QED
  BY <1>2, <1>3, <1>4 DEF Start

LEMMA RedirectedHonest == ASSUME FInv, AllHonest, NEW c \in Calls, Redirected(c) PROVE AllHonest'
<1> DEFINE x == fetch[c]
<1>1. x \in Records /\ x.at = "http" /\ x.tried = <<>> /\ Once(x.tried)
  BY HonestCall DEF Redirected, Honest
<1>2. CASE Fail(c, x)
  BY <1>1, <1>2, FailHonest DEF Open
<1>3. CASE x.hops # MaxRedirects /\ Put(c, [x EXCEPT !.hops = @ + 1])
  <2> DEFINE y == [x EXCEPT !.hops = @ + 1]
  <2>1. x.hops \in 0..MaxRedirects /\ MaxRedirects \in Nat
    BY <1>1, FetchAssumption DEF Records
  <2>2. x.hops + 1 \in 0..MaxRedirects
    BY <1>3, <2>1
  <2>3. y \in Records /\ y.at = "http" /\ y.tried = x.tried
    BY <1>1, <2>2 DEF Records
  <2>4. Put(c, y)
    BY <1>3
  <2> HIDE DEF y
  <2>5. Honest(y)
    BY <1>1, <2>3 DEF Honest
  <2>6. QED
    BY <2>3, <2>4, <2>5, PutHonest
<1>4. QED
  BY <1>2, <1>3 DEF Redirected

LEMMA HttpAnswersHonest ==
    ASSUME FInv, AllHonest, NEW c \in Calls, HttpAnswers(c)
    PROVE  AllHonest'
<1> DEFINE x == [fetch[c] EXCEPT !.hops = 0]
<1>1. fetch[c] \in Records /\ fetch[c].tried = <<>> /\ Once(<<>>) /\ fetch[c].want \in Wants
  BY HonestCall DEF HttpAnswers, Honest, Waiting
<1>2. x \in Records /\ x.tried = <<>> /\ Once(x.tried) /\ x.want \in Wants
  BY <1>1, FetchAssumption DEF Records
<1>3. \/ Fail(c, x) \/ Render(c, x) \/ Deliver(c, x, "clean")
      \/ x.want.strategy = "http" /\ Deliver(c, x, "challenge")
  BY DEF HttpAnswers
<1> HIDE DEF x
<1>4. CASE Fail(c, x) \/ Render(c, x)
  BY <1>2, <1>4, FailHonest, RenderHonest DEF Open
<1>5. CASE Deliver(c, x, "clean")
  BY <1>2, <1>5, DeliverHonest DEF Open
<1>6. CASE x.want.strategy = "http" /\ Deliver(c, x, "challenge")
  BY <1>2, <1>6, DeliverHonest
<1>7. QED
  BY <1>3, <1>4, <1>5, <1>6

LEMMA AdmissionHonest == ASSUME FInv, AllHonest, NEW c \in Calls, Admission(c) PROVE AllHonest'
<1> DEFINE x == fetch[c]
<1>1. /\ x \in Records /\ Once(x.tried) /\ x.rest # <<>> /\ x.want \in Wants
      /\ Splits(x.want, x.tried, x.rest)
  BY HonestCall DEF Admission, Honest
<1>2. CASE Put(c, [x EXCEPT !.at = "browser"])
  <2> DEFINE y == [x EXCEPT !.at = "browser"]
  <2>1. /\ y \in Records /\ y.at = "browser" /\ y.tried = x.tried /\ y.rest = x.rest
        /\ y.want = x.want
    BY <1>1 DEF Records, Waiting
  <2>2. Put(c, y)
    BY <1>2
  <2> HIDE DEF y
  <2>3. Honest(y)
    BY <1>1, <2>1 DEF Honest
  <2>4. QED
    BY <2>1, <2>2, <2>3, PutHonest
<1>3. CASE Continue(c, x, Append(x.tried, <<Head(x.rest), "refused">>), Tail(x.rest))
  <2>1. "refused" \in Outcomes
    BY DEF Outcomes
  <2>2. Splits(x.want, Append(x.tried, <<Head(x.rest), "refused">>), Tail(x.rest))
    BY <1>1, <2>1, NextBackend
  <2>3. QED
    BY <1>1, <1>3, <2>2, ContinueHonest
<1>4. QED
  BY <1>2, <1>3 DEF Admission

LEMMA AttemptHonest == ASSUME FInv, AllHonest, NEW c \in Calls, Attempt(c) PROVE AllHonest'
<1> DEFINE x == fetch[c]
<1>1. /\ x \in Records /\ Once(x.tried) /\ x.rest # <<>> /\ x.want \in Wants
      /\ Splits(x.want, x.tried, x.rest)
  BY HonestCall DEF Attempt, Honest
<1>2. Open(x)
  <2>1. "refused" \in Outcomes
    BY DEF Outcomes
  <2>2. QED
    BY <1>1, <2>1, NextBackend DEF Open
<1>3. \/ Fail(c, x) \/ Deliver(c, [x EXCEPT !.rest = <<>>], "clean")
      \/ \E outcome \in Outcomes :
             Continue(c, x, Append(x.tried, <<Head(x.rest), outcome>>), Tail(x.rest))
  BY DEF Attempt, GiveUp, Onward, Outcomes
<1>4. CASE Fail(c, x)
  BY <1>1, <1>2, <1>4, FailHonest
<1>5. CASE Deliver(c, [x EXCEPT !.rest = <<>>], "clean")
  <2> DEFINE y == [x EXCEPT !.rest = <<>>]
  <2>1. y \in Records /\ y.tried = x.tried /\ y.want = x.want
    <3>1. <<>> \in Seq(Enabled)
      OBVIOUS
    <3>2. QED
      BY <1>1, <3>1 DEF Records
  <2>2. Deliver(c, y, "clean")
    BY <1>5
  <2> HIDE DEF y
  <2>3. Open(y) /\ Once(y.tried)
    BY <1>1, <1>2, <2>1 DEF Open
  <2>4. QED
    BY <2>1, <2>2, <2>3, DeliverHonest
<1>6. ASSUME NEW outcome \in Outcomes,
             Continue(c, x, Append(x.tried, <<Head(x.rest), outcome>>), Tail(x.rest))
      PROVE  AllHonest'
  <2>1. Splits(x.want, Append(x.tried, <<Head(x.rest), outcome>>), Tail(x.rest))
    BY <1>1, NextBackend
  <2>2. QED
    BY <1>1, <1>6, <2>1, ContinueHonest
<1>7. QED
  BY <1>3, <1>4, <1>5, <1>6

LEMMA StoredHonest == ASSUME FInv, AllHonest, NEW c \in Calls, Stored(c) PROVE AllHonest'
<1>1. /\ fetch[c] \in Records /\ Once(fetch[c].tried) /\ Open(fetch[c])
      /\ fetch[c].result = "clean"
  BY HonestCall DEF Stored, Honest, FInv, CallsFit, CallFits
<1>2. TellsTruth(fetch[c])
  BY <1>1 DEF TellsTruth, Open
<1>3. QED
  BY <1>1, <1>2, FinishHonest, FailHonest DEF Stored

LEMMA CacheAnswersHonest ==
    ASSUME FInv, AllHonest, NEW c \in Calls, CacheAnswers(c)
    PROVE  AllHonest'
<1> DEFINE x == fetch[c]
<1>1. x \in Records /\ x.tried = <<>> /\ Once(x.tried)
  BY HonestCall DEF CacheAnswers, Honest
<1>2. ASSUME NEW phase \in {"joined", "queued"}, Put(c, [x EXCEPT !.at = phase]) PROVE AllHonest'
  <2> DEFINE y == [x EXCEPT !.at = phase]
  <2>1. y \in Records /\ y.at = phase /\ y.tried = x.tried
    BY <1>1 DEF Records, Waiting
  <2>2. Put(c, y)
    BY <1>2
  <2> HIDE DEF y
  <2>3. Honest(y)
    BY <1>1, <2>1 DEF Honest
  <2>4. QED
    BY <2>1, <2>2, <2>3, PutHonest
<1>3. CASE Put(c, [x EXCEPT !.at = "done", !.result = "clean"])
  <2> DEFINE y == [x EXCEPT !.at = "done", !.result = "clean"]
  <2>1. y \in Records /\ y.at = "done" /\ y.tried = x.tried /\ y.result = "clean"
    BY <1>1 DEF Records
  <2>2. Put(c, y)
    BY <1>3
  <2> HIDE DEF y
  <2>3. Honest(y)
    BY <1>1, <2>1 DEF Honest, TellsTruth
  <2>4. QED
    BY <2>1, <2>2, <2>3, PutHonest
<1>4. QED
  BY <1>2, <1>3 DEF CacheAnswers

LEMMA AskedHonest ==
    ASSUME AllHonest, NEW c \in Calls, NEW w \in Wants, NEW phase \in {"cached", "queued"},
           Put(c, [Idle EXCEPT !.want = w, !.at = phase])
    PROVE  AllHonest'
<1> DEFINE y == [Idle EXCEPT !.want = w, !.at = phase]
<1>1. y \in Records /\ y.at = phase /\ y.tried = <<>>
  <2>1. Idle \in Records /\ Idle.tried = <<>>
    BY IdleHonest DEF Idle
  <2>2. QED
    BY <2>1 DEF Records, Waiting
<1>2. Put(c, y)
  OBVIOUS
<1> HIDE DEF y
<1>3. Honest(y)
  BY <1>1 DEF Honest, Once
<1>4. QED
  BY <1>1, <1>2, <1>3, PutHonest

LEMMA StepHonest ==
    ASSUME FInv, AllHonest, [Next]_vars
    PROVE  AllHonest'
<1>1. CASE UNCHANGED fetch
  BY <1>1 DEF AllHonest
<1>2. ASSUME NEW c \in Calls, FetchStep(c) PROVE AllHonest'
  BY <1>2, CacheAnswersHonest, StartHonest, RedirectedHonest, HttpAnswersHonest, AdmissionHonest,
     AttemptHonest, StoredHonest DEF FetchStep
<1>3. ASSUME NEW c \in Calls, NEW w \in Wants, Ask(c, w) PROVE AllHonest'
  <2>1. CASE w.cacheable
    BY <1>3, <2>1, AskedHonest DEF Ask
  <2>2. CASE ~w.cacheable
    BY <1>3, <2>2, AskedHonest DEF Ask
  <2>3. QED
    BY <2>1, <2>2
<1>4. ASSUME NEW c \in Calls, Put(c, Idle) PROVE AllHonest'
  BY <1>4, IdleHonest, PutHonest
<1>5. CASE Turn
  BY <1>1, <1>5, AskedHonest, CrawlAssumption DEF Turn
<1>6. CASE Expand
  BY <1>4, <1>6, CrawlAssumption DEF Expand
<1>7. CASE Next
  <2>1. CASE \E c \in Calls : FetchStep(c) /\ UNCHANGED crawlVars
    BY <1>2, <2>1
  <2>2. CASE \E c \in Calls \ {Mapper} :
                 /\ (\E w \in Wants \ {MapWant} : at = "idle" /\ Ask(c, w)) \/ Take(c)
                 /\ UNCHANGED crawlVars
    BY <1>3, <1>4, <2>2 DEF Take
  <2>3. CASE FetchAround \/ Finished \/ Answered \/ \E s \in Sites, m \in Maps : Map(s, m)
    <3>1. UNCHANGED fetch
      BY <2>3 DEF FetchAround, Lost, Evicted, Finished, Answered, Map, fetchVars
    <3>2. QED
      BY <1>1, <3>1
  <2>4. QED
    BY <1>5, <1>6, <1>7, <2>1, <2>2, <2>3 DEF Next, Walk
<1>8. CASE UNCHANGED vars
  BY <1>1, <1>8 DEF vars, fetchVars
<1>9. QED
  BY <1>7, <1>8

LEMMA InitHonest == Init => AllHonest
  BY IdleHonest DEF Init, FetchInit, AllHonest

LEMMA AlwaysHonest == Spec => []AllHonest
<1>1. FInv /\ AllHonest /\ [Next]_vars => AllHonest'
  BY StepHonest
<1>2. QED
  BY <1>1, Invariant, InitHonest, PTL DEF Spec

\* runChallengeFallback(), adaptiveFetch() and coalesce(): no backend is tried
\* twice for a call, a browser's page is delivered with a challenge only after
\* every backend of the chain has been tried, and who joined a call waits for
\* one in the air; for every order of backends.
THEOREM CallersAreToldTheTruth == Spec => []FetchesAreHonest
<1>1. FInv => JoinedHaveAFlight
  BY DEF FInv, CallsFit, CallFits, FlightFits, JoinedHaveAFlight, Active, Waiting
<1>2. AllHonest => EachBackendOnce /\ MarkIsHonest /\ ChallengeMeansAll
  <2> SUFFICES ASSUME AllHonest PROVE EachBackendOnce /\ MarkIsHonest /\ ChallengeMeansAll
    OBVIOUS
  <2>1. EachBackendOnce
    BY DEF AllHonest, Honest, Once, EachBackendOnce
  <2>2. \A c \in Calls : fetch[c].at = "done" => TellsTruth(fetch[c])
    BY DEF AllHonest, Honest
  <2>3. \A c \in Calls : Tried(c) = Names(fetch[c].tried) /\ (Saw(c, "challenge") <=> LastPage(fetch[c].tried))
    BY DEF Tried, Names, Saw, LastPage
  <2>4. MarkIsHonest
    BY <2>2, <2>3 DEF TellsTruth, MarkIsHonest
  <2>5. ChallengeMeansAll
    BY <2>2, <2>3 DEF TellsTruth, ChallengeMeansAll
  <2>6. QED
    BY <2>1, <2>4, <2>5
<1>3. QED
  BY <1>1, <1>2, AlwaysHonest, Invariant, PTL DEF FetchesAreHonest

\* A call's redirects, backends, attempts and result, the table of flights, the
\* cache and the history keep their types.
THEOREM FetchTypesHold == Spec => []FetchTypeOK
<1>1. FInv /\ AllHonest => FetchTypeOK
  BY DEF FInv, CallsFit, StoredFits, HistoryFits, AllHonest, Records, Tries, FetchTypeOK
<1>2. QED
  BY <1>1, AlwaysHonest, Invariant, PTL

-----------------------------------------------------------------------------
\* The walk of automation/map.ts

\* Page p is listed with depth d; it waits with depth d; it has been looked at.
FoundAt(p, d) ==
    \E i \in 1..Len(results) : results[i].page = p /\ results[i].depth = d /\ results[i].view = "page"
QueuedAt(p, d) == \E i \in 1..Len(pending) : pending[i].page = p /\ pending[i].depth = d
IsSeen(p) == <<p, "page">> \in seen

\* The walk does not miss that p is within n: it is not listed with more, and
\* it has been looked at or waits with no more.
Minded(p, n) ==
    /\ \A d \in Nat : FoundAt(p, d) => d <= n
    /\ IsSeen(p) \/ \E d \in Nat : QueuedAt(p, d) /\ d <= n

\* What gave p the depth d.
Reached(p, d) ==
    IF d = 0 THEN p = Seed ELSE \E q \in readPages : FoundAt(q, d - 1) /\ p \in site[q].links

Shapes ==
    /\ site \in Sites \cup {NoSite} /\ limits \in Maps \cup {NoLimits}
    /\ site \in [Pages -> [links : SUBSET Pages, tab : BOOLEAN]]
    /\ limits \in [maximum : Nat, maxDepth : Nat, matched : SUBSET Pages]
    /\ at \in {"idle", "next", "fetching", "done", "failed"}
    /\ pending \in Seq([page : Pages, depth : Nat])
    /\ seen \subseteq Pages \X Views /\ readPages \subseteq Pages
    /\ results \in Seq([page : Pages, depth : Nat, view : Views])

\* The queue is sorted, over two depths at most, and nothing listed is deeper.
QueueSorted ==
    /\ \A i, j \in 1..Len(pending) :
         i <= j => pending[i].depth <= pending[j].depth /\ pending[j].depth <= pending[i].depth + 1
    /\ \A i \in 1..Len(pending), j \in 1..Len(results) : results[j].depth <= pending[i].depth
    /\ \A i \in 1..Len(pending) : pending[i].depth <= limits.maxDepth

\* Everything is listed once, is let through and is within the limits; and
\* what was looked at and let through is listed, unless that failed the walk.
ListFits ==
    /\ \A i, j \in 1..Len(results) :
         results[i].page = results[j].page /\ results[i].view = results[j].view => i = j
    /\ \A i \in 1..Len(results) :
         /\ <<results[i].page, results[i].view>> \in seen /\ results[i].depth <= limits.maxDepth
         /\ results[i].view = "page" => results[i].page \in limits.matched
    /\ \A p \in Pages : IsSeen(p) =>
         (\E d \in Nat : FoundAt(p, d)) \/ p \notin limits.matched \/ at = "failed"
    /\ Len(results) <= limits.maximum

\* Depths come from links, and links of pages that were read are minded.
TreeFits ==
    /\ \A p \in Pages, d \in Nat : FoundAt(p, d) \/ QueuedAt(p, d) => Reached(p, d)
    /\ \A q \in readPages : \E e \in Nat : FoundAt(q, e)
    /\ \A q \in readPages, e \in Nat : FoundAt(q, e) => \A p \in site[q].links : Minded(p, e + 1)
    /\ at # "idle" => Minded(Seed, 0)

\* A page that is being fetched is the last one listed, and the deepest.
FetchFits ==
    LET last == results[Len(results)] IN
    /\ Len(results) > 0 /\ last.view = "page" /\ last.depth < limits.maxDepth
    /\ \A j \in 1..Len(results) : results[j].depth <= last.depth
    /\ \A i \in 1..Len(pending) : pending[i].depth <= last.depth + 1

WalkFits ==
    /\ Shapes /\ QueueSorted /\ ListFits /\ TreeFits
    /\ at = "fetching" => FetchFits
    /\ at = "done" => pending = <<>> \/ ~Room
    /\ at = "idle" => results = <<>>

LEMMA WalkStays == ASSUME WalkFits, UNCHANGED crawlVars PROVE WalkFits'
<1>1. UNCHANGED <<site, limits, at, pending, seen, results, readPages>>
  BY DEF crawlVars
<1>2. Shapes' /\ QueueSorted' /\ (FetchFits' <=> FetchFits) /\ (Room' <=> Room)
  BY <1>1 DEF WalkFits, Shapes, QueueSorted, FetchFits, Room
<1>3. /\ \A p, d : (FoundAt(p, d)' <=> FoundAt(p, d)) /\ (QueuedAt(p, d)' <=> QueuedAt(p, d))
      /\ \A p : IsSeen(p)' <=> IsSeen(p)
  BY <1>1 DEF FoundAt, QueuedAt, IsSeen
<1>4. /\ \A p, n : Minded(p, n)' <=> Minded(p, n)
      /\ \A p, d : Reached(p, d)' <=> Reached(p, d)
  BY <1>1, <1>3 DEF Minded, Reached
<1>5. ListFits' /\ TreeFits'
  BY <1>1, <1>3, <1>4 DEF WalkFits, ListFits, TreeFits
<1>6. QED
  BY <1>1, <1>2, <1>5 DEF WalkFits

\* With nothing listed and at most the seed to look at nothing is to be shown.
Nothing ==
    /\ Shapes /\ results = <<>> /\ readPages = {} /\ seen = {}
    /\ at \notin {"fetching", "done"} /\ Len(pending) <= 1
    /\ \A i \in 1..Len(pending) : pending[i] = [page |-> Seed, depth |-> 0]
    /\ at # "idle" => Len(pending) = 1

LEMMA NothingFits == Nothing => WalkFits
<1> SUFFICES ASSUME Nothing PROVE WalkFits
  OBVIOUS
<1> USE DEF Nothing
<1>1. Len(results) = 0 /\ Len(pending) \in Nat
  BY LenProperties DEF Shapes
<1>2. \A p, d : ~FoundAt(p, d) /\ ~IsSeen(p)
  BY <1>1 DEF FoundAt, IsSeen
<1>3. \A i \in 1..Len(pending) : i = 1 /\ pending[i].page = Seed /\ pending[i].depth = 0
  BY <1>1
<1>4. limits.maxDepth \in Nat /\ limits.maximum \in Nat
  BY DEF Shapes
<1>5. QueueSorted
  BY <1>1, <1>3, <1>4 DEF QueueSorted
<1>6. ListFits
  BY <1>1, <1>2, <1>4 DEF ListFits
<1>7. \A p, d : QueuedAt(p, d) => p = Seed /\ d = 0
  BY <1>3 DEF QueuedAt
<1>8. at # "idle" => QueuedAt(Seed, 0)
  BY <1>3 DEF QueuedAt
<1>9. TreeFits
  BY <1>2, <1>7, <1>8 DEF TreeFits, Reached, Minded
<1>10. QED
  BY <1>5, <1>6, <1>9 DEF WalkFits

\* A turn of the loop.
LEMMA TurnWalks == ASSUME WalkFits, Turn PROVE WalkFits'
<1> DEFINE n == Len(pending)
           h == Head(pending)
           e == [page |-> h.page, depth |-> h.depth, view |-> "page"]
           Skip == /\ results' = results /\ (h.page \notin limits.matched \/ at' = "failed" \/ seen' = seen)
                   /\ at' \in {at, "failed"}
           List == /\ results' = Append(results, e) /\ ~IsSeen(h.page) /\ h.page \in limits.matched
                   /\ \/ at' = at
                      \/ at' = "fetching" /\ h.depth < limits.maxDepth
<1>1. /\ pending \in Seq([page : Pages, depth : Nat]) /\ results \in Seq([page : Pages, depth : Nat, view : Views])
      /\ pending # <<>> /\ at = "next" /\ pending' = Tail(pending) /\ limits.maxDepth \in Nat
      /\ limits.maximum \in Nat
  BY DEF WalkFits, Shapes, Turn, Left
<1>2. /\ n \in Nat /\ n > 0 /\ h = pending[1] /\ h \in [page : Pages, depth : Nat]
      /\ pending' \in Seq([page : Pages, depth : Nat]) /\ Len(pending') = n - 1
      /\ \A i \in 1..(n - 1) : pending'[i] = pending[i + 1]
  <2>1. n \in Nat \ {0}
    BY <1>1, EmptySeq
  <2>2. /\ h = pending[1] /\ pending' \in Seq([page : Pages, depth : Nat]) /\ Len(pending') = n - 1
        /\ \A i \in 1..(n - 1) : pending'[i] = pending[i + 1]
    BY <1>1, HeadTailProperties
  <2>3. h \in [page : Pages, depth : Nat]
    <3>1. 1 \in 1..n
      BY <2>1
    <3>2. pending[1] \in [page : Pages, depth : Nat]
      BY <1>1, <3>1, ElementOfSeq
    <3>3. QED
      BY <2>2, <3>2
  <2>4. QED
    BY <2>1, <2>2, <2>3
<1>3. /\ h.page \in Pages /\ h.depth \in Nat /\ e \in [page : Pages, depth : Nat, view : Views]
      /\ \A i \in 1..n : pending[i].page \in Pages /\ pending[i].depth \in Nat
  <2>1. \A i \in 1..n : pending[i] \in [page : Pages, depth : Nat]
    BY <1>1, ElementOfSeq
  <2>2. QED
    BY <1>2, <2>1 DEF Views
<1>4. site' = site /\ limits' = limits /\ readPages' = readPages /\ Len(results) < limits.maximum
  BY DEF Turn, Room
<1>5. /\ seen' = seen \cup {<<h.page, "page">>} /\ (Skip \/ List)
      /\ seen' = seen => IsSeen(h.page)
  <2>1. CASE Fresh(h.page)
    BY <1>1, <1>3, <2>1 DEF Turn, Fresh, IsSeen, Deep
  <2>2. CASE ~Fresh(h.page)
    BY <1>1, <2>2 DEF Turn, Fresh, IsSeen
  <2>3. QED
    BY <2>1, <2>2
<1> HIDE DEF n, h
<1>6. \A p : IsSeen(p)' <=> IsSeen(p) \/ p = h.page
  BY <1>5 DEF IsSeen
<1>7. /\ Len(results) \in Nat /\ results' \in Seq([page : Pages, depth : Nat, view : Views])
      /\ List => /\ Len(results') = Len(results) + 1 /\ results'[Len(results) + 1] = e
                 /\ \A i \in 1..Len(results) : results'[i] = results[i]
      /\ \A i \in 1..Len(results) : results[i].depth \in Nat /\ results[i].page \in Pages
  <2>1. \A i \in 1..Len(results) : results[i] \in [page : Pages, depth : Nat, view : Views]
    BY <1>1, ElementOfSeq
  <2>2. \A i \in 1..Len(results) : results[i].depth \in Nat /\ results[i].page \in Pages
    BY <2>1
  <2>3. Len(results) \in Nat
    BY <1>1, LenProperties
  <2> HIDE DEF e
  <2>4. /\ Append(results, e) \in Seq([page : Pages, depth : Nat, view : Views])
        /\ Len(Append(results, e)) = Len(results) + 1 /\ Append(results, e)[Len(results) + 1] = e
        /\ \A i \in 1..Len(results) : Append(results, e)[i] = results[i]
    BY <1>1, <1>3, AppendProperties
  <2>5. QED
    BY <1>1, <1>5, <2>2, <2>3, <2>4
<1>8. \A p, d : FoundAt(p, d)' <=> FoundAt(p, d) \/ (List /\ p = h.page /\ d = h.depth)
  <2>1. CASE Skip
    <3>1. ~List
      BY <1>7, <2>1
    <3>2. results' = results
      BY <2>1
    <3> HIDE DEF List
    <3>3. QED
      BY <3>1, <3>2 DEF FoundAt
  <2>2. CASE List
    <3>1. e.page = h.page /\ e.depth = h.depth /\ e.view = "page"
      OBVIOUS
    <3> HIDE DEF e, List
    <3>2. \A i \in 1..Len(results') : i \in 1..Len(results) \/ i = Len(results) + 1
      BY <1>7, <2>2
    <3>3. \A i \in 1..Len(results) : i \in 1..Len(results')
      BY <1>7, <2>2
    <3>4. Len(results) + 1 \in 1..Len(results')
      BY <1>7, <2>2
    <3>5. \A p, d : FoundAt(p, d) => FoundAt(p, d)'
      BY <1>7, <2>2, <3>3 DEF FoundAt
    <3>6. ASSUME NEW p, NEW d, p = h.page, d = h.depth PROVE FoundAt(p, d)'
      BY <1>7, <2>2, <3>1, <3>4, <3>6 DEF FoundAt
    <3>7. \A p, d : FoundAt(p, d)' => FoundAt(p, d) \/ (p = h.page /\ d = h.depth)
      BY <1>7, <2>2, <3>1, <3>2 DEF FoundAt
    <3>8. TAKE p, d
    <3>9. FoundAt(p, d) => FoundAt(p, d)'
      BY <3>5
    <3>10. FoundAt(p, d)' => FoundAt(p, d) \/ (p = h.page /\ d = h.depth)
      BY <3>7
    <3>11. p = h.page /\ d = h.depth => FoundAt(p, d)'
      BY <3>6
    <3> HIDE DEF FoundAt
    <3>12. QED
      BY <2>2, <3>9, <3>10, <3>11
  <2>3. QED
    BY <1>5, <2>1, <2>2
<1>9. /\ \A p, d : QueuedAt(p, d)' => QueuedAt(p, d)
      /\ \A p, d : QueuedAt(p, d) => QueuedAt(p, d)' \/ (p = h.page /\ d = h.depth)
      /\ QueuedAt(h.page, h.depth)
  <2>1. \A i \in 1..(n - 1) : i + 1 \in 1..n
    BY <1>2
  <2>2. \A i \in 1..n : i = 1 \/ (i - 1 \in 1..(n - 1) /\ (i - 1) + 1 = i)
    BY <1>2
  <2>3. 1 \in 1..n
    BY <1>2
  <2>4. \A p, d : QueuedAt(p, d)' => QueuedAt(p, d)
    BY <1>2, <2>1 DEF QueuedAt, n
  <2>5. \A p, d : QueuedAt(p, d) => QueuedAt(p, d)' \/ (p = h.page /\ d = h.depth)
    <3>1. SUFFICES ASSUME NEW p, NEW d, QueuedAt(p, d) PROVE QueuedAt(p, d)' \/ (p = h.page /\ d = h.depth)
      OBVIOUS
    <3>2. PICK i \in 1..n : pending[i].page = p /\ pending[i].depth = d
      BY <3>1 DEF QueuedAt, n
    <3>3. CASE i = 1
      BY <1>2, <3>2, <3>3
    <3>4. CASE i # 1
      <4>1. i - 1 \in 1..Len(pending') /\ pending'[i - 1] = pending[i]
        BY <1>2, <2>2, <3>4
      <4>2. QED
        BY <3>2, <4>1 DEF QueuedAt
    <3>5. QED
      BY <3>3, <3>4
  <2>6. QED
    BY <1>2, <2>3, <2>4, <2>5 DEF QueuedAt, n
<1>10. \A p, d : QueuedAt(p, d) => h.depth <= d
  <2>1. \A i \in 1..n : 1 \in 1..n /\ 1 <= i
    BY <1>2
  <2>2. \A i \in 1..n : h.depth <= pending[i].depth
    BY <1>2, <2>1 DEF WalkFits, QueueSorted, n
  <2>3. QED
    BY <2>2 DEF QueuedAt, n
<1>11. Shapes'
  <2>1. at' \in {"idle", "next", "fetching", "done", "failed"}
    BY <1>1, <1>5
  <2>2. seen' \subseteq Pages \X Views
    BY <1>3, <1>5 DEF WalkFits, Shapes, Views
  <2>3. QED
    BY <1>2, <1>4, <1>7, <2>1, <2>2 DEF WalkFits, Shapes
<1>12. QueueSorted'
  <2>1. \A i, j \in 1..Len(pending') :
          i <= j => pending'[i].depth <= pending'[j].depth /\ pending'[j].depth <= pending'[i].depth + 1
    <3>1. TAKE i, j \in 1..Len(pending')
    <3>2. i + 1 \in 1..n /\ j + 1 \in 1..n /\ (i <= j => i + 1 <= j + 1)
      BY <1>2
    <3>3. QED
      BY <1>2, <3>2 DEF WalkFits, QueueSorted, n
  <2>2. \A i \in 1..Len(pending'), j \in 1..Len(results') : results'[j].depth <= pending'[i].depth
    <3>1. TAKE i \in 1..Len(pending'), j \in 1..Len(results')
    <3>2. i + 1 \in 1..n /\ 1 \in 1..n /\ 1 <= i + 1 /\ pending'[i] = pending[i + 1]
      BY <1>2
    <3>3. h.depth <= pending[i + 1].depth
      BY <1>2, <3>2 DEF WalkFits, QueueSorted, n
    <3>4. CASE Skip
      BY <3>2, <3>4 DEF WalkFits, QueueSorted, n
    <3>5. CASE List
      <4>1. CASE j = Len(results) + 1
        BY <1>7, <3>2, <3>3, <3>5, <4>1
      <4>2. CASE j # Len(results) + 1
        <5>1. j \in 1..Len(results)
          BY <1>7, <3>5, <4>2
        <5>2. QED
          BY <1>7, <3>2, <3>5, <5>1 DEF WalkFits, QueueSorted, n
      <4>3. QED
        BY <4>1, <4>2
    <3>6. QED
      BY <1>5, <3>4, <3>5
  <2>3. \A i \in 1..Len(pending') : pending'[i].depth <= limits'.maxDepth
    <3>1. TAKE i \in 1..Len(pending')
    <3>2. i + 1 \in 1..n /\ pending'[i] = pending[i + 1]
      BY <1>2
    <3>3. QED
      BY <1>4, <3>2 DEF WalkFits, QueueSorted, n
  <2>4. QED
    BY <2>1, <2>2, <2>3 DEF QueueSorted
<1>13. ListFits'
  <2>1. \A p \in Pages : IsSeen(p)' =>
          (\E d \in Nat : FoundAt(p, d)') \/ p \notin limits'.matched \/ at' = "failed"
    <3>1. SUFFICES ASSUME NEW p \in Pages, IsSeen(p)', at' # "failed", p \in limits.matched
                   PROVE  \E d \in Nat : FoundAt(p, d)'
      BY <1>4
    <3>2. CASE IsSeen(p)
      <4>1. \E d \in Nat : FoundAt(p, d)
        BY <1>1, <3>1, <3>2 DEF WalkFits, ListFits
      <4> HIDE DEF List
      <4>2. QED
        BY <1>8, <4>1
    <3>3. CASE ~IsSeen(p)
      <4>1. p = h.page /\ ~IsSeen(h.page)
        BY <1>6, <3>1, <3>3
      <4>2. List
        BY <1>5, <3>1, <4>1
      <4>3. QED
        BY <1>3, <1>8, <4>1, <4>2
    <3>4. QED
      BY <3>2, <3>3
  <2>2. CASE Skip
    BY <1>4, <1>5, <2>1, <2>2 DEF WalkFits, ListFits
  <2>3. CASE List
    <3>1. h.depth <= limits.maxDepth
      BY <1>2 DEF WalkFits, QueueSorted, n
    <3>2. e.page = h.page /\ e.depth = h.depth /\ e.view = "page"
      OBVIOUS
    <3> HIDE DEF e
    <3>3. \A i \in 1..Len(results') :
            /\ <<results'[i].page, results'[i].view>> \in seen' /\ results'[i].depth <= limits'.maxDepth
            /\ results'[i].view = "page" => results'[i].page \in limits'.matched
      BY <1>4, <1>5, <1>7, <2>3, <3>1, <3>2 DEF WalkFits, ListFits
    <3>4. \A i \in 1..Len(results) : ~(results[i].page = e.page /\ results[i].view = e.view)
      BY <2>3, <3>2 DEF WalkFits, ListFits, IsSeen
    <3>5. \A i, j \in 1..Len(results') :
            results'[i].page = results'[j].page /\ results'[i].view = results'[j].view => i = j
      <4>1. TAKE i, j \in 1..Len(results')
      <4>2. /\ i \in 1..Len(results) \/ i = Len(results) + 1
            /\ j \in 1..Len(results) \/ j = Len(results) + 1
        BY <1>7, <2>3
      <4>3. QED
        BY <1>7, <2>3, <3>4, <4>2 DEF WalkFits, ListFits
    <3>6. Len(results') <= limits'.maximum
      BY <1>1, <1>4, <1>7, <2>3
    <3>7. QED
      BY <2>1, <3>3, <3>5, <3>6 DEF ListFits
  <2>4. QED
    BY <1>5, <2>2, <2>3
<1>14. ASSUME NEW p, NEW m \in Nat, Minded(p, m) PROVE Minded(p, m)'
  <2>1. ASSUME NEW d \in Nat, FoundAt(p, d)' PROVE d <= m
    <3>1. CASE FoundAt(p, d)
      BY <1>14, <3>1 DEF Minded
    <3>2. CASE List /\ p = h.page /\ d = h.depth
      <4>1. PICK c \in Nat : QueuedAt(p, c) /\ c <= m
        BY <1>14, <3>2 DEF Minded
      <4>2. h.depth <= c
        BY <1>10, <4>1
      <4>3. QED
        BY <1>3, <3>2, <4>1, <4>2
    <3>3. QED
      BY <1>8, <2>1, <3>1, <3>2
  <2>2. IsSeen(p)' \/ \E d \in Nat : QueuedAt(p, d)' /\ d <= m
    BY <1>6, <1>9, <1>14 DEF Minded
  <2>3. QED
    BY <2>1, <2>2 DEF Minded
<1>15. ASSUME NEW p, NEW d \in Nat, Reached(p, d) PROVE Reached(p, d)'
  <2> HIDE DEF List
  <2>1. QED
    BY <1>4, <1>8, <1>15 DEF Reached
<1>16. TreeFits'
  <2>1. \A p \in Pages, d \in Nat : FoundAt(p, d)' \/ QueuedAt(p, d)' => Reached(p, d)'
    <3>1. TAKE p \in Pages, d \in Nat
    <3>2. FoundAt(p, d)' \/ QueuedAt(p, d)' => FoundAt(p, d) \/ QueuedAt(p, d)
      BY <1>8, <1>9
    <3>3. QED
      BY <1>15, <3>2 DEF WalkFits, TreeFits
  <2>2. \A q \in readPages' : \E c \in Nat : FoundAt(q, c)'
    <3> HIDE DEF List
    <3>1. QED
      BY <1>4, <1>8 DEF WalkFits, TreeFits
  <2>3. \A q \in readPages', c \in Nat : FoundAt(q, c)' => \A p \in site'[q].links : Minded(p, c + 1)'
    <3>1. TAKE q \in readPages', c \in Nat
    <3>2. PICK b \in Nat : FoundAt(q, b)
      BY <1>4 DEF WalkFits, TreeFits
    <3>3. IsSeen(q)
      BY <3>2 DEF WalkFits, ListFits, FoundAt, IsSeen
    <3>4. FoundAt(q, c)' => FoundAt(q, c)
      BY <1>8, <3>3
    <3>5. QED
      BY <1>4, <1>14, <3>1, <3>4 DEF WalkFits, TreeFits
  <2>4. at' # "idle" => Minded(Seed, 0)'
    BY <1>1, <1>14 DEF WalkFits, TreeFits
  <2>5. QED
    BY <2>1, <2>2, <2>3, <2>4 DEF TreeFits
<1>17. at' = "fetching" => FetchFits'
  <2>1. SUFFICES ASSUME List, h.depth < limits.maxDepth PROVE FetchFits'
    BY <1>1, <1>5
  <2>2. Len(results') > 0 /\ results'[Len(results')] = e
    BY <1>7, <2>1
  <2>3. e.depth = h.depth /\ e.view = "page"
    OBVIOUS
  <2> HIDE DEF e
  <2>4. \A j \in 1..Len(results') : results'[j].depth <= h.depth
    <3>1. TAKE j \in 1..Len(results')
    <3>2. CASE j = Len(results) + 1
      BY <1>3, <1>7, <2>1, <2>3, <3>2
    <3>3. CASE j # Len(results) + 1
      <4>1. j \in 1..Len(results) /\ 1 \in 1..n
        BY <1>2, <1>7, <2>1, <3>3
      <4>2. QED
        BY <1>2, <1>7, <2>1, <4>1 DEF WalkFits, QueueSorted, n
    <3>4. QED
      BY <3>2, <3>3
  <2>5. \A i \in 1..Len(pending') : pending'[i].depth <= h.depth + 1
    <3>1. TAKE i \in 1..Len(pending')
    <3>2. i + 1 \in 1..n /\ 1 \in 1..n /\ 1 <= i + 1 /\ pending'[i] = pending[i + 1]
      BY <1>2
    <3>3. QED
      BY <1>2, <3>2 DEF WalkFits, QueueSorted, n
  <2>6. QED
    BY <1>4, <2>1, <2>2, <2>3, <2>4, <2>5 DEF FetchFits
<1>18. at' \notin {"done", "idle"}
  BY <1>1, <1>5
<1>19. QED
  BY <1>11, <1>12, <1>13, <1>16, <1>17, <1>18 DEF WalkFits

\* Every member of a finite set is somewhere in any arrangement of it.
LEMMA ArrangementFits ==
    ASSUME NEW S, IsFiniteSet(S), NEW l \in SetToSeqs(S)
    PROVE  /\ l \in Seq(S) /\ DOMAIN l = 1..Len(l)
           /\ \A x \in S : \E i \in 1..Len(l) : l[i] = x
<1> DEFINE k == Cardinality(S)
<1>1. /\ k \in Nat /\ IsFiniteSet(1..k) /\ Cardinality(1..k) = k
  <2>1. k \in Nat
    BY FS_CardinalityType
  <2>2. IsFiniteSet(1..k) /\ Cardinality(1..k) = k
    BY <2>1, FS_Interval
  <2>3. QED
    BY <2>1, <2>2
<1>2. l \in [1..k -> S] /\ \A i, j \in 1..k : i # j => l[i] # l[j]
  BY DEF SetToSeqs
<1> HIDE DEF k
<1>3. l \in Seq(S)
  BY <1>1, <1>2, SeqDef
<1>4. DOMAIN l = 1..Len(l) /\ Len(l) \in Nat
  BY <1>3, LenProperties
<1>5. l \in Injection(1..k, S)
  BY <1>2 DEF Injection, IsInjective
<1>6. l \in Surjection(1..k, S)
  BY <1>1, <1>5, FS_Injection DEF k
<1>7. \A x \in S : \E i \in 1..k : l[i] = x
  BY <1>6 DEF Surjection
<1>8. 1..k = 1..Len(l)
  BY <1>2, <1>4
<1>9. QED
  BY <1>3, <1>4, <1>7, <1>8

\* The links of a page are queued, and perhaps its view is listed.
LEMMA ReadWalks ==
    ASSUME WalkFits, at = "fetching", at' = "next", site' = site, limits' = limits,
           readPages' = readPages \cup {Last(results).page},
           NEW S \in SUBSET site[Last(results).page].links, NEW links \in SetToSeqs(S),
           \A p \in site[Last(results).page].links \ S : IsSeen(p),
           pending' = pending \o [i \in DOMAIN links |-> [page |-> links[i], depth |-> Last(results).depth + 1]],
           \/ results' = results /\ seen' = seen
           \/ /\ results' = Append(results, [page |-> Last(results).page, depth |-> Last(results).depth, view |-> "view"])
              /\ seen' = seen \cup {<<Last(results).page, "view">>}
              /\ <<Last(results).page, "view">> \notin seen /\ Room
    PROVE  WalkFits'
<1> DEFINE n == Len(pending)
           m == Len(results)
           q == Last(results)
           k == Len(links)
           ext == [i \in DOMAIN links |-> [page |-> links[i], depth |-> q.depth + 1]]
           v == [page |-> q.page, depth |-> q.depth, view |-> "view"]
           LinksOnly == results' = results /\ seen' = seen
           LinksAndView == /\ results' = Append(results, v) /\ seen' = seen \cup {<<q.page, "view">>}
                           /\ <<q.page, "view">> \notin seen /\ Len(results) < limits.maximum
<1>1. /\ pending \in Seq([page : Pages, depth : Nat]) /\ results \in Seq([page : Pages, depth : Nat, view : Views])
      /\ limits.maxDepth \in Nat /\ limits.maximum \in Nat
      /\ site \in [Pages -> [links : SUBSET Pages, tab : BOOLEAN]] /\ FetchFits
  BY DEF WalkFits, Shapes
<1>2. /\ n \in Nat /\ m \in Nat /\ m > 0 /\ q = results[m] /\ q.page \in Pages /\ q.depth \in Nat /\ q.view = "page"
      /\ q.depth < limits.maxDepth
  <2>1. n \in Nat /\ m \in Nat
    BY <1>1, LenProperties
  <2>2. m > 0 /\ q = results[m] /\ q.view = "page" /\ q.depth < limits.maxDepth
    BY <1>1 DEF FetchFits, Last
  <2>3. m \in 1..m
    BY <2>1, <2>2
  <2>4. results[m] \in [page : Pages, depth : Nat, view : Views]
    BY <1>1, <2>3, ElementOfSeq
  <2>5. QED
    BY <2>1, <2>2, <2>4
<1>3. /\ \A i \in 1..n : pending[i].page \in Pages /\ pending[i].depth \in Nat
      /\ \A i \in 1..m : results[i].page \in Pages /\ results[i].depth \in Nat
  <2>1. \A i \in 1..n : pending[i] \in [page : Pages, depth : Nat]
    BY <1>1, ElementOfSeq
  <2>2. \A i \in 1..m : results[i] \in [page : Pages, depth : Nat, view : Views]
    BY <1>1, ElementOfSeq
  <2>3. QED
    BY <2>1, <2>2
<1>4. /\ S \subseteq Pages /\ IsFiniteSet(S)
      /\ \A p \in site[q.page].links : p \in Pages /\ (p \in S \/ IsSeen(p))
      /\ \A p \in S : p \in site[q.page].links
  <2>1. site[q.page].links \subseteq Pages /\ S \subseteq site[q.page].links
    BY <1>1, <1>2
  <2>2. IsFiniteSet(S)
    BY <2>1, FS_Subset, CrawlAssumption
  <2>3. QED
    BY <2>1, <2>2
<1>5. links \in SetToSeqs(S) /\ pending' = pending \o ext /\ (LinksOnly \/ LinksAndView)
  BY DEF Room
<1> HIDE DEF n, m, q
<1>6. /\ links \in Seq(S) /\ DOMAIN links = 1..k /\ k \in Nat
      /\ \A p \in S : \E i \in 1..k : links[i] = p
      /\ \A i \in 1..k : links[i] \in S
  <2>1. links \in Seq(S) /\ DOMAIN links = 1..k /\ \A p \in S : \E i \in 1..k : links[i] = p
    BY <1>4, <1>5, ArrangementFits
  <2>2. k \in Nat /\ \A i \in 1..k : links[i] \in S
    BY <2>1, LenProperties, ElementOfSeq
  <2>3. QED
    BY <2>1, <2>2
<1> HIDE DEF k
<1>7. /\ ext \in Seq([page : Pages, depth : Nat]) /\ Len(ext) = k
      /\ \A i \in 1..k : ext[i].page = links[i] /\ ext[i].depth = q.depth + 1
  <2>1. ext \in [1..k -> [page : Pages, depth : Nat]]
    BY <1>2, <1>4, <1>6
  <2>2. ext \in Seq([page : Pages, depth : Nat])
    BY <1>6, <2>1, SeqDef
  <2>3. Len(ext) \in Nat /\ DOMAIN ext = 1..Len(ext) /\ DOMAIN ext = 1..k
    BY <1>6, <2>2, LenProperties
  <2>4. Len(ext) = k
    BY <1>6, <2>3
  <2>5. \A i \in 1..k : ext[i].page = links[i] /\ ext[i].depth = q.depth + 1
    BY <1>6
  <2>6. QED
    BY <2>2, <2>4, <2>5
<1> HIDE DEF ext
<1>8. /\ pending' \in Seq([page : Pages, depth : Nat]) /\ Len(pending') = n + k
      /\ \A i \in 1..n : i \in 1..(n + k) /\ pending'[i] = pending[i]
      /\ \A i \in 1..k : i + n \in 1..(n + k) /\ pending'[i + n].page = links[i] /\ pending'[i + n].depth = q.depth + 1
      /\ \A i \in 1..(n + k) : \/ i \in 1..n /\ pending'[i] = pending[i]
                               \/ /\ i > n /\ i - n \in 1..k /\ pending'[i].page = links[i - n]
                                  /\ pending'[i].depth = q.depth + 1
  <2>1. /\ pending' \in Seq([page : Pages, depth : Nat]) /\ Len(pending') = n + k
        /\ \A i \in 1..(n + k) : pending'[i] = IF i <= n THEN pending[i] ELSE ext[i - n]
    <3>1. /\ pending \o ext \in Seq([page : Pages, depth : Nat]) /\ Len(pending \o ext) = Len(pending) + Len(ext)
          /\ \A i \in 1..(Len(pending) + Len(ext)) :
               (pending \o ext)[i] = IF i <= Len(pending) THEN pending[i] ELSE ext[i - Len(pending)]
      BY <1>1, <1>7, ConcatProperties
    <3>2. QED
      BY <1>5, <1>7, <3>1 DEF n
  <2>2. \A i \in 1..n : i \in 1..(n + k) /\ i <= n
    BY <1>2, <1>6
  <2>3. \A i \in 1..k : i + n \in 1..(n + k) /\ ~(i + n <= n) /\ (i + n) - n = i
    BY <1>2, <1>6
  <2>4. \A i \in 1..(n + k) : (i \in 1..n /\ i <= n) \/ (i > n /\ ~(i <= n) /\ i - n \in 1..k)
    BY <1>2, <1>6
  <2>5. \A i \in 1..n : i \in 1..(n + k) /\ pending'[i] = pending[i]
    BY <2>1, <2>2
  <2>6. \A i \in 1..k : pending'[i + n] = ext[i]
    BY <2>1, <2>3
  <2>7. \A i \in 1..k : /\ i + n \in 1..(n + k) /\ pending'[i + n].page = links[i]
                        /\ pending'[i + n].depth = q.depth + 1
    BY <1>7, <2>3, <2>6
  <2>8. ASSUME NEW i \in 1..(n + k)
        PROVE  \/ i \in 1..n /\ pending'[i] = pending[i]
               \/ /\ i > n /\ i - n \in 1..k /\ pending'[i].page = links[i - n]
                  /\ pending'[i].depth = q.depth + 1
    <3>1. CASE i \in 1..n
      BY <2>5, <3>1
    <3>2. CASE i > n /\ ~(i <= n) /\ i - n \in 1..k
      <4>1. pending'[i] = ext[i - n]
        BY <2>1, <3>2
      <4>2. QED
        BY <1>7, <3>2, <4>1
    <3>3. QED
      BY <2>4, <3>1, <3>2
  <2>9. QED
    BY <2>1, <2>5, <2>7, <2>8
<1>9. /\ results' \in Seq([page : Pages, depth : Nat, view : Views])
      /\ LinksAndView => /\ Len(results') = m + 1 /\ results'[m + 1] = v
                 /\ \A i \in 1..m : results'[i] = results[i]
  <2>1. v \in [page : Pages, depth : Nat, view : Views]
    BY <1>2 DEF Views
  <2> HIDE DEF v
  <2>2. /\ Append(results, v) \in Seq([page : Pages, depth : Nat, view : Views])
        /\ Len(Append(results, v)) = m + 1 /\ Append(results, v)[m + 1] = v
        /\ \A i \in 1..m : Append(results, v)[i] = results[i]
    BY <1>1, <2>1, AppendProperties DEF m
  <2>3. QED
    BY <1>1, <1>5, <2>2
<1>10. v.page = q.page /\ v.depth = q.depth /\ v.view = "view"
  OBVIOUS
<1> HIDE DEF v
<1>11. \A p, d : FoundAt(p, d)' <=> FoundAt(p, d)
  <2>1. CASE LinksOnly
    BY <2>1 DEF FoundAt
  <2>2. CASE LinksAndView
    <3>1. \A i \in 1..Len(results') : i \in 1..m \/ (i = m + 1 /\ results'[i].view # "page")
      BY <1>2, <1>9, <1>10, <2>2
    <3>2. \A i \in 1..m : i \in 1..Len(results')
      BY <1>2, <1>9, <2>2
    <3>3. QED
      BY <1>9, <2>2, <3>1, <3>2 DEF FoundAt, m
  <2>3. QED
    BY <1>5, <2>1, <2>2
<1>12. \A p : IsSeen(p)' <=> IsSeen(p)
  BY <1>5 DEF IsSeen
<1>13. /\ \A p, d : QueuedAt(p, d) => QueuedAt(p, d)'
       /\ \A p, d : QueuedAt(p, d)' => QueuedAt(p, d) \/ (d = q.depth + 1 /\ p \in S)
       /\ \A p, d : p \in S /\ d = q.depth + 1 => QueuedAt(p, d)'
  <2>1. \A p, d : QueuedAt(p, d) => QueuedAt(p, d)'
    BY <1>8 DEF QueuedAt, n
  <2>2. \A p, d : QueuedAt(p, d)' => QueuedAt(p, d) \/ (d = q.depth + 1 /\ p \in S)
    BY <1>6, <1>8 DEF QueuedAt, n
  <2>3. ASSUME NEW p \in S, NEW d, d = q.depth + 1 PROVE QueuedAt(p, d)'
    <3>1. PICK i \in 1..k : links[i] = p
      BY <1>6
    <3>2. QED
      BY <1>8, <2>3, <3>1 DEF QueuedAt
  <2>4. QED
    BY <2>1, <2>2, <2>3
<1>14. /\ \A i \in 1..n : q.depth <= pending[i].depth /\ pending[i].depth <= q.depth + 1
       /\ \A j \in 1..m : results[j].depth <= q.depth
       /\ FoundAt(q.page, q.depth)
  <2>1. m \in 1..m
    BY <1>2
  <2>2. \A i \in 1..n : q.depth <= pending[i].depth
    BY <1>2, <2>1 DEF WalkFits, QueueSorted, n, m
  <2>3. /\ \A i \in 1..n : pending[i].depth <= q.depth + 1
        /\ \A j \in 1..m : results[j].depth <= q.depth
    BY <1>1, <1>2 DEF FetchFits, n, m
  <2>4. FoundAt(q.page, q.depth)
    BY <1>2, <2>1 DEF FoundAt, m
  <2>5. QED
    BY <2>2, <2>3, <2>4
<1>15. Shapes'
  <2>1. /\ seen' \subseteq Pages \X Views
    BY <1>2, <1>5 DEF WalkFits, Shapes, Views
  <2>2. readPages' \subseteq Pages
    BY <1>2 DEF WalkFits, Shapes, q
  <2>3. QED
    BY <1>8, <1>9, <2>1, <2>2 DEF WalkFits, Shapes
<1>16. QueueSorted'
  <2>1. \A i, j \in 1..Len(pending') :
          i <= j => pending'[i].depth <= pending'[j].depth /\ pending'[j].depth <= pending'[i].depth + 1
    <3>1. TAKE i, j \in 1..Len(pending')
    <3>2. CASE i \in 1..n /\ j \in 1..n
      BY <1>8, <3>2 DEF WalkFits, QueueSorted, n
    <3>3. CASE i \in 1..n /\ j \notin 1..n
      <4>1. pending'[j].depth = q.depth + 1 /\ pending'[i] = pending[i]
        BY <1>8, <3>3
      <4>2. QED
        <5>1. q.depth <= pending[i].depth /\ pending[i].depth <= q.depth + 1 /\ pending[i].depth \in Nat
          BY <1>3, <1>14, <3>3
        <5>2. q.depth \in Nat
          BY <1>2
        <5>3. pending'[i].depth = pending[i].depth
          BY <4>1
        <5> HIDE DEF q
        <5>4. ASSUME NEW x \in Nat, NEW y \in Nat, y <= x, x <= y + 1 PROVE x <= y + 1 /\ y + 1 <= x + 1
          BY <5>4
        <5>5. pending[i].depth <= q.depth + 1 /\ q.depth + 1 <= pending[i].depth + 1
          BY <5>1, <5>2, <5>4
        <5>6. QED
          BY <4>1, <5>3, <5>5
    <3>4. CASE i \notin 1..n /\ j \in 1..n
      <4>1. i > n /\ j <= n /\ i \in Int
        BY <1>2, <1>6, <1>8, <3>4
      <4>2. QED
        BY <1>2, <3>4, <4>1
    <3>5. CASE i \notin 1..n /\ j \notin 1..n
      <4>1. pending'[i].depth = q.depth + 1 /\ pending'[j].depth = q.depth + 1
        BY <1>8, <3>5
      <4>2. QED
        BY <1>2, <4>1
    <3>6. QED
      BY <3>2, <3>3, <3>4, <3>5
  <2>2. \A i \in 1..Len(pending') : q.depth <= pending'[i].depth /\ pending'[i].depth <= q.depth + 1 /\ pending'[i].depth \in Nat
    <3>1. TAKE i \in 1..Len(pending')
    <3>2. CASE i \in 1..n /\ pending'[i] = pending[i]
      BY <1>3, <1>14, <3>2
    <3>3. CASE pending'[i].depth = q.depth + 1
      BY <1>2, <3>3
    <3>4. QED
      BY <1>8, <3>2, <3>3
  <2>3. \A j \in 1..Len(results') : results'[j].depth <= q.depth /\ results'[j].depth \in Nat
    <3>1. CASE LinksOnly
      BY <1>3, <1>14, <3>1 DEF m
    <3>2. CASE LinksAndView
      <4>1. \A j \in 1..Len(results') : (j \in 1..m /\ results'[j] = results[j]) \/ results'[j] = v
        BY <1>2, <1>9, <3>2
      <4>2. QED
        BY <1>2, <1>3, <1>10, <1>14, <4>1
    <3>3. QED
      BY <1>5, <3>1, <3>2
  <2>4. \A i \in 1..Len(pending'), j \in 1..Len(results') : results'[j].depth <= pending'[i].depth
    <3>1. TAKE i \in 1..Len(pending'), j \in 1..Len(results')
    <3>2. q.depth <= pending'[i].depth /\ pending'[i].depth \in Nat
      BY <2>2
    <3>3. results'[j].depth <= q.depth /\ results'[j].depth \in Nat /\ q.depth \in Nat
      BY <1>2, <2>3
    <3>4. QED
      BY <3>2, <3>3
  <2>5. \A i \in 1..Len(pending') : pending'[i].depth <= limits'.maxDepth
    <3>1. TAKE i \in 1..Len(pending')
    <3>2. pending'[i].depth <= q.depth + 1 /\ pending'[i].depth \in Nat
      BY <2>2
    <3>3. limits'.maxDepth = limits.maxDepth /\ limits.maxDepth \in Nat /\ q.depth \in Nat /\ q.depth < limits.maxDepth
      BY <1>1, <1>2
    <3>4. QED
      BY <3>2, <3>3
  <2>6. QED
    BY <2>1, <2>4, <2>5 DEF QueueSorted
<1>17. ListFits'
  <2>1. \A p \in Pages : IsSeen(p)' =>
          (\E d \in Nat : FoundAt(p, d)') \/ p \notin limits'.matched \/ at' = "failed"
    BY <1>11, <1>12 DEF WalkFits, ListFits
  <2>2. CASE LinksOnly
    BY <2>1, <2>2 DEF WalkFits, ListFits
  <2>3. CASE LinksAndView
    <3>1. \A i \in 1..Len(results') : (i \in 1..m /\ results'[i] = results[i]) \/ (i = m + 1 /\ results'[i] = v)
      BY <1>2, <1>9, <2>3
    <3>2. \A i \in 1..m : ~(results[i].page = v.page /\ results[i].view = v.view)
      BY <1>10, <2>3 DEF WalkFits, ListFits, m
    <3>3. \A i, j \in 1..Len(results') :
            results'[i].page = results'[j].page /\ results'[i].view = results'[j].view => i = j
      BY <3>1, <3>2 DEF WalkFits, ListFits, m
    <3>4. \A i \in 1..Len(results') :
            /\ <<results'[i].page, results'[i].view>> \in seen' /\ results'[i].depth <= limits'.maxDepth
            /\ results'[i].view = "page" => results'[i].page \in limits'.matched
      <4>1. TAKE i \in 1..Len(results')
      <4>2. CASE i \in 1..m /\ results'[i] = results[i]
        BY <2>3, <4>2 DEF WalkFits, ListFits, m
      <4>3. CASE results'[i] = v
        BY <1>1, <1>2, <1>10, <2>3, <4>3
      <4>4. QED
        BY <3>1, <4>2, <4>3
    <3>5. Len(results') <= limits'.maximum
      BY <1>1, <1>2, <1>9, <2>3 DEF m
    <3>6. QED
      BY <2>1, <3>3, <3>4, <3>5 DEF ListFits
  <2>4. QED
    BY <1>5, <2>2, <2>3
<1>18. readPages' = readPages \cup {q.page}
  BY DEF q
<1>19. ASSUME NEW p, NEW d \in Nat, Minded(p, d) PROVE Minded(p, d)'
  BY <1>11, <1>12, <1>13, <1>19 DEF Minded
<1>20. ASSUME NEW p \in Pages, NEW d \in Nat, FoundAt(p, d)' \/ QueuedAt(p, d)' PROVE Reached(p, d)'
  <2>1. CASE FoundAt(p, d) \/ QueuedAt(p, d)
    <3>1. Reached(p, d)
      BY <2>1 DEF WalkFits, TreeFits
    <3>2. QED
      BY <1>11, <1>18, <3>1 DEF Reached
  <2>2. CASE d = q.depth + 1 /\ p \in S
    <3>1. d # 0 /\ d - 1 = q.depth /\ p \in site[q.page].links
      BY <1>2, <1>4, <2>2
    <3>2. q.page \in readPages' /\ FoundAt(q.page, d - 1)
      BY <1>14, <1>18, <3>1
    <3>3. \E r \in readPages' : FoundAt(r, d - 1)' /\ p \in site'[r].links
      BY <1>11, <3>1, <3>2
    <3>4. QED
      BY <3>1, <3>3 DEF Reached
  <2>3. QED
    BY <1>11, <1>13, <1>20, <2>1, <2>2
<1>21. ASSUME NEW e \in Nat, FoundAt(q.page, e), NEW p \in site[q.page].links PROVE Minded(p, e + 1)'
  <2>1. PICK i \in 1..m : results[i].page = q.page /\ results[i].depth = e /\ results[i].view = "page"
    BY <1>21 DEF FoundAt, m
  <2>2. i = m
    <3>1. m \in 1..m /\ results[m].page = q.page /\ results[m].view = "page"
      BY <1>2
    <3>2. \A a, b \in 1..m : results[a].page = results[b].page /\ results[a].view = results[b].view => a = b
      BY DEF WalkFits, ListFits, m
    <3>3. QED
      BY <2>1, <3>1, <3>2
  <2>3. e = q.depth
    BY <1>2, <2>1, <2>2
  <2>4. \A d \in Nat : FoundAt(p, d) => d <= e + 1
    BY <1>2, <1>14, <2>3 DEF FoundAt, m
  <2>5. CASE IsSeen(p)
    BY <1>11, <1>12, <2>4, <2>5 DEF Minded
  <2>6. CASE p \in S
    <3>1. QueuedAt(p, e + 1)' /\ e + 1 \in Nat /\ e + 1 <= e + 1
      BY <1>13, <2>3, <2>6
    <3>2. QED
      BY <1>11, <2>4, <3>1 DEF Minded
  <2>7. QED
    BY <1>4, <2>5, <2>6
<1>22. TreeFits'
  <2>1. \A p \in Pages, d \in Nat : FoundAt(p, d)' \/ QueuedAt(p, d)' => Reached(p, d)'
    BY <1>20
  <2>2. \A r \in readPages' : \E e \in Nat : FoundAt(r, e)'
    BY <1>2, <1>11, <1>14, <1>18 DEF WalkFits, TreeFits
  <2>3. \A r \in readPages', e \in Nat : FoundAt(r, e)' => \A p \in site'[r].links : Minded(p, e + 1)'
    <3>1. TAKE r \in readPages', e \in Nat
    <3>2. SUFFICES ASSUME FoundAt(r, e)', NEW p \in site[r].links PROVE Minded(p, e + 1)'
      OBVIOUS
    <3>3. FoundAt(r, e) /\ e + 1 \in Nat
      BY <1>11, <3>2
    <3>4. CASE r = q.page
      BY <1>21, <3>3, <3>4
    <3>5. CASE r \in readPages
      BY <1>19, <3>3, <3>5 DEF WalkFits, TreeFits
    <3>6. QED
      BY <1>18, <3>4, <3>5
  <2>4. at' # "idle" => Minded(Seed, 0)'
    BY <1>19 DEF WalkFits, TreeFits
  <2>5. QED
    BY <2>1, <2>2, <2>3, <2>4 DEF TreeFits
<1>23. QED
  BY <1>15, <1>16, <1>17, <1>22 DEF WalkFits

\* Nothing but the stage of the walk changes.
LEMMA StageWalks ==
    ASSUME WalkFits, UNCHANGED <<site, limits, pending, seen, results, readPages>>,
           at # "idle", at # "failed", at' \in {"next", "failed", "done"},
           at' = "done" => pending = <<>> \/ ~Room
    PROVE  WalkFits'
<1>1. Shapes' /\ QueueSorted' /\ (Room' <=> Room)
  BY DEF WalkFits, Shapes, QueueSorted, Room
<1>2. /\ \A p, d : (FoundAt(p, d)' <=> FoundAt(p, d)) /\ (QueuedAt(p, d)' <=> QueuedAt(p, d))
      /\ \A p : IsSeen(p)' <=> IsSeen(p)
  BY DEF FoundAt, QueuedAt, IsSeen
<1>3. /\ \A p, n : Minded(p, n)' <=> Minded(p, n)
      /\ \A p, d : Reached(p, d)' <=> Reached(p, d)
  BY <1>2 DEF Minded, Reached
<1>4. ListFits'
  BY <1>2 DEF WalkFits, ListFits
<1>5. TreeFits'
  BY <1>2, <1>3 DEF WalkFits, TreeFits
<1>6. QED
  BY <1>1, <1>4, <1>5 DEF WalkFits

LEMMA ExpandWalks == ASSUME WalkFits, Expand PROVE WalkFits'
<1>1. /\ at = "fetching" /\ site' = site /\ limits' = limits
      /\ \/ at' \in {"next", "failed"} /\ UNCHANGED <<pending, results, seen, readPages>>
         \/ /\ at' = "next" /\ readPages' = readPages \cup {Last(results).page}
            /\ \E S \in SUBSET site[Last(results).page].links : \E links \in SetToSeqs(S) :
                  /\ \A p \in site[Last(results).page].links \ S : IsSeen(p)
                  /\ pending' = pending \o [i \in DOMAIN links |-> [page |-> links[i], depth |-> Last(results).depth + 1]]
            /\ \/ results' = results /\ seen' = seen
               \/ /\ results' = Append(results, [page |-> Last(results).page, depth |-> Last(results).depth, view |-> "view"])
                  /\ seen' = seen \cup {<<Last(results).page, "view">>}
                  /\ <<Last(results).page, "view">> \notin seen /\ Room
  <2> DEFINE all == site[Last(results).page].links
             known == {q \in Pages : <<q, "page">> \in seen}
  <2>1. ASSUME NEW again \in SUBSET (all \cap known)
        PROVE  /\ (all \ known) \cup again \in SUBSET all
               /\ \A p \in all \ ((all \ known) \cup again) : IsSeen(p)
    BY DEF IsSeen
  <2>2. QED
    BY <2>1 DEF Expand, Queued, ViewsListed
<1>2. CASE at' \in {"next", "failed"} /\ UNCHANGED <<pending, results, seen, readPages>>
  BY <1>1, <1>2, StageWalks
<1>3. CASE ~(UNCHANGED <<pending, results, seen, readPages>>)
  BY <1>1, <1>3, ReadWalks
<1>4. CASE at' \notin {"next", "failed"}
  BY <1>1, <1>4
<1>5. QED
  BY <1>2, <1>3, <1>4

\* What is mapped has the shape of a site, and what is asked of limits.
LEMMA GivenShapes ==
    /\ \A s \in Sites \cup {NoSite} : s \in [Pages -> [links : SUBSET Pages, tab : BOOLEAN]]
    /\ \A m \in Maps \cup {NoLimits} : m \in [maximum : Nat, maxDepth : Nat, matched : SUBSET Pages]
<1>1. NoSite \in [Pages -> [links : SUBSET Pages, tab : BOOLEAN]]
  BY DEF NoSite
<1>2. NoLimits \in [maximum : Nat, maxDepth : Nat, matched : SUBSET Pages]
  BY DEF NoLimits
<1>3. QED
  BY <1>1, <1>2, CrawlAssumption

LEMMA NothingWalks == Nothing' => WalkFits'
  BY NothingFits, PTL

\* A walk begins, or the caller has its answer.
LEMMA NewWalks == ASSUME Answered \/ \E s \in Sites, m \in Maps : Map(s, m) PROVE WalkFits'
<1> DEFINE first == [page |-> Seed, depth |-> 0]
<1>1. /\ site' \in Sites \cup {NoSite} /\ limits' \in Maps \cup {NoLimits}
      /\ results' = <<>> /\ seen' = {} /\ readPages' = {}
      /\ (at' = "idle" /\ pending' = <<>>) \/ (at' = "next" /\ pending' = <<first>>)
  BY DEF Answered, Map
<1>2. /\ first \in [page : Pages, depth : Nat] /\ <<first>> \in Seq([page : Pages, depth : Nat])
      /\ Len(<<first>>) = 1 /\ <<first>>[1] = first
  BY CrawlAssumption
<1> HIDE DEF first
<1>3. /\ pending' \in Seq([page : Pages, depth : Nat])
      /\ (at' = "idle" /\ Len(pending') = 0) \/ (at' = "next" /\ Len(pending') = 1 /\ pending'[1] = first)
  <2>1. <<>> \in Seq([page : Pages, depth : Nat]) /\ Len(<<>>) = 0
    BY EmptySeq
  <2>2. QED
    BY <1>1, <1>2, <2>1
<1>4. Shapes'
  BY <1>1, <1>3, GivenShapes, EmptySeq DEF Shapes
<1>5. /\ Len(pending') <= 1 /\ at' \notin {"fetching", "done"} /\ (at' # "idle" => Len(pending') = 1)
      /\ \A i \in 1..Len(pending') : i = 1 /\ at' = "next"
  <2>1. CASE at' = "idle" /\ Len(pending') = 0
    BY <2>1
  <2>2. CASE at' = "next" /\ Len(pending') = 1
    BY <2>2
  <2>3. QED
    BY <1>3, <2>1, <2>2
<1>6. \A i \in 1..Len(pending') : pending'[i] = [page |-> Seed, depth |-> 0]
  BY <1>3, <1>5 DEF first
<1>7. Nothing'
  BY <1>1, <1>4, <1>5, <1>6 DEF Nothing
<1>8. QED
  BY <1>7, NothingWalks

LEMMA StepWalks == ASSUME WalkFits, [Next]_vars PROVE WalkFits'
<1>1. CASE UNCHANGED crawlVars
  BY <1>1, WalkStays
<1>2. CASE Turn
  BY <1>2, TurnWalks
<1>3. CASE Expand
  BY <1>3, ExpandWalks
<1>4. CASE Finished
  BY <1>4, StageWalks DEF Finished
<1>5. CASE Answered \/ \E s \in Sites, m \in Maps : Map(s, m)
  BY <1>5, NewWalks
<1>6. QED
  BY <1>1, <1>2, <1>3, <1>4, <1>5 DEF Next, Walk, vars

LEMMA InitWalks == Init => WalkFits
<1> SUFFICES ASSUME Init PROVE WalkFits
  OBVIOUS
<1>1. /\ site = NoSite /\ limits = NoLimits /\ at = "idle" /\ pending = <<>> /\ seen = {}
      /\ results = <<>> /\ readPages = {}
  BY DEF Init
<1>2. /\ <<>> \in Seq([page : Pages, depth : Nat]) /\ Len(<<>>) = 0
      /\ <<>> \in Seq([page : Pages, depth : Nat, view : Views])
  BY EmptySeq
<1>3. Shapes
  BY <1>1, <1>2, GivenShapes DEF Shapes
<1>4. Nothing
  BY <1>1, <1>2, <1>3 DEF Nothing
<1>5. QED
  BY <1>4, NothingFits

LEMMA WalksAlwaysFit == Spec => []WalkFits
<1>1. WalkFits /\ [Next]_vars => WalkFits'
  BY StepWalks
<1>2. QED
  BY <1>1, InitWalks, PTL DEF Spec

-----------------------------------------------------------------------------
\* Distances

\* The pages one link further than those of W.
Beyond(W) == W \cup ((UNION {site[p].links : p \in W \cap readPages}) \cap limits.matched)

LEMMA WithinSteps ==
    ASSUME Shapes
    PROVE  /\ Within[0] = {Seed} \cap limits.matched
           /\ \A n \in Nat : Within[n + 1] = Beyond(Within[n])
<1> DEFINE F == [W \in SUBSET Pages |-> Beyond(W)]
           a == {Seed} \cap limits.matched
<1>1. a \in SUBSET Pages /\ F \in [SUBSET Pages -> SUBSET Pages]
  BY CrawlAssumption DEF Shapes, Beyond
<1> HIDE DEF F
<1>2. PICK f \in [Nat -> SUBSET Pages] : f[0] = a /\ \A n \in Nat : f[n + 1] = F[f[n]]
  <2> DEFINE D == SUBSET Pages
  <2>1. MapsInto(F, D) /\ a \in D
    BY <1>1 DEF MapsInto
  <2> HIDE DEF D, a
  <2>2. \E f : Iterates(f, D, F, a)
    BY <2>1, IterationExists
  <2>3. QED
    BY <2>2 DEF Iterates, D
<1>3. ASSUME NEW d \in Nat
      PROVE  f[d] = IF d = 0 THEN {Seed} \cap limits.matched
                    ELSE f[d - 1] \cup ((UNION {site[p].links : p \in f[d - 1] \cap readPages}) \cap limits.matched)
  <2>1. CASE d = 0
    BY <1>2, <2>1
  <2>2. CASE d # 0
    <3>1. d - 1 \in Nat /\ (d - 1) + 1 = d
      BY <2>2
    <3>2. f[d] = F[f[d - 1]] /\ f[d - 1] \in SUBSET Pages
      BY <1>2, <3>1
    <3>3. F[f[d - 1]] = Beyond(f[d - 1])
      BY <3>2 DEF F
    <3>4. QED
      BY <2>2, <3>2, <3>3 DEF Beyond
  <2>3. QED
    BY <2>1, <2>2
<1> DEFINE Solves(g) ==
             g = [d \in Nat |->
                    IF d = 0 THEN {Seed} \cap limits.matched
                    ELSE g[d - 1] \cup ((UNION {site[p].links : p \in g[d - 1] \cap readPages}) \cap limits.matched)]
<1>4. Solves(f)
  BY <1>2, <1>3
<1>5. Within = CHOOSE g : Solves(g)
  BY DEF Within
<1> HIDE DEF Solves
<1>6. Solves(Within)
  BY <1>4, <1>5
<1>7. ASSUME NEW n \in Nat PROVE Within[n + 1] = Beyond(Within[n])
  <2>1. n + 1 \in Nat /\ n + 1 # 0 /\ (n + 1) - 1 = n
    OBVIOUS
  <2>2. QED
    BY <1>6, <2>1 DEF Solves, Beyond
<1>8. QED
  BY <1>6, <1>7 DEF Solves

\* Distances grow, over pages the patterns let through.
LEMMA WithinGrows ==
    ASSUME Shapes
    PROVE  \A n \in Nat : Within[n] \subseteq limits.matched /\ \A d \in Nat : d <= n => Within[d] \subseteq Within[n]
<1> DEFINE T == {n \in Nat : Within[n] \subseteq limits.matched
                             /\ \A d \in Nat : d <= n => Within[d] \subseteq Within[n]}
<1>1. 0 \in T
  <2>1. \A d \in Nat : d <= 0 => d = 0
    OBVIOUS
  <2>2. QED
    BY <2>1, WithinSteps
<1>2. ASSUME NEW n \in Nat, n \in T PROVE n + 1 \in T
  <2>1. \A d \in Nat : d <= n + 1 => d <= n \/ d = n + 1
    OBVIOUS
  <2>2. Within[n] \subseteq Within[n + 1] /\ Within[n + 1] \subseteq limits.matched
    <3>1. Within[n + 1] = Beyond(Within[n]) /\ Within[n] \subseteq limits.matched
      BY <1>2, WithinSteps
    <3>2. Within[n] \subseteq Beyond(Within[n]) /\ Beyond(Within[n]) \subseteq limits.matched
      BY <3>1 DEF Beyond
    <3>3. QED
      BY <3>1, <3>2
  <2>3. QED
    BY <1>2, <2>1, <2>2
<1> HIDE DEF T
<1>3. Nat \subseteq T
  BY <1>1, <1>2, NumberInduction
<1>4. QED
  BY <1>3 DEF T

\* The walk misses no page that is within a distance.
LEMMA WithinIsMinded ==
    ASSUME WalkFits, at # "idle"
    PROVE  \A n \in Nat : \A p \in Within[n] : Minded(p, n)
<1> DEFINE T == {n \in Nat : \A p \in Within[n] : Minded(p, n)}
<1>1. Shapes
  BY DEF WalkFits
<1>2. 0 \in T
  BY <1>1, WithinSteps DEF WalkFits, TreeFits
<1>3. ASSUME NEW n \in Nat, n \in T PROVE n + 1 \in T
  <2>1. SUFFICES ASSUME NEW p \in Within[n + 1] PROVE Minded(p, n + 1)
    OBVIOUS
  <2>2. ASSUME NEW k \in Nat, Minded(p, k), k <= n + 1 PROVE Minded(p, n + 1)
    BY <2>2 DEF Minded
  <2>3. CASE p \in Within[n]
    BY <1>3, <2>2, <2>3
  <2>4. CASE p \notin Within[n]
    <3>1. PICK q \in Within[n] \cap readPages : p \in site[q].links
      BY <1>1, <2>1, <2>4, WithinSteps DEF Beyond
    <3>2. PICK e \in Nat : FoundAt(q, e)
      BY <3>1 DEF WalkFits, TreeFits
    <3>3. e <= n
      BY <1>3, <3>1, <3>2 DEF Minded
    <3>4. Minded(p, e + 1)
      BY <3>1, <3>2 DEF WalkFits, TreeFits
    <3>5. QED
      BY <2>2, <3>3, <3>4
  <2>5. QED
    BY <2>3, <2>4
<1> HIDE DEF T
<1>4. Nat \subseteq T
  BY <1>2, <1>3, NumberInduction
<1>5. QED
  BY <1>4 DEF T

\* What is listed is within its depth.
LEMMA FoundIsWithin ==
    ASSUME WalkFits
    PROVE  \A n \in Nat : \A p : FoundAt(p, n) => p \in Within[n]
<1> DEFINE T == {n \in Nat : \A p : FoundAt(p, n) => p \in Within[n]}
<1>1. Shapes
  BY DEF WalkFits
<1>2. \A p, n : FoundAt(p, n) => p \in limits.matched /\ p \in Pages
  BY <1>1 DEF WalkFits, ListFits, FoundAt, Shapes
<1>3. 0 \in T
  <2>1. ASSUME NEW p, FoundAt(p, 0) PROVE p \in Within[0]
    <3>1. Reached(p, 0) /\ p \in limits.matched
      BY <1>2, <2>1 DEF WalkFits, TreeFits
    <3>2. QED
      BY <1>1, <3>1, WithinSteps DEF Reached
  <2>2. QED
    BY <2>1
<1>4. ASSUME NEW n \in Nat, n \in T PROVE n + 1 \in T
  <2>1. ASSUME NEW p, FoundAt(p, n + 1) PROVE p \in Within[n + 1]
    <3>1. Reached(p, n + 1) /\ p \in limits.matched
      BY <1>2, <2>1 DEF WalkFits, TreeFits
    <3>2. n + 1 # 0 /\ (n + 1) - 1 = n
      OBVIOUS
    <3>3. PICK q \in readPages : FoundAt(q, n) /\ p \in site[q].links
      BY <3>1, <3>2 DEF Reached
    <3>4. q \in Within[n] \cap readPages
      BY <1>4, <3>3
    <3>5. p \in Beyond(Within[n])
      <4>1. p \in UNION {site[r].links : r \in Within[n] \cap readPages}
        BY <3>3, <3>4
      <4>2. QED
        BY <3>1, <4>1 DEF Beyond
    <3>6. QED
      BY <1>1, <3>5, WithinSteps
  <2>2. QED
    BY <2>1
<1> HIDE DEF T
<1>5. Nat \subseteq T
  BY <1>3, <1>4, NumberInduction
<1>6. QED
  BY <1>5 DEF T

LEMMA DepthFollows == WalkFits => DepthIsShortest
<1> SUFFICES ASSUME WalkFits PROVE DepthIsShortest
  OBVIOUS
<1>1. /\ DOMAIN results = 1..Len(results)
      /\ \A i \in 1..Len(results) : results[i].depth \in Nat
  <2>1. results \in Seq([page : Pages, depth : Nat, view : Views])
    BY DEF WalkFits, Shapes
  <2>2. DOMAIN results = 1..Len(results)
    BY <2>1, LenProperties
  <2>3. \A i \in 1..Len(results) : results[i] \in [page : Pages, depth : Nat, view : Views]
    BY <2>1, ElementOfSeq
  <2>4. QED
    BY <2>2, <2>3
<1>2. ASSUME NEW i \in 1..Len(results), results[i].view = "page"
      PROVE  /\ results[i].page \in Within[results[i].depth]
             /\ results[i].depth > 0 => results[i].page \notin Within[results[i].depth - 1]
  <2> DEFINE p == results[i].page
             d == results[i].depth
  <2>1. FoundAt(p, d) /\ d \in Nat
    BY <1>1, <1>2 DEF FoundAt
  <2>2. at # "idle"
    BY DEF WalkFits
  <2> HIDE DEF p, d
  <2>3. p \in Within[d]
    BY <2>1, FoundIsWithin
  <2>4. ASSUME d > 0, p \in Within[d - 1] PROVE FALSE
    <3>1. d - 1 \in Nat
      BY <2>1, <2>4
    <3>2. Minded(p, d - 1)
      BY <2>2, <2>4, <3>1, WithinIsMinded
    <3>3. d <= d - 1
      BY <2>1, <3>2 DEF Minded
    <3>4. QED
      BY <2>1, <3>3
  <2>5. QED
    BY <2>3, <2>4 DEF p, d
<1>3. QED
  BY <1>1, <1>2 DEF WalkFits, ListFits, DepthIsShortest

LEMMA MapFollows == WalkFits => MapIsComplete
<1> SUFFICES ASSUME WalkFits, at = "done", Len(results) < limits.maximum
             PROVE  Found = Within[limits.maxDepth]
  BY DEF MapIsComplete
<1>1. /\ Shapes /\ pending = <<>> /\ limits.maxDepth \in Nat
      /\ results \in Seq([page : Pages, depth : Nat, view : Views])
  BY DEF WalkFits, Room, Shapes
<1>2. /\ DOMAIN results = 1..Len(results)
      /\ \A i \in 1..Len(results) : results[i] \in [page : Pages, depth : Nat, view : Views]
  BY <1>1, LenProperties, ElementOfSeq
<1>3. \A p, d : ~QueuedAt(p, d)
  BY <1>1 DEF QueuedAt
<1>4. ASSUME NEW p \in Found PROVE p \in Within[limits.maxDepth]
  <2>1. PICK i \in 1..Len(results) : results[i].page = p /\ results[i].view = "page"
    BY <1>2, <1>4 DEF Found
  <2>2. results[i].depth \in Nat /\ results[i].depth <= limits.maxDepth /\ FoundAt(p, results[i].depth)
    BY <1>2, <2>1 DEF WalkFits, ListFits, FoundAt
  <2>3. p \in Within[results[i].depth]
    BY <2>2, FoundIsWithin
  <2>4. QED
    BY <1>1, <2>2, <2>3, WithinGrows
<1>5. ASSUME NEW p \in Within[limits.maxDepth] PROVE p \in Found
  <2>1. Minded(p, limits.maxDepth)
    BY <1>1, <1>5, WithinIsMinded
  <2>2. IsSeen(p)
    BY <1>3, <2>1 DEF Minded
  <2>3. p \in limits.matched /\ p \in Pages
    BY <1>1, <1>5, WithinGrows DEF Shapes
  <2>4. PICK d \in Nat : FoundAt(p, d)
    BY <2>2, <2>3 DEF WalkFits, ListFits
  <2>5. QED
    BY <1>2, <2>4 DEF FoundAt, Found
<1>6. QED
  BY <1>4, <1>5

\* mapSite(): a page is listed once, at the least number of links that lead to
\* it from the seed, and a walk that ends below the maximum has listed every
\* page within its depth; for every site and every order of the links, whatever
\* pages fail to give theirs.
THEOREM DistancesAreRight == Spec => [](DepthIsShortest /\ MapIsComplete)
  BY WalksAlwaysFit, DepthFollows, MapFollows, PTL

\* The same with the types of the fetches and of the walk.
THEOREM MapsAreRight == Spec => []MapIsRight
<1>1. WalkFits /\ FetchTypeOK => TypeOK
  BY DEF WalkFits, Shapes, TypeOK
<1>2. QED
  BY <1>1, WalksAlwaysFit, DepthFollows, MapFollows, FetchTypesHold, PTL DEF MapIsRight
=============================================================================
