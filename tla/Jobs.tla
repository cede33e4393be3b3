--------------------------------- MODULE Jobs ---------------------------------
(***************************************************************************)
(* Background jobs: POST /v1/jobs (server/routes/admin.ts), POST /crawl    *)
(* (server/routes/execution.ts), their rows and artifacts (storage/jobs.ts,*)
(* storage/artifacts.ts) and the webhooks of crawls                        *)
(* (automation/integrations.ts).                                           *)
(*                                                                         *)
(* A job is a row and a function that runs on after the request that made  *)
(* it.  Its row is "queued" only until that function's first statement.    *)
(***************************************************************************)
EXTENDS Server, FiniteSets

CONSTANTS
    JobIds,         \* each given out once
    Owners,         \* API keys
    JobTtl,         \* ttlSeconds, in ticks
    MaxPages,       \* bound: pages a crawl maps
    NoTime

ASSUME JobAssumption == JobTtl \in Nat /\ MaxPages \in Nat /\ NoTime \notin Nat

VARIABLES
    job,        \* rows: [owner, operation, status, artifact, result, error, expires]
    worker,     \* per job: its stage, and the pages left to fetch
    art,        \* artifact rows: when the artifact of a job expires, or NoTime
    files,      \* jobs whose artifact is written
    told,       \* per job: webhook events dispatched
    readable,   \* the webhooks of these owners can be decrypted
    crawled,    \* history: crawls whose pages have all been fetched
    unheard,    \* history: jobs whose webhooks could not be read to tell of them
    cut         \* history: jobs a stop of the process interrupted

jobVars == <<job, worker, art, files, told, readable, crawled, unheard, cut>>

NoJob == [owner |-> "none", operation |-> "none", status |-> "none", artifact |-> FALSE,
          result |-> FALSE, error |-> FALSE, expires |-> 0]
Rest == [at |-> "rest", left |-> 0]
\* Before and after the outcome of a job is in its row.
Unfinished == {"proxy", "rendering", "writing", "mapping", "fetching"}
Finished == {"telling", "unheard", "throwing"}
Stages == {"rest"} \cup Unfinished \cup Finished

-----------------------------------------------------------------------------
\* JobStore.update(): the fields that are not given are cleared.
Updated(j, patch) ==
    [job EXCEPT ![j] = [@ EXCEPT !.status = patch.status, !.artifact = patch.artifact,
                                 !.result = patch.result, !.error = patch.error]]

Patch(status) == [status |-> status, artifact |-> FALSE, result |-> FALSE, error |-> FALSE]
Failure == [Patch("failed") EXCEPT !.error = TRUE]

Goto(j, stage) == worker' = [worker EXCEPT ![j] = [@ EXCEPT !.at = stage]]

\* The status a job has when its function first waits.
Started(valid) == IF valid THEN "running" ELSE "failed"

\* storage.createJob(), then the job's function up to its first await: a
\* capture may be refused there for its arguments.
Create(j, owner, operation) ==
    /\ job[j].status = "none"
    /\ \E valid \in BOOLEAN :
         /\ operation = "crawl" => valid
         /\ job' = [job EXCEPT ![j] =
                [NoJob EXCEPT !.owner = owner, !.operation = operation, !.expires = now + JobTtl,
                              !.status = Started(valid), !.error = ~valid]]
         /\ IF ~valid THEN worker' = worker
            ELSE Goto(j, IF operation = "crawl" THEN "mapping" ELSE "proxy")
    /\ UNCHANGED <<art, files, told, readable, crawled, unheard, cut>>

-----------------------------------------------------------------------------
\* Screenshots and PDFs

\* Mutation: the failure is not written to the row.
FailQuietly(j) == job' = job /\ worker' = [worker EXCEPT ![j] = Rest]

Fail(j) == job' = Updated(j, Failure) /\ worker' = [worker EXCEPT ![j] = Rest]

\* resolveProxy(), then the queue and the browser, then writeFile().
Proxied(j) ==
    /\ Running /\ worker[j].at = "proxy"
    /\ (Goto(j, "rendering") /\ job' = job) \/ Fail(j)
    /\ UNCHANGED <<art, files, told, readable, crawled, unheard, cut>>

Rendered(j) ==
    /\ Running /\ worker[j].at = "rendering"
    /\ (Goto(j, "writing") /\ job' = job) \/ Fail(j)
    /\ UNCHANGED <<art, files, told, readable, crawled, unheard, cut>>

\* When an artifact that is made now expires.
Lasting(j) == now + JobTtl

\* The file is written: the row of the artifact and that of the job.
Written(j) ==
    /\ Running /\ worker[j].at = "writing"
    /\ \/ /\ files' = files \cup {j} /\ art' = [art EXCEPT ![j] = Lasting(j)]
          /\ job' = Updated(j, [Patch("complete") EXCEPT !.artifact = TRUE])
          /\ worker' = [worker EXCEPT ![j] = Rest]
       \/ Fail(j) /\ UNCHANGED <<files, art>>
    /\ UNCHANGED <<told, readable, crawled, unheard, cut>>

-----------------------------------------------------------------------------
\* Crawls

\* Mutation: a webhook that does not answer makes dispatchWebhooks() reject.
TellAll(j, event) ==
    /\ Goto(j, IF event = "job.complete" THEN "unheard" ELSE "throwing")
    /\ unheard' = unheard \cup {j} /\ told' = [told EXCEPT ![j] = @ \cup {event}]

\* dispatchWebhooks() is called with an event.  It rejects, after the close of
\* its proxy agent, when the webhooks of the owner cannot be read.
Tell(j, event) ==
    IF job[j].owner \in readable
    THEN Goto(j, "telling") /\ told' = [told EXCEPT ![j] = @ \cup {event}] /\ unheard' = unheard
    ELSE /\ Goto(j, IF event = "job.complete" THEN "unheard" ELSE "throwing")
         /\ unheard' = unheard \cup {j} /\ told' = told

\* The catch clause.
CrawlFails(j) == job' = Updated(j, Failure) /\ Tell(j, "job.failed")

\* mapSite() gives the pages to fetch, or the crawl fails.
Mapped(j) ==
    /\ Running /\ worker[j].at = "mapping"
    /\ \/ /\ \E n \in 1..MaxPages : worker' = [worker EXCEPT ![j] = [at |-> "fetching", left |-> n]]
          /\ UNCHANGED <<job, told, unheard>>
       \/ CrawlFails(j)
    /\ UNCHANGED <<serverVars, art, files, readable, crawled, cut>>

\* runFetch() for a page; what it throws becomes the page.
PageFetched(j) ==
    /\ Running /\ worker[j].at = "fetching" /\ worker[j].left > 1
    /\ worker' = [worker EXCEPT ![j].left = @ - 1]
    /\ UNCHANGED <<serverVars, job, art, files, told, readable, crawled, unheard, cut>>

\* The last page, or one with which the result would be too large.
CrawlEnds(j) ==
    /\ Running /\ worker[j].at = "fetching"
    /\ job' = Updated(j, [Patch("complete") EXCEPT !.result = TRUE])
    /\ crawled' = crawled \cup {j} /\ Tell(j, "job.complete")
    /\ UNCHANGED <<serverVars, art, files, readable, cut>>

\* The rejection reaches the catch clause, which overwrites the row.
Overturned(j) ==
    /\ Running /\ worker[j].at = "unheard"
    /\ CrawlFails(j)
    /\ UNCHANGED <<serverVars, art, files, readable, crawled, cut>>

\* Jobs a stop would interrupt now.
Working == {j \in JobIds : worker[j].at \in Unfinished}

\* The rejection of the catch clause itself is nobody's: it ends the server.
Thrown(j) ==
    /\ Running /\ worker[j].at = "throwing"
    /\ server' = "down" /\ UNCHANGED <<now, starts>>
    /\ cut' = cut \cup Working /\ worker' = [x \in JobIds |-> Rest]
    /\ UNCHANGED <<job, art, files, told, readable, crawled, unheard>>

\* Every webhook has answered, failed or timed out.
Told(j) ==
    /\ Running /\ worker[j].at = "telling"
    /\ worker' = [worker EXCEPT ![j] = Rest]
    /\ UNCHANGED <<serverVars, job, art, files, told, readable, crawled, unheard, cut>>

-----------------------------------------------------------------------------
JobInit ==
    /\ job = [j \in JobIds |-> NoJob] /\ worker = [j \in JobIds |-> Rest]
    /\ art = [j \in JobIds |-> NoTime] /\ files = {} /\ told = [j \in JobIds |-> {}]
    /\ readable = Owners /\ crawled = {} /\ unheard = {} /\ cut = {}

\* A step of a job that may end the server, and one that cannot.
CrawlStep(j) ==
    Mapped(j) \/ PageFetched(j) \/ CrawlEnds(j) \/ Overturned(j) \/ Thrown(j) \/ Told(j)
CaptureStep(j) == Proxied(j) \/ Rendered(j) \/ Written(j)

\* The process ends, and starts again, maybe with another encryption key.
JobsStop ==
    /\ cut' = cut \cup Working /\ worker' = [j \in JobIds |-> Rest]
    /\ UNCHANGED <<job, art, files, told, readable, crawled, unheard>>
JobsStart ==
    /\ readable' \in SUBSET Owners
    /\ UNCHANGED <<job, worker, art, files, told, crawled, unheard, cut>>

\* DELETE /v1/webhooks/:id takes the last one of an owner that cannot be read.
Unhooked(owner) ==
    /\ readable' = readable \cup {owner}
    /\ UNCHANGED <<job, worker, art, files, told, crawled, unheard, cut>>

-----------------------------------------------------------------------------
\* Properties

JobTypeOK ==
    /\ job \in [JobIds -> [owner : Owners \cup {"none"}, operation : {"none", "capture", "crawl"},
                           status : {"none", "running", "complete", "failed"},
                           artifact : BOOLEAN, result : BOOLEAN, error : BOOLEAN,
                           expires : 0..(LastTick + JobTtl)]]
    /\ worker \in [JobIds -> [at : Stages, left : 0..MaxPages]]
    /\ art \in [JobIds -> (0..(LastTick + JobTtl)) \cup {NoTime}]
    /\ files \subseteq JobIds /\ told \in [JobIds -> SUBSET {"job.complete", "job.failed"}]
    /\ readable \subseteq Owners
    /\ crawled \subseteq JobIds /\ unheard \subseteq JobIds /\ cut \subseteq JobIds

\* What GET /v1/jobs/:id answers can be used: a complete capture names an
\* artifact that can be downloaded at least as long as the job can be read, a
\* complete crawl has its result, a failed job its error and nothing else.
CompleteIsUsable ==
    \A j \in JobIds :
        /\ job[j].status = "complete" /\ job[j].operation = "capture" =>
               job[j].artifact /\ j \in files /\ art[j] >= job[j].expires
        /\ job[j].status = "complete" /\ job[j].operation = "crawl" => job[j].result
        /\ job[j].status = "failed" => job[j].error /\ ~job[j].artifact /\ ~job[j].result

\* A webhook is told what the row says, and never both outcomes.
ToldIsTrue ==
    \A j \in JobIds :
        /\ "job.complete" \in told[j] => job[j].status = "complete"
        /\ "job.failed" \in told[j] => job[j].status = "failed"

\* A crawl whose pages were fetched is complete, unless its owner's webhooks
\* could not be read to tell of it; then none of them heard that it was.
CrawledIsComplete ==
    \A j \in crawled :
        \/ job[j].status = "complete"
        \/ j \in unheard /\ "job.complete" \notin told[j]

\* A row says "running" only while its function runs, or for ever if the
\* process stopped meanwhile: nothing takes such a job up again.
RunningIsRunning ==
    \A j \in JobIds :
        (job[j].status = "running") <=> (j \in cut \/ worker[j].at \in Unfinished)

\* What has ended stays as it is, by whatever stop or start, but for one case: a
\* complete crawl whose webhooks could not be read fails after all, and loses
\* its result, while nobody has been told of it.
EndedStays ==
    [][\A j \in JobIds : job[j].status \in {"complete", "failed"} =>
           \/ job'[j] = job[j]
           \/ /\ job[j].status = "complete" /\ job'[j].status = "failed"
              /\ job[j].operation = "crawl" /\ j \in unheard /\ told[j] = {}]_jobVars

\* The row of a job tells what became of it: complete with something to show,
\* failed with an error, running while its function runs, and what webhooks
\* were told.
JobsAreTrue ==
    JobTypeOK /\ CompleteIsUsable /\ CrawledIsComplete /\ ToldIsTrue /\ RunningIsRunning
=============================================================================
