----------------------------- MODULE ServiceProofs -----------------------------
(***************************************************************************)
(* For any jobs, keys, limits and restarts: the row of a job tells what    *)
(* became of it, and once the job has ended it stays as it is, but for a   *)
(* crawl nobody could be told of; requests and alerts stay within their    *)
(* limits; the usage rows count what was let through and nothing else.     *)
(***************************************************************************)
EXTENDS Service, SumTheorems, TLAPS

\* A request that has been let through belongs to a key.
CallsFit ==
    /\ call \in [Calls -> [key : Keys \cup {None}, stage : {"idle", "handling", "refused"}]]
    /\ \A c \in Calls : call[c].stage = "handling" => call[c].key \in Keys

CaptureStages == {"proxy", "rendering", "writing"}
CrawlStages == {"mapping", "fetching"}

\* What function of a job can be running beside its row.  A job that runs or
\* was interrupted has told nobody anything; one that was never made has left
\* no trace.
StageFits(j) ==
    /\ worker[j].at \in CaptureStages => job[j].operation = "capture" /\ job[j].status = "running"
    /\ worker[j].at \in CrawlStages => job[j].operation = "crawl" /\ job[j].status = "running"
    /\ worker[j].at \in Finished => job[j].status \in {"complete", "failed"}
    /\ worker[j].at = "unheard" =>
           job[j].status = "complete" /\ job[j].operation = "crawl" /\ j \in unheard /\ told[j] = {}
    /\ worker[j].at # "rest" => j \notin cut
    /\ j \in cut => job[j].status = "running"
    /\ job[j].status = "running" => j \in cut \/ worker[j].at \in CaptureStages \cup CrawlStages
    /\ job[j].status \in {"none", "running"} => told[j] = {} /\ j \notin crawled
    /\ job[j].status = "none" => worker[j].at = "rest"
    /\ job[j].expires <= now + JobTtl

\* CompleteIsUsable and ToldIsTrue of one job.
RowFits(j) ==
    /\ job[j].status = "complete" /\ job[j].operation = "capture" =>
           job[j].artifact /\ j \in files /\ art[j] >= job[j].expires
    /\ job[j].status = "complete" /\ job[j].operation = "crawl" => job[j].result
    /\ job[j].status = "failed" => job[j].error /\ ~job[j].artifact /\ ~job[j].result
    /\ "job.complete" \in told[j] => job[j].status = "complete"
    /\ "job.failed" \in told[j] => job[j].status = "failed"
    /\ j \in crawled => job[j].status = "complete" \/ j \in unheard

JobFits(j) == StageFits(j) /\ RowFits(j)

JInv == ServerTypeOK /\ CallsFit /\ JobTypeOK /\ \A j \in JobIds : JobFits(j)

-----------------------------------------------------------------------------
\* Types

LEMMA InitInvariant == Init => JInv
<1> SUFFICES ASSUME Init PROVE JInv
  OBVIOUS
<1>1. ServerTypeOK
  BY ServerAssumption DEF Init, ServerInit, ServerTypeOK
<1>2. CallsFit
  BY DEF Init, PolicyInit, CallsFit, NoCall
<1>3. /\ 0 \in 0..(LastTick + JobTtl) /\ 0 \in 0..MaxPages
      /\ NoJob \in [owner : Owners \cup {"none"}, operation : {"none", "capture", "crawl"},
                    status : {"none", "running", "complete", "failed"},
                    artifact : BOOLEAN, result : BOOLEAN, error : BOOLEAN,
                    expires : 0..(LastTick + JobTtl)]
      /\ Rest \in [at : Stages, left : 0..MaxPages]
  BY ServerAssumption, JobAssumption DEF NoJob, Rest, Stages, Unfinished, Finished
<1>4. {} \in SUBSET {"job.complete", "job.failed"} /\ {} \subseteq JobIds /\ Owners \subseteq Owners
  OBVIOUS
<1>5. JobTypeOK
  BY <1>3, <1>4 DEF Init, JobInit, JobTypeOK
<1>6. \A j \in JobIds : job[j] = NoJob /\ worker[j] = Rest /\ told[j] = {} /\ j \notin crawled /\ j \notin cut
  BY DEF Init, JobInit
<1>7. now + JobTtl >= 0
  BY JobAssumption DEF Init, ServerInit
<1>8. \A j \in JobIds : JobFits(j)
  BY <1>6, <1>7 DEF JobFits, StageFits, RowFits, NoJob, Rest, CaptureStages, CrawlStages, Finished
<1>9. QED
  BY <1>1, <1>2, <1>5, <1>8 DEF JInv

Rows == [owner : Owners \cup {"none"}, operation : {"none", "capture", "crawl"},
         status : {"none", "running", "complete", "failed"},
         artifact : BOOLEAN, result : BOOLEAN, error : BOOLEAN, expires : 0..(LastTick + JobTtl)]
Patched == [status : {"complete", "failed"}, artifact : BOOLEAN, result : BOOLEAN, error : BOOLEAN]

LEMMA RowPatched ==
    ASSUME NEW row \in Rows, NEW patch \in Patched
    PROVE  LET new == [row EXCEPT !.status = patch.status, !.artifact = patch.artifact,
                                  !.result = patch.result, !.error = patch.error]
           IN  /\ new \in Rows
               /\ new.status = patch.status /\ new.artifact = patch.artifact
               /\ new.result = patch.result /\ new.error = patch.error
               /\ new.owner = row.owner /\ new.operation = row.operation
               /\ new.expires = row.expires
  BY DEF Rows, Patched

LEMMA UpdatedType ==
    ASSUME JobTypeOK, NEW j \in JobIds, NEW patch \in Patched, job' = Updated(j, patch)
    PROVE  /\ job' \in [JobIds -> Rows]
           /\ \A i \in JobIds \ {j} : job'[i] = job[i]
           /\ job'[j].status = patch.status /\ job'[j].artifact = patch.artifact
           /\ job'[j].result = patch.result /\ job'[j].error = patch.error
           /\ job'[j].owner = job[j].owner /\ job'[j].operation = job[j].operation
           /\ job'[j].expires = job[j].expires
<1> DEFINE new == [job[j] EXCEPT !.status = patch.status, !.artifact = patch.artifact,
                                 !.result = patch.result, !.error = patch.error]
<1>1. job \in [JobIds -> Rows]
  BY DEF JobTypeOK, Rows
<1>2. job' = [job EXCEPT ![j] = new]
  BY DEF Updated
<1>3. /\ new \in Rows
      /\ new.status = patch.status /\ new.artifact = patch.artifact
      /\ new.result = patch.result /\ new.error = patch.error
      /\ new.owner = job[j].owner /\ new.operation = job[j].operation
      /\ new.expires = job[j].expires
  BY <1>1, RowPatched
<1> HIDE DEF new
<1>4. job'[j] = new /\ job' \in [JobIds -> Rows] /\ \A i \in JobIds \ {j} : job'[i] = job[i]
  BY <1>1, <1>2, <1>3
<1>5. QED
  BY <1>3, <1>4

LEMMA Patches ==
    /\ Failure \in Patched
    /\ Failure.status = "failed" /\ Failure.error /\ ~Failure.artifact /\ ~Failure.result
  BY DEF Failure, Patch, Patched

LEMMA GotoType ==
    ASSUME JobTypeOK, NEW j \in JobIds, NEW s \in Stages, Goto(j, s)
    PROVE  /\ worker' \in [JobIds -> [at : Stages, left : 0..MaxPages]]
           /\ worker'[j].at = s
           /\ \A i \in JobIds \ {j} : worker'[i] = worker[i]
  BY DEF JobTypeOK, Goto

LEMMA RestType ==
    ASSUME JobTypeOK, NEW j \in JobIds, worker' = [worker EXCEPT ![j] = Rest]
    PROVE  /\ worker' \in [JobIds -> [at : Stages, left : 0..MaxPages]]
           /\ worker'[j].at = "rest"
           /\ \A i \in JobIds \ {j} : worker'[i] = worker[i]
<1>1. Rest \in [at : Stages, left : 0..MaxPages] /\ Rest.at = "rest"
  BY JobAssumption DEF Rest, Stages, Unfinished, Finished
<1>2. QED
  BY <1>1 DEF JobTypeOK

\* A job that none of a step's changes is about fits as before.
LEMMA OthersFit ==
    ASSUME NEW j \in JobIds, JobFits(j), JobTypeOK, ServerTypeOK, ServerTypeOK',
           job'[j] = job[j], worker'[j] = worker[j], told'[j] = told[j], art'[j] = art[j],
           j \in files => j \in files', j \in crawled' => j \in crawled,
           j \in unheard' <=> j \in unheard, j \in cut' <=> j \in cut, now' >= now
    PROVE  JobFits(j)'
<1>1. now \in Nat /\ now' \in Nat /\ JobTtl \in Nat /\ job[j].expires \in Nat
  BY JobAssumption, ServerAssumption DEF ServerTypeOK, JobTypeOK
<1>2. job[j].expires <= now + JobTtl => job[j].expires <= now' + JobTtl
  BY <1>1
<1>3. StageFits(j)'
  BY <1>2 DEF JobFits, StageFits
<1>4. RowFits(j)'
  BY DEF JobFits, RowFits
<1>5. QED
  BY <1>3, <1>4 DEF JobFits

\* Nor does a job that a stop of the process interrupts, or finds at rest.
LEMMA StoppedFit ==
    ASSUME NEW j \in JobIds, JobFits(j), JobTypeOK,
           job'[j] = job[j], worker'[j] = Rest, told'[j] = told[j], UNCHANGED <<now, art, files, unheard>>,
           j \in crawled' => j \in crawled,
           j \in cut' <=> (j \in cut \/ worker[j].at \in Unfinished)
    PROVE  JobFits(j)'
<1>1. worker[j].at \in Stages
  BY DEF JobTypeOK
<1>2. worker'[j].at = "rest"
  BY DEF Rest
<1>3. StageFits(j)'
  BY <1>1, <1>2 DEF JobFits, StageFits, CaptureStages, CrawlStages, Stages, Unfinished, Finished
<1>4. RowFits(j)'
  BY DEF JobFits, RowFits
<1>5. QED
  BY <1>3, <1>4 DEF JobFits

Ended(j) == job[j].status \in {"complete", "failed"}

\* What a step may do to the row of a job that has ended.
Stays(j) ==
    \/ job'[j] = job[j]
    \/ /\ job[j].status = "complete" /\ job'[j].status = "failed"
       /\ job[j].operation = "crawl" /\ j \in unheard /\ told[j] = {}

\* What a step has to keep.
Kept == JobTypeOK' /\ (\A j \in JobIds : JobFits(j)') /\ \A j \in JobIds : Ended(j) => Stays(j)

\* A step of one job.
LEMMA OneJob ==
    ASSUME JInv, ServerTypeOK', now' >= now, JobTypeOK', NEW j \in JobIds, Ended(j) => Stays(j),
           JobFits(j)',
           \A i \in JobIds \ {j} : job'[i] = job[i] /\ worker'[i] = worker[i] /\ told'[i] = told[i]
                                   /\ art'[i] = art[i] /\ (i \in crawled' => i \in crawled)
                                   /\ (i \in unheard' <=> i \in unheard),
           files \subseteq files', cut' = cut
    PROVE  Kept
<1>1. ASSUME NEW i \in JobIds PROVE JobFits(i)' /\ (Ended(i) => Stays(i))
  <2>1. CASE i = j
    BY <2>1
  <2>2. CASE i # j
    <3>1. JobFits(i) /\ JobTypeOK /\ ServerTypeOK
      BY DEF JInv
    <3>2. job'[i] = job[i] /\ worker'[i] = worker[i] /\ told'[i] = told[i] /\ art'[i] = art[i]
          /\ (i \in crawled' => i \in crawled) /\ (i \in unheard' <=> i \in unheard)
      BY <2>2
    <3>3. (i \in files => i \in files') /\ (i \in cut' <=> i \in cut)
      OBVIOUS
    <3>4. JobFits(i)'
      BY <3>1, <3>2, <3>3, OthersFit
    <3>5. QED
      BY <3>2, <3>4 DEF Stays
  <2>3. QED
    BY <2>1, <2>2
<1>2. QED
  BY <1>1 DEF Kept

-----------------------------------------------------------------------------
\* Captures

LEMMA FailKeeps ==
    ASSUME JInv, ServerTypeOK', now' = now, NEW j \in JobIds, worker[j].at \in CaptureStages, Fail(j),
           UNCHANGED <<art, files, told, readable, crawled, unheard, cut>>
    PROVE  Kept
<1>1. JobTypeOK /\ JobFits(j) /\ now \in Nat
  BY ServerAssumption DEF JInv, ServerTypeOK
<1>2. job' = Updated(j, Failure) /\ worker' = [worker EXCEPT ![j] = Rest]
  BY DEF Fail
<1>3. /\ job' \in [JobIds -> Rows] /\ \A i \in JobIds \ {j} : job'[i] = job[i]
      /\ job'[j].status = "failed" /\ job'[j].error /\ ~job'[j].artifact /\ ~job'[j].result
      /\ job'[j].owner = job[j].owner /\ job'[j].operation = job[j].operation
      /\ job'[j].expires = job[j].expires
  BY <1>1, <1>2, UpdatedType, Patches
<1>4. /\ worker' \in [JobIds -> [at : Stages, left : 0..MaxPages]] /\ worker'[j].at = "rest"
      /\ \A i \in JobIds \ {j} : worker'[i] = worker[i]
  BY <1>1, <1>2, RestType
<1>5. JobTypeOK'
  BY <1>1, <1>3, <1>4 DEF JobTypeOK, Rows
<1>6. job[j].status = "running" /\ told[j] = {} /\ j \notin crawled /\ j \notin cut
      /\ job[j].expires <= now + JobTtl
  BY <1>1 DEF JobFits, StageFits, CaptureStages
<1>7. StageFits(j)'
  BY <1>3, <1>4, <1>6 DEF StageFits, CaptureStages, CrawlStages, Finished
<1>8. RowFits(j)'
  BY <1>3, <1>6 DEF RowFits
<1>9. JobFits(j)' /\ ~Ended(j) /\ now' >= now
  BY <1>1, <1>6, <1>7, <1>8 DEF JobFits, Ended
<1>10. QED
  BY <1>3, <1>4, <1>5, <1>9, OneJob

LEMMA CaptureGoesOn ==
    ASSUME JInv, ServerTypeOK', now' = now, NEW j \in JobIds, worker[j].at \in CaptureStages,
           NEW s \in CaptureStages, Goto(j, s),
           UNCHANGED <<job, art, files, told, readable, crawled, unheard, cut>>
    PROVE  Kept
<1>1. JobTypeOK /\ JobFits(j) /\ now \in Nat /\ s \in Stages
  BY ServerAssumption DEF JInv, ServerTypeOK, CaptureStages, Stages, Unfinished, Finished
<1>2. /\ worker' \in [JobIds -> [at : Stages, left : 0..MaxPages]] /\ worker'[j].at = s
      /\ \A i \in JobIds \ {j} : worker'[i] = worker[i]
  BY <1>1, GotoType
<1>3. JobTypeOK'
  BY <1>1, <1>2 DEF JobTypeOK
<1>4. StageFits(j)'
  BY <1>1, <1>2 DEF JobFits, StageFits, CaptureStages, CrawlStages, Finished
<1>5. RowFits(j)'
  BY <1>1 DEF JobFits, RowFits
<1>6. JobFits(j)' /\ now' >= now
  BY <1>1, <1>4, <1>5 DEF JobFits
<1>7. Stays(j)
  BY DEF Stays
<1>8. QED
  BY <1>2, <1>3, <1>6, <1>7, OneJob

LEMMA WrittenKeeps ==
    ASSUME JInv, ServerTypeOK', NEW j \in JobIds, Written(j), UNCHANGED serverVars
    PROVE  Kept
<1>1. JobTypeOK /\ JobFits(j) /\ now \in Nat /\ JobTtl \in Nat /\ now \in 0..LastTick
      /\ LastTick \in Nat
  BY ServerAssumption, JobAssumption DEF JInv, ServerTypeOK
<1>2. now' = now /\ UNCHANGED <<told, readable, crawled, unheard, cut>> /\ worker[j].at = "writing"
  BY DEF Written, serverVars
<1>3. CASE Fail(j) /\ UNCHANGED <<files, art>>
  BY <1>2, <1>3, FailKeeps DEF CaptureStages
<1>4. CASE /\ files' = files \cup {j} /\ art' = [art EXCEPT ![j] = Lasting(j)]
           /\ job' = Updated(j, [Patch("complete") EXCEPT !.artifact = TRUE])
           /\ worker' = [worker EXCEPT ![j] = Rest]
  <2> DEFINE patch == [Patch("complete") EXCEPT !.artifact = TRUE]
  <2>1. patch \in Patched /\ patch.status = "complete" /\ patch.artifact
    BY DEF Patch, Patched
  <2>2. job' = Updated(j, patch)
    BY <1>4
  <2> HIDE DEF patch
  <2>3. /\ job' \in [JobIds -> Rows] /\ \A i \in JobIds \ {j} : job'[i] = job[i]
        /\ job'[j].status = "complete" /\ job'[j].artifact
        /\ job'[j].operation = job[j].operation /\ job'[j].expires = job[j].expires
    BY <1>1, <2>1, <2>2, UpdatedType
  <2>4. /\ worker' \in [JobIds -> [at : Stages, left : 0..MaxPages]] /\ worker'[j].at = "rest"
        /\ \A i \in JobIds \ {j} : worker'[i] = worker[i]
    BY <1>1, <1>4, RestType
  <2>5. Lasting(j) = now + JobTtl /\ Lasting(j) \in 0..(LastTick + JobTtl)
    BY <1>1 DEF Lasting
  <2>6. /\ art' \in [JobIds -> (0..(LastTick + JobTtl)) \cup {NoTime}] /\ art'[j] = now + JobTtl
        /\ \A i \in JobIds \ {j} : art'[i] = art[i]
    BY <1>1, <1>4, <2>5 DEF JobTypeOK
  <2>7. JobTypeOK'
    BY <1>1, <1>2, <1>4, <2>3, <2>4, <2>6 DEF JobTypeOK, Rows
  <2>8. job[j].status = "running" /\ job[j].operation = "capture" /\ told[j] = {} /\ j \notin crawled
        /\ j \notin cut /\ job[j].expires <= now + JobTtl
    BY <1>1, <1>2 DEF JobFits, StageFits, CaptureStages
  <2>9. StageFits(j)'
    BY <1>2, <2>3, <2>4, <2>8 DEF StageFits, CaptureStages, CrawlStages, Finished
  <2>10. RowFits(j)'
    BY <1>2, <1>4, <2>3, <2>6, <2>8 DEF RowFits
  <2>11. JobFits(j)' /\ ~Ended(j) /\ now' >= now
    BY <1>1, <1>2, <2>8, <2>9, <2>10 DEF JobFits, Ended
  <2>12. QED
    BY <1>2, <1>4, <2>3, <2>4, <2>6, <2>7, <2>11, OneJob
<1>5. QED
  BY <1>3, <1>4 DEF Written

LEMMA CaptureKeeps ==
    ASSUME JInv, ServerTypeOK', NEW j \in JobIds, CaptureStep(j), UNCHANGED serverVars
    PROVE  Kept
<1>1. now' = now
  BY DEF serverVars
<1>2. CASE Proxied(j)
  <2>1. UNCHANGED <<art, files, told, readable, crawled, unheard, cut>> /\ worker[j].at \in CaptureStages
        /\ "rendering" \in CaptureStages
    BY <1>2 DEF Proxied, CaptureStages
  <2>2. (Goto(j, "rendering") /\ job' = job) \/ Fail(j)
    BY <1>2 DEF Proxied
  <2>3. QED
    BY <1>1, <2>1, <2>2, FailKeeps, CaptureGoesOn
<1>3. CASE Rendered(j)
  <2>1. UNCHANGED <<art, files, told, readable, crawled, unheard, cut>> /\ worker[j].at \in CaptureStages
        /\ "writing" \in CaptureStages
    BY <1>3 DEF Rendered, CaptureStages
  <2>2. (Goto(j, "writing") /\ job' = job) \/ Fail(j)
    BY <1>3 DEF Rendered
  <2>3. QED
    BY <1>1, <2>1, <2>2, FailKeeps, CaptureGoesOn
<1>4. QED
  BY <1>2, <1>3, WrittenKeeps DEF CaptureStep

-----------------------------------------------------------------------------
\* Crawls

\* A crawl that ends, or fails after all, is about to tell its owner what its row
\* says, or could not.
LEMMA CrawlOver ==
    ASSUME JInv, ServerTypeOK', now' = now, NEW j \in JobIds,
           NEW patch \in Patched, NEW event,
           \/ /\ patch = Failure /\ event = "job.failed" /\ crawled' = crawled
              /\ worker[j].at \in CrawlStages \cup {"unheard"}
           \/ /\ patch.status = "complete" /\ patch.result /\ crawled' = crawled \cup {j}
              /\ event = "job.complete" /\ worker[j].at \in CrawlStages,
           job' = Updated(j, patch), Tell(j, event),
           UNCHANGED <<art, files, readable, cut>>
    PROVE  Kept
<1>1. JobTypeOK /\ JobFits(j) /\ now \in Nat
  BY ServerAssumption DEF JInv, ServerTypeOK
<1>2. /\ job' \in [JobIds -> Rows] /\ \A i \in JobIds \ {j} : job'[i] = job[i]
      /\ job'[j].status = patch.status /\ job'[j].artifact = patch.artifact
      /\ job'[j].result = patch.result /\ job'[j].error = patch.error
      /\ job'[j].owner = job[j].owner /\ job'[j].operation = job[j].operation
      /\ job'[j].expires = job[j].expires
  BY <1>1, UpdatedType
<1>3. /\ job[j].operation = "crawl" /\ told[j] = {} /\ j \notin cut /\ job[j].expires <= now + JobTtl
      /\ \/ job[j].status = "running" /\ j \notin crawled
         \/ /\ worker[j].at = "unheard" /\ job[j].status = "complete" /\ j \in unheard
            /\ patch = Failure
  BY <1>1 DEF JobFits, StageFits, CrawlStages
<1>4. crawled' \subseteq JobIds /\ \A i \in JobIds \ {j} : i \in crawled' => i \in crawled
  BY <1>1 DEF JobTypeOK
<1>5. \/ job'[j].status = "failed" /\ job'[j].error /\ ~job'[j].artifact /\ ~job'[j].result
         /\ event = "job.failed" /\ (j \in crawled' => j \in unheard)
      \/ job'[j].status = "complete" /\ job'[j].result /\ event = "job.complete"
         /\ job[j].status = "running"
  BY <1>2, <1>3, Patches
<1>6. Ended(j) => Stays(j)
  BY <1>2, <1>3, Patches DEF Ended, Stays
<1>7. /\ event \in {"job.complete", "job.failed"}
      /\ \/ Goto(j, "telling") /\ told' = [told EXCEPT ![j] = @ \cup {event}] /\ unheard' = unheard
         \/ Goto(j, "unheard") /\ event = "job.complete" /\ told' = told /\ unheard' = unheard \cup {j}
         \/ Goto(j, "throwing") /\ event = "job.failed" /\ told' = told /\ unheard' = unheard \cup {j}
  BY DEF Tell
<1>8. PICK s \in Finished : Goto(j, s) /\ (s = "unheard" => event = "job.complete" /\ told' = told
                                                          /\ unheard' = unheard \cup {j})
  BY <1>7 DEF Finished
<1>9. /\ worker' \in [JobIds -> [at : Stages, left : 0..MaxPages]] /\ worker'[j].at = s
      /\ \A i \in JobIds \ {j} : worker'[i] = worker[i]
  <2>1. s \in Stages
    BY DEF Stages
  <2>2. QED
    BY <1>1, <1>8, <2>1, GotoType
<1>10. /\ told' \in [JobIds -> SUBSET {"job.complete", "job.failed"}] /\ told'[j] \subseteq {event}
       /\ \A i \in JobIds \ {j} : told'[i] = told[i]
  BY <1>1, <1>3, <1>7 DEF JobTypeOK
<1>11. /\ unheard' \subseteq JobIds /\ unheard \subseteq unheard'
       /\ \A i \in JobIds \ {j} : i \in unheard' <=> i \in unheard
  BY <1>1, <1>7 DEF JobTypeOK
<1>12. JobTypeOK'
  BY <1>1, <1>2, <1>4, <1>9, <1>10, <1>11 DEF JobTypeOK, Rows
<1>13. StageFits(j)'
  <2>1. s \notin CaptureStages /\ s \notin CrawlStages /\ s # "rest" /\ j \notin cut'
    BY <1>3 DEF Finished, CaptureStages, CrawlStages
  <2>2. s = "unheard" =>
            job'[j].status = "complete" /\ job'[j].operation = "crawl" /\ j \in unheard' /\ told'[j] = {}
    BY <1>2, <1>3, <1>5, <1>8
  <2>3. job'[j].status \in {"complete", "failed"} /\ job'[j].expires <= now' + JobTtl
    BY <1>2, <1>3, <1>5
  <2>4. QED
    BY <1>9, <2>1, <2>2, <2>3 DEF StageFits
<1>14. RowFits(j)'
  BY <1>2, <1>3, <1>5, <1>10, <1>11 DEF RowFits
<1>15. JobFits(j)' /\ now' >= now
  BY <1>1, <1>13, <1>14 DEF JobFits
<1>16. QED
  BY <1>2, <1>4, <1>6, <1>9, <1>10, <1>11, <1>12, <1>15, OneJob

LEMMA CrawlGoesOn ==
    ASSUME JInv, ServerTypeOK', now' = now, NEW j \in JobIds, worker[j].at \in CrawlStages,
           NEW s \in [at : {"fetching"}, left : 0..MaxPages], worker' = [worker EXCEPT ![j] = s],
           UNCHANGED <<job, art, files, told, readable, crawled, unheard, cut>>
    PROVE  Kept
<1>1. JobTypeOK /\ JobFits(j) /\ now \in Nat /\ s \in [at : Stages, left : 0..MaxPages]
      /\ s.at = "fetching"
  BY ServerAssumption DEF JInv, ServerTypeOK, Stages, Unfinished, Finished
<1>2. /\ worker' \in [JobIds -> [at : Stages, left : 0..MaxPages]] /\ worker'[j].at = "fetching"
      /\ \A i \in JobIds \ {j} : worker'[i] = worker[i]
  BY <1>1 DEF JobTypeOK
<1>3. JobTypeOK'
  BY <1>1, <1>2 DEF JobTypeOK
<1>4. StageFits(j)'
  BY <1>1, <1>2 DEF JobFits, StageFits, CaptureStages, CrawlStages, Finished
<1>5. RowFits(j)'
  BY <1>1 DEF JobFits, RowFits
<1>6. JobFits(j)' /\ now' >= now
  BY <1>1, <1>4, <1>5 DEF JobFits
<1>7. Stays(j)
  BY DEF Stays
<1>8. QED
  BY <1>2, <1>3, <1>6, <1>7, OneJob

LEMMA ToldKeeps == ASSUME JInv, ServerTypeOK', NEW j \in JobIds, Told(j) PROVE Kept
<1>1. JobTypeOK /\ JobFits(j) /\ now \in Nat
  BY ServerAssumption DEF JInv, ServerTypeOK
<1>2. /\ UNCHANGED <<job, art, files, told, readable, crawled, unheard, cut>> /\ now' = now
      /\ worker' = [worker EXCEPT ![j] = Rest] /\ worker[j].at = "telling"
  BY DEF Told, serverVars
<1>3. /\ worker' \in [JobIds -> [at : Stages, left : 0..MaxPages]] /\ worker'[j].at = "rest"
      /\ \A i \in JobIds \ {j} : worker'[i] = worker[i]
  BY <1>1, <1>2, RestType
<1>4. JobTypeOK'
  BY <1>1, <1>2, <1>3 DEF JobTypeOK
<1>5. StageFits(j)'
  BY <1>1, <1>2, <1>3 DEF JobFits, StageFits, CaptureStages, CrawlStages, Finished
<1>6. RowFits(j)'
  BY <1>1, <1>2 DEF JobFits, RowFits
<1>7. JobFits(j)' /\ now' >= now
  BY <1>1, <1>2, <1>5, <1>6 DEF JobFits
<1>8. Stays(j)
  BY <1>2 DEF Stays
<1>9. QED
  BY <1>2, <1>3, <1>4, <1>7, <1>8, OneJob

LEMMA StopKeeps == ASSUME JInv, ServerTypeOK', now' = now, JobsStop PROVE Kept
<1>1. JobTypeOK
  BY DEF JInv
<1>2. /\ cut' = cut \cup Working /\ worker' = [j \in JobIds |-> Rest]
      /\ UNCHANGED <<job, art, files, told, readable, crawled, unheard>>
  BY DEF JobsStop
<1>3. Rest \in [at : Stages, left : 0..MaxPages] /\ Working \subseteq JobIds
  BY JobAssumption DEF Rest, Stages, Working
<1>4. JobTypeOK'
  BY <1>1, <1>2, <1>3 DEF JobTypeOK
<1>5. ASSUME NEW j \in JobIds PROVE JobFits(j)'
  <2>1. JobFits(j) /\ job'[j] = job[j] /\ worker'[j] = Rest /\ told'[j] = told[j]
    BY <1>2 DEF JInv
  <2>2. j \in cut' <=> (j \in cut \/ worker[j].at \in Unfinished)
    BY <1>2 DEF Working
  <2>3. QED
    BY <1>1, <1>2, <2>1, <2>2, StoppedFit
<1>6. QED
  BY <1>2, <1>4, <1>5 DEF Kept, Stays

LEMMA CrawlKeeps == ASSUME JInv, ServerTypeOK', NEW j \in JobIds, CrawlStep(j) PROVE Kept
<1>1. CASE Mapped(j)
  <2>1. now' = now /\ UNCHANGED <<art, files, readable, crawled, cut>> /\ worker[j].at \in CrawlStages
    BY <1>1 DEF Mapped, CrawlStages, serverVars
  <2>2. ASSUME NEW n \in 1..MaxPages, worker' = [worker EXCEPT ![j] = [at |-> "fetching", left |-> n]],
               UNCHANGED <<job, told, unheard>>
        PROVE  Kept
    <3>1. [at |-> "fetching", left |-> n] \in [at : {"fetching"}, left : 0..MaxPages]
      BY <2>2, JobAssumption
    <3>2. QED
      BY <2>1, <2>2, <3>1, CrawlGoesOn
  <2>3. CASE CrawlFails(j)
    <3>1. job' = Updated(j, Failure) /\ Tell(j, "job.failed")
      BY <2>3 DEF CrawlFails
    <3>2. QED
      BY <2>1, <3>1, CrawlOver, Patches
  <2>4. QED
    BY <1>1, <2>2, <2>3 DEF Mapped
<1>2. CASE PageFetched(j)
  <2>1. /\ UNCHANGED <<job, art, files, told, readable, crawled, unheard, cut>> /\ now' = now
        /\ worker[j].at = "fetching" /\ worker[j].left > 1
        /\ worker' = [worker EXCEPT ![j].left = @ - 1]
    BY <1>2 DEF PageFetched, serverVars
  <2>2. worker \in [JobIds -> [at : Stages, left : 0..MaxPages]]
    BY DEF JInv, JobTypeOK
  <2>3. worker[j] \in [at : Stages, left : 0..MaxPages]
    BY <2>2
  <2> DEFINE s == [worker[j] EXCEPT !.left = @ - 1]
  <2>4. s \in [at : {"fetching"}, left : 0..MaxPages] /\ worker' = [worker EXCEPT ![j] = s]
    BY <2>1, <2>3, JobAssumption
  <2>5. QED
    <3> HIDE DEF s
    <3>1. worker[j].at \in CrawlStages
      BY <2>1 DEF CrawlStages
    <3>2. QED
      BY <2>1, <2>4, <3>1, CrawlGoesOn
<1>3. CASE CrawlEnds(j)
  <2> DEFINE patch == [Patch("complete") EXCEPT !.result = TRUE]
  <2>1. /\ now' = now /\ UNCHANGED <<art, files, readable, cut>> /\ worker[j].at \in CrawlStages
        /\ job' = Updated(j, patch) /\ crawled' = crawled \cup {j} /\ Tell(j, "job.complete")
    BY <1>3 DEF CrawlEnds, CrawlStages, serverVars
  <2>2. patch \in Patched /\ patch.status = "complete" /\ patch.result
    BY DEF Patch, Patched
  <2> HIDE DEF patch
  <2>3. QED
    BY <2>1, <2>2, CrawlOver
<1>4. CASE Overturned(j)
  <2>1. /\ now' = now /\ UNCHANGED <<art, files, readable, crawled, cut>> /\ worker[j].at = "unheard"
        /\ job' = Updated(j, Failure) /\ Tell(j, "job.failed")
    BY <1>4 DEF Overturned, CrawlFails, serverVars
  <2>2. QED
    BY <2>1, CrawlOver, Patches
<1>5. CASE Thrown(j)
  <2>1. JobsStop /\ now' = now
    BY <1>5 DEF Thrown, JobsStop
  <2>2. QED
    BY <2>1, StopKeeps
<1>6. QED
  BY <1>1, <1>2, <1>3, <1>4, <1>5, ToldKeeps DEF CrawlStep

-----------------------------------------------------------------------------
\* Jobs are made, and the process stops and starts

LEMMA CreateKeeps ==
    ASSUME JInv, ServerTypeOK', now' = now, NEW j \in JobIds, NEW owner \in Owners,
           NEW operation \in {"capture", "crawl"}, Create(j, owner, operation)
    PROVE  Kept
<1>1. JobTypeOK /\ JobFits(j) /\ now \in 0..LastTick /\ LastTick \in Nat /\ JobTtl \in Nat
  BY ServerAssumption, JobAssumption DEF JInv, ServerTypeOK
<1>2. PICK valid \in BOOLEAN :
        /\ operation = "crawl" => valid
        /\ job' = [job EXCEPT ![j] =
               [NoJob EXCEPT !.owner = owner, !.operation = operation, !.expires = now + JobTtl,
                             !.status = Started(valid), !.error = ~valid]]
        /\ IF ~valid THEN worker' = worker
           ELSE Goto(j, IF operation = "crawl" THEN "mapping" ELSE "proxy")
  BY DEF Create
<1>3. UNCHANGED <<art, files, told, readable, crawled, unheard, cut>> /\ job[j].status = "none"
  BY DEF Create
<1> DEFINE row == [NoJob EXCEPT !.owner = owner, !.operation = operation, !.expires = now + JobTtl,
                                !.status = Started(valid), !.error = ~valid]
<1>4. /\ row.owner = owner /\ row.operation = operation /\ row.expires = now + JobTtl
      /\ row.status = Started(valid) /\ row.error = ~valid /\ row.artifact = FALSE /\ row.result = FALSE
  BY DEF NoJob
<1>6. Started(valid) \in {"running", "failed"} /\ now + JobTtl \in 0..(LastTick + JobTtl)
  BY <1>1 DEF Started
<1>5. 0 \in 0..(LastTick + JobTtl) /\ (~valid) \in BOOLEAN
  BY <1>1
<1>7. row \in Rows
  <2>1. NoJob \in Rows
    BY <1>5 DEF NoJob, Rows
  <2>2. QED
    BY <1>5, <1>6, <2>1 DEF Rows
<1> HIDE DEF row
<1>8. /\ job' \in [JobIds -> Rows] /\ job'[j] = row
      /\ \A i \in JobIds \ {j} : job'[i] = job[i]
  BY <1>1, <1>2, <1>7 DEF JobTypeOK, Rows, row
<1>9. worker[j].at = "rest" /\ j \notin cut /\ told[j] = {} /\ j \notin crawled
  BY <1>1, <1>3 DEF JobFits, StageFits
<1>10. /\ worker' \in [JobIds -> [at : Stages, left : 0..MaxPages]]
       /\ \A i \in JobIds \ {j} : worker'[i] = worker[i]
       /\ IF ~valid THEN worker'[j].at = "rest"
          ELSE worker'[j].at = IF operation = "crawl" THEN "mapping" ELSE "proxy"
  <2>1. CASE ~valid
    BY <1>1, <1>2, <1>9, <2>1 DEF JobTypeOK
  <2>2. CASE valid
    <3>1. (IF operation = "crawl" THEN "mapping" ELSE "proxy") \in Stages
      BY DEF Stages, Unfinished, Finished
    <3>2. QED
      BY <1>1, <1>2, <2>2, <3>1, GotoType
  <2>3. QED
    BY <2>1, <2>2
<1>11. JobTypeOK'
  BY <1>1, <1>3, <1>8, <1>10 DEF JobTypeOK, Rows
<1>12. StageFits(j)'
  <2>1. CASE ~valid
    BY <1>1, <1>3, <1>4, <1>8, <1>9, <1>10, <2>1 DEF StageFits, CaptureStages, CrawlStages, Finished, Started
  <2>2. CASE valid
    BY <1>1, <1>3, <1>4, <1>8, <1>9, <1>10, <2>2 DEF StageFits, CaptureStages, CrawlStages, Finished, Started
  <2>3. QED
    BY <2>1, <2>2
<1>13. RowFits(j)'
  BY <1>2, <1>3, <1>4, <1>8, <1>9 DEF RowFits, Started
<1>14. JobFits(j)' /\ ~Ended(j) /\ now' >= now
  BY <1>1, <1>3, <1>12, <1>13 DEF JobFits, Ended
<1>15. QED
  BY <1>3, <1>8, <1>10, <1>11, <1>14, OneJob

\* A start, or a request that deletes webhooks, changes only who can be told.
LEMMA ReadableKeeps ==
    ASSUME JInv, ServerTypeOK', now' = now, readable' \subseteq Owners,
           UNCHANGED <<job, worker, art, files, told, crawled, unheard, cut>>
    PROVE  Kept
<1>1. JobTypeOK /\ ServerTypeOK /\ now \in Nat
  BY ServerAssumption DEF JInv, ServerTypeOK
<1>2. JobTypeOK'
  BY <1>1 DEF JobTypeOK
<1>3. ASSUME NEW j \in JobIds PROVE JobFits(j)'
  <2>1. JobFits(j) /\ now' >= now
    BY <1>1 DEF JInv
  <2>2. QED
    BY <1>1, <2>1, OthersFit
<1>4. QED
  BY <1>2, <1>3 DEF Kept, Stays

LEMMA IdleKeeps == ASSUME JInv, ServerTypeOK', now' >= now, UNCHANGED jobVars PROVE Kept
<1>1. JobTypeOK /\ ServerTypeOK
  BY DEF JInv
<1>2. UNCHANGED <<job, worker, art, files, told, readable, crawled, unheard, cut>>
  BY DEF jobVars
<1>3. JobTypeOK'
  BY <1>1, <1>2 DEF JobTypeOK
<1>4. ASSUME NEW j \in JobIds PROVE JobFits(j)'
  <2>1. JobFits(j)
    BY DEF JInv
  <2>2. QED
    BY <1>1, <1>2, <2>1, OthersFit
<1>5. QED
  BY <1>2, <1>3, <1>4 DEF Kept, Stays

-----------------------------------------------------------------------------
\* The steps around jobs

LEMMA ServerType == ASSUME ServerTypeOK, [Next]_vars PROVE ServerTypeOK' /\ now' >= now
<1>1. now \in Nat /\ LastTick \in Nat /\ Starts \in Nat /\ starts \in Nat
  BY ServerAssumption DEF ServerTypeOK
<1>2. CASE UNCHANGED serverVars
  BY <1>1, <1>2 DEF ServerTypeOK, serverVars
<1>3. CASE Tick \/ Shutdown \/ End \/ Start
  BY <1>1, <1>3 DEF ServerTypeOK, Tick, Shutdown, End, Start
<1>4. ASSUME NEW j \in JobIds, CrawlStep(j) PROVE ServerTypeOK' /\ now' >= now
  <2>1. now' = now /\ starts' = starts /\ (server' = server \/ server' = "down")
    BY <1>4 DEF CrawlStep, Mapped, PageFetched, CrawlEnds, Overturned, Thrown, Told, serverVars
  <2>2. QED
    BY <1>1, <2>1 DEF ServerTypeOK
<1>5. CASE UNCHANGED vars
  BY <1>2, <1>5 DEF vars
<1>6. CASE Next
  BY <1>2, <1>3, <1>4, <1>6 DEF Next, Submit, Unhook, Work, Stop, Kill, Restart
<1>7. QED
  BY <1>5, <1>6

LEMMA CallsKept == ASSUME CallsFit, [Next]_vars PROVE CallsFit'
<1>1. NoCall \in [key : Keys \cup {None}, stage : {"idle", "handling", "refused"}] /\ NoCall.stage = "idle"
  BY DEF NoCall
<1>2. CASE UNCHANGED call
  BY <1>2 DEF CallsFit
<1>3. ASSUME NEW c \in Calls, call' = [call EXCEPT ![c] = NoCall] PROVE CallsFit'
  BY <1>1, <1>3 DEF CallsFit
<1>4. ASSUME NEW c \in Calls, NEW k \in Keys, Receive(c, k) PROVE CallsFit'
  BY <1>4 DEF CallsFit, Receive
<1>5. CASE PolicyForget
  BY <1>1, <1>5 DEF CallsFit, PolicyForget
<1>6. CASE PolicyStep
  BY <1>2, <1>3, <1>4, <1>6 DEF PolicyStep, Respond, Vanish, Raise
<1>7. CASE UNCHANGED policyVars
  BY <1>2, <1>7 DEF policyVars
<1>8. CASE UNCHANGED vars
  BY <1>7, <1>8 DEF vars
<1>9. CASE Next
  BY <1>3, <1>5, <1>6, <1>7, <1>9 DEF Next, Submit, Unhook, Work, Stop, Kill, Restart
<1>10. QED
  BY <1>8, <1>9

LEMMA StepInvariant == ASSUME JInv, [Next]_vars PROVE JInv' /\ Kept
<1>1. ServerTypeOK' /\ CallsFit' /\ now' >= now
  BY ServerType, CallsKept DEF JInv
<1>2. ASSUME UNCHANGED jobVars PROVE Kept
  BY <1>1, <1>2, IdleKeeps
<1>3. ASSUME NEW c \in Calls, NEW j \in JobIds, NEW operation \in {"capture", "crawl"},
             Submit(c, j, operation)
      PROVE  Kept
  <2>1. call[c].key \in Keys /\ now' = now /\ Create(j, call[c].key, operation)
    BY <1>3 DEF JInv, CallsFit, Submit, serverVars
  <2>2. call[c].key \in Owners
    BY <2>1, ServiceAssumption
  <2>3. QED
    BY <1>1, <2>1, <2>2, CreateKeeps
<1>4. ASSUME NEW j \in JobIds, Work(j) PROVE Kept
  BY <1>1, <1>4, CrawlKeeps, CaptureKeeps DEF Work
<1>5. ASSUME Stop \/ Kill PROVE Kept
  <2>1. JobsStop /\ now' = now
    BY <1>5 DEF Stop, Kill, End
  <2>2. QED
    BY <1>1, <2>1, StopKeeps
<1>6. ASSUME Restart PROVE Kept
  <2>1. JobsStart /\ now' = now
    BY <1>6 DEF Restart, Start
  <2>2. QED
    BY <1>1, <2>1, ReadableKeeps DEF JobsStart
<1>9. ASSUME NEW c \in Calls, Unhook(c) PROVE Kept
  <2>1. call[c].key \in Keys /\ now' = now /\ Unhooked(call[c].key)
    BY <1>9 DEF JInv, CallsFit, Unhook, serverVars
  <2>2. readable' \subseteq Owners
    BY <2>1, ServiceAssumption DEF Unhooked, JInv, JobTypeOK
  <2>3. QED
    BY <1>1, <2>1, <2>2, ReadableKeeps DEF Unhooked
<1>7. Kept
  <2>1. CASE UNCHANGED vars
    BY <1>2, <2>1 DEF vars
  <2>2. CASE Next
    BY <1>2, <1>3, <1>4, <1>5, <1>6, <1>9, <2>2 DEF Next
  <2>3. QED
    BY <2>1, <2>2
<1>8. QED
  BY <1>1, <1>7 DEF Kept, JInv

LEMMA Invariant == Spec => []JInv
<1>1. JInv /\ [Next]_vars => JInv'
  BY StepInvariant
<1>2. QED
  BY InitInvariant, <1>1, PTL DEF Spec

-----------------------------------------------------------------------------
\* storage/jobs.ts, server/routes/admin.ts and execution.ts: a job that reads
\* complete has its artifact or its result, one that reads failed its error,
\* one that reads running runs or was interrupted, and webhooks were told what
\* the row says.
THEOREM JobsTold == Spec => []JobsAreTrue
<1>1. JInv => JobsAreTrue
  <2> SUFFICES ASSUME JInv PROVE JobsAreTrue
    OBVIOUS
  <2>1. JobTypeOK /\ \A j \in JobIds : StageFits(j) /\ RowFits(j)
    BY DEF JInv, JobFits
  <2>2. CompleteIsUsable /\ ToldIsTrue
    BY <2>1 DEF RowFits, CompleteIsUsable, ToldIsTrue
  <2>3. CrawledIsComplete
    BY <2>1 DEF JobTypeOK, RowFits, CrawledIsComplete
  <2>4. ASSUME NEW j \in JobIds
        PROVE  (job[j].status = "running") <=> (j \in cut \/ worker[j].at \in Unfinished)
    <3>1. worker[j].at \in Stages /\ StageFits(j)
      BY <2>1 DEF JobTypeOK
    <3>2. QED
      BY <3>1 DEF StageFits, Stages, Unfinished, Finished, CaptureStages, CrawlStages, Finished
  <2>5. QED
    BY <2>1, <2>2, <2>3, <2>4 DEF JobsAreTrue, RunningIsRunning
<1>2. QED
  BY Invariant, <1>1, PTL

\* The row of a job that reads complete or failed is not written again, by its own
\* function, another job, a request, a stop or a start of the process: but for a
\* complete crawl of which dispatchWebhooks() could tell nobody, which the catch
\* clause of execution.ts makes a failed one.
THEOREM EndedJobsStay == Spec => EndedStays
<1>1. JInv /\ [Next]_vars =>
          [\A j \in JobIds : job[j].status \in {"complete", "failed"} =>
               \/ job'[j] = job[j]
               \/ /\ job[j].status = "complete" /\ job'[j].status = "failed"
                  /\ job[j].operation = "crawl" /\ j \in unheard /\ told[j] = {}]_jobVars
  BY StepInvariant DEF Kept, Ended, Stays
<1>2. QED
  BY Invariant, <1>1, PTL DEF Spec, EndedStays

-----------------------------------------------------------------------------
\* Limits

Times == (0..LastTick) \cup {None}
UsageRows == [requests : Nat, outcomes : Nat]

\* The quota's rows; alerts and their history agree on when one was last sent.
UsageFits ==
    /\ usage \in [Keys -> [Days -> UsageRows]]
    /\ DailyLimit > 0 => \A k \in Keys, d \in Days : usage[k][d].requests <= DailyLimit
AlertsFit ==
    /\ lastSent \in [Events -> Times] /\ alerts \in [Events -> [last : Times, crowded : BOOLEAN]]
    /\ \A e \in Events : alerts[e].last = lastSent[e] /\ ~alerts[e].crowded
CountersFit ==
    \A k \in Keys : counters[k] = None
                    \/ counters[k] \in [startedAt : 0..LastTick, count : 1..(RateLimit + 1)]

PInv == ServerTypeOK /\ CallsFit /\ UsageFits /\ AlertsFit /\ CountersFit

LEMMA NotifyFits == ASSUME ServerTypeOK, AlertsFit, NEW e \in Events, Notify(e) PROVE AlertsFit'
<1>1. CASE Recent(lastSent[e])
  BY <1>1 DEF Notify, AlertsFit
<1>2. CASE ~Recent(lastSent[e])
  <2>1. now \in Times /\ ~Recent(alerts[e].last) /\ ~alerts[e].crowded
    BY <1>2 DEF ServerTypeOK, Times, AlertsFit
  <2>2. /\ lastSent' = [lastSent EXCEPT ![e] = now]
        /\ alerts' = [alerts EXCEPT ![e] = [last |-> now, crowded |-> FALSE]]
    BY <1>2, <2>1 DEF Notify, Marked
  <2>3. QED
    BY <2>1, <2>2 DEF AlertsFit
<1>3. QED
  BY <1>1, <1>2

LEMMA MoreUsage ==
    ASSUME NEW f \in [Days -> UsageRows], NEW t
    PROVE  /\ [f EXCEPT ![t].requests = @ + 1] \in [Days -> UsageRows]
           /\ [f EXCEPT ![t].outcomes = @ + 1] \in [Days -> UsageRows]
<1>1. CASE t \in Days
  <2>1. f[t] \in UsageRows
    BY <1>1
  <2>2. [f[t] EXCEPT !.requests = @ + 1] \in UsageRows /\ [f[t] EXCEPT !.outcomes = @ + 1] \in UsageRows
    BY <2>1 DEF UsageRows
  <2>3. QED
    BY <1>1, <2>2
<1>2. CASE t \notin Days
  BY <1>2
<1>3. QED
  BY <1>1, <1>2

LEMMA BookedFits ==
    ASSUME UsageFits, NEW c \in Calls, usage' = Booked(c)
    PROVE  UsageFits'
<1>1. CASE usage' = usage
  BY <1>1 DEF UsageFits
<1>2. CASE usage' # usage
  <2> DEFINE k == call[c].key
  <2>1. usage' = [usage EXCEPT ![k][Today].outcomes = @ + 1]
    BY <1>2 DEF Booked
  <2> HIDE DEF k
  <2>2. ASSUME NEW x \in Keys, NEW d \in Days
        PROVE  usage'[x][d] \in UsageRows /\ usage'[x][d].requests = usage[x][d].requests
    BY <2>1 DEF UsageFits, UsageRows
  <2>3. usage' \in [Keys -> [Days -> UsageRows]]
    <3>1. ASSUME NEW x \in Keys PROVE usage'[x] \in [Days -> UsageRows]
      <4>1. usage'[x] = IF x = k THEN [usage[x] EXCEPT ![Today].outcomes = @ + 1] ELSE usage[x]
        BY <2>1 DEF UsageFits
      <4>2. usage[x] \in [Days -> UsageRows]
        BY DEF UsageFits
      <4>3. [usage[x] EXCEPT ![Today].outcomes = @ + 1] \in [Days -> UsageRows]
        BY <4>2, MoreUsage
      <4>4. QED
        BY <4>1, <4>2, <4>3
    <3>2. QED
      BY <2>1, <3>1 DEF UsageFits
  <2>4. QED
    BY <2>2, <2>3 DEF UsageFits
<1>3. QED
  BY <1>1, <1>2

LEMMA ReceiveFits ==
    ASSUME PInv, NEW c \in Calls, NEW k \in Keys, Receive(c, k)
    PROVE  UsageFits' /\ CountersFit' /\ AlertsFit'
<1> DEFINE ok == counters'[k].count <= RateLimit /\ HasQuota(k)
<1>1. /\ counters' = [counters EXCEPT ![k] = Counted(k)] /\ usage' = Reserved(k, ok)
      /\ UNCHANGED <<lastSent, alerts>>
  BY DEF Receive
<1>2. now \in 0..LastTick /\ RateLimit \in Nat /\ DailyLimit \in Nat /\ LastTick \in Nat
  BY PolicyAssumption, ServerAssumption DEF PInv, ServerTypeOK
<1>3. Counted(k) \in [startedAt : 0..LastTick, count : 1..(RateLimit + 1)]
  <2>1. CASE counters[k] = None \/ now - counters[k].startedAt >= Minute
    BY <1>2, <2>1 DEF Counted
  <2>2. CASE counters[k] # None /\ ~(now - counters[k].startedAt >= Minute)
    <3>1. counters[k] \in [startedAt : 0..LastTick, count : 1..(RateLimit + 1)]
      BY <2>2 DEF PInv, CountersFit
    <3>2. Counted(k) = [counters[k] EXCEPT !.count = IF @ > RateLimit THEN @ ELSE @ + 1]
      BY <2>2 DEF Counted
    <3>3. QED
      BY <1>2, <3>1, <3>2
  <2>3. QED
    BY <2>1, <2>2
<1>4. CountersFit'
  <2>1. ASSUME NEW x \in Keys
        PROVE  counters'[x] = None
               \/ counters'[x] \in [startedAt : 0..LastTick, count : 1..(RateLimit + 1)]
    <3>1. CASE x = k /\ k \in DOMAIN counters
      BY <1>1, <1>3, <3>1
    <3>2. CASE x # k \/ k \notin DOMAIN counters
      BY <1>1, <3>2 DEF PInv, CountersFit
    <3>3. QED
      BY <3>1, <3>2
  <2>2. QED
    BY <2>1 DEF CountersFit
<1>5. UsageFits'
  <2>1. CASE ~ok
    BY <1>1, <2>1 DEF Reserved, PInv, UsageFits
  <2>2. CASE ok
    <3>1. usage' = [usage EXCEPT ![k][Today].requests = @ + 1] /\ HasQuota(k)
      BY <1>1, <2>2 DEF Reserved
    <3>2. ASSUME NEW x \in Keys PROVE usage'[x] \in [Days -> UsageRows]
      <4>1. usage'[x] = IF x = k THEN [usage[x] EXCEPT ![Today].requests = @ + 1] ELSE usage[x]
        BY <3>1 DEF PInv, UsageFits
      <4>2. usage[x] \in [Days -> UsageRows]
        BY DEF PInv, UsageFits
      <4>3. [usage[x] EXCEPT ![Today].requests = @ + 1] \in [Days -> UsageRows]
        BY <4>2, MoreUsage
      <4>4. QED
        BY <4>1, <4>2, <4>3
    <3>3. usage' \in [Keys -> [Days -> UsageRows]]
      BY <3>1, <3>2 DEF PInv, UsageFits
    <3>4. ASSUME DailyLimit > 0, NEW x \in Keys, NEW d \in Days
          PROVE  usage'[x][d].requests <= DailyLimit
      <4>1. usage[x][d] \in UsageRows /\ usage[x][d].requests <= DailyLimit
        BY <3>4 DEF PInv, UsageFits
      <4>2. CASE x = k /\ d = Today
        <5>1. usage[k][Today].requests < DailyLimit
          BY <3>1, <3>4, <1>2 DEF HasQuota
        <5>2. usage'[x][d].requests = usage[x][d].requests + 1
          BY <3>1, <4>1, <4>2 DEF PInv, UsageFits, UsageRows
        <5>3. QED
          BY <1>2, <4>1, <4>2, <5>1, <5>2 DEF UsageRows
      <4>3. CASE ~(x = k /\ d = Today)
        <5>1. usage'[x][d] = usage[x][d]
          BY <3>1, <4>3 DEF PInv, UsageFits
        <5>2. QED
          BY <4>1, <5>1
      <4>4. QED
        BY <4>2, <4>3
    <3>5. QED
      BY <3>3, <3>4 DEF UsageFits
  <2>3. QED
    BY <2>1, <2>2
<1>6. QED
  BY <1>1, <1>4, <1>5 DEF PInv, AlertsFit

LEMMA PolicyInitFits == Init => PInv
<1> SUFFICES ASSUME Init PROVE PInv
  OBVIOUS
<1>1. ServerTypeOK /\ CallsFit
  BY InitInvariant DEF JInv
<1>2. UsageFits
  <2>1. [requests |-> 0, outcomes |-> 0] \in UsageRows
    BY DEF UsageRows
  <2>2. QED
    BY <2>1, PolicyAssumption DEF Init, PolicyInit, UsageFits
<1>3. AlertsFit /\ CountersFit
  BY DEF Init, PolicyInit, AlertsFit, CountersFit, NoAlert, Times
<1>4. QED
  BY <1>1, <1>2, <1>3 DEF PInv

LEMMA PolicyStepFits == ASSUME PInv, [Next]_vars PROVE PInv'
<1>1. ServerTypeOK' /\ CallsFit'
  BY ServerType, CallsKept DEF PInv
<1>2. ASSUME UNCHANGED <<counters, lastSent, alerts>> PROVE AlertsFit' /\ CountersFit'
  BY <1>2 DEF PInv, AlertsFit, CountersFit
<1>3. ASSUME UNCHANGED policyVars PROVE UsageFits' /\ AlertsFit' /\ CountersFit'
  BY <1>2, <1>3 DEF policyVars, PInv, UsageFits
<1>4. ASSUME NEW c \in Calls, NEW status \in Statuses, Respond(c, status)
      PROVE  UsageFits' /\ AlertsFit' /\ CountersFit'
  <2>1. usage' = Booked(c) /\ counters' = counters
        /\ IF status \in Events THEN Notify(status) ELSE UNCHANGED <<lastSent, alerts>>
    BY <1>4 DEF Respond
  <2>2. AlertsFit'
    BY <2>1, NotifyFits DEF PInv, AlertsFit
  <2>3. QED
    BY <2>1, <2>2, BookedFits DEF PInv, CountersFit
<1>5. ASSUME NEW c \in Calls, NEW j \in JobIds, NEW operation, Submit(c, j, operation)
      PROVE  UsageFits' /\ AlertsFit' /\ CountersFit'
  BY <1>2, <1>5, BookedFits DEF Submit, PInv
<1>6. ASSUME NEW c \in Calls, Unhook(c) PROVE UsageFits' /\ AlertsFit' /\ CountersFit'
  BY <1>2, <1>6, BookedFits DEF Unhook, PInv
<1>7. ASSUME NEW c \in Calls, Vanish(c) PROVE UsageFits' /\ AlertsFit' /\ CountersFit'
  BY <1>2, <1>7 DEF Vanish, PInv, UsageFits
<1>8. ASSUME NEW e \in Events, Raise(e) PROVE UsageFits' /\ AlertsFit' /\ CountersFit'
  BY <1>8, NotifyFits DEF Raise, PInv, UsageFits, CountersFit
<1>9. ASSUME Restart PROVE UsageFits' /\ AlertsFit' /\ CountersFit'
  <2>1. PolicyForget /\ usage' = usage
    BY <1>9 DEF Restart
  <2>2. QED
    BY <2>1 DEF PolicyForget, PInv, UsageFits, AlertsFit, CountersFit, NoAlert, Times
<1>10. CASE UNCHANGED vars
  BY <1>1, <1>3, <1>10 DEF vars, PInv
<1>11. CASE Next
  BY <1>1, <1>3, <1>4, <1>5, <1>6, <1>7, <1>8, <1>9, <1>11, ReceiveFits
     DEF Next, PolicyStep, Work, Stop, Kill, PInv
<1>12. QED
  BY <1>10, <1>11

\* reserveUsage() and notifyOperationalAlert(): requests that overlap never
\* pass the daily limit of their key, whatever is booked, refused or restarted
\* meanwhile, and in one life of the process no two alerts of an event go out
\* within a minute.
THEOREM QuotaAndAlertsHold == Spec => [](DailyBound /\ AlertsAreSpaced)
<1>1. PInv => DailyBound /\ AlertsAreSpaced
  BY DEF PInv, UsageFits, AlertsFit, DailyBound, AlertsAreSpaced
<1>2. PInv /\ [Next]_vars => PInv'
  BY PolicyStepFits
<1>3. QED
  BY PolicyInitFits, <1>1, <1>2, PTL DEF Spec

-----------------------------------------------------------------------------
\* Requests per minute

Ticks == 0..LastTick
Windows == [startedAt : Ticks, count : 1..(RateLimit + 1)]

After(p, s) == SumFunctionOnSet(p, {u \in Ticks : u >= s})
Between(p, a, b) == SumFunctionOnSet(p, {u \in Ticks : u >= a /\ u < b})

PassesFit == passed \in [Keys -> [Ticks -> Nat]] /\ counters \in [Keys -> Windows \cup {None}]

\* The window of c, and the requests p let through until n: those in the
\* window are within the limit and are counted, one of them in its first tick,
\* let through or not; so those before it are one less than the limit in any
\* minute that reaches into the window, whose own window began before.
WindowFits(c, p) ==
    /\ After(p, c.startedAt) <= c.count /\ After(p, c.startedAt) <= RateLimit
    /\ After(p, c.startedAt + 1) <= c.count - 1 /\ After(p, c.startedAt + 1) <= RateLimit - 1
    /\ \A u \in Ticks : u >= c.startedAt /\ p[u] > 0 => u < c.startedAt + Minute
    /\ \A t \in Ticks : t > c.startedAt - Minute => Between(p, t, c.startedAt) <= RateLimit - 1

MinutesFit(p) == \A t \in Ticks : Between(p, t, t + Minute) < 2 * RateLimit

RateFits(c, p, n) ==
    /\ \A u \in Ticks : u > n => p[u] = 0
    /\ c = None => \A u \in Ticks : p[u] = 0
    /\ c # None => c.startedAt <= n /\ WindowFits(c, p)
    /\ MinutesFit(p)

\* One more at n.
More(p, n) == [p EXCEPT ![n] = @ + 1]

LEMMA TicksFinite == ASSUME NEW S \in SUBSET Ticks PROVE IsFiniteSet(S)
<1>1. IsFiniteSet(0..LastTick)
  BY ServerAssumption, FS_Interval
<1>2. QED
  BY <1>1, FS_Subset DEF Ticks

LEMMA PassesType ==
    ASSUME NEW p \in [Ticks -> Nat], NEW S \in SUBSET Ticks
    PROVE  SumFunctionOnSet(p, S) \in Nat
  BY TicksFinite, SumNat

LEMMA PassesPart ==
    ASSUME NEW p \in [Ticks -> Nat], NEW S \in SUBSET Ticks, NEW T \in SUBSET S
    PROVE  SumFunctionOnSet(p, T) <= SumFunctionOnSet(p, S)
  BY TicksFinite, SumPart

LEMMA OneMore ==
    ASSUME NEW p \in [Ticks -> Nat], NEW n \in Ticks, NEW S \in SUBSET Ticks
    PROVE  /\ More(p, n) \in [Ticks -> Nat]
           /\ n \in S => SumFunctionOnSet(More(p, n), S) = SumFunctionOnSet(p, S) + 1
           /\ n \notin S => SumFunctionOnSet(More(p, n), S) = SumFunctionOnSet(p, S)
<1> DEFINE q == More(p, n)
<1>1. q \in [Ticks -> Nat] /\ q[n] = p[n] + 1 /\ \A u \in Ticks : u # n => q[u] = p[u]
  BY DEF More
<1> HIDE DEF q
<1>2. IsFiniteSet(S)
  BY TicksFinite
<1>3. CASE n \in S
  <2>1. \A u \in S : p[u] \in Int /\ q[u] \in Int
    BY <1>1
  <2>2. \A u \in S \ {n} : q[u] = p[u]
    BY <1>1
  <2>3. SumFunctionOnSet(q, S) = SumFunctionOnSet(p, S) - p[n] + q[n]
    BY <1>2, <1>3, <2>1, <2>2, SumChange
  <2>4. SumFunctionOnSet(p, S) \in Nat /\ p[n] \in Nat
    BY PassesType
  <2>5. QED
    BY <1>1, <1>3, <2>3, <2>4 DEF q
<1>4. CASE n \notin S
  <2>1. \A u \in S : q[u] = p[u]
    BY <1>1, <1>4
  <2>2. SumFunctionOnSet(q, S) = SumFunctionOnSet(p, S)
    BY <1>2, <2>1, SumSame
  <2>3. QED
    BY <1>1, <1>4, <2>2 DEF q
<1>5. QED
  BY <1>3, <1>4

\* A stretch of time, up to s and after it.
LEMMA SplitAt ==
    ASSUME NEW p \in [Ticks -> Nat], NEW a \in Int, NEW b \in Int, NEW s \in Int
    PROVE  Between(p, a, b) <= Between(p, a, s) + After(p, s)
<1> DEFINE A == {u \in Ticks : u >= a /\ u < s}
           B == {u \in Ticks : u >= s}
           C == {u \in Ticks : u >= a /\ u < b}
<1>1. A \in SUBSET Ticks /\ B \in SUBSET Ticks /\ C \in SUBSET (A \cup B) /\ A \cap B = {}
  BY ServerAssumption DEF Ticks
<1>2. Between(p, a, b) = SumFunctionOnSet(p, C) /\ Between(p, a, s) = SumFunctionOnSet(p, A)
      /\ After(p, s) = SumFunctionOnSet(p, B)
  BY DEF Between, After
<1> HIDE DEF A, B, C
<1>3. SumFunctionOnSet(p, A \cup B) = SumFunctionOnSet(p, A) + SumFunctionOnSet(p, B)
  BY <1>1, TicksFinite, SumUnion
<1>4. SumFunctionOnSet(p, C) <= SumFunctionOnSet(p, A \cup B)
  BY <1>1, PassesPart
<1>5. QED
  BY <1>2, <1>3, <1>4

\* A minute that a request just let through falls into has its part in the
\* window and its part before.
LEMMA MinutesKept ==
    ASSUME NEW p \in [Ticks -> Nat], NEW n \in Ticks, NEW c \in Windows,
           MinutesFit(p), c.startedAt <= n, WindowFits(c, More(p, n))
    PROVE  MinutesFit(More(p, n))
<1> DEFINE q == More(p, n)
           s == c.startedAt
<1>1. q \in [Ticks -> Nat] /\ s \in Nat /\ n \in Nat /\ LastTick \in Nat /\ RateLimit \in Nat
      /\ Minute \in Nat \ {0}
  <2>1. s \in Nat /\ n \in Nat /\ LastTick \in Nat /\ RateLimit \in Nat /\ Minute \in Nat \ {0}
    BY ServerAssumption, PolicyAssumption DEF Ticks, Windows
  <2>2. q \in [Ticks -> Nat]
    BY OneMore
  <2>3. QED
    BY <2>1, <2>2
<1>2. SUFFICES ASSUME NEW t \in Ticks PROVE Between(q, t, t + Minute) < 2 * RateLimit
  BY DEF MinutesFit
<1>3. t \in Nat /\ Between(p, t, t + Minute) < 2 * RateLimit
  BY DEF MinutesFit, Ticks
<1>4. CASE t <= n /\ n < t + Minute
  <2>1. Between(q, t, t + Minute) <= Between(q, t, s) + After(q, s)
    BY <1>1, <1>3, SplitAt
  <2>2. t > s - Minute
    BY <1>1, <1>3, <1>4
  <2>3. Between(q, t, s) <= RateLimit - 1 /\ After(q, s) <= RateLimit
    BY <2>2 DEF WindowFits
  <2>4. Between(q, t, s) \in Nat /\ After(q, s) \in Nat /\ Between(q, t, t + Minute) \in Nat
    BY <1>1, PassesType DEF Between, After
  <2>5. QED
    BY <1>1, <2>1, <2>3, <2>4
<1>5. CASE ~(t <= n /\ n < t + Minute)
  <2>1. n \notin {u \in Ticks : u >= t /\ u < t + Minute}
    BY <1>1, <1>3, <1>5
  <2>2. Between(q, t, t + Minute) = Between(p, t, t + Minute)
    BY <2>1, OneMore DEF Between
  <2>3. QED
    BY <1>3, <2>2
<1>6. QED
  BY <1>4, <1>5

\* A request opens a window: nothing has been let through at n or since, and
\* whatever the last minute has seen was in the window that is over.
LEMMA NewWindow ==
    ASSUME NEW p \in [Ticks -> Nat], NEW n \in Ticks, NEW c \in Windows \cup {None},
           RateFits(c, p, n), c = None \/ n - c.startedAt >= Minute
    PROVE  LET new == [startedAt |-> n, count |-> 1]
           IN  WindowFits(new, p) /\ WindowFits(new, More(p, n))
<1> DEFINE q == More(p, n)
<1>1. n \in Nat /\ LastTick \in Nat /\ RateLimit \in Nat \ {0} /\ Minute \in Nat \ {0}
      /\ q \in [Ticks -> Nat] /\ q[n] = p[n] + 1 /\ \A u \in Ticks : u \in Nat /\ (u # n => q[u] = p[u])
  BY OneMore, ServerAssumption, PolicyAssumption DEF Ticks, More
<1>2. \A u \in Ticks : u >= n => p[u] = 0
  <2>1. CASE c = None
    BY <2>1 DEF RateFits
  <2>2. CASE c # None
    <3>1. c \in Windows /\ WindowFits(c, p) /\ c.startedAt \in Nat /\ n - c.startedAt >= Minute
      BY <2>2 DEF RateFits, Windows, Ticks
    <3>2. ASSUME NEW u \in Ticks, u >= n PROVE ~(p[u] > 0)
      BY <1>1, <3>1, <3>2 DEF WindowFits
    <3>3. QED
      BY <1>1, <3>2
  <2>3. QED
    BY <2>1, <2>2
<1>3. ASSUME NEW t \in Ticks, t > n - Minute PROVE Between(p, t, n) <= RateLimit - 1
  <2>1. CASE c = None
    <3>1. Between(p, t, n) = 0
      BY <2>1, TicksFinite, SumZero DEF RateFits, Between
    <3>2. QED
      BY <1>1, <3>1
  <2>2. CASE c # None
    <3>1. c \in Windows /\ WindowFits(c, p) /\ c.startedAt \in Nat /\ n - c.startedAt >= Minute
      BY <2>2 DEF RateFits, Windows, Ticks
    <3>2. {u \in Ticks : u >= t /\ u < n} \subseteq {u \in Ticks : u >= c.startedAt + 1}
      <4>1. t \in Nat /\ t >= c.startedAt + 1
        BY <1>1, <1>3, <3>1
      <4>2. \A u \in Ticks : u >= t => u >= c.startedAt + 1
        BY <1>1, <3>1, <4>1
      <4>3. QED
        BY <4>2
    <3>3. Between(p, t, n) <= After(p, c.startedAt + 1)
      BY <3>2, PassesPart DEF Between, After
    <3>4. Between(p, t, n) \in Nat /\ After(p, c.startedAt + 1) \in Nat
      BY PassesType DEF Between, After
    <3>5. QED
      BY <1>1, <3>1, <3>3, <3>4 DEF WindowFits
  <2>3. QED
    BY <2>1, <2>2
<1>4. After(p, n) = 0 /\ After(p, n + 1) = 0
  <2>1. After(p, n) = 0
    BY <1>2, TicksFinite, SumZero DEF After
  <2>2. \A u \in Ticks : u >= n + 1 => p[u] = 0
    BY <1>1, <1>2
  <2>3. After(p, n + 1) = 0
    BY <2>2, TicksFinite, SumZero DEF After
  <2>4. QED
    BY <2>1, <2>3
<1>5. After(q, n) = 1 /\ After(q, n + 1) = 0
  <2>1. n \in {u \in Ticks : u >= n} /\ n \notin {u \in Ticks : u >= n + 1}
    BY <1>1
  <2>2. QED
    BY <1>4, <2>1, OneMore DEF After
<1>6. \A t \in Ticks : Between(q, t, n) = Between(p, t, n)
  <2>1. TAKE t \in Ticks
  <2>2. n \notin {u \in Ticks : u >= t /\ u < n}
    BY <1>1
  <2>3. QED
    BY <2>2, OneMore DEF Between
<1> HIDE DEF q
<1>7. WindowFits([startedAt |-> n, count |-> 1], p)
  BY <1>1, <1>2, <1>3, <1>4 DEF WindowFits
<1>8. WindowFits([startedAt |-> n, count |-> 1], q)
  <2>1. \A u \in Ticks : u >= n /\ q[u] > 0 => u < n + Minute
    <3>1. TAKE u \in Ticks
    <3>2. CASE u = n
      BY <1>1, <3>2
    <3>3. CASE u # n
      BY <1>1, <1>2, <3>3
    <3>4. QED
      BY <3>2, <3>3
  <2>2. \A t \in Ticks : t > n - Minute => Between(q, t, n) <= RateLimit - 1
    BY <1>3, <1>6
  <2>3. QED
    BY <1>1, <1>5, <2>1, <2>2 DEF WindowFits
<1>9. QED
  BY <1>7, <1>8 DEF q

\* A request within the window.
LEMMA SameWindow ==
    ASSUME NEW p \in [Ticks -> Nat], NEW n \in Ticks, NEW c \in Windows, NEW new \in Windows,
           c.startedAt <= n, WindowFits(c, p), n - c.startedAt < Minute,
           new.startedAt = c.startedAt, new.count >= c.count
    PROVE  /\ WindowFits(new, p)
           /\ new.count = c.count + 1 /\ new.count <= RateLimit => WindowFits(new, More(p, n))
<1> DEFINE q == More(p, n)
           s == c.startedAt
<1>1. /\ n \in Nat /\ LastTick \in Nat /\ RateLimit \in Nat /\ Minute \in Nat \ {0} /\ s \in Nat
      /\ c.count \in Nat /\ new.count \in Nat
      /\ q \in [Ticks -> Nat] /\ q[n] = p[n] + 1 /\ \A u \in Ticks : u \in Nat /\ (u # n => q[u] = p[u])
  BY OneMore, ServerAssumption, PolicyAssumption DEF Ticks, More, Windows
<1>2. /\ After(p, s) \in Nat /\ After(q, s) = After(p, s) + 1
      /\ After(p, s + 1) \in Nat /\ After(q, s + 1) \in Nat /\ After(q, s + 1) <= After(p, s + 1) + 1
  <2>1. n \in {u \in Ticks : u >= s}
    BY <1>1
  <2>2. After(q, s) = After(p, s) + 1
    BY <2>1, OneMore DEF After
  <2>3. After(p, s + 1) \in Nat /\ After(q, s + 1) \in Nat /\ After(p, s) \in Nat
    BY <1>1, PassesType DEF After
  <2>4. After(q, s + 1) = After(p, s + 1) + 1 \/ After(q, s + 1) = After(p, s + 1)
    BY OneMore DEF After
  <2>5. QED
    BY <2>2, <2>3, <2>4
<1>3. \A t \in Ticks : Between(q, t, s) = Between(p, t, s)
  <2>1. TAKE t \in Ticks
  <2>2. n \notin {u \in Ticks : u >= t /\ u < s}
    BY <1>1
  <2>3. QED
    BY <2>2, OneMore DEF Between
<1> HIDE DEF q
<1>4. WindowFits(new, p)
  BY <1>1, <1>2 DEF WindowFits
<1>5. ASSUME new.count = c.count + 1, new.count <= RateLimit PROVE WindowFits(new, q)
  <2>1. /\ After(q, s) <= new.count /\ After(q, s) <= RateLimit
        /\ After(q, s + 1) <= new.count - 1 /\ After(q, s + 1) <= RateLimit - 1
    BY <1>1, <1>2, <1>5 DEF WindowFits
  <2>2. \A u \in Ticks : u >= s /\ q[u] > 0 => u < s + Minute
    <3>1. TAKE u \in Ticks
    <3>2. CASE u = n
      BY <1>1, <3>2
    <3>3. CASE u # n
      BY <1>1, <3>3 DEF WindowFits
    <3>4. QED
      BY <3>2, <3>3
  <2>3. \A t \in Ticks : t > s - Minute => Between(q, t, s) <= RateLimit - 1
    BY <1>3 DEF WindowFits
  <2>4. QED
    BY <2>1, <2>2, <2>3 DEF WindowFits
<1>6. QED
  BY <1>4, <1>5 DEF q

LEMMA ReceiveRate ==
    ASSUME NEW k \in Keys, PassesFit, now \in Ticks, RateFits(counters[k], passed[k], now),
           NEW q, q = passed[k] \/ (Counted(k).count <= RateLimit /\ q = More(passed[k], now))
    PROVE  /\ Counted(k) \in Windows /\ q \in [Ticks -> Nat]
           /\ RateFits(Counted(k), q, now)
<1> DEFINE c == counters[k]
           p == passed[k]
           new == Counted(k)
<1>1. /\ p \in [Ticks -> Nat] /\ c \in Windows \cup {None} /\ now \in Nat /\ LastTick \in Nat
      /\ RateLimit \in Nat /\ Minute \in Nat \ {0} /\ \A u \in Ticks : u \in Nat
  BY ServerAssumption, PolicyAssumption DEF PassesFit, Ticks
<1>2. q \in [Ticks -> Nat]
  BY <1>1, OneMore
<1>3. None \notin Windows
  BY <1>1, PolicyAssumption DEF Windows, Ticks
<1>4. new \in Windows /\ new.startedAt <= now /\ WindowFits(new, q)
  <2>1. CASE c = None \/ now - c.startedAt >= Minute
    <3>1. new = [startedAt |-> now, count |-> 1]
      BY <2>1 DEF Counted
    <3>2. new \in Windows /\ new.startedAt <= now /\ new.count = 1
      BY <1>1, <3>1 DEF Windows
    <3>3. WindowFits(new, p) /\ WindowFits(new, More(p, now))
      BY <1>1, <2>1, <3>1, NewWindow
    <3>4. QED
      BY <1>1, <3>2, <3>3
  <2>2. CASE ~(c = None \/ now - c.startedAt >= Minute)
    <3>1. new = [c EXCEPT !.count = IF @ > RateLimit THEN @ ELSE @ + 1]
      BY <2>2 DEF Counted
    <3>2. c \in Windows /\ c.startedAt <= now /\ WindowFits(c, p) /\ c.startedAt \in Nat
      BY <1>1, <2>2 DEF RateFits, Windows, Ticks
    <3>3. new \in Windows /\ new.startedAt = c.startedAt /\ new.count >= c.count
          /\ (new.count <= RateLimit => new.count = c.count + 1)
      BY <1>1, <3>1, <3>2 DEF Windows
    <3>4. now - c.startedAt < Minute
      BY <1>1, <2>2, <3>2
    <3> HIDE DEF c, new, p
    <3>5. WindowFits(new, p) /\ (new.count = c.count + 1 /\ new.count <= RateLimit => WindowFits(new, More(p, now)))
      BY <1>1, <3>2, <3>3, <3>4, SameWindow
    <3>6. QED
      BY <3>2, <3>3, <3>5 DEF p, new
  <2>3. QED
    BY <2>1, <2>2
<1>5. \A u \in Ticks : u > now => q[u] = 0
  BY <1>1 DEF RateFits, More
<1>6. MinutesFit(q)
  <2>1. MinutesFit(p)
    BY DEF RateFits
  <2> HIDE DEF new
  <2>2. QED
    BY <1>1, <1>4, <2>1, MinutesKept
<1>7. QED
  BY <1>2, <1>3, <1>4, <1>5, <1>6 DEF RateFits

-----------------------------------------------------------------------------
\* What a step does to counters, rows and requests

Answered(c) ==
    /\ call[c].stage # "idle"
    /\ usage' = Booked(c) \/ usage' = usage
    /\ call' = [call EXCEPT ![c] = NoCall]
    /\ UNCHANGED <<counters, passed>>

LEMMA PolicyChanges ==
    ASSUME [Next]_vars, ServerTypeOK
    PROVE  \/ \E c \in Calls, k \in Keys : Receive(c, k) /\ now' = now /\ starts' = starts
           \/ \E c \in Calls : Answered(c) /\ now' = now /\ starts' = starts
           \/ UNCHANGED <<counters, usage, call, passed>> /\ starts' = starts
           \/ PolicyForget /\ usage' = usage /\ now' = now /\ starts' # 1
<1>1. CASE PolicyStep /\ UNCHANGED serverVars
  BY <1>1 DEF PolicyStep, Answered, Respond, Vanish, Raise, serverVars
<1>2. ASSUME NEW c \in Calls, NEW j \in JobIds, NEW operation, Submit(c, j, operation)
      PROVE  Answered(c) /\ now' = now /\ starts' = starts
  BY <1>2 DEF Submit, Answered, serverVars
<1>3. ASSUME NEW c \in Calls, Unhook(c) PROVE Answered(c) /\ now' = now /\ starts' = starts
  BY <1>3 DEF Unhook, Answered, serverVars
<1>4. CASE UNCHANGED policyVars /\ starts' = starts
  BY <1>4 DEF policyVars
<1>5. CASE Restart
  <2>1. starts \in Nat \ {0} /\ starts' = starts + 1
    BY <1>5, ServerAssumption DEF Restart, Start, ServerTypeOK
  <2>2. QED
    BY <1>5, <2>1 DEF Restart, Start
<1>6. ASSUME NEW j \in JobIds, Work(j) PROVE UNCHANGED policyVars /\ starts' = starts
  BY <1>6 DEF Work, CrawlStep, Mapped, PageFetched, CrawlEnds, Overturned, Thrown, Told, CrawlFails,
               Tell, serverVars
<1>7. CASE UNCHANGED vars
  BY <1>4, <1>7 DEF vars, serverVars
<1>8. CASE Next
  BY <1>1, <1>2, <1>3, <1>4, <1>5, <1>6, <1>8 DEF Next, Tick, Shutdown, Stop, Kill, End
<1>9. QED
  BY <1>7, <1>8

\* The day of a moment is one of the days.
LEMMA TodayIsADay == ASSUME now \in Ticks PROVE Today \in Days
<1>1. LastTick \in Nat /\ DayTicks \in Nat \ {0} /\ now \in Nat /\ now <= LastTick
  BY ServerAssumption, PolicyAssumption DEF Ticks
<1> DEFINE a == now \div DayTicks
           b == LastTick \div DayTicks
<1>2. a \in Nat /\ b \in Nat /\ DayTicks * a <= now /\ LastTick < DayTicks * (b + 1)
  BY <1>1
<1> HIDE DEF a, b
<1>3. ASSUME ~(a <= b) PROVE FALSE
  <2>1. a >= b + 1
    BY <1>2, <1>3
  <2>2. DayTicks * a >= DayTicks * (b + 1)
    BY <1>1, <1>2, <2>1
  <2>3. QED
    BY <1>1, <1>2, <2>2
<1>4. QED
  BY <1>2, <1>3 DEF a, b, Today, Days

LEMMA DaysFinite == IsFiniteSet(Days)
<1>1. LastTick \div DayTicks \in Int
  BY ServerAssumption, PolicyAssumption
<1>2. QED
  BY <1>1, FS_Interval DEF Days

RInv == PInv /\ PassesFit /\ \A k \in Keys : RateFits(counters[k], passed[k], now)

ZeroPasses == [t \in Ticks |-> 0]

LEMMA ZeroFits == ASSUME now \in Ticks PROVE RateFits(None, ZeroPasses, now)
<1>1. \A S \in SUBSET Ticks : SumFunctionOnSet(ZeroPasses, S) = 0
  BY TicksFinite, SumZero DEF ZeroPasses
<1>2. MinutesFit(ZeroPasses)
  BY <1>1, PolicyAssumption DEF MinutesFit, Between
<1>3. \A u \in Ticks : ZeroPasses[u] = 0
  BY DEF ZeroPasses
<1>4. QED
  BY <1>2, <1>3 DEF RateFits

\* What receiving a request does to the key it carries, and to no other.
LEMMA ReceiveChanges ==
    ASSUME NEW c \in Calls, NEW k \in Keys, Receive(c, k), PassesFit, UsageFits, CallsFit, now \in Ticks
    PROVE  \E ok \in BOOLEAN :
              /\ ok => Counted(k).count <= RateLimit
              /\ counters' = [counters EXCEPT ![k] = Counted(k)]
              /\ passed' = [passed EXCEPT ![k] = IF ok THEN More(passed[k], now) ELSE passed[k]]
              /\ usage' = [usage EXCEPT ![k] = IF ok THEN [usage[k] EXCEPT ![Today].requests = @ + 1] ELSE usage[k]]
              /\ call' = [call EXCEPT ![c] = [key |-> k, stage |-> IF ok THEN "handling" ELSE "refused"]]
              /\ call[c].stage = "idle"
<1> DEFINE ok == counters'[k].count <= RateLimit /\ HasQuota(k)
<1>1. /\ counters' = [counters EXCEPT ![k] = Counted(k)] /\ usage' = Reserved(k, ok)
      /\ call' = [call EXCEPT ![c] = [key |-> k, stage |-> IF ok THEN "handling" ELSE "refused"]]
      /\ passed' = (IF ok THEN [passed EXCEPT ![k][now] = @ + 1] ELSE passed)
      /\ call[c].stage = "idle"
  BY DEF Receive
<1>2. counters'[k] = Counted(k)
  BY <1>1 DEF PassesFit
<1>3. CASE ok
  <2>1. Counted(k).count <= RateLimit
    BY <1>2, <1>3
  <2>2. passed' = [passed EXCEPT ![k] = More(passed[k], now)]
    BY <1>1, <1>3 DEF More
  <2>3. usage' = Reserved(k, TRUE)
    BY <1>1, <1>3
  <2> HIDE DEF ok
  <2>4. usage' = [usage EXCEPT ![k] = [usage[k] EXCEPT ![Today].requests = @ + 1]]
    BY <2>3 DEF Reserved
  <2>5. usage' = [usage EXCEPT ![k] = IF ok THEN [usage[k] EXCEPT ![Today].requests = @ + 1] ELSE usage[k]]
    BY <1>3, <2>4
  <2>6. passed' = [passed EXCEPT ![k] = IF ok THEN More(passed[k], now) ELSE passed[k]]
    BY <1>3, <2>2
  <2>7. QED
    BY <1>1, <1>3, <2>1, <2>5, <2>6
<1>4. CASE ~ok
  <2>1. passed' = [passed EXCEPT ![k] = passed[k]]
    BY <1>1, <1>4 DEF PassesFit
  <2>2. usage' = [usage EXCEPT ![k] = usage[k]]
    BY <1>1, <1>4 DEF Reserved, UsageFits
  <2> HIDE DEF ok
  <2>3. QED
    BY <1>1, <1>4, <2>1, <2>2
<1>5. QED
  BY <1>3, <1>4

LEMMA RateStep ==
    ASSUME RInv, [Next]_vars
    PROVE  PassesFit' /\ \A k \in Keys : RateFits(counters[k], passed[k], now)'
<1>1. /\ PInv /\ PInv' /\ PassesFit /\ now \in Ticks /\ now' \in Ticks /\ now' >= now
      /\ ServerTypeOK /\ CallsFit /\ UsageFits
  BY PolicyStepFits, ServerType DEF RInv, PInv, ServerTypeOK, Ticks
<1>2. ASSUME NEW c \in Calls, NEW k \in Keys, Receive(c, k), now' = now
      PROVE  PassesFit' /\ \A x \in Keys : RateFits(counters[x], passed[x], now)'
  <2>1. PICK ok \in BOOLEAN :
              /\ ok => Counted(k).count <= RateLimit
              /\ counters' = [counters EXCEPT ![k] = Counted(k)]
              /\ passed' = [passed EXCEPT ![k] = IF ok THEN More(passed[k], now) ELSE passed[k]]
    BY <1>1, <1>2, ReceiveChanges
  <2> DEFINE q == IF ok THEN More(passed[k], now) ELSE passed[k]
  <2>2. q = passed[k] \/ (Counted(k).count <= RateLimit /\ q = More(passed[k], now))
    BY <2>1
  <2> HIDE DEF q
  <2>3. Counted(k) \in Windows /\ q \in [Ticks -> Nat] /\ RateFits(Counted(k), q, now)
    BY <1>1, <2>2, ReceiveRate DEF RInv
  <2>4. passed' = [passed EXCEPT ![k] = q]
    BY <2>1 DEF q
  <2>5. PassesFit'
    BY <1>1, <2>1, <2>3, <2>4 DEF PassesFit
  <2>6. ASSUME NEW x \in Keys PROVE RateFits(counters'[x], passed'[x], now')
    <3>1. CASE x = k
      BY <1>1, <1>2, <2>1, <2>3, <2>4, <3>1 DEF PassesFit
    <3>2. CASE x # k
      <4>1. counters'[x] = counters[x] /\ passed'[x] = passed[x]
        BY <1>1, <2>1, <2>4, <3>2 DEF PassesFit
      <4>2. QED
        BY <1>2, <4>1 DEF RInv
    <3>3. QED
      BY <3>1, <3>2
  <2>7. QED
    BY <2>5, <2>6
<1>3. CASE UNCHANGED <<counters, passed>>
  <2>1. \A u \in Ticks : u > now' => u > now
    BY <1>1, ServerAssumption DEF Ticks
  <2>2. \A k \in Keys : counters[k] # None => (counters[k].startedAt <= now => counters[k].startedAt <= now')
    <3>1. TAKE k \in Keys
    <3>2. counters[k] # None => counters[k].startedAt \in Nat
      BY <1>1 DEF PassesFit, Windows, Ticks
    <3>3. QED
      BY <1>1, <3>2, ServerAssumption DEF Ticks
  <2>3. QED
    BY <1>1, <1>3, <2>1, <2>2 DEF RInv, PassesFit, RateFits
<1>4. CASE PolicyForget /\ now' = now
  <2>1. counters' = [k \in Keys |-> None] /\ passed' = [k \in Keys |-> ZeroPasses]
    BY <1>4 DEF PolicyForget, ZeroPasses, Ticks
  <2>2. RateFits(None, ZeroPasses, now) /\ ZeroPasses \in [Ticks -> Nat]
    BY <1>1, ZeroFits DEF ZeroPasses
  <2>3. QED
    BY <1>4, <2>1, <2>2 DEF PassesFit
<1>5. QED
  BY <1>1, <1>2, <1>3, <1>4, PolicyChanges DEF Answered

LEMMA RateInvariant == Spec => []RInv
<1>1. Init => RInv
  <2> SUFFICES ASSUME Init PROVE RInv
    OBVIOUS
  <2>1. PInv /\ now \in Ticks
    BY PolicyInitFits DEF PInv, ServerTypeOK, Ticks
  <2>2. counters = [k \in Keys |-> None] /\ passed = [k \in Keys |-> ZeroPasses]
    BY DEF Init, PolicyInit, ZeroPasses, Ticks
  <2>3. RateFits(None, ZeroPasses, now) /\ ZeroPasses \in [Ticks -> Nat]
    BY <2>1, ZeroFits DEF ZeroPasses
  <2>4. QED
    BY <2>1, <2>2, <2>3 DEF RInv, PassesFit
<1>2. RInv /\ [Next]_vars => RInv'
  BY RateStep, PolicyStepFits DEF RInv
<1>3. QED
  BY <1>1, <1>2, PTL DEF Spec

\* server/lifecycle.ts and alerts.ts, whatever calls overlap: in one life of the
\* process no minute sees twice the limit of a key let through, although windows
\* open where the code happens to open them, nor two alerts of an event; and no
\* day sees more than its quota, however the process is restarted.
THEOREM LimitsAlwaysHold == Spec => []LimitsHold
<1>1. RInv => LimitsHold
  <2> SUFFICES ASSUME RInv PROVE LimitsHold
    OBVIOUS
  <2>1. PolicyTypeOK
    BY DEF RInv, PInv, CountersFit, UsageFits, UsageRows, CallsFit, AlertsFit, Times, PolicyTypeOK
  <2>2. RateBound
    BY DEF RInv, RateFits, MinutesFit, Between, Ticks, RateBound
  <2>3. QED
    BY <2>1, <2>2 DEF RInv, PInv, UsageFits, AlertsFit, DailyBound, AlertsAreSpaced, LimitsHold
<1>2. QED
  BY RateInvariant, <1>1, PTL

-----------------------------------------------------------------------------
\* What the usage rows tell

SumOf(f) == SumFunctionOnSet(f, Days)
Outcomes(rows) == [d \in Days |-> rows[d].outcomes]
Requests(rows) == [d \in Days |-> rows[d].requests]
HandledFor(k) == {c \in Calls : call[c] = [key |-> k, stage |-> "handling"]}
DayOf(d) == {t \in Ticks : t \div DayTicks = d}

LEMMA DaySum ==
    ASSUME NEW f \in [Days -> Nat], NEW g \in [Days -> Nat], NEW e \in Days,
           \A d \in Days : g[d] = IF d = e THEN f[d] + 1 ELSE f[d]
    PROVE  SumOf(g) = SumOf(f) + 1
<1>1. /\ \A d \in Days : f[d] \in Int /\ g[d] \in Int
      /\ \A d \in Days \ {e} : g[d] = f[d]
  OBVIOUS
<1>2. SumFunctionOnSet(g, Days) = SumFunctionOnSet(f, Days) - f[e] + g[e]
  BY <1>1, DaysFinite, SumChange
<1>3. SumFunctionOnSet(f, Days) \in Nat /\ f[e] \in Nat /\ g[e] = f[e] + 1
  BY DaysFinite, SumNat
<1>4. QED
  BY <1>2, <1>3 DEF SumOf

\* One more in a row of requests, or of outcomes.
LEMMA MoreRequests ==
    ASSUME NEW f \in [Days -> UsageRows], NEW e \in Days
    PROVE  LET g == [f EXCEPT ![e].requests = @ + 1]
           IN  /\ g \in [Days -> UsageRows]
               /\ SumOf(Requests(g)) = SumOf(Requests(f)) + 1 /\ Outcomes(g) = Outcomes(f)
               /\ \A d \in Days : g[d].requests = IF d = e THEN f[d].requests + 1 ELSE f[d].requests
<1> DEFINE g == [f EXCEPT ![e].requests = @ + 1]
<1>1. g \in [Days -> UsageRows]
  BY MoreUsage
<1>2. /\ \A d \in Days : g[d].requests = IF d = e THEN f[d].requests + 1 ELSE f[d].requests
      /\ \A d \in Days : g[d].outcomes = f[d].outcomes
  BY DEF UsageRows
<1> HIDE DEF g
<1>3. Requests(f) \in [Days -> Nat] /\ Requests(g) \in [Days -> Nat]
  BY <1>1 DEF Requests, UsageRows
<1>4. \A d \in Days : Requests(g)[d] = IF d = e THEN Requests(f)[d] + 1 ELSE Requests(f)[d]
  BY <1>2 DEF Requests
<1>5. SumOf(Requests(g)) = SumOf(Requests(f)) + 1
  BY <1>3, <1>4, DaySum
<1>6. Outcomes(g) = Outcomes(f)
  BY <1>2 DEF Outcomes
<1>7. QED
  BY <1>1, <1>2, <1>5, <1>6 DEF g

LEMMA MoreOutcomes ==
    ASSUME NEW f \in [Days -> UsageRows], NEW e \in Days
    PROVE  LET g == [f EXCEPT ![e].outcomes = @ + 1]
           IN  /\ g \in [Days -> UsageRows]
               /\ SumOf(Outcomes(g)) = SumOf(Outcomes(f)) + 1 /\ Requests(g) = Requests(f)
               /\ \A d \in Days : g[d].requests = f[d].requests
<1> DEFINE g == [f EXCEPT ![e].outcomes = @ + 1]
<1>1. g \in [Days -> UsageRows]
  BY MoreUsage
<1>2. /\ \A d \in Days : g[d].outcomes = IF d = e THEN f[d].outcomes + 1 ELSE f[d].outcomes
      /\ \A d \in Days : g[d].requests = f[d].requests
  BY DEF UsageRows
<1> HIDE DEF g
<1>3. Outcomes(f) \in [Days -> Nat] /\ Outcomes(g) \in [Days -> Nat]
  BY <1>1 DEF Outcomes, UsageRows
<1>4. \A d \in Days : Outcomes(g)[d] = IF d = e THEN Outcomes(f)[d] + 1 ELSE Outcomes(f)[d]
  BY <1>2 DEF Outcomes
<1>5. SumOf(Outcomes(g)) = SumOf(Outcomes(f)) + 1
  BY <1>3, <1>4, DaySum
<1>6. Requests(g) = Requests(f)
  BY <1>2 DEF Requests
<1>7. QED
  BY <1>1, <1>2, <1>5, <1>6 DEF g

\* The two conjuncts of UsageIsTrue, per key.
ReservedFor(k) ==
    SumOf(Outcomes(usage[k])) + Cardinality(HandledFor(k)) <= SumOf(Requests(usage[k]))
PassedFor(k) ==
    starts = 1 => \A d \in Days : usage[k][d].requests = SumFunctionOnSet(passed[k], DayOf(d))

RowsTell == \A k \in Keys : ReservedFor(k) /\ PassedFor(k)

LEMMA HandledFinite ==
    ASSUME NEW k
    PROVE  IsFiniteSet(HandledFor(k)) /\ Cardinality(HandledFor(k)) \in Nat
<1>1. IsFiniteSet(HandledFor(k))
  BY PolicyAssumption, FS_Subset DEF HandledFor
<1>2. QED
  BY <1>1, FS_CardinalityType

LEMMA SumsType ==
    ASSUME UsageFits, NEW k \in Keys
    PROVE  SumOf(Outcomes(usage[k])) \in Nat /\ SumOf(Requests(usage[k])) \in Nat
<1>1. \A d \in Days : Outcomes(usage[k])[d] \in Nat /\ Requests(usage[k])[d] \in Nat
  BY DEF UsageFits, UsageRows, Outcomes, Requests
<1>2. QED
  BY <1>1, DaysFinite, SumNat DEF SumOf

LEMMA ReceiveTells ==
    ASSUME RInv, RowsTell, NEW c \in Calls, NEW k \in Keys, Receive(c, k), starts' = starts
    PROVE  RowsTell'
<1>1. /\ PassesFit /\ UsageFits /\ CallsFit /\ now \in Ticks /\ Today \in Days
      /\ usage \in [Keys -> [Days -> UsageRows]]
  BY TodayIsADay DEF RInv, PInv, ServerTypeOK, Ticks, UsageFits
<1>2. PICK ok \in BOOLEAN :
        /\ passed' = [passed EXCEPT ![k] = IF ok THEN More(passed[k], now) ELSE passed[k]]
        /\ usage' = [usage EXCEPT ![k] = IF ok THEN [usage[k] EXCEPT ![Today].requests = @ + 1] ELSE usage[k]]
        /\ call' = [call EXCEPT ![c] = [key |-> k, stage |-> IF ok THEN "handling" ELSE "refused"]]
        /\ call[c].stage = "idle"
  BY <1>1, ReceiveChanges
<1>3. \A x \in Keys : x # k => usage'[x] = usage[x] /\ passed'[x] = passed[x]
  BY <1>1, <1>2 DEF PassesFit
<1>4. call'[c] = [key |-> k, stage |-> IF ok THEN "handling" ELSE "refused"]
      /\ \A b \in Calls : b # c => call'[b] = call[b]
  BY <1>1, <1>2 DEF CallsFit
<1>5. \A x : c \notin HandledFor(x)
  BY <1>2 DEF HandledFor
<1>6. ASSUME NEW x \in Keys, x # k PROVE HandledFor(x)' = HandledFor(x)
  BY <1>4, <1>5, <1>6 DEF HandledFor
<1>7. ASSUME NEW x \in Keys, x # k PROVE ReservedFor(x)' /\ PassedFor(x)'
  <2>1. usage'[x] = usage[x] /\ passed'[x] = passed[x] /\ HandledFor(x)' = HandledFor(x)
        /\ ReservedFor(x) /\ PassedFor(x)
    BY <1>3, <1>6, <1>7 DEF RowsTell
  <2>2. QED
    BY <2>1 DEF ReservedFor, PassedFor
<1>8. CASE ok
  <2> DEFINE g == [usage[k] EXCEPT ![Today].requests = @ + 1]
  <2>1. usage'[k] = g /\ passed'[k] = More(passed[k], now) /\ usage[k] \in [Days -> UsageRows]
        /\ passed[k] \in [Ticks -> Nat]
    BY <1>1, <1>2, <1>8 DEF PassesFit
  <2>2. /\ SumOf(Requests(g)) = SumOf(Requests(usage[k])) + 1 /\ Outcomes(g) = Outcomes(usage[k])
        /\ \A d \in Days : g[d].requests = IF d = Today THEN usage[k][d].requests + 1 ELSE usage[k][d].requests
    BY <1>1, <2>1, MoreRequests
  <2>3. HandledFor(k)' = HandledFor(k) \cup {c}
    BY <1>4, <1>5, <1>8 DEF HandledFor
  <2>4. Cardinality(HandledFor(k)') = Cardinality(HandledFor(k)) + 1
    BY <1>5, <2>3, HandledFinite, FS_AddElement
  <2>5. /\ SumOf(Outcomes(usage[k])) \in Nat /\ SumOf(Requests(usage[k])) \in Nat
        /\ Cardinality(HandledFor(k)) \in Nat /\ ReservedFor(k) /\ PassedFor(k)
    BY <1>1, SumsType, HandledFinite DEF RowsTell
  <2> HIDE DEF g
  <2>6. ReservedFor(k)'
    <3>1. SumOf(Outcomes(g)) + (Cardinality(HandledFor(k)) + 1) <= SumOf(Requests(g))
      BY <2>2, <2>5 DEF ReservedFor
    <3>2. QED
      BY <2>1, <2>4, <3>1 DEF ReservedFor
  <2>7. ASSUME starts' = 1, NEW d \in Days
        PROVE  g[d].requests = SumFunctionOnSet(More(passed[k], now), DayOf(d))
    <3>1. usage[k][d].requests = SumFunctionOnSet(passed[k], DayOf(d))
      BY <2>5, <2>7 DEF PassedFor
    <3>2. DayOf(d) \in SUBSET Ticks /\ (now \in DayOf(d) <=> d = Today)
      BY <1>1 DEF DayOf, Today
    <3>3. CASE d = Today
      BY <1>1, <2>1, <2>2, <3>1, <3>2, <3>3, OneMore
    <3>4. CASE d # Today
      BY <1>1, <2>1, <2>2, <3>1, <3>2, <3>4, OneMore
    <3>5. QED
      BY <3>3, <3>4
  <2>8. PassedFor(k)'
    BY <2>1, <2>7 DEF PassedFor, DayOf
  <2>9. QED
    BY <1>7, <2>6, <2>8 DEF RowsTell
<1>9. CASE ~ok
  <2>1. usage'[k] = usage[k] /\ passed'[k] = passed[k] /\ ReservedFor(k) /\ PassedFor(k)
    BY <1>1, <1>2, <1>9 DEF PassesFit, RowsTell
  <2>2. HandledFor(k)' = HandledFor(k)
    BY <1>4, <1>5, <1>9 DEF HandledFor
  <2>3. ReservedFor(k)' /\ PassedFor(k)'
    BY <2>1, <2>2 DEF ReservedFor, PassedFor
  <2>4. QED
    BY <1>7, <2>3 DEF RowsTell
<1>10. QED
  BY <1>8, <1>9

LEMMA AnswerTells ==
    ASSUME RInv, RowsTell, NEW c \in Calls, Answered(c), now' = now, starts' = starts
    PROVE  RowsTell'
<1>1. /\ UsageFits /\ CallsFit /\ Today \in Days /\ passed' = passed
      /\ usage \in [Keys -> [Days -> UsageRows]]
  BY TodayIsADay DEF RInv, PInv, ServerTypeOK, Ticks, UsageFits, Answered
<1>2. /\ call' = [call EXCEPT ![c] = NoCall] /\ call[c].stage # "idle"
      /\ usage' = Booked(c) \/ usage' = usage
  BY DEF Answered
<1>3. call'[c] = NoCall /\ \A b \in Calls : b # c => call'[b] = call[b]
  BY <1>1, <1>2 DEF CallsFit
<1>4. \A x \in Keys : HandledFor(x)' = HandledFor(x) \ {c}
  BY <1>3 DEF HandledFor, NoCall
<1>5. SUFFICES ASSUME NEW x \in Keys PROVE ReservedFor(x)' /\ PassedFor(x)'
  BY DEF RowsTell
<1>6. /\ SumOf(Outcomes(usage[x])) \in Nat /\ SumOf(Requests(usage[x])) \in Nat
      /\ IsFiniteSet(HandledFor(x)) /\ Cardinality(HandledFor(x)) \in Nat
      /\ ReservedFor(x) /\ PassedFor(x) /\ usage[x] \in [Days -> UsageRows]
  BY <1>1, SumsType, HandledFinite DEF RowsTell
<1>7. Cardinality(HandledFor(x)') \in Nat
      /\ Cardinality(HandledFor(x)') = IF c \in HandledFor(x) THEN Cardinality(HandledFor(x)) - 1
                                       ELSE Cardinality(HandledFor(x))
  <2>1. Cardinality(HandledFor(x) \ {c}) = IF c \in HandledFor(x) THEN Cardinality(HandledFor(x)) - 1
                                           ELSE Cardinality(HandledFor(x))
    BY <1>6, FS_RemoveElement
  <2>2. IsFiniteSet(HandledFor(x) \ {c})
    BY <1>6, FS_RemoveElement
  <2>3. Cardinality(HandledFor(x) \ {c}) \in Nat
    BY <2>2, FS_CardinalityType
  <2>4. QED
    BY <1>4, <2>1, <2>3
<1>8. CASE usage'[x] = usage[x]
  <2>1. ReservedFor(x)'
    BY <1>6, <1>7, <1>8 DEF ReservedFor
  <2>2. PassedFor(x)'
    BY <1>1, <1>6, <1>8 DEF PassedFor, DayOf
  <2>3. QED
    BY <2>1, <2>2
<1>9. CASE usage'[x] # usage[x]
  <2>1. usage' = Booked(c)
    BY <1>2, <1>9
  <2>2. /\ call[c].stage # "refused" /\ call[c].key = x
        /\ usage' = [usage EXCEPT ![call[c].key][Today].outcomes = @ + 1]
    <3>1. usage' # usage
      BY <1>9
    <3>2. call[c].stage # "refused" /\ usage' = [usage EXCEPT ![call[c].key][Today].outcomes = @ + 1]
      BY <2>1, <3>1 DEF Booked
    <3>3. call[c].key = x
      BY <1>1, <1>9, <3>2
    <3>4. QED
      BY <3>2, <3>3
  <2> DEFINE g == [usage[x] EXCEPT ![Today].outcomes = @ + 1]
  <2>3. usage'[x] = g
    BY <1>1, <2>2
  <2>4. c \in HandledFor(x)
    <3>1. call[c] \in [key : Keys \cup {None}, stage : {"idle", "handling", "refused"}]
      BY <1>1 DEF CallsFit
    <3>2. call[c].stage = "handling"
      BY <1>2, <2>2, <3>1
    <3>3. QED
      BY <2>2, <3>1, <3>2 DEF HandledFor
  <2>5. /\ SumOf(Outcomes(g)) = SumOf(Outcomes(usage[x])) + 1 /\ Requests(g) = Requests(usage[x])
        /\ \A d \in Days : g[d].requests = usage[x][d].requests
    BY <1>1, <1>6, MoreOutcomes
  <2> HIDE DEF g
  <2>6. ReservedFor(x)'
    <3>1. SumOf(Outcomes(g)) + Cardinality(HandledFor(x)') <= SumOf(Requests(g))
      BY <1>6, <1>7, <2>4, <2>5 DEF ReservedFor
    <3>2. QED
      BY <2>3, <3>1 DEF ReservedFor
  <2>7. PassedFor(x)'
    BY <1>1, <1>6, <2>3, <2>5 DEF PassedFor, DayOf
  <2>8. QED
    BY <2>6, <2>7
<1>10. QED
  BY <1>8, <1>9

LEMMA ForgetTells ==
    ASSUME RInv, RowsTell, PolicyForget, usage' = usage, starts' # 1
    PROVE  RowsTell'
<1>1. SUFFICES ASSUME NEW x \in Keys PROVE ReservedFor(x)' /\ PassedFor(x)'
  BY DEF RowsTell
<1>2. UsageFits
  BY DEF RInv, PInv
<1>3. /\ SumOf(Outcomes(usage[x])) \in Nat /\ SumOf(Requests(usage[x])) \in Nat
      /\ Cardinality(HandledFor(x)) \in Nat /\ ReservedFor(x)
  BY <1>2, SumsType, HandledFinite DEF RowsTell
<1>4. HandledFor(x)' = {}
  BY DEF PolicyForget, HandledFor, NoCall
<1>5. Cardinality(HandledFor(x)') = 0
  BY <1>4, FS_EmptySet
<1>6. ReservedFor(x)'
  BY <1>3, <1>5 DEF ReservedFor
<1>7. QED
  BY <1>6 DEF PassedFor

LEMMA RowsTellStep == ASSUME RInv, RowsTell, [Next]_vars PROVE RowsTell'
<1>1. ServerTypeOK
  BY DEF RInv, PInv
<1>2. CASE UNCHANGED <<counters, usage, call, passed>> /\ starts' = starts
  BY <1>2 DEF RowsTell, ReservedFor, PassedFor, HandledFor, DayOf
<1>3. QED
  BY <1>1, <1>2, PolicyChanges, ReceiveTells, AnswerTells, ForgetTells

LEMMA InitTells == Init => RowsTell
<1> SUFFICES ASSUME Init, NEW k \in Keys PROVE ReservedFor(k) /\ PassedFor(k)
  BY DEF RowsTell
<1>1. /\ usage[k] = [d \in Days |-> [requests |-> 0, outcomes |-> 0]]
      /\ passed[k] = ZeroPasses /\ call = [c \in Calls |-> NoCall]
  BY DEF Init, PolicyInit, ZeroPasses, Ticks
<1>2. \A d \in Days : Outcomes(usage[k])[d] = 0 /\ Requests(usage[k])[d] = 0 /\ usage[k][d].requests = 0
  BY <1>1 DEF Outcomes, Requests
<1>3. SumOf(Outcomes(usage[k])) = 0 /\ SumOf(Requests(usage[k])) = 0
  BY <1>2, DaysFinite, SumZero DEF SumOf
<1>4. HandledFor(k) = {}
  BY <1>1 DEF HandledFor, NoCall
<1>5. Cardinality(HandledFor(k)) = 0
  BY <1>4, FS_EmptySet
<1>6. ReservedFor(k)
  BY <1>3, <1>5 DEF ReservedFor
<1>7. ASSUME NEW d \in Days PROVE SumFunctionOnSet(passed[k], DayOf(d)) = 0
  <2>1. DayOf(d) \in SUBSET Ticks /\ \A t \in DayOf(d) : passed[k][t] = 0
    BY <1>1 DEF DayOf, ZeroPasses
  <2>2. QED
    BY <2>1, TicksFinite, SumZero
<1>8. QED
  BY <1>2, <1>6, <1>7 DEF PassedFor

\* reserveUsage() and recordUsageOutcome(): the rows of a key never count fewer
\* requests than have been answered or are being answered, whatever day they are
\* answered on and however often the process has been restarted; until its first
\* restart they count those that were let through and nothing else.
THEOREM UsageTellsTheTruth == Spec => []UsageIsTrue
<1>1. RInv /\ RowsTell => UsageIsTrue
  BY DEF RowsTell, ReservedFor, PassedFor, SumOf, Outcomes, Requests, HandledFor, DayOf, Ticks,
         UsageIsTrue, OutcomesAreReserved, RefusedTakeNothing
<1>2. RInv /\ RowsTell /\ [Next]_vars => RowsTell'
  BY RowsTellStep
<1>3. QED
  BY InitTells, RateInvariant, <1>1, <1>2, PTL DEF Spec

=============================================================================
