-------------------------------- MODULE Service --------------------------------
(***************************************************************************)
(* The server around its background jobs: requests pass the policies, some *)
(* of them make jobs, jobs run on after their answer, and close() or the   *)
(* end of the process meets both (server.ts, index.ts).                    *)
(***************************************************************************)
EXTENDS RequestPolicies, Jobs

\* The keys of requests and the owners of jobs are the same.
ASSUME ServiceAssumption == Keys \subseteq Owners

vars == <<serverVars, policyVars, jobVars>>

Init == ServerInit /\ PolicyInit /\ JobInit

\* POST /v1/jobs and POST /crawl, in a request that has been let through; it
\* is answered at once.
Submit(c, j, operation) ==
    /\ Running /\ call[c].stage = "handling"
    /\ Create(j, call[c].key, operation)
    /\ usage' = Booked(c)
    /\ call' = [call EXCEPT ![c] = NoCall]
    /\ UNCHANGED <<serverVars, counters, lastSent, passed, alerts>>

\* DELETE /v1/webhooks/:id, likewise.
Unhook(c) ==
    /\ Running /\ call[c].stage = "handling"
    /\ Unhooked(call[c].key)
    /\ usage' = Booked(c)
    /\ call' = [call EXCEPT ![c] = NoCall]
    /\ UNCHANGED <<serverVars, counters, lastSent, passed, alerts>>

\* The process ends when close() has seen the requests through and has closed
\* sessions, targets, browsers and the database, in that order; a signal or an
\* unhandled rejection ends it at any time.
Stop ==
    /\ server = "closing" /\ \A c \in Calls : call[c].stage = "idle"
    /\ End /\ JobsStop /\ UNCHANGED policyVars
Kill == End /\ JobsStop /\ UNCHANGED policyVars

\* Only then is the memory of the process that ended reset here.
Restart == Start /\ JobsStart /\ PolicyForget /\ usage' = usage

\* A job runs on; a crawl may take the server down.
Work(j) ==
    /\ CrawlStep(j) \/ (CaptureStep(j) /\ UNCHANGED serverVars)
    /\ UNCHANGED policyVars

Next ==
    \/ PolicyStep /\ UNCHANGED <<serverVars, jobVars>>
    \/ \E c \in Calls, j \in JobIds, operation \in {"capture", "crawl"} : Submit(c, j, operation)
    \/ \E c \in Calls : Unhook(c)
    \/ \E j \in JobIds : Work(j)
    \/ Tick /\ UNCHANGED <<policyVars, jobVars>>
    \/ Shutdown /\ UNCHANGED <<policyVars, jobVars>>
    \/ Stop \/ Kill \/ Restart

Spec == Init /\ [][Next]_vars

TypeOK == ServerTypeOK /\ PolicyTypeOK /\ JobTypeOK
=============================================================================
