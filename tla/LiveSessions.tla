---------------------------- MODULE LiveSessions ----------------------------
(***************************************************************************)
(* Live browser sessions: the SessionManager (execution/sessions.ts), the  *)
(* rows behind it (storage/sessions.ts, storage/handoffs.ts) and every     *)
(* handler that uses a session (routes/sessions/*, core/agent.ts, the      *)
(* agent tool of routes/mcp.ts, BrowserQL).                                *)
(*                                                                         *)
(* A handler looks the row up once, keeps the StoredSession and then makes *)
(* calls that each await.  It is modelled by its program, the sequence of  *)
(* those calls:                                                            *)
(*   get     sessions.get(): the live browser, launched when there is none *)
(*   use     an operation of its page or context                           *)
(*   save    storageState() and the row or the profile it is written to    *)
(*   trace   the rest of startTrace()      stop    stopTrace() and archive *)
(*   close   sessions.close()              remove  storage.deleteSession() *)
(* and by the program it runs when one of them throws.  Commands run by    *)
(* Promise.all, and a stream beside its timer, are several handlers.       *)
(*                                                                         *)
(* Left out: what pages and states contain, and the proxy of a session.    *)
(***************************************************************************)
EXTENDS Naturals, Sequences, FiniteSets

CONSTANTS
    Sessions,   \* ids, each given out once
    Requests,   \* handlers running at a time
    Menu,       \* per session: the programs of OnSession they may run on it
    Creators,   \* per session: who may create it, of "post", "agent" and "bql", and
                \*   "trace" if a POST may ask for one
    Browsers,   \* names of browser processes; that of a gone one is used again
    Grants,     \* handoff tokens, each given out once
    None

ASSUME SessionAssumption ==
    /\ None \notin Sessions \cup Browsers
    /\ Creators \in [Sessions -> SUBSET {"post", "trace", "agent", "bql"}]

VARIABLES
    row,        \* the sessions table: "unused", "live" or "gone"
    viewers,    \* rows with live_viewer
    expired,    \* sessions whose expiresAt has passed
    active,     \* this.active: the browser of the entry of a session, or None
    tracing,    \* this.tracing
    timer,      \* sessions with an entry in this.expiryTimers
    stray,      \* per session: timers pending that have lost their entry
    browser,    \* per name: "none", "up" or "closing"
    recording,  \* browsers whose context is recording a trace
    req,        \* the handlers
    grant,      \* per token: its session, its state, whether it outlives it
    stopped,    \* closeAll() has run
    shared,     \* history: sessions two handlers have used at a time
    overwritten,\* history: running browsers another one replaced in its entry,
                \*   each with its session
    leaked,     \* history: browsers of a create() that failed after launching
    rivals      \* history: sessions with a viewer that launched at a time, when
                \*   one of them last passed the one-viewer rule

tableVars == <<row, viewers, expired, grant>>
managerVars == <<active, tracing, timer, stray, stopped>>
processVars == <<browser, recording>>
history == <<shared, overwritten, leaked, rivals>>
vars == <<tableVars, managerVars, processVars, req, history>>

Steps == {"get", "use", "save", "trace", "stop", "close", "remove"}

\* A handler between two requests.
Idle == [ses |-> None, todo |-> <<>>, rescue |-> <<>>, phase |-> "ready",
         held |-> None, waits |-> {}]

-----------------------------------------------------------------------------
\* The handlers

Inspect == <<"get", "use">>
Screenshot == <<"get", "use">>
Stream == <<"get", "use">>                          \* and a timer of its own
ReadChallenge == <<"get", "use">>
Command == <<"get", "use">>                         \* of executeAgentCommand()
AwaitChallenge == <<"get", "use", "get", "use", "save">>
Navigate == <<"get", "use", "save">>
ReadCookies == <<"get", "use">>
SetCookies == <<"get", "use", "save">>
SaveProfile == <<"get", "save">>
AgentTool == Command \o <<"save", "get", "use">>
CloseCommand == <<"get", "close", "remove">>
ClosingAgentTool == Command \o CloseCommand
StartReplay == <<"get", "trace">>
StopReplay == <<"stop">>
Delete == <<"stop", "close", "remove">>

OnSession == {Inspect, Screenshot, Stream, ReadChallenge, Command, AwaitChallenge, Navigate,
              ReadCookies, SetCookies, SaveProfile, AgentTool, CloseCommand, ClosingAgentTool,
              StartReplay, StopReplay, Delete}

ASSUME MenuAssumption == Menu \in [Sessions -> SUBSET OnSession]

\* Mutation: only the row is cleaned up.
CleanUpRow == <<"remove">>

\* POST /v1/sessions with and without recordTrace and startUrl, and what its
\* catch clause does.
Open(recordTrace, startUrl) ==
    (IF recordTrace THEN StartReplay ELSE <<>>) \o (IF startUrl THEN Navigate ELSE <<>>)
CleanUp == <<"close", "remove">>

\* The fields of BrowserQL; one that asks for recorded traffic may be answered
\* without the page.
NavigationField == Command
ElementField == <<"get", "use">>
TrafficField(seen) == IF seen THEN <<>> ELSE Command
ContentField == <<"get", "use">>
CookiesField == <<"get", "use">>
DocumentField == <<"get", "use">>
QueryField == <<"get", "use">>
SolveField == <<"get", "use">>
Fields == {NavigationField, ElementField, TrafficField(TRUE), TrafficField(FALSE), ContentField,
           CookiesField, DocumentField, QueryField, SolveField}

\* An attempt of the BrowserQL handler at two fields; its finally clause ends it.
BqlAttempt(first, second) == <<"get">> \o first \o second \o CleanUp

Begin(r, s, program, rescue) ==
    /\ req[r].todo = <<>> /\ ~stopped
    /\ req' = [req EXCEPT ![r] = IF program = <<>> THEN Idle
                   ELSE [Idle EXCEPT !.ses = s, !.todo = program, !.rescue = rescue]]
    /\ shared' = IF \E q \in Requests : req[q].ses = s THEN shared \cup {s} ELSE shared
    /\ UNCHANGED <<expired, grant, managerVars, processVars, overwritten, leaked, rivals>>

\* storage.createSession(), and the handler that called it.
Create(r, s) ==
    /\ row[s] = "unused"
    /\ row' = [row EXCEPT ![s] = "live"]
    /\ \/ "post" \in Creators[s] /\ \E recordTrace, startUrl \in BOOLEAN, viewer \in SUBSET {s} :
              /\ recordTrace => "trace" \in Creators[s]
              /\ viewers' = viewers \cup viewer
              /\ Begin(r, s, Open(recordTrace, startUrl), CleanUp)
       \/ "agent" \in Creators[s] /\ Begin(r, s, AgentTool, <<>>) /\ viewers' = viewers
       \/ /\ "bql" \in Creators[s] /\ viewers' = viewers
          /\ \E first, second \in Fields : Begin(r, s, BqlAttempt(first, second), CleanUp)

\* storage.getSession()
Exists(s) == row[s] = "live" /\ s \notin expired

Enter(r, s) ==
    /\ Exists(s)
    /\ \E program \in Menu[s] : Begin(r, s, program, <<>>)
    /\ UNCHANGED <<row, viewers>>

-----------------------------------------------------------------------------
\* The steps of a handler

At(r, step, phase) ==
    req[r].todo # <<>> /\ Head(req[r].todo) = step /\ req[r].phase = phase

\* The handler goes on with a program, holding a browser while it needs one.
Then(q, program, b) ==
    IF program = <<>> THEN Idle
    ELSE [q EXCEPT !.todo = program, !.phase = "ready", !.waits = {},
                   !.held = IF Head(program) \in {"use", "trace"} THEN b ELSE None]
Return(r, b) == req' = [req EXCEPT ![r] = Then(@, Tail(@.todo), b)]
Throw(r) == req' = [req EXCEPT ![r] = Then([@ EXCEPT !.rescue = <<>>], @.rescue, None)]
Await(r, phase, b, waits) ==
    req' = [req EXCEPT ![r].phase = phase, ![r].held = b, ![r].waits = waits]

Live(set) == {active[s] : s \in set} \ {None}

\* Mutation: grants stay.
RevokedNone(s) == grant

\* Told to close.
Ending(set) ==
    browser' = [b \in Browsers |-> IF b \in set /\ browser[b] = "up" THEN "closing" ELSE browser[b]]

\* The ids that stay in this.tracing when the entries of a set are closed.
Traced(set) == tracing \ set

\* close() up to its first await, for the sessions of a set.
Close(set) ==
    /\ active' = [s \in Sessions |-> IF s \in set THEN None ELSE active[s]]
    /\ timer' = timer \ set
    /\ tracing' = Traced(set)
    /\ Ending(Live(set))

\* Mutation: every call creates.
FoundNever(s) == FALSE

Found(s) == active[s] # None

\* get() finds an entry, or create() begins and awaits closeExpired().
Get(r) ==
    LET s == req[r].ses
        stale == {x \in expired : active[x] # None}
    IN  /\ At(r, "get", "ready")
        /\ IF Found(s)
           THEN Return(r, active[s]) /\ UNCHANGED <<active, timer, tracing, browser>>
           ELSE Await(r, "expiring", None, Live(stale)) /\ Close(stale)
        /\ UNCHANGED <<tableVars, stray, stopped, recording, history>>

Ended(set) == \A b \in set : browser[b] # "closing"

\* Mutation: the one-viewer rule is gone.
BusyNever(s) == FALSE

\* A session with a live viewer is refused while another one has its browser.
Busy(s) == s \in viewers /\ \E t \in viewers : active[t] # None

\* Sessions with a viewer between that rule and their entry.
Launching == {s \in viewers : \E r \in Requests : At(r, "get", "launching") /\ req[r].ses = s}

Rivals(s) ==
    IF s \notin viewers THEN rivals ELSE IF Launching \subseteq {s} THEN {} ELSE Launching \cup {s}

\* create() after closeExpired(): the one-viewer rule, then the launch.
Admitted(r) ==
    LET s == req[r].ses IN
    /\ At(r, "get", "expiring") /\ Ended(req[r].waits)
    /\ IF Busy(s) THEN Throw(r) /\ rivals' = rivals
       ELSE Await(r, "launching", None, {}) /\ rivals' = Rivals(s)
    /\ UNCHANGED <<tableVars, managerVars, processVars, shared, overwritten, leaked>>

\* Names nothing refers to.
Fresh(b) ==
    /\ browser[b] = "none" /\ \A s \in Sessions : active[s] # b
    /\ \A r \in Requests : req[r].held # b

\* Mutation: no timer is set.
ArmNone(s) == UNCHANGED <<timer, stray>>

\* expiryTimers.set(): a timer whose entry it takes goes on.
Arm(s) ==
    /\ timer' = timer \cup {s}
    /\ stray' = IF s \in timer THEN [stray EXCEPT ![s] = @ + 1] ELSE stray

\* create() after the launch and the set-up of its context: the entry and
\* its timer, whatever entry and timer are there by now.
Launched(r) ==
    LET s == req[r].ses IN
    /\ At(r, "get", "launching")
    /\ \E b \in Browsers :
         /\ Fresh(b)
         /\ browser' = [browser EXCEPT ![b] = "up"]
         /\ active' = [active EXCEPT ![s] = b]
         /\ overwritten' = overwritten \cup {<<x, s>> : x \in {y \in Live({s}) : browser[y] = "up"}}
         /\ Return(r, b)
    /\ Arm(s)
    /\ UNCHANGED <<tableVars, tracing, stopped, recording, shared, leaked, rivals>>

\* The launch fails, or what follows it does and nobody closes the server.
LaunchFails(r) ==
    /\ At(r, "get", "launching") /\ Throw(r)
    /\ \/ UNCHANGED <<browser, leaked>>
       \/ \E b \in Browsers :
            /\ Fresh(b)
            /\ browser' = [browser EXCEPT ![b] = "up"]
            /\ leaked' = leaked \cup {b}
    /\ UNCHANGED <<tableVars, managerVars, recording, shared, overwritten, rivals>>

\* The page operation ends.  It throws when the browser is gone, and may
\* throw for reasons of its own.
Use(r) ==
    /\ At(r, "use", "ready")
    /\ (browser[req[r].held] # "none" /\ Return(r, req[r].held)) \/ Throw(r)
    /\ UNCHANGED <<tableVars, managerVars, processVars, history>>

\* storageState() of the entry there is now, if any, and updateSessionState()
\* or createBrowserProfile(); a session that is not persistent skips it.
Save(r) ==
    /\ At(r, "save", "ready")
    /\ Return(r, None) \/ (active[req[r].ses] # None /\ Throw(r))
    /\ UNCHANGED <<tableVars, managerVars, processVars, history>>

\* startTrace() after its get(): nothing to do, or tracing.start() ...
Trace(r) ==
    /\ At(r, "trace", "ready")
    /\ IF req[r].ses \in tracing THEN Return(r, None) ELSE Await(r, "starting", req[r].held, {})
    /\ UNCHANGED <<tableVars, managerVars, processVars, history>>

\* ... which ends; a context records one trace at a time.
TraceStarted(r) ==
    LET b == req[r].held IN
    /\ At(r, "trace", "starting")
    /\ \/ /\ browser[b] # "none" /\ b \notin recording
          /\ recording' = recording \cup {b}
          /\ tracing' = tracing \cup {req[r].ses}
          /\ Return(r, None)
       \/ Throw(r) /\ UNCHANGED <<recording, tracing>>
    /\ UNCHANGED <<tableVars, active, timer, stray, stopped, browser, history>>

\* What stopTrace() leaves in this.tracing while it awaits tracing.stop().
Stopping(s) == tracing \ {s}

\* stopTrace() until it awaits tracing.stop(), if there is a trace.
Stop(r) ==
    LET s == req[r].ses IN
    /\ At(r, "stop", "ready")
    /\ IF active[s] # None /\ s \in tracing
       THEN tracing' = Stopping(s) /\ Await(r, "stopping", active[s], {})
       ELSE tracing' = tracing /\ Return(r, None)
    /\ UNCHANGED <<tableVars, active, timer, stray, stopped, processVars, history>>

\* The trace is read and archived with its replay, or it fails or is too
\* large, and then the handler ends without doing the rest.
Stopped(r) ==
    LET b == req[r].held IN
    /\ At(r, "stop", "stopping")
    /\ \/ b \in recording /\ recording' = recording \ {b} /\ (Return(r, None) \/ Throw(r))
       \/ recording' = recording /\ Throw(r)
    /\ UNCHANGED <<tableVars, managerVars, browser, history>>

\* close() up to its first await, and its end.
CloseBegins(r) ==
    LET s == req[r].ses IN
    /\ At(r, "close", "ready")
    /\ Close({s}) /\ Await(r, "closing", None, Live({s}))
    /\ UNCHANGED <<tableVars, stray, stopped, recording, history>>

CloseEnds(r) ==
    /\ At(r, "close", "closing") /\ Ended(req[r].waits) /\ Return(r, None)
    /\ UNCHANGED <<tableVars, managerVars, processVars, history>>

\* revokeForSession()
Revoked(s) ==
    [g \in Grants |-> IF grant[g].ses = s /\ grant[g].state = "open"
                      THEN [grant[g] EXCEPT !.state = "revoked"] ELSE grant[g]]

\* deleteSession(): the grants and the row go at once, then a directory.
Remove(r) ==
    /\ At(r, "remove", "ready")
    /\ grant' = Revoked(req[r].ses)
    /\ row' = [row EXCEPT ![req[r].ses] = "gone"]
    /\ Return(r, None)
    /\ UNCHANGED <<viewers, expired, managerVars, processVars, history>>

-----------------------------------------------------------------------------
\* Handoffs.  A grant expires with its session at the latest, unless the
\* session was in its last second when the grant was made.

Offer(g, s) ==
    /\ Exists(s) /\ ~stopped /\ grant[g].state = "none"
    /\ \E late \in BOOLEAN :
         grant' = [grant EXCEPT ![g] = [ses |-> s, state |-> "open", late |-> late]]
    /\ UNCHANGED <<row, viewers, expired, managerVars, processVars, req, history>>

\* The grant can be redeemed.
Valid(g) == grant[g].state = "open" /\ (grant[g].ses \notin expired \/ grant[g].late)

\* redeem() marks the grant, then transferOwner() finds the row or does not.
Redeem(g) ==
    /\ Valid(g) /\ ~stopped
    /\ grant' = [grant EXCEPT ![g].state = IF Exists(grant[g].ses) THEN "moved" ELSE "wasted"]
    /\ UNCHANGED <<row, viewers, expired, managerVars, processVars, req, history>>

-----------------------------------------------------------------------------
\* Time, the browsers and shutdown

\* The time of a session is up; its timers fire now or later.
Expire(s) ==
    /\ row[s] # "unused" /\ s \notin expired
    /\ expired' = expired \cup {s}
    /\ UNCHANGED <<row, viewers, grant, managerVars, processVars, req, history>>

\* Mutation: the firing timer is never taken for that of the entry.
FiringStray(s) == stray' = [stray EXCEPT ![s] = @ - 1]

\* The timer of the entry fires, or one that has lost its entry.
Firing(s) ==
    \/ s \in timer /\ stray' = stray
    \/ stray[s] > 0 /\ stray' = [stray EXCEPT ![s] = @ - 1]

\* Either closes the session.
TimerFires(s) ==
    /\ s \in expired /\ Firing(s)
    /\ Close({s})
    /\ UNCHANGED <<tableVars, stopped, recording, req, history>>

Gone(b) ==
    /\ browser' = [browser EXCEPT ![b] = "none"]
    /\ recording' = recording \ {b} /\ leaked' = leaked \ {b}
    /\ overwritten' = {o \in overwritten : o[1] # b}
    /\ UNCHANGED <<tableVars, managerVars, req, shared, rivals>>

\* A browser that was told to close ends; any other may crash, and nobody
\* listens.
BrowserEnds(b) == browser[b] = "closing" /\ Gone(b)
Crash(b) == browser[b] = "up" /\ Gone(b)

\* closeAll(), once the server has stopped and its handlers have ended.
CloseAll ==
    /\ ~stopped /\ \A r \in Requests : req[r] = Idle
    /\ stopped' = TRUE
    /\ Close(Sessions)
    /\ UNCHANGED <<tableVars, stray, recording, req, history>>

-----------------------------------------------------------------------------
Init ==
    /\ row = [s \in Sessions |-> "unused"] /\ viewers = {} /\ expired = {}
    /\ grant = [g \in Grants |-> [ses |-> None, state |-> "none", late |-> FALSE]]
    /\ active = [s \in Sessions |-> None] /\ tracing = {}
    /\ timer = {} /\ stray = [s \in Sessions |-> 0] /\ stopped = FALSE
    /\ browser = [b \in Browsers |-> "none"] /\ recording = {}
    /\ req = [r \in Requests |-> Idle]
    /\ shared = {} /\ overwritten = {} /\ leaked = {} /\ rivals = {}

\* The handler goes on.
Step(r) ==
    \/ Get(r) \/ Admitted(r) \/ Launched(r) \/ LaunchFails(r)
    \/ Use(r) \/ Save(r) \/ Trace(r) \/ TraceStarted(r) \/ Stop(r) \/ Stopped(r)
    \/ CloseBegins(r) \/ CloseEnds(r) \/ Remove(r)

Next ==
    \/ \E r \in Requests : Step(r)
    \/ \E r \in Requests, s \in Sessions : Create(r, s) \/ Enter(r, s)
    \/ \E g \in Grants, s \in Sessions : Offer(g, s)
    \/ \E g \in Grants : Redeem(g)
    \/ \E s \in Sessions : Expire(s) \/ TimerFires(s)
    \/ \E b \in Browsers : BrowserEnds(b) \/ Crash(b)
    \/ CloseAll

\* Calls that were made end, browsers told to close end, time passes and
\* timers fire.  Nobody has to call, crash or shut down.
Spec ==
    /\ Init /\ [][Next]_vars
    /\ \A r \in Requests : WF_vars(Step(r))
    /\ \A s \in Sessions : WF_vars(Expire(s)) /\ WF_vars(TimerFires(s))
    /\ \A b \in Browsers : WF_vars(BrowserEnds(b))

-----------------------------------------------------------------------------
\* Properties

Programs == Seq(Steps)

TypeOK ==
    /\ row \in [Sessions -> {"unused", "live", "gone"}]
    /\ viewers \subseteq Sessions /\ expired \subseteq Sessions /\ tracing \subseteq Sessions
    /\ active \in [Sessions -> Browsers \cup {None}]
    /\ timer \subseteq Sessions /\ stray \in [Sessions -> Nat]
    /\ browser \in [Browsers -> {"none", "up", "closing"}] /\ recording \subseteq Browsers
    /\ req \in [Requests -> [ses : Sessions \cup {None}, todo : Programs, rescue : Programs,
                             phase : {"ready", "expiring", "launching", "starting", "stopping",
                                      "closing"},
                             held : Browsers \cup {None}, waits : SUBSET Browsers]]
    /\ grant \in [Grants -> [ses : Sessions \cup {None}, late : BOOLEAN,
                             state : {"none", "open", "moved", "wasted", "revoked"}]]
    /\ stopped \in BOOLEAN /\ shared \subseteq Sessions
    /\ overwritten \subseteq Browsers \X Sessions /\ leaked \subseteq Browsers
    /\ rivals \subseteq Sessions

Lost(b) == b \in leaked \/ \E s \in Sessions : <<b, s>> \in overwritten

\* A running browser is the entry of its session, or one of the two ways the
\* code has to lose one took it: a second create() for the session replaced
\* the entry, or a create() failed after its launch.  So close(), expiry and
\* closeExpired(), in any order with handlers, never forget a process.
BrowsersAreEntries ==
    \A b \in Browsers : browser[b] = "up" =>
        (\E s \in Sessions : active[s] = b) \/ Lost(b)

\* An entry is only ever replaced in a session that two handlers used at a
\* time: one handler alone never launches twice over its own browser.
OnlySharedAreOverwritten ==
    \A o \in overwritten : o[2] \in shared

\* When a session is deleted, be it by DELETE, by a close command, by a
\* failed POST or at the end of a BrowserQL attempt, and no other handler
\* ever used it at the same time, nothing of it is left in the manager.
DeletedIsClosed ==
    \A s \in Sessions \ shared :
        row[s] = "gone" /\ (\A r \in Requests : req[r].ses # s)
            => active[s] = None /\ s \notin tracing

\* A session the manager says is tracing has a browser, whose context records
\* it, as long as handlers use the session one at a time and before it expires.
TracingIsReal ==
    \A s \in tracing \ (shared \cup expired) :
        active[s] # None /\ (browser[active[s]] = "up" => active[s] \in recording)

\* A handoff that is spent moves its session, unless it was made in the last
\* second of the session: deletion revokes it and expiry comes first.
SpentGrantsMove ==
    \A g \in Grants : grant[g].state = "wasted" => grant[g].late

\* At most one session with a live viewer has a browser, as the message of
\* VIEWER_BUSY says, whatever closes, expires or launches again: unless the
\* launches of two overlapped, the rule being tested before a launch and the
\* entry made after it.
OneViewer ==
    \A s, t \in viewers :
        active[s] # None /\ active[t] # None => s = t \/ {s, t} \subseteq rivals

\* Every handler ends.
HandlersEnd ==
    \A r \in Requests : req[r].todo # <<>> ~> req[r].todo = <<>>

\* No browser outlives its session for ever, except those lost in the two
\* ways named above: an entry always has a timer that closes it.
BrowsersEnd ==
    \A b \in Browsers :
        browser[b] = "up" ~> (browser[b] = "none" \/ Lost(b))

\* What the manager keeps is what there is: it forgets no browser, replaces
\* none but where handlers overlap, holds nothing of a deleted session and
\* takes no session for traced that is not.
ManagerIsSound ==
    BrowsersAreEntries /\ OnlySharedAreOverwritten /\ DeletedIsClosed /\ TracingIsReal

\* Every handler ends and no browser outlives its session for ever.
HandlersAndBrowsersEnd == HandlersEnd /\ BrowsersEnd
=============================================================================
