---------------------------- MODULE SocketBridges ----------------------------
(***************************************************************************)
(* WebSocket bridges between a client and a browser                        *)
(* (server/routes/sockets.ts, the CDP route of sessions/interaction.ts),   *)
(* the Chromium they launch (cdp.ts) and the targets that outlive their    *)
(* sockets (cdp-reconnect.ts, routes/cdp-reconnect.ts).                    *)
(*                                                                         *)
(* A bridge connects a client with one upstream socket.  Its browser       *)
(* belongs, by its kind, to                                                *)
(*   "cdp", "native"        the bridge itself, without and with a timer    *)
(*   "playwright"           a session made for the bridge                  *)
(*   "session"              a session that is there already                *)
(*   "target"               a reconnectable target                         *)
(*   "vnc"                  somebody else: there is none to start or end   *)
(* Handlers await launches; sockets close at any time meanwhile.  What     *)
(* upstream sends is forwarded as it comes and left out.                   *)
(***************************************************************************)
EXTENDS Naturals, Sequences

CONSTANTS
    Bridges,        \* connections, each made once
    Kinds,          \* of those above
    Targets,        \* ids of targets, each given out once
    MaxMessages,    \* bound: messages a client sends
    None

ASSUME BridgeAssumption ==
    /\ Kinds \subseteq {"cdp", "native", "playwright", "session", "target", "vnc"}
    /\ Bridges \cap Targets = {} /\ None \notin Bridges \cup Targets
    /\ MaxMessages \in Nat

VARIABLES
    kind,       \* per bridge
    client,     \* its client: "none", "open", "closing" or "closed"
    stage,      \* its handler: "none", "launching", "tracing", "piping", "over"
    upstream,   \* "none", "connecting", "open", "closing" or "closed"
    sent,       \* number of messages the client sent: they are 1, 2, ...
    pending,    \* pendingMessages
    through,    \* messages that went upstream
    deadline,   \* bridges whose timer will close the client
    via,        \* the target a bridge uses, or None
    proc,       \* the browser of a bridge or target: "none", "starting",
                \*   "waiting" for its endpoint, "up", "closing" or "gone"
    profile,    \* owners of a profile directory on disk
    kill,       \* owners with a killTimer
    stopping,   \* owners whose stop(), or failing launch, awaits the browser
    target,     \* "none", "creating", "listed", "gone"
    entry,      \* bridges whose session has its browser in the manager
    recording,  \* bridges whose session is being traced
    row,        \* rows of the sessions made for bridges
    cleaning,   \* cleanup() of a playwright bridge: "no", "archiving" the trace,
                \*   "ending" the browser, "deleting" the session, "done"
    closed,     \* closeAll() has run
    down,       \* an unhandled rejection has ended the server
    left,       \* history: bridges whose client closed before they were up
    lost        \* history: bridges whose session failed after its launch

socketVars == <<client, upstream, sent, pending, through, deadline>>
procVars == <<proc, profile, kill, stopping>>
sessionVars == <<entry, recording, row, cleaning>>
vars == <<kind, via, stage, socketVars, procVars, target, sessionVars, closed, down, left, lost>>

Owners == Bridges \cup Targets

\* Kinds whose client is listened to from the start, and whose messages are
\* kept while there is no upstream.
Buffered == {"cdp", "native", "playwright", "target"}
\* Kinds whose browser is the entry of a session.
OfSession == {"playwright", "session"}

-----------------------------------------------------------------------------
\* Messages

\* client.on("message"): on, kept, or dropped.
Message(b) ==
    /\ client[b] \in {"open", "closing"} /\ sent[b] < MaxMessages /\ ~down
    /\ sent' = [sent EXCEPT ![b] = @ + 1]
    /\ IF upstream[b] = "open"
       THEN through' = [through EXCEPT ![b] = Append(@, sent'[b])] /\ pending' = pending
       ELSE /\ pending' = IF kind[b] \in Buffered
                          THEN [pending EXCEPT ![b] = Append(@, sent'[b])] ELSE pending
            /\ through' = through
    /\ UNCHANGED <<kind, via, stage, client, upstream, deadline, procVars, target, sessionVars, closed,
                   down, left, lost>>

\* Mutation: the messages that were kept are not sent.
FlushedNone(b) == through[b]

\* What has gone upstream when what was kept is sent.
Flushed(b) == through[b] \o pending[b]

\* The browser at the other end.
Peer(b) == IF via[b] = None THEN b ELSE via[b]
PeerUp(b) == kind[b] = "vnc" \/ proc[Peer(b)] = "up"

\* upstream.on("open")
UpstreamOpens(b) ==
    /\ upstream[b] = "connecting" /\ PeerUp(b) /\ ~down
    /\ upstream' = [upstream EXCEPT ![b] = "open"]
    /\ through' = [through EXCEPT ![b] = Flushed(b)]
    /\ pending' = [pending EXCEPT ![b] = <<>>]
    /\ UNCHANGED <<kind, via, stage, client, sent, deadline, procVars, target, sessionVars, closed, down,
                   left, lost>>

\* client.close() and what it does to a client that is closing already.
Hangup(b) == client' = [client EXCEPT ![b] = IF @ = "open" THEN "closing" ELSE @]

\* upstream.on("close") and on("error"): it was closed, or its peer is gone.
UpstreamCloses(b) ==
    /\ ~down
    /\ \/ upstream[b] = "closing"
       \/ upstream[b] \in {"connecting", "open"} /\ (kind[b] = "vnc" \/ ~PeerUp(b))
    /\ upstream' = [upstream EXCEPT ![b] = "closed"]
    /\ Hangup(b)
    /\ UNCHANGED <<kind, via, stage, sent, pending, through, deadline, procVars, target, sessionVars,
                   closed, down, left, lost>>

\* The timer a handler set when its bridge was up.
DeadlinePasses(b) ==
    /\ b \in deadline /\ ~down
    /\ deadline' = deadline \ {b} /\ Hangup(b)
    /\ UNCHANGED <<kind, via, stage, upstream, sent, pending, through, procVars, target, sessionVars,
                   closed, down, left, lost>>

-----------------------------------------------------------------------------
\* Chromium with a CDP endpoint: launchCdpBrowser(), for a bridge or a target

\* stop(), which in the end removes the profile.
Stop(o) ==
    /\ kill' = kill \ {o}
    /\ proc' = [proc EXCEPT ![o] = IF @ = "gone" THEN @ ELSE "closing"]
    /\ stopping' = stopping \cup {o}

\* launchPersistentContext() has given a context.
Started(o) ==
    /\ proc[o] = "starting" /\ o \in profile /\ ~down
    /\ proc' = [proc EXCEPT ![o] = "waiting"]
    /\ UNCHANGED <<kind, via, stage, socketVars, profile, kill, stopping, target, sessionVars, closed,
                   down, left, lost>>

\* waitForEndpoint() fails: the browser has exited or is too slow.
NoEndpoint(o) ==
    /\ proc[o] = "waiting" /\ ~down
    /\ proc' = [proc EXCEPT ![o] = "closing"]
    /\ stopping' = stopping \cup {o}
    /\ UNCHANGED <<kind, via, stage, socketVars, profile, kill, target, sessionVars, closed, down, left, lost>>

\* The timers when a browser has got its endpoint.
Armed(o) == kill \cup {o}

\* Mutation: it never fires.
KillFiresNever(o) == FALSE

\* killTimer closes the context and nothing else.
KillFires(o) ==
    /\ o \in kill /\ ~down
    /\ kill' = kill \ {o}
    /\ proc' = [proc EXCEPT ![o] = IF @ = "up" THEN "closing" ELSE @]
    /\ UNCHANGED <<kind, via, stage, socketVars, profile, stopping, target, sessionVars, closed, down,
                   left, lost>>

\* stop() ends; or the launch that failed does, and its caller gives up.
StopEnds(o) ==
    /\ o \in stopping /\ proc[o] = "gone" /\ ~down
    /\ stopping' = stopping \ {o} /\ profile' = profile \ {o}
    /\ IF o \in Bridges /\ stage[o] = "launching"
       THEN Hangup(o) /\ stage' = [stage EXCEPT ![o] = "over"]
       ELSE UNCHANGED <<client, stage>>
    /\ target' = IF o \in Targets /\ target[o] = "creating" THEN [target EXCEPT ![o] = "gone"]
                 ELSE target
    /\ UNCHANGED <<kind, via, upstream, sent, pending, through, deadline, proc, kill, sessionVars, closed,
                   down, left, lost>>

\* A browser that was told to close ends; any other may crash.
ProcEnds(o) ==
    /\ proc[o] = "closing" /\ ~down
    /\ proc' = [proc EXCEPT ![o] = "gone"]
    /\ UNCHANGED <<kind, via, stage, socketVars, profile, kill, stopping, target, sessionVars, closed,
                   down, left, lost>>
Crash(o) ==
    /\ proc[o] = "up" /\ ~down
    /\ proc' = [proc EXCEPT ![o] = "gone"]
    /\ UNCHANGED <<kind, via, stage, socketVars, profile, kill, stopping, target, sessionVars, closed,
                   down, left, lost>>

-----------------------------------------------------------------------------
\* The handlers

\* A client is refused, ...
Refuse(b) ==
    /\ client' = [client EXCEPT ![b] = "closing"] /\ stage' = [stage EXCEPT ![b] = "over"]
    /\ UNCHANGED <<upstream, via, proc, profile, row>>

\* ... joined with a peer that is there, ...
Join(b) ==
    /\ client' = [client EXCEPT ![b] = "open"] /\ stage' = [stage EXCEPT ![b] = "piping"]
    /\ upstream' = [upstream EXCEPT ![b] = "connecting"]
    /\ UNCHANGED <<proc, profile, row>>
ConnectVnc(b) == Join(b) /\ via' = via
ConnectTarget(b) ==
    \E t \in Targets : target[t] = "listed" /\ via' = [via EXCEPT ![b] = t] /\ Join(b)

\* ... or kept until a browser is launched; the session of a playwright bridge
\* gets its row at once.
Await(b) ==
    /\ client' = [client EXCEPT ![b] = "open"] /\ stage' = [stage EXCEPT ![b] = "launching"]
    /\ proc' = [proc EXCEPT ![b] = "starting"]
    /\ UNCHANGED <<upstream, via>>
ConnectCdp(b) == Await(b) /\ profile' = profile \cup {b} /\ row' = row
ConnectNative(b) == Await(b) /\ UNCHANGED <<profile, row>>
ConnectSession(b) == Await(b) /\ UNCHANGED <<profile, row>>
ConnectPlaywright(b) == Await(b) /\ profile' = profile /\ row' = [row EXCEPT ![b] = "live"]

Connect(b, k) ==
    /\ client[b] = "none" /\ ~closed /\ ~down
    /\ kind' = [kind EXCEPT ![b] = k]
    /\ \/ Refuse(b)
       \/ k = "vnc" /\ ConnectVnc(b)
       \/ k = "target" /\ ConnectTarget(b)
       \/ k = "cdp" /\ ConnectCdp(b)
       \/ k = "native" /\ ConnectNative(b)
       \/ k = "session" /\ ConnectSession(b)
       \/ k = "playwright" /\ ConnectPlaywright(b)
    /\ UNCHANGED <<sent, pending, through, deadline, kill, stopping, target, entry, recording, cleaning,
                   closed, down, left, lost>>

\* The rest of a handler once it has its browser: the upstream socket, the
\* timer and, where it was not there, the close handler.
Pipe(b) ==
    /\ stage' = [stage EXCEPT ![b] = "piping"]
    /\ upstream' = [upstream EXCEPT ![b] = "connecting"]
    /\ deadline' = IF kind[b] = "session" THEN deadline ELSE deadline \cup {b}
    /\ UNCHANGED <<client, sent, pending, through>>

\* A handler throws or gives up.
GiveUp(b) ==
    /\ stage' = [stage EXCEPT ![b] = "over"] /\ Hangup(b)
    /\ UNCHANGED <<upstream, sent, pending, through, deadline>>

\* launchCdpBrowser() returns to a bridge ...
CdpBridgeUp(b) ==
    /\ stage[b] = "launching" /\ proc[b] = "waiting" /\ ~down
    /\ proc' = [proc EXCEPT ![b] = "up"] /\ kill' = Armed(b)
    /\ Pipe(b)
    /\ UNCHANGED <<kind, via, profile, stopping, target, sessionVars, closed, down, left, lost>>

\* ... launchServer() does ...
NativeBridgeUp(b) ==
    /\ stage[b] = "launching" /\ kind[b] = "native" /\ ~down
    /\ proc' = [proc EXCEPT ![b] = "up"]
    /\ Pipe(b)
    /\ UNCHANGED <<kind, via, profile, kill, stopping, target, sessionVars, closed, down, left, lost>>

\* ... and sessions.create() has a browser, for which it makes a context with
\* a page.  Then it is the entry of the session, with a timer, and sessions.get()
\* returns; the trace is started.  The browser may crash just before.
SessionLaunched(b) ==
    /\ stage[b] = "launching" /\ kind[b] \in OfSession /\ proc[b] = "starting" /\ ~down
    /\ proc' = [proc EXCEPT ![b] = "up"]
    /\ UNCHANGED <<kind, via, stage, socketVars, profile, kill, stopping, target, sessionVars, closed,
                   down, left, lost>>
SessionBridgeUp(b) ==
    /\ stage[b] = "launching" /\ kind[b] \in OfSession /\ proc[b] \in {"up", "gone"} /\ ~down
    /\ entry' = entry \cup {b}
    /\ \/ Pipe(b)
       \/ /\ kind[b] = "playwright" /\ stage' = [stage EXCEPT ![b] = "tracing"]
          /\ UNCHANGED socketVars
    /\ UNCHANGED <<kind, via, procVars, target, recording, row, cleaning, closed, down, left, lost>>

\* create() throws there, and nobody closes what it launched.
SessionFails(b) ==
    /\ stage[b] = "launching" /\ kind[b] \in OfSession /\ proc[b] \in {"up", "gone"} /\ ~down
    /\ lost' = lost \cup {b} /\ GiveUp(b)
    /\ UNCHANGED <<kind, via, procVars, target, sessionVars, closed, down, left>>

Traced(b) ==
    /\ stage[b] = "tracing" /\ ~down
    /\ \/ proc[b] = "up" /\ recording' = recording \cup {b} /\ Pipe(b)
       \/ recording' = recording /\ GiveUp(b)
    /\ UNCHANGED <<kind, via, procVars, target, entry, row, cleaning, closed, down, left, lost>>

\* A launch fails before there is a browser.
LaunchFails(o) ==
    /\ proc[o] = "starting" /\ ~down
    /\ proc' = [proc EXCEPT ![o] = "gone"] /\ profile' = profile \ {o}
    /\ IF o \in Bridges THEN GiveUp(o) /\ target' = target
       ELSE target' = [target EXCEPT ![o] = "gone"] /\ UNCHANGED <<stage, socketVars>>
    /\ UNCHANGED <<kind, via, kill, stopping, sessionVars, closed, down, left, lost>>

\* sessions.close(): the entry, its trace and its timer go.
CloseEntry(b) ==
    /\ entry' = entry \ {b} /\ recording' = recording \ {b}
    /\ proc' = [proc EXCEPT ![b] = IF b \in entry /\ @ = "up" THEN "closing" ELSE @]

\* Mutation: the session is not closed.
EndSessionOpen(b) ==
    cleaning' = [cleaning EXCEPT ![b] = "deleting"] /\ UNCHANGED <<entry, recording, proc>>

\* cleanup() after the trace: it awaits the browser it finds, if it does.
EndSession(b) ==
    /\ CloseEntry(b)
    /\ cleaning' = [cleaning EXCEPT ![b] = IF b \in entry THEN "ending" ELSE "deleting"]

\* cleanup() of a native bridge.
CloseServer(b) ==
    /\ proc' = [proc EXCEPT ![b] = IF @ = "up" THEN "closing" ELSE @]
    /\ UNCHANGED <<profile, kill, stopping>>

\* The socket of the client closes.  The close handler, if it is there yet,
\* closes upstream and cleans up: for cdp and native the browser it knows of
\* by now, for playwright the trace first if there is one.
ClientCloses(b) ==
    /\ client[b] \in {"open", "closing"} /\ ~down
    /\ client' = [client EXCEPT ![b] = "closed"]
    /\ left' = IF stage[b] \in {"launching", "tracing"} THEN left \cup {b} ELSE left
    /\ upstream' = [upstream EXCEPT ![b] = IF @ \in {"connecting", "open"} THEN "closing" ELSE @]
    /\ IF stage[b] # "piping" \/ kind[b] \notin {"cdp", "native", "playwright"}
       THEN UNCHANGED <<procVars, sessionVars>>
       ELSE \/ kind[b] = "cdp" /\ Stop(b) /\ UNCHANGED <<profile, sessionVars>>
            \/ kind[b] = "native" /\ CloseServer(b) /\ UNCHANGED sessionVars
            \/ /\ kind[b] = "playwright" /\ b \in entry \cap recording
               /\ recording' = recording \ {b}
               /\ cleaning' = [cleaning EXCEPT ![b] = "archiving"]
               /\ UNCHANGED <<procVars, entry, row>>
            \/ /\ kind[b] = "playwright" /\ b \notin entry \cap recording
               /\ EndSession(b)
               /\ UNCHANGED <<profile, kill, stopping, row>>
    /\ UNCHANGED <<kind, via, stage, sent, pending, through, deadline, target, closed, down, lost>>

\* The trace has been stopped and archived with its replay.  It cannot be when
\* the browser is gone, when it is too large or when it cannot be written:
\* nobody handles the rejection then, and Node ends the server.
Archived(b) ==
    /\ cleaning[b] = "archiving" /\ ~down
    /\ \/ proc[b] = "up" /\ EndSession(b) /\ down' = down
       \/ down' = TRUE /\ UNCHANGED <<entry, recording, proc, cleaning>>
    /\ UNCHANGED <<kind, via, stage, socketVars, profile, kill, stopping, target, row, closed, left, lost>>

\* deleteSession() and the webhooks.  Either may throw, and that ends the server
\* too.
Deleted(b) == row' = [row EXCEPT ![b] = "gone"]
CleanedUp(b) ==
    /\ cleaning[b] = "deleting" \/ (cleaning[b] = "ending" /\ proc[b] = "gone")
    /\ ~down
    /\ \/ Deleted(b) /\ cleaning' = [cleaning EXCEPT ![b] = "done"] /\ down' = down
       \/ (Deleted(b) \/ row' = row) /\ cleaning' = cleaning /\ down' = TRUE
    /\ UNCHANGED <<kind, via, stage, socketVars, procVars, target, entry, recording, closed, left, lost>>

\* The timer of the session's entry.
SessionExpires(b) ==
    /\ b \in entry /\ ~down
    /\ CloseEntry(b)
    /\ UNCHANGED <<kind, via, stage, socketVars, profile, kill, stopping, target, row, cleaning, closed,
                   down, left, lost>>

-----------------------------------------------------------------------------
\* Targets

Create(t) ==
    /\ target[t] = "none" /\ ~closed /\ ~down
    /\ target' = [target EXCEPT ![t] = "creating"]
    /\ proc' = [proc EXCEPT ![t] = "starting"] /\ profile' = profile \cup {t}
    /\ UNCHANGED <<kind, via, stage, socketVars, kill, stopping, sessionVars, closed, down, left, lost>>

\* launchCdpBrowser() returns to create(), which sets a timer of its own.
Created(t) ==
    /\ target[t] = "creating" /\ proc[t] = "waiting" /\ ~down
    /\ proc' = [proc EXCEPT ![t] = "up"] /\ kill' = Armed(t)
    /\ target' = [target EXCEPT ![t] = "listed"]
    /\ UNCHANGED <<kind, via, stage, socketVars, profile, stopping, sessionVars, closed, down, left, lost>>

\* What is left in this.targets when a target is closed.
Unlisted(t) == [target EXCEPT ![t] = "gone"]

\* DELETE, or the timer of the target: close().
CloseTarget(t) ==
    /\ target[t] = "listed" /\ ~down
    /\ target' = Unlisted(t) /\ Stop(t)
    /\ UNCHANGED <<kind, via, stage, socketVars, profile, sessionVars, closed, down, left, lost>>

\* closeAll(), once the server has answered the calls it was working on.
CloseAll ==
    /\ ~closed /\ ~down /\ \A t \in Targets : target[t] # "creating"
    /\ closed' = TRUE
    /\ LET listed == {t \in Targets : target[t] = "listed"} IN
         /\ target' = [t \in Targets |-> IF t \in listed THEN "gone" ELSE target[t]]
         /\ kill' = kill \ listed /\ stopping' = stopping \cup listed
         /\ proc' = [o \in Owners |-> IF o \in listed /\ proc[o] # "gone" THEN "closing" ELSE proc[o]]
    /\ UNCHANGED <<kind, via, stage, socketVars, profile, sessionVars, down, left, lost>>

-----------------------------------------------------------------------------
Init ==
    /\ kind = [b \in Bridges |-> None] /\ via = [b \in Bridges |-> None]
    /\ client = [b \in Bridges |-> "none"] /\ stage = [b \in Bridges |-> "none"]
    /\ upstream = [b \in Bridges |-> "none"]
    /\ sent = [b \in Bridges |-> 0] /\ pending = [b \in Bridges |-> <<>>]
    /\ through = [b \in Bridges |-> <<>>] /\ deadline = {}
    /\ proc = [o \in Owners |-> "none"] /\ profile = {} /\ kill = {} /\ stopping = {}
    /\ target = [t \in Targets |-> "none"]
    /\ entry = {} /\ recording = {} /\ row = [b \in Bridges |-> "none"]
    /\ cleaning = [b \in Bridges |-> "no"]
    /\ closed = FALSE /\ down = FALSE /\ left = {} /\ lost = {}

\* What the code, its timers and the closing of sockets and browsers do.
BridgeStep(b) ==
    \/ UpstreamOpens(b) \/ UpstreamCloses(b) \/ DeadlinePasses(b)
    \/ CdpBridgeUp(b) \/ NativeBridgeUp(b) \/ SessionBridgeUp(b) \/ SessionFails(b) \/ Traced(b)
    \/ Archived(b) \/ CleanedUp(b) \/ SessionExpires(b)
OwnerStep(o) ==
    \/ Started(o) \/ LaunchFails(o) \/ NoEndpoint(o) \/ KillFires(o) \/ StopEnds(o) \/ ProcEnds(o)
    \/ o \in Bridges /\ SessionLaunched(o)
TargetStep(t) == Created(t) \/ CloseTarget(t)
Closing(b) == client[b] = "closing" /\ ClientCloses(b)

Next ==
    \/ \E b \in Bridges :
         \/ BridgeStep(b) \/ Message(b) \/ ClientCloses(b)
         \/ \E k \in Kinds : Connect(b, k)
    \/ \E o \in Owners : OwnerStep(o) \/ Crash(o)
    \/ \E t \in Targets : TargetStep(t) \/ Create(t)
    \/ CloseAll

\* Timers fire, launches end, sockets that are closed close.  No client has to
\* connect, to send or to leave, and no browser to crash.
Spec ==
    /\ Init /\ [][Next]_vars
    /\ \A b \in Bridges :
         /\ WF_vars(UpstreamOpens(b) \/ UpstreamCloses(b)) /\ WF_vars(DeadlinePasses(b))
         /\ WF_vars(\/ CdpBridgeUp(b) \/ NativeBridgeUp(b) \/ SessionBridgeUp(b)
                    \/ SessionFails(b) \/ Traced(b))
         /\ WF_vars(Archived(b)) /\ WF_vars(CleanedUp(b)) /\ WF_vars(SessionExpires(b))
         /\ WF_vars(Closing(b))
    /\ \A o \in Owners :
         /\ WF_vars(Started(o) \/ LaunchFails(o) \/ (o \in Bridges /\ SessionLaunched(o)))
         /\ WF_vars(NoEndpoint(o)) /\ WF_vars(KillFires(o))
         /\ WF_vars(StopEnds(o)) /\ WF_vars(ProcEnds(o))
    /\ \A t \in Targets : WF_vars(Created(t)) /\ WF_vars(CloseTarget(t))

-----------------------------------------------------------------------------
\* Properties

TypeOK ==
    /\ kind \in [Bridges -> Kinds \cup {None}] /\ via \in [Bridges -> Targets \cup {None}]
    /\ client \in [Bridges -> {"none", "open", "closing", "closed"}]
    /\ stage \in [Bridges -> {"none", "launching", "tracing", "piping", "over"}]
    /\ upstream \in [Bridges -> {"none", "connecting", "open", "closing", "closed"}]
    /\ sent \in [Bridges -> 0..MaxMessages]
    /\ pending \in [Bridges -> Seq(1..MaxMessages)] /\ through \in [Bridges -> Seq(1..MaxMessages)]
    /\ deadline \subseteq Bridges
    /\ proc \in [Owners -> {"none", "starting", "waiting", "up", "closing", "gone"}]
    /\ profile \subseteq Owners /\ kill \subseteq Owners /\ stopping \subseteq Owners
    /\ target \in [Targets -> {"none", "creating", "listed", "gone"}]
    /\ entry \subseteq Bridges /\ recording \subseteq Bridges /\ left \subseteq Bridges
    /\ lost \subseteq Bridges
    /\ row \in [Bridges -> {"none", "live", "gone"}]
    /\ cleaning \in [Bridges -> {"no", "archiving", "ending", "deleting", "done"}]
    /\ closed \in BOOLEAN /\ down \in BOOLEAN

\* Messages of a client reach the browser in the order they were sent and
\* without a gap, whether they came before, during or after the launch; what
\* has not gone upstream is still kept.
InOrder ==
    \A b \in Bridges : kind[b] \in Buffered =>
        through[b] \o pending[b] = [i \in 1..sent[b] |-> i]

\* The two browsers the code forgets: that of a native bridge whose client left
\* during the launch, and that of a session whose create() threw after it.
Forgotten(b) ==
    \/ kind[b] = "native" /\ b \in left
    \/ kind[b] \in OfSession /\ b \in lost

\* A running browser has something that will end it: its killTimer, the timer
\* of its session or target, the close handler of a client that is there, or
\* create(), which is about to make it the entry of its session; but for the
\* two kinds of browser that are forgotten.
BrowserHasAnEnd ==
    \A o \in Owners : proc[o] = "up" =>
        \/ o \in kill \cup entry
        \/ o \in Targets /\ target[o] = "listed"
        \/ o \in Bridges /\ kind[o] = "native" /\ client[o] # "closed"
        \/ o \in Bridges /\ kind[o] \in OfSession /\ stage[o] = "launching"
        \/ o \in Bridges /\ Forgotten(o)

\* get() never gives out the browser of a target that close() has stopped.
ListedIsNotStopped ==
    \A t \in Targets : target[t] = "listed" => t \notin stopping

\* The row of a bridge's session is deleted only when its browser has been told
\* to close, be it by the cleanup or, before, by the timer of the session.
RowOutlivesBrowser ==
    \A b \in Bridges : row[b] = "gone" => proc[b] \in {"closing", "gone"}

\* No browser runs for ever, but for those two.
BrowsersEnd ==
    \A o \in Owners :
        proc[o] = "up" ~> (proc[o] = "gone" \/ down \/ (o \in Bridges /\ Forgotten(o)))

\* Once the client of a bridge that came up is gone, so are in the end the
\* session made for it and the profile of its browser.
BridgesCleanUp ==
    \A b \in Bridges :
        client[b] = "closed" /\ b \notin left /\ stage[b] = "piping"
            ~> (row[b] # "live" /\ b \notin profile) \/ down

\* Whoever is connected to a browser is disconnected in the end.
ClientsEnd ==
    \A b \in Bridges :
        client[b] = "open" /\ kind[b] # "vnc" ~> client[b] = "closed" \/ down

\* Nothing of a bridge or a target is left without somebody to end it, but for
\* the two browsers the code forgets: a browser has its end, a target in the list
\* is not stopped, and the row of a session outlives its browser.
BridgesAreSound == TypeOK /\ BrowserHasAnEnd /\ ListedIsNotStopped /\ RowOutlivesBrowser

\* Browsers, but for those two, the sessions and profiles of bridges, and
\* connections all end.
BridgesEnd == BrowsersEnd /\ BridgesCleanUp /\ ClientsEnd
=============================================================================
