-------------------------- MODULE LiveSessionsProofs --------------------------
(***************************************************************************)
(* What the session manager keeps is sound, for any sessions, handlers,    *)
(* browsers and grants.                                                    *)
(***************************************************************************)
EXTENDS LiveSessions, SequenceTheorems, TLAPS

-----------------------------------------------------------------------------
\* Programs

\* The order of steps within a program: a page is used right after it was got
\* or used, a session is removed right after it was closed, and last.
Proper(p) ==
    /\ p \in Seq(Steps)
    /\ \A i \in 2..Len(p) : /\ p[i] \in {"use", "trace"} => p[i - 1] \in {"get", "use"}
                            /\ p[i] = "remove" => p[i - 1] = "close"
    /\ \A i \in 1..Len(p) : p[i] = "remove" => i = Len(p)

\* Programs a handler can start with.
Whole(p) == Proper(p) /\ (p # <<>> => p[1] \notin {"use", "trace", "remove"})

Keeping(p) == \A i \in 1..Len(p) : p[i] # "remove"

LEMMA ConcatWhole ==
    ASSUME NEW p, NEW q, Whole(p), Keeping(p), Whole(q)
    PROVE  Whole(p \o q)
<1>1. /\ p \in Seq(Steps) /\ q \in Seq(Steps) /\ p \o q \in Seq(Steps)
      /\ Len(p \o q) = Len(p) + Len(q)
      /\ Len(p) \in Nat /\ Len(q) \in Nat
      /\ \A i \in 1..(Len(p) + Len(q)) :
            (p \o q)[i] = IF i <= Len(p) THEN p[i] ELSE q[i - Len(p)]
  BY ConcatProperties DEF Whole, Proper
<1>2. ASSUME NEW i \in 2..Len(p \o q)
      PROVE  /\ (p \o q)[i] \in {"use", "trace"} => (p \o q)[i - 1] \in {"get", "use"}
             /\ (p \o q)[i] = "remove" => (p \o q)[i - 1] = "close"
  <2>1. CASE i <= Len(p)
    BY <1>1, <2>1 DEF Whole, Proper
  <2>2. CASE i = Len(p) + 1
    <3>1. (p \o q)[i] = q[1] /\ q # <<>>
      BY <1>1, <2>2
    <3>2. QED
      BY <3>1 DEF Whole
  <2>3. CASE i > Len(p) + 1
    <3>1. i - Len(p) \in 2..Len(q)
      BY <1>1, <2>3
    <3>2. (p \o q)[i] = q[i - Len(p)] /\ (p \o q)[i - 1] = q[(i - Len(p)) - 1]
      BY <1>1, <2>3
    <3>3. QED
      BY <3>1, <3>2 DEF Whole, Proper
  <2>4. QED
    BY <1>1, <2>1, <2>2, <2>3
<1>3. ASSUME NEW i \in 1..Len(p \o q), (p \o q)[i] = "remove"
      PROVE  i = Len(p \o q)
  <2>1. i > Len(p) /\ q[i - Len(p)] = "remove" /\ i - Len(p) \in 1..Len(q)
    BY <1>1, <1>3 DEF Keeping
  <2>2. QED
    BY <1>1, <2>1 DEF Whole, Proper
<1>4. p \o q # <<>> => (p \o q)[1] \notin {"use", "trace", "remove"}
  <2>1. CASE p = <<>>
    BY <2>1, <1>1, ConcatEmptySeq DEF Whole
  <2>2. CASE p # <<>>
    BY <2>2, <1>1 DEF Whole
  <2>3. QED
    BY <2>1, <2>2
<1>5. QED
  BY <1>1, <1>2, <1>3, <1>4 DEF Whole, Proper

LEMMA ConcatKeeping ==
    ASSUME NEW p \in Seq(Steps), NEW q \in Seq(Steps), Keeping(p), Keeping(q)
    PROVE  Keeping(p \o q)
  BY ConcatProperties DEF Keeping

\* The first steps of a program done, the rest is proper, and what comes next
\* comes after what was done.
LEMMA TailProper ==
    ASSUME NEW p, Proper(p), p # <<>>
    PROVE  /\ Proper(Tail(p))
           /\ Head(p) = "remove" => Tail(p) = <<>>
           /\ Tail(p) # <<>> => /\ Head(Tail(p)) \in {"use", "trace"} => Head(p) \in {"get", "use"}
                                /\ Head(Tail(p)) = "remove" => Head(p) = "close"
<1>1. /\ p \in Seq(Steps) /\ Tail(p) \in Seq(Steps)
      /\ Len(p) \in Nat /\ Len(p) > 0 /\ Len(Tail(p)) = Len(p) - 1
      /\ \A i \in 1..Len(Tail(p)) : Tail(p)[i] = p[i + 1]
  BY HeadTailProperties DEF Proper
<1>2. Proper(Tail(p))
  <2> DEFINE t == Tail(p)
  <2>1. ASSUME NEW i \in 2..Len(t)
        PROVE  /\ t[i] \in {"use", "trace"} => t[i - 1] \in {"get", "use"}
               /\ t[i] = "remove" => t[i - 1] = "close"
    <3>1. i + 1 \in 2..Len(p) /\ t[i] = p[i + 1] /\ t[i - 1] = p[(i + 1) - 1]
      BY <1>1
    <3>2. QED
      BY <3>1 DEF Proper
  <2>2. ASSUME NEW i \in 1..Len(t), t[i] = "remove"
        PROVE  i = Len(t)
    <3>1. i \in Nat /\ i + 1 \in 1..Len(p) /\ p[i + 1] = "remove"
      BY <1>1, <2>2
    <3>2. i + 1 = Len(p)
      BY <3>1 DEF Proper
    <3>3. Len(p) \in Nat /\ Len(t) = Len(p) - 1
      BY <1>1
    <3>4. QED
      BY <3>1, <3>2, <3>3
  <2>3. QED
    BY <1>1, <2>1, <2>2 DEF Proper
<1>3. ASSUME Head(p) = "remove"
      PROVE  Tail(p) = <<>>
  <2>1. 1 \in 1..Len(p) /\ p[1] = "remove"
    BY <1>1, <1>3
  <2>2. Len(p) = 1
    BY <2>1 DEF Proper
  <2>3. Len(Tail(p)) = 0 /\ Tail(p) \in Seq(Steps)
    BY <1>1, <2>2
  <2>4. QED
    BY <2>3, EmptySeq
<1>4. ASSUME Tail(p) # <<>>
      PROVE  /\ Head(Tail(p)) \in {"use", "trace"} => Head(p) \in {"get", "use"}
             /\ Head(Tail(p)) = "remove" => Head(p) = "close"
  <2>1. Len(Tail(p)) > 0 /\ Head(Tail(p)) = p[2] /\ Head(p) = p[1] /\ 2 \in 2..Len(p)
    BY <1>1, <1>4
  <2>2. QED
    BY <2>1 DEF Proper
<1>5. QED
  BY <1>2, <1>3, <1>4

\* The programs written out.
LEMMA LiteralsWhole ==
    /\ Whole(<<>>) /\ Keeping(<<>>)
    /\ Whole(<<"get", "use">>) /\ Keeping(<<"get", "use">>)
    /\ Whole(<<"get", "use", "save">>) /\ Keeping(<<"get", "use", "save">>)
    /\ Whole(<<"get", "use", "get", "use", "save">>)
    /\ Whole(<<"get", "save">>) /\ Whole(<<"stop">>)
    /\ Whole(<<"get", "trace">>) /\ Keeping(<<"get", "trace">>)
    /\ Whole(<<"get", "close", "remove">>) /\ Whole(<<"stop", "close", "remove">>)
    /\ Whole(<<"close", "remove">>)
    /\ Whole(<<"save", "get", "use">>)
    /\ Whole(<<"get">>) /\ Keeping(<<"get">>)
<1>1. Whole(<<>>) /\ Keeping(<<>>)
  BY EmptySeq DEF Whole, Proper, Keeping
<1>2. Whole(<<"get", "use">>) /\ Keeping(<<"get", "use">>)
  BY DEF Whole, Proper, Keeping, Steps
<1>3. Whole(<<"get", "use", "save">>) /\ Keeping(<<"get", "use", "save">>)
  BY DEF Whole, Proper, Keeping, Steps
<1>4. Whole(<<"get", "use", "get", "use", "save">>)
  BY DEF Whole, Proper, Steps
<1>5. Whole(<<"get", "save">>) /\ Whole(<<"stop">>)
  BY DEF Whole, Proper, Steps
<1>6. Whole(<<"get", "trace">>) /\ Keeping(<<"get", "trace">>)
  BY DEF Whole, Proper, Keeping, Steps
<1>7. Whole(<<"get", "close", "remove">>) /\ Whole(<<"stop", "close", "remove">>)
  BY DEF Whole, Proper, Steps
<1>8. Whole(<<"close", "remove">>) /\ Whole(<<"save", "get", "use">>)
  BY DEF Whole, Proper, Steps
<1>9. Whole(<<"get">>) /\ Keeping(<<"get">>)
  BY DEF Whole, Proper, Keeping, Steps
<1>10. QED
  BY <1>1, <1>2, <1>3, <1>4, <1>5, <1>6, <1>7, <1>8, <1>9

\* The programs of handlers.
LEMMA MenuWhole == \A p \in OnSession : Whole(p)
<1>1. Whole(AgentTool) /\ Whole(ClosingAgentTool)
  BY LiteralsWhole, ConcatWhole DEF AgentTool, ClosingAgentTool, Command, CloseCommand
<1>2. QED
  BY <1>1, LiteralsWhole
     DEF OnSession, Inspect, Screenshot, Stream, ReadChallenge, Command, AwaitChallenge, Navigate,
         ReadCookies, SetCookies, SaveProfile, CloseCommand, StartReplay, StopReplay, Delete

LEMMA OpenWhole == \A recordTrace, startUrl \in BOOLEAN : Whole(Open(recordTrace, startUrl))
<1>1. /\ Whole(<<>> \o <<>>) /\ Whole(StartReplay \o <<>>)
      /\ Whole(<<>> \o Navigate) /\ Whole(StartReplay \o Navigate)
  BY LiteralsWhole, ConcatWhole DEF StartReplay, Navigate
<1>2. QED
  BY <1>1 DEF Open

LEMMA BqlWhole == \A first, second \in Fields : Whole(BqlAttempt(first, second))
<1>1. \A f \in Fields : Whole(f) /\ Keeping(f)
  BY LiteralsWhole
     DEF Fields, NavigationField, ElementField, TrafficField, ContentField, CookiesField,
         DocumentField, QueryField, SolveField, Command
<1>2. ASSUME NEW first \in Fields, NEW second \in Fields
      PROVE  Whole(BqlAttempt(first, second))
  <2> DEFINE one == <<"get">> \o first
  <2>1. /\ Whole(<<"get">>) /\ Keeping(<<"get">>) /\ <<"get">> \in Seq(Steps)
        /\ Whole(first) /\ Keeping(first) /\ first \in Seq(Steps)
        /\ Whole(second) /\ Keeping(second) /\ second \in Seq(Steps)
    BY <1>1, LiteralsWhole DEF Whole, Proper
  <2>2. Whole(one)
    BY <2>1, ConcatWhole
  <2>3. Keeping(one) /\ one \in Seq(Steps)
    BY <2>1, ConcatKeeping, ConcatProperties
  <2> HIDE DEF one
  <2>4. Whole(one \o second)
    BY <2>1, <2>2, <2>3, ConcatWhole
  <2>5. Keeping(one \o second)
    BY <2>1, <2>3, ConcatKeeping
  <2>6. Whole((one \o second) \o CleanUp)
    BY <2>4, <2>5, LiteralsWhole, ConcatWhole DEF CleanUp
  <2>7. QED
    BY <2>6 DEF one, BqlAttempt
<1>3. QED
  BY <1>2

-----------------------------------------------------------------------------
\* The inductive invariant

\* Handlers run proper programs.
ProgramsFit ==
    \A r \in Requests :
        /\ Proper(req[r].todo) /\ Whole(req[r].rescue)
        /\ IF req[r].todo = <<>> THEN req[r] = Idle ELSE req[r].ses \in Sessions

\* A session that is not shared has one handler at most ...
Alone ==
    \A s \in Sessions \ shared : \A q, r \in Requests :
        req[q].ses = s /\ req[r].ses = s => q = r

NextStep(r) == IF req[r].todo = <<>> THEN "none" ELSE Head(req[r].todo)

\* ... which knows what the manager has of the session: nothing when it
\* launches or has closed, no trace when it has stopped it, and the browser it
\* holds when it goes on to use it.
Fits(r) ==
    LET s == req[r].ses IN
    s \in Sessions \ shared =>
        /\ NextStep(r) = "get" /\ req[r].phase \in {"expiring", "launching"} => active[s] = None
        /\ \/ NextStep(r) = "close" /\ req[r].phase = "closing"
           \/ NextStep(r) = "remove"
           => active[s] = None /\ s \notin tracing
        /\ NextStep(r) = "stop" /\ req[r].phase = "stopping" => s \notin tracing
        /\ s \notin expired /\ NextStep(r) \in {"use", "trace"} =>
               req[r].held = active[s] /\ active[s] \in Browsers
HandlersFit == \A r \in Requests : Fits(r)

\* A browser is the entry of one session, and what a handler holds is the entry
\* of no other session than its own; it holds one when it goes on to use it.
EntriesDiffer ==
    \A s, t \in Sessions : active[s] = active[t] /\ active[s] # None => s = t
HoldsOwn(r) ==
    /\ \A t \in Sessions : req[r].held # None /\ active[t] = req[r].held => t = req[r].ses
    /\ NextStep(r) \in {"use", "trace"} => req[r].held \in Browsers
HeldIsOwn == \A r \in Requests : HoldsOwn(r)

\* A deleted session has no handler and nothing in the manager.
GoneIsQuiet ==
    \A s \in Sessions \ shared :
        row[s] = "gone" =>
            /\ \A r \in Requests : req[r].ses # s
            /\ active[s] = None /\ s \notin tracing

Handlers ==
    [ses : Sessions \cup {None}, todo : Programs, rescue : Programs,
     phase : {"ready", "expiring", "launching", "starting", "stopping", "closing"},
     held : Browsers \cup {None}, waits : SUBSET Browsers]

\* What the proofs need of types.
Shapes ==
    /\ row \in [Sessions -> {"unused", "live", "gone"}]
    /\ active \in [Sessions -> Browsers \cup {None}] /\ tracing \subseteq Sessions
    /\ browser \in [Browsers -> {"none", "up", "closing"}] /\ recording \subseteq Browsers
    /\ req \in [Requests -> Handlers]
    /\ shared \subseteq Sessions /\ expired \subseteq Sessions
    /\ overwritten \subseteq Browsers \X Sessions /\ leaked \subseteq Browsers

IInv ==
    /\ Shapes /\ ProgramsFit /\ Alone /\ HandlersFit /\ EntriesDiffer /\ HeldIsOwn
    /\ BrowsersAreEntries /\ OnlySharedAreOverwritten /\ GoneIsQuiet /\ TracingIsReal

LEMMA IdleIsHandler == Idle \in Handlers
  BY EmptySeq DEF Idle, Handlers, Programs

-----------------------------------------------------------------------------
\* How a handler moves: on to the rest of its program, to that of its catch
\* clause, or into an await.

Elsewhere(r) == \A q \in Requests \ {r} : req'[q] = req[q]

LEMMA ReturnFits ==
    ASSUME req \in [Requests -> Handlers], ProgramsFit, NEW r \in Requests,
           req[r].todo # <<>>, NEW b \in Browsers \cup {None}, Return(r, b)
    PROVE  /\ req' \in [Requests -> Handlers] /\ ProgramsFit' /\ Elsewhere(r)
           /\ req'[r].ses \in {req[r].ses, None}
           /\ req'[r].phase = "ready" /\ req'[r].held \in {b, None}
           /\ NextStep(r)' \in {"use", "trace"} =>
                  NextStep(r) \in {"get", "use"} /\ req'[r].held = b
           /\ NextStep(r)' = "remove" => NextStep(r) = "close"
           /\ NextStep(r) = "remove" => req'[r] = Idle
<1> DEFINE rest == Tail(req[r].todo)
<1>1. /\ Proper(req[r].todo) /\ Whole(req[r].rescue) /\ req[r].ses \in Sessions
      /\ req[r] \in Handlers
  BY DEF ProgramsFit
<1>2. /\ Proper(rest)
      /\ Head(req[r].todo) = "remove" => rest = <<>>
      /\ rest # <<>> => /\ Head(rest) \in {"use", "trace"} => Head(req[r].todo) \in {"get", "use"}
                        /\ Head(rest) = "remove" => Head(req[r].todo) = "close"
  BY <1>1, TailProper
<1>3. req'[r] = Then(req[r], rest, b) /\ Elsewhere(r)
  BY DEF Return, Elsewhere
<1>4. req' = [req EXCEPT ![r] = req'[r]]
  BY <1>3 DEF Return
<1>5. CASE rest = <<>>
  <2>1. req'[r] = Idle
    BY <1>3, <1>5 DEF Then
  <2>2. req' \in [Requests -> Handlers]
    BY <1>4, <2>1, IdleIsHandler
  <2>3. /\ Idle.todo = <<>> /\ Idle.rescue = <<>> /\ Idle.ses = None /\ Idle.phase = "ready"
        /\ Idle.held = None
    BY DEF Idle
  <2>4. ProgramsFit'
    BY <1>3, <2>1, <2>3, LiteralsWhole DEF ProgramsFit, Elsewhere, Whole
  <2>5. NextStep(r)' = "none"
    BY <2>1, <2>3 DEF NextStep
  <2>6. QED
    BY <1>3, <2>1, <2>2, <2>3, <2>4, <2>5
<1>6. CASE rest # <<>>
  <2> DEFINE kept == IF Head(rest) \in {"use", "trace"} THEN b ELSE None
  <2>1. req'[r] = [req[r] EXCEPT !.todo = rest, !.phase = "ready", !.waits = {}, !.held = kept]
    BY <1>3, <1>6 DEF Then
  <2>2. /\ req'[r].todo = rest /\ req'[r].phase = "ready" /\ req'[r].held = kept
        /\ req'[r].ses = req[r].ses /\ req'[r].rescue = req[r].rescue
        /\ req'[r] \in Handlers
    BY <1>1, <1>2, <2>1 DEF Handlers, Programs, Proper
  <2>3. req' \in [Requests -> Handlers]
    BY <1>4, <2>2
  <2>4. ProgramsFit'
    BY <1>1, <1>2, <1>3, <1>6, <2>2 DEF ProgramsFit, Elsewhere
  <2>5. NextStep(r)' = Head(rest) /\ NextStep(r) = Head(req[r].todo)
    BY <1>6, <2>2 DEF NextStep
  <2>6. QED
    BY <1>2, <1>3, <1>6, <2>2, <2>3, <2>4, <2>5
<1>7. QED
  BY <1>5, <1>6

LEMMA ThrowFits ==
    ASSUME req \in [Requests -> Handlers], ProgramsFit, NEW r \in Requests,
           req[r].todo # <<>>, Throw(r)
    PROVE  /\ req' \in [Requests -> Handlers] /\ ProgramsFit' /\ Elsewhere(r)
           /\ req'[r].ses \in {req[r].ses, None}
           /\ req'[r].phase = "ready" /\ req'[r].held = None
           /\ NextStep(r)' \notin {"use", "trace", "remove"}
<1> DEFINE rest == req[r].rescue
<1>1. Whole(rest) /\ Proper(rest) /\ req[r].ses \in Sessions /\ req[r] \in Handlers
  BY DEF ProgramsFit, Whole
<1>2. /\ req'[r] = Then([req[r] EXCEPT !.rescue = <<>>], rest, None) /\ Elsewhere(r)
      /\ req' = [req EXCEPT ![r] = req'[r]]
  BY DEF Throw, Elsewhere
<1>3. CASE rest = <<>>
  <2>1. req'[r] = Idle
    BY <1>2, <1>3 DEF Then
  <2>2. req' \in [Requests -> Handlers]
    BY <1>2, <2>1, IdleIsHandler
  <2>3. /\ Idle.todo = <<>> /\ Idle.rescue = <<>> /\ Idle.ses = None /\ Idle.phase = "ready"
        /\ Idle.held = None
    BY DEF Idle
  <2>4. ProgramsFit'
    BY <1>2, <2>1, <2>3, LiteralsWhole DEF ProgramsFit, Elsewhere, Whole
  <2>5. NextStep(r)' = "none"
    BY <2>1, <2>3 DEF NextStep
  <2>6. QED
    BY <1>2, <2>1, <2>2, <2>3, <2>4, <2>5
<1>4. CASE rest # <<>>
  <2> DEFINE q == [req[r] EXCEPT !.rescue = <<>>]
  <2>0. /\ q \in Handlers /\ q.ses = req[r].ses /\ q.rescue = <<>>
    BY <1>1, EmptySeq DEF Handlers, Programs
  <2>1. req'[r] = [q EXCEPT !.todo = rest, !.phase = "ready", !.waits = {}, !.held = None]
    BY <1>2, <1>4 DEF Then
  <2> HIDE DEF q
  <2>2. /\ req'[r].todo = rest /\ req'[r].phase = "ready" /\ req'[r].held = None
        /\ req'[r].ses = req[r].ses /\ req'[r].rescue = <<>>
        /\ req'[r] \in Handlers
    BY <1>1, <2>0, <2>1 DEF Handlers, Programs, Proper
  <2>3. req' \in [Requests -> Handlers]
    BY <1>2, <2>2
  <2>4. ProgramsFit'
    BY <1>1, <1>2, <1>4, <2>2, LiteralsWhole DEF ProgramsFit, Elsewhere
  <2>5. NextStep(r)' = rest[1]
    BY <1>4, <2>2 DEF NextStep
  <2>6. rest[1] \notin {"use", "trace", "remove"}
    BY <1>1, <1>4 DEF Whole
  <2>7. QED
    BY <1>2, <2>2, <2>3, <2>4, <2>5, <2>6
<1>5. QED
  BY <1>3, <1>4

LEMMA AwaitFits ==
    ASSUME req \in [Requests -> Handlers], ProgramsFit, NEW r \in Requests, req[r].todo # <<>>,
           NEW phase \in {"expiring", "launching", "starting", "stopping", "closing"},
           NEW b \in Browsers \cup {None}, NEW waits \in SUBSET Browsers,
           Await(r, phase, b, waits)
    PROVE  /\ req' \in [Requests -> Handlers] /\ ProgramsFit' /\ Elsewhere(r)
           /\ req'[r].ses = req[r].ses
           /\ req'[r].phase = phase /\ req'[r].held = b
           /\ NextStep(r)' = NextStep(r)
<1>1. req[r] \in Handlers
  OBVIOUS
<1>2. req'[r] = [req[r] EXCEPT !.phase = phase, !.held = b, !.waits = waits]
  BY <1>1 DEF Await, Handlers
<1>3. /\ req'[r].todo = req[r].todo /\ req'[r].phase = phase /\ req'[r].held = b
      /\ req'[r].ses = req[r].ses /\ req'[r].rescue = req[r].rescue
      /\ req'[r] \in Handlers
  BY <1>1, <1>2 DEF Handlers
<1>4. Elsewhere(r) /\ req' \in [Requests -> Handlers]
  BY <1>3 DEF Await, Elsewhere
<1>5. ProgramsFit'
  BY <1>3, <1>4 DEF ProgramsFit, Elsewhere
<1>6. NextStep(r)' = NextStep(r)
  BY <1>3 DEF NextStep
<1>7. QED
  BY <1>3, <1>4, <1>5, <1>6

-----------------------------------------------------------------------------
\* Steps that change no more than where a handler is.

\* Histories of browsers.
past == <<shared, overwritten, leaked>>

Kept == UNCHANGED <<row, expired, active, tracing, processVars, past>>

LEMMA KeptKeeps ==
    ASSUME IInv, UNCHANGED <<expired, active, tracing, processVars, past>>
    PROVE  EntriesDiffer' /\ BrowsersAreEntries' /\ OnlySharedAreOverwritten' /\ TracingIsReal'
  BY DEF IInv, EntriesDiffer, BrowsersAreEntries, Lost, OnlySharedAreOverwritten, TracingIsReal,
         processVars, history, past

LEMMA MoveAlone ==
    ASSUME Alone, shared' = shared, NEW r \in Requests, Elsewhere(r),
           req'[r].ses \in {req[r].ses, None}, None \notin Sessions
    PROVE  Alone'
  BY DEF Alone, Elsewhere

LEMMA MoveKeeps ==
    ASSUME IInv, Kept, NEW r \in Requests,
           req' \in [Requests -> Handlers], ProgramsFit', Elsewhere(r),
           req'[r].ses \in {req[r].ses, None}, Fits(r)', HoldsOwn(r)'
    PROVE  IInv'
<1>1. Shapes' /\ Alone'
  BY MoveAlone, SessionAssumption DEF IInv, Shapes, Kept, processVars, history, past
<1>2. HandlersFit' /\ HeldIsOwn'
  BY DEF IInv, Kept, HandlersFit, Fits, HeldIsOwn, HoldsOwn, Elsewhere, NextStep, history, past
<1>3. GoneIsQuiet'
  BY SessionAssumption DEF IInv, Kept, GoneIsQuiet, Elsewhere, history, past
<1>4. QED
  BY <1>1, <1>2, <1>3, KeptKeeps DEF IInv, Kept

\* A handler at a step has a program and a session.
LEMMA AtHasProgram ==
    ASSUME IInv, NEW r \in Requests, NEW step, NEW phase, At(r, step, phase)
    PROVE  /\ req[r].todo # <<>> /\ req[r] \in Handlers /\ req \in [Requests -> Handlers]
           /\ ProgramsFit /\ req[r].ses \in Sessions /\ NextStep(r) = step /\ req[r].phase = phase
  BY DEF IInv, Shapes, At, ProgramsFit, NextStep

LEMMA ThrowKeeps ==
    ASSUME IInv, Kept, NEW r \in Requests, req[r].todo # <<>>, Throw(r)
    PROVE  IInv'
<1>1. /\ req' \in [Requests -> Handlers] /\ ProgramsFit' /\ Elsewhere(r)
      /\ req'[r].ses \in {req[r].ses, None}
      /\ req'[r].phase = "ready" /\ req'[r].held = None
      /\ NextStep(r)' \notin {"use", "trace", "remove"}
  BY ThrowFits DEF IInv, Shapes
<1>2. Fits(r)' /\ HoldsOwn(r)'
  BY <1>1 DEF Fits, HoldsOwn
<1>3. QED
  BY <1>1, <1>2, MoveKeeps

LEMMA AdmittedKeeps == ASSUME IInv, NEW r \in Requests, Admitted(r) PROVE IInv'
<1>1. Kept /\ At(r, "get", "expiring")
  BY DEF Admitted, Kept, past, history, tableVars, managerVars
<1>2. /\ req[r].todo # <<>> /\ req[r] \in Handlers /\ req \in [Requests -> Handlers]
      /\ ProgramsFit /\ NextStep(r) = "get" /\ req[r].phase = "expiring"
  BY <1>1, AtHasProgram
<1>3. CASE Throw(r)
  BY <1>1, <1>2, <1>3, ThrowKeeps
<1>4. CASE Await(r, "launching", None, {})
  <2>1. /\ req' \in [Requests -> Handlers] /\ ProgramsFit' /\ Elsewhere(r)
        /\ req'[r].ses = req[r].ses /\ req'[r].phase = "launching" /\ req'[r].held = None
        /\ NextStep(r)' = NextStep(r)
    BY <1>2, <1>4, AwaitFits
  <2>2. Fits(r)'
    BY <1>1, <1>2, <2>1 DEF IInv, HandlersFit, Fits, Kept, history, past
  <2>3. HoldsOwn(r)'
    BY <1>2, <2>1 DEF HoldsOwn
  <2>4. QED
    BY <1>1, <2>1, <2>2, <2>3, MoveKeeps
<1>5. QED
  BY <1>3, <1>4 DEF Admitted

LEMMA UseKeeps == ASSUME IInv, NEW r \in Requests, Use(r) PROVE IInv'
<1>1. Kept /\ At(r, "use", "ready")
  BY DEF Use, Kept, past, history, tableVars, managerVars
<1>2. /\ req[r].todo # <<>> /\ req[r] \in Handlers /\ req \in [Requests -> Handlers]
      /\ ProgramsFit /\ req[r].ses \in Sessions /\ NextStep(r) = "use"
      /\ req[r].held \in Browsers \cup {None}
  BY <1>1, AtHasProgram DEF Handlers
<1>3. CASE Throw(r)
  BY <1>1, <1>2, <1>3, ThrowKeeps
<1>4. CASE Return(r, req[r].held)
  <2>1. /\ req' \in [Requests -> Handlers] /\ ProgramsFit' /\ Elsewhere(r)
        /\ req'[r].ses \in {req[r].ses, None} /\ req'[r].phase = "ready"
        /\ req'[r].held \in {req[r].held, None}
        /\ NextStep(r)' \in {"use", "trace"} => req'[r].held = req[r].held
        /\ NextStep(r)' = "remove" => NextStep(r) = "close"
    BY <1>2, <1>4, ReturnFits
  <2>2. Fits(r)'
    BY <1>1, <1>2, <2>1, SessionAssumption DEF IInv, HandlersFit, Fits, Kept, history, past
  <2>3. req'[r] = Idle \/ req'[r].ses = req[r].ses
    BY <1>4 DEF Return, Then
  <2>4. HoldsOwn(r)'
    <3>1. HoldsOwn(r) /\ req[r].held \in Browsers /\ active' = active
      BY <1>1, <1>2 DEF IInv, HeldIsOwn, HoldsOwn, Kept
    <3>2. QED
      BY <2>1, <2>3, <3>1, SessionAssumption DEF HoldsOwn, Idle
  <2>5. QED
    BY <1>1, <2>1, <2>2, <2>4, MoveKeeps
<1>5. QED
  BY <1>3, <1>4 DEF Use

\* A handler that goes on without a browser neither uses nor removes anything
\* next, unless it comes from where it may.
LEMMA LeaveFits ==
    ASSUME req \in [Requests -> Handlers], ProgramsFit, NEW r \in Requests,
           req[r].todo # <<>>, NextStep(r) \notin {"get", "use"}, Return(r, None)
    PROVE  /\ req' \in [Requests -> Handlers] /\ ProgramsFit' /\ Elsewhere(r)
           /\ req'[r].ses \in {req[r].ses, None}
           /\ req'[r].phase = "ready" /\ req'[r].held = None
           /\ NextStep(r)' \notin {"use", "trace"}
           /\ NextStep(r)' = "remove" => NextStep(r) = "close"
           /\ NextStep(r) = "remove" => req'[r] = Idle
<1>1. None \in Browsers \cup {None}
  OBVIOUS
<1>2. /\ req' \in [Requests -> Handlers] /\ ProgramsFit' /\ Elsewhere(r)
      /\ req'[r].ses \in {req[r].ses, None}
      /\ req'[r].phase = "ready" /\ req'[r].held \in {None, None}
      /\ NextStep(r)' \in {"use", "trace"} =>
             NextStep(r) \in {"get", "use"} /\ req'[r].held = None
      /\ NextStep(r)' = "remove" => NextStep(r) = "close"
      /\ NextStep(r) = "remove" => req'[r] = Idle
  BY <1>1, ReturnFits
<1>3. QED
  BY <1>2

LEMMA SaveKeeps == ASSUME IInv, NEW r \in Requests, Save(r) PROVE IInv'
<1>1. Kept /\ At(r, "save", "ready")
  BY DEF Save, Kept, past, history, tableVars, managerVars
<1>2. /\ req[r].todo # <<>> /\ req \in [Requests -> Handlers] /\ ProgramsFit
      /\ req[r].ses \in Sessions /\ NextStep(r) = "save"
  BY <1>1, AtHasProgram
<1>3. CASE Throw(r)
  BY <1>1, <1>2, <1>3, ThrowKeeps
<1>4. CASE Return(r, None)
  <2>1. /\ req' \in [Requests -> Handlers] /\ ProgramsFit' /\ Elsewhere(r)
        /\ req'[r].ses \in {req[r].ses, None} /\ req'[r].phase = "ready"
        /\ req'[r].held = None /\ NextStep(r)' \notin {"use", "trace", "remove"}
    BY <1>2, <1>4, LeaveFits
  <2>2. Fits(r)' /\ HoldsOwn(r)'
    BY <2>1 DEF Fits, HoldsOwn
  <2>3. QED
    BY <1>1, <2>1, <2>2, MoveKeeps
<1>5. QED
  BY <1>3, <1>4 DEF Save

LEMMA TraceKeeps == ASSUME IInv, NEW r \in Requests, Trace(r) PROVE IInv'
<1>1. Kept /\ At(r, "trace", "ready")
  BY DEF Trace, Kept, past, history, tableVars, managerVars
<1>2. /\ req[r].todo # <<>> /\ req \in [Requests -> Handlers] /\ ProgramsFit
      /\ req[r].ses \in Sessions /\ NextStep(r) = "trace" /\ req[r].held \in Browsers \cup {None}
  BY <1>1, AtHasProgram DEF Handlers
<1>3. CASE Return(r, None)
  <2>1. /\ req' \in [Requests -> Handlers] /\ ProgramsFit' /\ Elsewhere(r)
        /\ req'[r].ses \in {req[r].ses, None} /\ req'[r].phase = "ready"
        /\ req'[r].held = None /\ NextStep(r)' \notin {"use", "trace", "remove"}
    BY <1>2, <1>3, LeaveFits
  <2>2. Fits(r)' /\ HoldsOwn(r)'
    BY <2>1 DEF Fits, HoldsOwn
  <2>3. QED
    BY <1>1, <2>1, <2>2, MoveKeeps
<1>4. CASE Await(r, "starting", req[r].held, {})
  <2> DEFINE b == req[r].held
  <2>0. {} \in SUBSET Browsers /\ b \in Browsers \cup {None} /\ Await(r, "starting", b, {})
    BY <1>2, <1>4
  <2> HIDE DEF b
  <2>1. /\ req' \in [Requests -> Handlers] /\ ProgramsFit' /\ Elsewhere(r)
        /\ req'[r].ses = req[r].ses /\ req'[r].phase = "starting"
        /\ req'[r].held = b /\ NextStep(r)' = NextStep(r)
    BY <1>2, <2>0, AwaitFits
  <2> USE DEF b
  <2>2. Fits(r)'
    BY <1>1, <1>2, <2>1 DEF IInv, HandlersFit, Fits, Kept, history, past
  <2>3. HoldsOwn(r)'
    BY <1>1, <2>1 DEF IInv, HeldIsOwn, HoldsOwn, Kept
  <2>4. QED
    BY <1>1, <2>1, <2>2, <2>3, MoveKeeps
<1>5. QED
  BY <1>3, <1>4 DEF Trace

LEMMA CloseEndsKeeps == ASSUME IInv, NEW r \in Requests, CloseEnds(r) PROVE IInv'
<1>1. Kept /\ At(r, "close", "closing") /\ Return(r, None)
  BY DEF CloseEnds, Kept, past, history, tableVars, managerVars
<1>2. /\ req[r].todo # <<>> /\ req \in [Requests -> Handlers] /\ ProgramsFit
      /\ req[r].ses \in Sessions /\ NextStep(r) = "close" /\ req[r].phase = "closing"
  BY <1>1, AtHasProgram
<1>3. /\ req' \in [Requests -> Handlers] /\ ProgramsFit' /\ Elsewhere(r)
      /\ req'[r].ses \in {req[r].ses, None} /\ req'[r].phase = "ready"
      /\ req'[r].held = None /\ NextStep(r)' \notin {"use", "trace"}
  BY <1>1, <1>2, LeaveFits
<1>4. Fits(r)'
  BY <1>1, <1>2, <1>3, SessionAssumption DEF IInv, HandlersFit, Fits, Kept, history, past
<1>5. HoldsOwn(r)'
  BY <1>3 DEF HoldsOwn
<1>6. QED
  BY <1>1, <1>3, <1>4, <1>5, MoveKeeps

-----------------------------------------------------------------------------
\* Steps that start and stop traces.

LEMMA TraceStartedKeeps == ASSUME IInv, NEW r \in Requests, TraceStarted(r) PROVE IInv'
<1> DEFINE s == req[r].ses  b == req[r].held
<1>1. /\ At(r, "trace", "starting")
      /\ UNCHANGED <<row, expired, active, browser, history>>
  BY DEF TraceStarted, tableVars
<1>2. /\ req[r].todo # <<>> /\ req \in [Requests -> Handlers] /\ ProgramsFit
      /\ s \in Sessions /\ NextStep(r) = "trace" /\ b \in Browsers \cup {None}
  BY <1>1, AtHasProgram DEF Handlers
<1>3. CASE Throw(r) /\ UNCHANGED <<recording, tracing>>
  BY <1>1, <1>2, <1>3, ThrowKeeps DEF Kept, processVars, past, history
<1>4. CASE /\ browser[b] # "none" /\ recording' = recording \cup {b}
           /\ tracing' = tracing \cup {s} /\ Return(r, None)
           /\ b \in Browsers
  <2>1. /\ req' \in [Requests -> Handlers] /\ ProgramsFit' /\ Elsewhere(r)
        /\ req'[r].ses \in {s, None} /\ req'[r].phase = "ready"
        /\ req'[r].held = None /\ NextStep(r)' \notin {"use", "trace", "remove"}
    BY <1>2, <1>4, LeaveFits
  <2>2. Shapes' /\ Alone'
    BY <1>1, <1>2, <1>4, <2>1, MoveAlone, SessionAssumption DEF IInv, Shapes, history, past
  <2>3. Fits(r)' /\ HoldsOwn(r)'
    BY <2>1 DEF Fits, HoldsOwn
  <2>4. ASSUME NEW q \in Requests, q # r PROVE Fits(q)' /\ HoldsOwn(q)'
    <3>1. req'[q] = req[q] /\ NextStep(q)' = NextStep(q) /\ Fits(q) /\ HoldsOwn(q)
      BY <2>1, <2>4 DEF Elsewhere, NextStep, IInv, HandlersFit, HeldIsOwn
    <3>2. req[q].ses \in Sessions \ shared => req[q].ses # s
      BY <2>4 DEF IInv, Alone
    <3>3. QED
      BY <1>1, <1>4, <3>1, <3>2 DEF Fits, HoldsOwn, history, past
  <2>5. HandlersFit' /\ HeldIsOwn'
    BY <2>3, <2>4 DEF HandlersFit, HeldIsOwn
  <2>6. GoneIsQuiet'
    BY <1>1, <1>2, <1>4, <2>1, SessionAssumption DEF IInv, GoneIsQuiet, Elsewhere, history, past
  <2>7. EntriesDiffer' /\ BrowsersAreEntries' /\ OnlySharedAreOverwritten'
    BY <1>1, <1>4
       DEF IInv, EntriesDiffer, BrowsersAreEntries, Lost, OnlySharedAreOverwritten, history, past
  <2>8. TracingIsReal'
    <3>1. s \notin shared \cup expired => active[s] = b
      BY <1>2 DEF IInv, HandlersFit, Fits
    <3>2. QED
      BY <1>1, <1>2, <1>4, <3>1, SessionAssumption DEF IInv, TracingIsReal, history, past
  <2>9. QED
    BY <2>1, <2>2, <2>5, <2>6, <2>7, <2>8 DEF IInv
<1>5. QED
  <2>1. b \in Browsers
    BY <1>2 DEF IInv, HeldIsOwn, HoldsOwn
  <2>2. \/ Throw(r) /\ UNCHANGED <<recording, tracing>>
        \/ /\ browser[b] # "none" /\ recording' = recording \cup {b}
           /\ tracing' = tracing \cup {s} /\ Return(r, None)
    BY DEF TraceStarted
  <2>3. QED
    BY <2>1, <2>2, <1>3, <1>4

LEMMA StopKeeps == ASSUME IInv, NEW r \in Requests, Stop(r) PROVE IInv'
<1> DEFINE s == req[r].ses
<1>1. /\ At(r, "stop", "ready")
      /\ UNCHANGED <<row, expired, active, processVars, history>>
  BY DEF Stop, tableVars
<1>2. /\ req[r].todo # <<>> /\ req \in [Requests -> Handlers] /\ ProgramsFit
      /\ s \in Sessions /\ NextStep(r) = "stop"
  BY <1>1, AtHasProgram
<1>3. CASE tracing' = tracing /\ Return(r, None)
  <2>1. /\ req' \in [Requests -> Handlers] /\ ProgramsFit' /\ Elsewhere(r)
        /\ req'[r].ses \in {s, None} /\ req'[r].phase = "ready"
        /\ req'[r].held = None /\ NextStep(r)' \notin {"use", "trace", "remove"}
    BY <1>2, <1>3, LeaveFits
  <2>2. Fits(r)' /\ HoldsOwn(r)'
    BY <2>1 DEF Fits, HoldsOwn
  <2>3. QED
    BY <1>1, <1>3, <2>1, <2>2, MoveKeeps DEF Kept, past, history
<1>4. CASE /\ active[s] # None /\ tracing' = tracing \ {s}
           /\ Await(r, "stopping", active[s], {})
  <2>1. active[s] \in Browsers \cup {None}
    BY <1>2 DEF IInv, Shapes
  <2>2. /\ req' \in [Requests -> Handlers] /\ ProgramsFit' /\ Elsewhere(r)
        /\ req'[r].ses = s /\ req'[r].phase = "stopping"
        /\ req'[r].held = active[s] /\ NextStep(r)' = "stop"
    BY <1>2, <1>4, <2>1, AwaitFits
  <2>3. Shapes' /\ Alone'
    BY <1>1, <1>2, <1>4, <2>2, MoveAlone, SessionAssumption
       DEF IInv, Shapes, history, past, processVars
  <2>4. Fits(r)'
    BY <1>4, <2>2 DEF Fits
  <2>5. HoldsOwn(r)'
    BY <1>1, <1>2, <2>2 DEF IInv, EntriesDiffer, HoldsOwn
  <2>6. ASSUME NEW q \in Requests, q # r PROVE Fits(q)' /\ HoldsOwn(q)'
    <3>1. req'[q] = req[q] /\ NextStep(q)' = NextStep(q) /\ Fits(q) /\ HoldsOwn(q)
      BY <2>2, <2>6 DEF Elsewhere, NextStep, IInv, HandlersFit, HeldIsOwn
    <3>2. QED
      BY <1>1, <1>4, <3>1 DEF Fits, HoldsOwn, history, past
  <2>7. HandlersFit' /\ HeldIsOwn'
    BY <2>4, <2>5, <2>6 DEF HandlersFit, HeldIsOwn
  <2>8. GoneIsQuiet'
    BY <1>1, <1>4, <2>2 DEF IInv, GoneIsQuiet, Elsewhere, history, past
  <2>9. EntriesDiffer' /\ BrowsersAreEntries' /\ OnlySharedAreOverwritten' /\ TracingIsReal'
    BY <1>1, <1>4
       DEF IInv, EntriesDiffer, BrowsersAreEntries, Lost, OnlySharedAreOverwritten, TracingIsReal,
           history, past, processVars
  <2>10. QED
    BY <2>2, <2>3, <2>7, <2>8, <2>9 DEF IInv
<1>5. QED
  BY <1>3, <1>4 DEF Stop, Stopping

\* What a step that only moves handler r asks of the others.
LEMMA OthersFit ==
    ASSUME IInv, NEW r \in Requests, Elsewhere(r),
           UNCHANGED <<expired, active, tracing, history>>,
           NEW q \in Requests, q # r
    PROVE  Fits(q)' /\ HoldsOwn(q)'
<1>1. req'[q] = req[q] /\ NextStep(q)' = NextStep(q) /\ Fits(q) /\ HoldsOwn(q)
  BY DEF Elsewhere, NextStep, IInv, HandlersFit, HeldIsOwn
<1>2. QED
  BY <1>1 DEF Fits, HoldsOwn, history, past

LEMMA StoppedKeeps == ASSUME IInv, NEW r \in Requests, Stopped(r) PROVE IInv'
<1> DEFINE s == req[r].ses  b == req[r].held
<1>1. /\ At(r, "stop", "stopping")
      /\ UNCHANGED <<row, expired, active, tracing, browser, history>>
  BY DEF Stopped, tableVars, managerVars
<1>2. /\ req[r].todo # <<>> /\ req \in [Requests -> Handlers] /\ ProgramsFit
      /\ s \in Sessions /\ NextStep(r) = "stop" /\ req[r].phase = "stopping"
  BY <1>1, AtHasProgram
<1>3. /\ req' \in [Requests -> Handlers] /\ ProgramsFit' /\ Elsewhere(r)
      /\ req'[r].ses \in {s, None} /\ req'[r].phase = "ready"
      /\ req'[r].held = None /\ NextStep(r)' \notin {"use", "trace", "remove"}
  <2>1. CASE Return(r, None)
    BY <1>2, <2>1, LeaveFits
  <2>2. CASE Throw(r)
    BY <1>2, <2>2, ThrowFits
  <2>3. QED
    BY <2>1, <2>2 DEF Stopped
<1>4. recording' = recording \/ (b \in recording /\ recording' = recording \ {b})
  BY DEF Stopped
<1>5. Shapes' /\ Alone'
  BY <1>1, <1>3, <1>4, MoveAlone, SessionAssumption DEF IInv, Shapes, history, past
<1>6. Fits(r)' /\ HoldsOwn(r)'
  BY <1>3 DEF Fits, HoldsOwn
<1>7. HandlersFit' /\ HeldIsOwn'
  BY <1>1, <1>3, <1>6, OthersFit DEF HandlersFit, HeldIsOwn
<1>8. GoneIsQuiet'
  BY <1>1, <1>3, SessionAssumption DEF IInv, GoneIsQuiet, Elsewhere, history, past
<1>9. EntriesDiffer' /\ BrowsersAreEntries' /\ OnlySharedAreOverwritten'
  BY <1>1 DEF IInv, EntriesDiffer, BrowsersAreEntries, Lost, OnlySharedAreOverwritten, history, past
<1>10. TracingIsReal'
  <2>1. ASSUME NEW t \in tracing \ (shared \cup expired), b \in recording
        PROVE  active[t] # b
    <3>1. b # None
      BY <2>1, SessionAssumption DEF IInv, Shapes
    <3>2. active[t] = b => t = s
      BY <2>1, <3>1 DEF IInv, Shapes, HeldIsOwn, HoldsOwn
    <3>3. s \notin shared => s \notin tracing
      BY <1>2 DEF IInv, HandlersFit, Fits
    <3>4. QED
      BY <2>1, <3>2, <3>3
  <2>2. QED
    BY <1>1, <1>4, <2>1 DEF IInv, TracingIsReal, history, past
<1>11. QED
  BY <1>3, <1>5, <1>7, <1>8, <1>9, <1>10 DEF IInv

-----------------------------------------------------------------------------
\* Steps that launch and remove.

LEMMA RemoveKeeps == ASSUME IInv, NEW r \in Requests, Remove(r) PROVE IInv'
<1> DEFINE s == req[r].ses
<1>1. /\ At(r, "remove", "ready") /\ Return(r, None) /\ row' = [row EXCEPT ![s] = "gone"]
      /\ UNCHANGED <<expired, active, tracing, processVars, history>>
  BY DEF Remove, managerVars
<1>2. /\ req[r].todo # <<>> /\ req \in [Requests -> Handlers] /\ ProgramsFit
      /\ s \in Sessions /\ NextStep(r) = "remove"
  BY <1>1, AtHasProgram
<1>3. /\ req' \in [Requests -> Handlers] /\ ProgramsFit' /\ Elsewhere(r)
      /\ req'[r].ses \in {s, None} /\ req'[r].phase = "ready"
      /\ req'[r].held = None /\ NextStep(r)' \notin {"use", "trace", "remove"}
      /\ req'[r] = Idle
  BY <1>1, <1>2, LeaveFits
<1>4. Shapes' /\ Alone'
  BY <1>1, <1>2, <1>3, MoveAlone, SessionAssumption DEF IInv, Shapes, history, past, processVars
<1>5. Fits(r)' /\ HoldsOwn(r)'
  BY <1>3 DEF Fits, HoldsOwn
<1>6. HandlersFit' /\ HeldIsOwn'
  BY <1>1, <1>3, <1>5, OthersFit DEF HandlersFit, HeldIsOwn
<1>7. GoneIsQuiet'
  <2>1. s \notin shared => active[s] = None /\ s \notin tracing
    BY <1>2 DEF IInv, HandlersFit, Fits
  <2>2. s \notin shared => \A q \in Requests \ {r} : req[q].ses # s
    BY <1>2 DEF IInv, Alone
  <2>3. req'[r].ses = None
    BY <1>3 DEF Idle
  <2>4. \A t \in Sessions : t # s => row'[t] = row[t]
    BY <1>1, <1>2 DEF IInv, Shapes
  <2>5. QED
    BY <1>1, <1>3, <2>1, <2>2, <2>3, <2>4, SessionAssumption
       DEF IInv, GoneIsQuiet, Elsewhere, history, past
<1>8. QED
  BY <1>1, <1>3, <1>4, <1>6, <1>7, KeptKeeps DEF IInv, past, history

LEMMA LaunchedKeeps == ASSUME IInv, NEW r \in Requests, Launched(r) PROVE IInv'
<1> DEFINE s == req[r].ses
<1>1. /\ At(r, "get", "launching")
      /\ UNCHANGED <<row, expired, tracing, recording, shared, leaked>>
  BY DEF Launched, tableVars
<1>2. /\ req[r].todo # <<>> /\ req \in [Requests -> Handlers] /\ ProgramsFit
      /\ s \in Sessions /\ NextStep(r) = "get" /\ req[r].phase = "launching"
  BY <1>1, AtHasProgram
<1>3. PICK b \in Browsers :
         /\ Fresh(b) /\ Return(r, b)
         /\ browser' = [browser EXCEPT ![b] = "up"] /\ active' = [active EXCEPT ![s] = b]
         /\ overwritten' = overwritten \cup {<<x, s>> : x \in {y \in Live({s}) : browser[y] = "up"}}
  BY DEF Launched
<1>4. b # None /\ (\A t \in Sessions : active[t] # b) /\ (\A q \in Requests : req[q].held # b)
  BY <1>3, SessionAssumption DEF Fresh
<1>5. /\ req' \in [Requests -> Handlers] /\ ProgramsFit' /\ Elsewhere(r)
      /\ req'[r].ses \in {s, None} /\ req'[r].phase = "ready"
      /\ req'[r].held \in {b, None}
      /\ NextStep(r)' \in {"use", "trace"} => req'[r].held = b
      /\ NextStep(r)' # "remove"
  BY <1>2, <1>3, ReturnFits
<1>6. req'[r] = Idle \/ req'[r].ses = s
  BY <1>3 DEF Return, Then
<1>7. active'[s] = b /\ \A t \in Sessions : t # s => active'[t] = active[t]
  BY <1>2, <1>3 DEF IInv, Shapes
<1>8. s \notin shared => active[s] = None
  BY <1>2 DEF IInv, HandlersFit, Fits
<1>9. ASSUME NEW o \in overwritten'
       PROVE  o \in overwritten \/ \E x \in Live({s}) : o = <<x, s>>
  <2>1. o \in overwritten \/ o \in {<<x, s>> : x \in {y \in Live({s}) : browser[y] = "up"}}
    BY <1>3, <1>9
  <2>2. QED
    BY <2>1
<1>10. Shapes' /\ Alone'
  <2>1. active' \in [Sessions -> Browsers \cup {None}]
        /\ browser' \in [Browsers -> {"none", "up", "closing"}]
    BY <1>3 DEF IInv, Shapes
  <2>2. Live({s}) \subseteq Browsers
    BY <1>2 DEF IInv, Shapes, Live
  <2>3. overwritten' \subseteq Browsers \X Sessions
    <3>1. overwritten \subseteq Browsers \X Sessions
      BY DEF IInv, Shapes
    <3>2. \A x \in Live({s}) : <<x, s>> \in Browsers \X Sessions
      BY <1>2, <2>2
    <3>3. QED
      BY <1>9, <3>1, <3>2
  <2>4. QED
    BY <1>1, <1>5, <2>1, <2>3, MoveAlone, SessionAssumption DEF IInv, Shapes
<1>11. Fits(r)' /\ HoldsOwn(r)'
  <2>1. Fits(r)'
    BY <1>1, <1>5, <1>7, SessionAssumption DEF Fits
  <2>2. HoldsOwn(r)'
    BY <1>4, <1>5, <1>6, <1>7 DEF HoldsOwn, Idle
  <2>3. QED
    BY <2>1, <2>2
<1>12. ASSUME NEW q \in Requests, q # r PROVE Fits(q)' /\ HoldsOwn(q)'
  <2>1. req'[q] = req[q] /\ NextStep(q)' = NextStep(q) /\ Fits(q) /\ HoldsOwn(q)
    BY <1>5, <1>12 DEF Elsewhere, NextStep, IInv, HandlersFit, HeldIsOwn
  <2>2. req[q].ses \in Sessions \ shared => req[q].ses # s
    BY <1>12 DEF IInv, Alone
  <2>3. Fits(q)'
    BY <1>1, <1>7, <2>1, <2>2 DEF Fits
  <2>4. HoldsOwn(q)'
    BY <1>4, <1>7, <2>1 DEF HoldsOwn
  <2>5. QED
    BY <2>3, <2>4
<1>13. EntriesDiffer'
  BY <1>4, <1>7 DEF IInv, EntriesDiffer
<1>14. BrowsersAreEntries'
  <2>1. ASSUME NEW x \in Browsers, browser'[x] = "up", x # b
        PROVE  (\E t \in Sessions : active'[t] = x) \/ Lost(x)'
    <3>1. browser[x] = "up"
      BY <1>3, <2>1 DEF IInv, Shapes
    <3>2. CASE Lost(x)
      BY <1>1, <1>3, <3>2 DEF Lost
    <3>3. CASE active[s] = x
      <4>1. x \in Live({s})
        BY <3>3, SessionAssumption DEF Live
      <4>2. <<x, s>> \in overwritten'
        BY <1>3, <3>1, <4>1
      <4>3. QED
        BY <1>2, <4>2 DEF Lost
    <3>4. CASE \E t \in Sessions : t # s /\ active[t] = x
      BY <1>7, <3>4
    <3>5. QED
      BY <3>1, <3>2, <3>3, <3>4 DEF IInv, BrowsersAreEntries
  <2>2. QED
    BY <1>2, <1>7, <2>1 DEF BrowsersAreEntries
<1>15. OnlySharedAreOverwritten'
  <2>1. \A o \in overwritten' : o \in overwritten \/ (o[2] = s /\ Live({s}) # {})
    BY <1>9
  <2>2. s \notin shared => Live({s}) = {}
    BY <1>8 DEF Live
  <2>3. QED
    BY <1>1, <2>1, <2>2 DEF IInv, OnlySharedAreOverwritten
<1>16. TracingIsReal'
  <2>1. ASSUME NEW t \in tracing \ (shared \cup expired)
        PROVE  t # s /\ active[t] # b /\ active[t] # None
               /\ (browser[active[t]] = "up" => active[t] \in recording)
    BY <1>4, <1>8 DEF IInv, Shapes, TracingIsReal
  <2>2. ASSUME NEW t \in tracing \ (shared \cup expired)
        PROVE  active'[t] = active[t] /\ browser'[active[t]] = browser[active[t]]
    BY <1>3, <1>7, <2>1 DEF IInv, Shapes
  <2>3. QED
    BY <1>1, <2>1, <2>2 DEF TracingIsReal
<1>17. GoneIsQuiet'
  <2>1. ASSUME NEW t \in Sessions \ shared, row[t] = "gone" PROVE t # s
    BY <2>1 DEF IInv, GoneIsQuiet
  <2>2. QED
    BY <1>1, <1>5, <1>7, <2>1, SessionAssumption DEF IInv, GoneIsQuiet, Elsewhere
<1>18. HandlersFit' /\ HeldIsOwn'
  BY <1>11, <1>12 DEF HandlersFit, HeldIsOwn
<1>19. QED
  BY <1>5, <1>10, <1>13, <1>14, <1>15, <1>16, <1>17, <1>18 DEF IInv

LEMMA LaunchFailsKeeps == ASSUME IInv, NEW r \in Requests, LaunchFails(r) PROVE IInv'
<1>1. /\ At(r, "get", "launching") /\ Throw(r)
      /\ UNCHANGED <<row, expired, active, tracing, recording, shared, overwritten>>
  BY DEF LaunchFails, tableVars, managerVars
<1>2. /\ req[r].todo # <<>> /\ req \in [Requests -> Handlers] /\ ProgramsFit
      /\ req[r].ses \in Sessions
  BY <1>1, AtHasProgram
<1>3. CASE UNCHANGED <<browser, leaked>>
  BY <1>1, <1>2, <1>3, ThrowKeeps DEF Kept, processVars, history, past
<1>4. CASE \E b \in Browsers : /\ Fresh(b) /\ browser' = [browser EXCEPT ![b] = "up"]
                               /\ leaked' = leaked \cup {b}
  <2>1. PICK b \in Browsers : /\ Fresh(b) /\ browser' = [browser EXCEPT ![b] = "up"]
                              /\ leaked' = leaked \cup {b}
    BY <1>4
  <2>2. \A t \in Sessions : active[t] # b
    BY <2>1 DEF Fresh
  <2>3. /\ req' \in [Requests -> Handlers] /\ ProgramsFit' /\ Elsewhere(r)
        /\ req'[r].ses \in {req[r].ses, None} /\ req'[r].phase = "ready"
        /\ req'[r].held = None /\ NextStep(r)' \notin {"use", "trace", "remove"}
    BY <1>1, <1>2, ThrowFits
  <2>4. Shapes' /\ Alone'
    BY <1>1, <2>1, <2>3, MoveAlone, SessionAssumption DEF IInv, Shapes
  <2>5. ASSUME NEW q \in Requests PROVE Fits(q)' /\ HoldsOwn(q)'
    <3>1. CASE q = r
      BY <2>3, <3>1 DEF Fits, HoldsOwn
    <3>2. CASE q # r
      <4>1. req'[q] = req[q] /\ NextStep(q)' = NextStep(q) /\ Fits(q) /\ HoldsOwn(q)
        BY <2>3, <3>2 DEF Elsewhere, NextStep, IInv, HandlersFit, HeldIsOwn
      <4>2. QED
        BY <1>1, <4>1 DEF Fits, HoldsOwn
    <3>3. QED
      BY <3>1, <3>2
  <2>6. HandlersFit' /\ HeldIsOwn'
    BY <2>5 DEF HandlersFit, HeldIsOwn
  <2>7. EntriesDiffer' /\ OnlySharedAreOverwritten'
    BY <1>1 DEF IInv, EntriesDiffer, OnlySharedAreOverwritten
  <2>8. \A x \in Browsers : x # b => browser'[x] = browser[x]
    BY <2>1 DEF IInv, Shapes
  <2>9. BrowsersAreEntries'
    BY <1>1, <2>1, <2>8 DEF IInv, BrowsersAreEntries, Lost
  <2>10. TracingIsReal'
    BY <1>1, <2>2, <2>8 DEF IInv, Shapes, TracingIsReal
  <2>11. GoneIsQuiet'
    BY <1>1, <2>3, SessionAssumption DEF IInv, GoneIsQuiet, Elsewhere
  <2>12. QED
    BY <2>3, <2>4, <2>6, <2>7, <2>9, <2>10, <2>11 DEF IInv
<1>5. QED
  BY <1>3, <1>4 DEF LaunchFails

-----------------------------------------------------------------------------
\* Steps that close the sessions of a set.

LEMMA CloseShapes ==
    ASSUME IInv, NEW set \in SUBSET Sessions, Close(set)
    PROVE  /\ active' \in [Sessions -> Browsers \cup {None}]
           /\ browser' \in [Browsers -> {"none", "up", "closing"}]
           /\ tracing' = tracing \ set /\ Live(set) \in SUBSET Browsers
           /\ \A s \in set : active'[s] = None
           /\ \A s \in Sessions \ set : active'[s] = active[s]
           /\ \A b \in Browsers : browser'[b] = "up" => browser[b] = "up" /\ b \notin Live(set)
<1>1. /\ active' = [s \in Sessions |-> IF s \in set THEN None ELSE active[s]]
      /\ tracing' = tracing \ set
      /\ browser' = [b \in Browsers |->
                        IF b \in Live(set) /\ browser[b] = "up" THEN "closing" ELSE browser[b]]
  BY DEF Close, Traced, Ending
<1>2. /\ active \in [Sessions -> Browsers \cup {None}]
      /\ browser \in [Browsers -> {"none", "up", "closing"}]
  BY DEF IInv, Shapes
<1>3. Live(set) \in SUBSET Browsers
  BY <1>2 DEF Live
<1>4. QED
  BY <1>1, <1>2, <1>3

\* What holds after a close whoever made it.
LEMMA CloseKeeps ==
    ASSUME IInv, NEW set \in SUBSET Sessions, Close(set),
           UNCHANGED <<row, expired, recording, history>>,
           req' \in [Requests -> Handlers], \A q \in Requests : req'[q].ses = req[q].ses
    PROVE  /\ Shapes' /\ Alone' /\ EntriesDiffer' /\ BrowsersAreEntries'
           /\ OnlySharedAreOverwritten' /\ GoneIsQuiet' /\ TracingIsReal'
<1>1. /\ active' \in [Sessions -> Browsers \cup {None}]
      /\ browser' \in [Browsers -> {"none", "up", "closing"}]
      /\ tracing' = tracing \ set
      /\ \A s \in set : active'[s] = None
      /\ \A s \in Sessions \ set : active'[s] = active[s]
      /\ \A b \in Browsers : browser'[b] = "up" => browser[b] = "up" /\ b \notin Live(set)
  BY CloseShapes
<1>2. Shapes' /\ Alone'
  BY <1>1 DEF IInv, Shapes, Alone, history, past
<1>3. EntriesDiffer' /\ OnlySharedAreOverwritten'
  BY <1>1 DEF IInv, EntriesDiffer, OnlySharedAreOverwritten, history, past
<1>4. BrowsersAreEntries'
  <2>1. ASSUME NEW b \in Browsers, browser'[b] = "up"
        PROVE  (\E s \in Sessions : active'[s] = b) \/ Lost(b)'
    <3>1. browser[b] = "up" /\ b \notin Live(set)
      BY <1>1, <2>1
    <3>2. CASE Lost(b)
      BY <3>2 DEF Lost, history, past
    <3>3. CASE \E s \in Sessions : active[s] = b
      <4>1. PICK s \in Sessions : active[s] = b
        BY <3>3
      <4>2. s \notin set
        BY <3>1, <4>1, SessionAssumption DEF Live
      <4>3. QED
        BY <1>1, <4>1, <4>2
    <3>4. QED
      BY <3>1, <3>2, <3>3 DEF IInv, BrowsersAreEntries
  <2>2. QED
    BY <2>1 DEF BrowsersAreEntries
<1>5. GoneIsQuiet'
  BY <1>1 DEF IInv, GoneIsQuiet, history, past
<1>6. TracingIsReal'
  BY <1>1, SessionAssumption DEF IInv, Shapes, TracingIsReal, history, past
<1>7. QED
  BY <1>2, <1>3, <1>4, <1>5, <1>6

\* A handler fits in spite of it, unless it uses one of the browsers closed.
LEMMA CloseFits ==
    ASSUME IInv, NEW set \in SUBSET Sessions, Close(set), UNCHANGED <<expired, history>>,
           NEW q \in Requests, req'[q] = req[q],
           req[q].ses \in set \ (expired \cup shared) => NextStep(q) \notin {"use", "trace"}
    PROVE  Fits(q)' /\ HoldsOwn(q)'
<1>1. /\ tracing' = tracing \ set
      /\ \A s \in set : active'[s] = None
      /\ \A s \in Sessions \ set : active'[s] = active[s]
  BY CloseShapes
<1>2. NextStep(q)' = NextStep(q) /\ Fits(q) /\ HoldsOwn(q)
  BY DEF NextStep, IInv, HandlersFit, HeldIsOwn
<1>3. Fits(q)'
  BY <1>1, <1>2 DEF Fits, history, past
<1>4. HoldsOwn(q)'
  BY <1>1, <1>2 DEF HoldsOwn
<1>5. QED
  BY <1>3, <1>4

LEMMA GetKeeps == ASSUME IInv, NEW r \in Requests, Get(r) PROVE IInv'
<1> DEFINE s == req[r].ses  stale == {x \in expired : active[x] # None}
<1>1. At(r, "get", "ready") /\ UNCHANGED <<row, expired, recording, history>>
  BY DEF Get, tableVars
<1>2. /\ req[r].todo # <<>> /\ req \in [Requests -> Handlers] /\ ProgramsFit
      /\ s \in Sessions /\ NextStep(r) = "get" /\ active[s] \in Browsers \cup {None}
  BY <1>1, AtHasProgram DEF IInv, Shapes
<1>3. CASE Found(s)
  <2>1. Return(r, active[s]) /\ UNCHANGED <<active, tracing, browser>>
    BY <1>3 DEF Get
  <2>2. /\ req' \in [Requests -> Handlers] /\ ProgramsFit' /\ Elsewhere(r)
        /\ req'[r].ses \in {s, None} /\ req'[r].phase = "ready"
        /\ req'[r].held \in {active[s], None}
        /\ NextStep(r)' \in {"use", "trace"} => req'[r].held = active[s]
        /\ NextStep(r)' # "remove"
    BY <1>2, <2>1, ReturnFits
  <2>3. active[s] \in Browsers
    BY <1>2, <1>3 DEF Found
  <2>4. Fits(r)'
    BY <2>1, <2>2, <2>3, SessionAssumption DEF Fits
  <2>5. req'[r] = Idle \/ req'[r].ses = s
    BY <2>1 DEF Return, Then
  <2>6. HoldsOwn(r)'
    BY <1>2, <2>1, <2>2, <2>3, <2>5 DEF IInv, EntriesDiffer, HoldsOwn, Idle
  <2>7. QED
    BY <1>1, <2>1, <2>2, <2>4, <2>6, MoveKeeps DEF Kept, processVars, past, history
<1>4. CASE ~Found(s)
  <2>1. Await(r, "expiring", None, Live(stale)) /\ Close(stale)
    BY <1>4 DEF Get
  <2>2. stale \in SUBSET Sessions /\ stale \subseteq expired
    BY DEF IInv, Shapes
  <2> HIDE DEF stale
  <2>3. /\ Live(stale) \in SUBSET Browsers
        /\ \A x \in stale : active'[x] = None
        /\ \A x \in Sessions \ stale : active'[x] = active[x]
    BY <2>1, <2>2, CloseShapes
  <2>4. /\ req' \in [Requests -> Handlers] /\ ProgramsFit' /\ Elsewhere(r)
        /\ req'[r].ses = s /\ req'[r].phase = "expiring" /\ req'[r].held = None
        /\ NextStep(r)' = "get"
    <3>1. None \in Browsers \cup {None}
      OBVIOUS
    <3>2. QED
      BY <1>2, <2>1, <2>3, <3>1, AwaitFits
  <2>5. Fits(r)' /\ HoldsOwn(r)'
    BY <1>2, <1>4, <2>3, <2>4 DEF Fits, HoldsOwn, Found
  <2>6. ASSUME NEW q \in Requests, q # r PROVE Fits(q)' /\ HoldsOwn(q)'
    BY <1>1, <2>1, <2>2, <2>4, <2>6, CloseFits DEF Elsewhere
  <2>7. HandlersFit' /\ HeldIsOwn'
    BY <2>5, <2>6 DEF HandlersFit, HeldIsOwn
  <2>8. \A q \in Requests : req'[q].ses = req[q].ses
    BY <2>4 DEF Elsewhere
  <2>9. /\ Shapes' /\ Alone' /\ EntriesDiffer' /\ BrowsersAreEntries'
        /\ OnlySharedAreOverwritten' /\ GoneIsQuiet' /\ TracingIsReal'
    BY <1>1, <2>1, <2>2, <2>4, <2>8, CloseKeeps
  <2>10. QED
    BY <2>4, <2>7, <2>9 DEF IInv
<1>5. QED
  BY <1>3, <1>4

LEMMA CloseBeginsKeeps == ASSUME IInv, NEW r \in Requests, CloseBegins(r) PROVE IInv'
<1> DEFINE s == req[r].ses
<1>1. /\ At(r, "close", "ready") /\ UNCHANGED <<row, expired, recording, history>>
      /\ Close({s}) /\ Await(r, "closing", None, Live({s}))
  BY DEF CloseBegins, tableVars
<1>2. /\ req[r].todo # <<>> /\ req \in [Requests -> Handlers] /\ ProgramsFit
      /\ s \in Sessions /\ NextStep(r) = "close" /\ {s} \in SUBSET Sessions
  BY <1>1, AtHasProgram
<1>3. Live({s}) \in SUBSET Browsers /\ active'[s] = None /\ tracing' = tracing \ {s}
  BY <1>1, <1>2, CloseShapes
<1>4. /\ req' \in [Requests -> Handlers] /\ ProgramsFit' /\ Elsewhere(r)
      /\ req'[r].ses = s /\ req'[r].phase = "closing" /\ req'[r].held = None
      /\ NextStep(r)' = "close"
  <2>1. None \in Browsers \cup {None}
    OBVIOUS
  <2>2. QED
    BY <1>1, <1>2, <1>3, <2>1, AwaitFits
<1>5. Fits(r)' /\ HoldsOwn(r)'
  BY <1>3, <1>4 DEF Fits, HoldsOwn
<1>6. ASSUME NEW q \in Requests, q # r PROVE Fits(q)' /\ HoldsOwn(q)'
  <2>1. req[q].ses \notin {s} \ (expired \cup shared)
    BY <1>2, <1>6 DEF IInv, Alone
  <2>2. req'[q] = req[q]
    BY <1>4, <1>6 DEF Elsewhere
  <2>3. QED
    BY <1>1, <1>2, <2>1, <2>2, CloseFits
<1>7. HandlersFit' /\ HeldIsOwn'
  BY <1>5, <1>6 DEF HandlersFit, HeldIsOwn
<1>8. \A q \in Requests : req'[q].ses = req[q].ses
  BY <1>4 DEF Elsewhere
<1>9. /\ Shapes' /\ Alone' /\ EntriesDiffer' /\ BrowsersAreEntries'
      /\ OnlySharedAreOverwritten' /\ GoneIsQuiet' /\ TracingIsReal'
  BY <1>1, <1>2, <1>4, <1>8, CloseKeeps
<1>10. QED
  BY <1>4, <1>7, <1>9 DEF IInv

\* A close that no handler makes.
LEMMA TimedCloseKeeps ==
    ASSUME IInv, NEW set \in SUBSET Sessions, Close(set),
           UNCHANGED <<row, expired, recording, req, history>>,
           set \subseteq expired \/ \A q \in Requests : req[q] = Idle
    PROVE  IInv'
<1>1. /\ Shapes' /\ Alone' /\ EntriesDiffer' /\ BrowsersAreEntries'
      /\ OnlySharedAreOverwritten' /\ GoneIsQuiet' /\ TracingIsReal'
  BY CloseKeeps DEF IInv, Shapes
<1>2. \A q \in Requests :
         req[q].ses \in set \ (expired \cup shared) => NextStep(q) \notin {"use", "trace"}
  BY SessionAssumption DEF Idle
<1>3. HandlersFit' /\ HeldIsOwn'
  BY <1>2, CloseFits DEF HandlersFit, HeldIsOwn
<1>4. ProgramsFit'
  BY DEF IInv, ProgramsFit
<1>5. QED
  BY <1>1, <1>3, <1>4 DEF IInv

LEMMA TimerFiresKeeps == ASSUME IInv, NEW s \in Sessions, TimerFires(s) PROVE IInv'
  BY TimedCloseKeeps DEF TimerFires, tableVars

LEMMA CloseAllKeeps == ASSUME IInv, CloseAll PROVE IInv'
  BY TimedCloseKeeps DEF CloseAll, tableVars

-----------------------------------------------------------------------------
\* Browsers that end, time, handoffs.

LEMMA GoneKeeps == ASSUME IInv, NEW b \in Browsers, Gone(b) PROVE IInv'
<1>1. /\ browser' = [browser EXCEPT ![b] = "none"]
      /\ recording' = recording \ {b} /\ leaked' = leaked \ {b}
      /\ overwritten' = {o \in overwritten : o[1] # b}
      /\ UNCHANGED <<row, expired, active, tracing, req, shared>>
  BY DEF Gone, tableVars, managerVars
<1>2. \A x \in Browsers : browser'[x] = "up" => x # b /\ browser[x] = "up"
  BY <1>1 DEF IInv, Shapes
<1>3. Shapes' /\ ProgramsFit' /\ Alone'
  BY <1>1 DEF IInv, Shapes, ProgramsFit, Alone
<1>4. HandlersFit' /\ HeldIsOwn'
  BY <1>1 DEF IInv, HandlersFit, Fits, HeldIsOwn, HoldsOwn, NextStep
<1>5. EntriesDiffer' /\ OnlySharedAreOverwritten' /\ GoneIsQuiet'
  BY <1>1 DEF IInv, EntriesDiffer, OnlySharedAreOverwritten, GoneIsQuiet
<1>6. BrowsersAreEntries'
  <2>1. ASSUME NEW x \in Browsers, x # b, Lost(x) PROVE Lost(x)'
    <3>1. CASE x \in leaked
      BY <1>1, <2>1, <3>1 DEF Lost
    <3>2. CASE \E s \in Sessions : <<x, s>> \in overwritten
      BY <1>1, <2>1, <3>2 DEF Lost
    <3>3. QED
      BY <2>1, <3>1, <3>2 DEF Lost
  <2>2. QED
    BY <1>1, <1>2, <2>1 DEF IInv, BrowsersAreEntries
<1>7. TracingIsReal'
  <2>1. ASSUME NEW s \in tracing \ (shared \cup expired)
        PROVE  active[s] # None /\ (browser'[active[s]] = "up" => active[s] \in recording \ {b})
    <3>1. active[s] # None /\ (browser[active[s]] = "up" => active[s] \in recording)
          /\ active[s] \in Browsers
      BY DEF IInv, TracingIsReal, Shapes
    <3>2. QED
      BY <1>2, <3>1
  <2>2. QED
    BY <1>1, <2>1 DEF TracingIsReal
<1>8. QED
  BY <1>3, <1>4, <1>5, <1>6, <1>7 DEF IInv

LEMMA ExpireKeeps == ASSUME IInv, NEW s \in Sessions, Expire(s) PROVE IInv'
<1>1. /\ expired' = expired \cup {s}
      /\ UNCHANGED <<row, active, tracing, processVars, req, history>>
  BY DEF Expire, managerVars
<1>2. Shapes' /\ ProgramsFit' /\ Alone'
  BY <1>1 DEF IInv, Shapes, ProgramsFit, Alone, processVars, history, past
<1>3. HandlersFit' /\ HeldIsOwn'
  BY <1>1 DEF IInv, HandlersFit, Fits, HeldIsOwn, HoldsOwn, NextStep, history, past
<1>4. /\ EntriesDiffer' /\ BrowsersAreEntries' /\ OnlySharedAreOverwritten' /\ GoneIsQuiet'
      /\ TracingIsReal'
  BY <1>1 DEF IInv, EntriesDiffer, BrowsersAreEntries, Lost, OnlySharedAreOverwritten, GoneIsQuiet,
              TracingIsReal, processVars, history, past
<1>5. QED
  BY <1>2, <1>3, <1>4 DEF IInv

\* Nothing the invariant speaks of changes.
LEMMA SameKeeps ==
    ASSUME IInv, UNCHANGED <<row, expired, active, tracing, processVars, req, history>>
    PROVE  IInv'
<1>1. Shapes' /\ ProgramsFit' /\ Alone'
  BY DEF IInv, Shapes, ProgramsFit, Alone, processVars, history, past
<1>2. HandlersFit' /\ HeldIsOwn' /\ GoneIsQuiet'
  BY DEF IInv, HandlersFit, Fits, HeldIsOwn, HoldsOwn, NextStep, GoneIsQuiet, history, past
<1>3. QED
  BY <1>1, <1>2, KeptKeeps DEF IInv, past, history

-----------------------------------------------------------------------------
\* Handlers that begin.

LEMMA BeginKeeps ==
    ASSUME IInv, NEW r \in Requests, NEW s \in Sessions, NEW program, NEW rescue,
           Whole(program), Whole(rescue), Begin(r, s, program, rescue),
           row' \in [Sessions -> {"unused", "live", "gone"}], row'[s] = "live",
           \A t \in Sessions : t # s => row'[t] = row[t]
    PROVE  IInv'
<1>1. /\ req[r].todo = <<>>
      /\ req' = [req EXCEPT ![r] = IF program = <<>> THEN Idle
                     ELSE [Idle EXCEPT !.ses = s, !.todo = program, !.rescue = rescue]]
      /\ shared' = IF \E q \in Requests : req[q].ses = s THEN shared \cup {s} ELSE shared
      /\ UNCHANGED <<expired, active, tracing, browser, recording, overwritten, leaked>>
  BY DEF Begin, managerVars, processVars
<1>2. /\ req \in [Requests -> Handlers] /\ Idle \in Handlers
      /\ Idle.todo = <<>> /\ Idle.rescue = <<>> /\ Idle.ses = None /\ Idle.phase = "ready"
      /\ Idle.held = None /\ Idle.waits = {}
  BY IdleIsHandler DEF IInv, Shapes, Idle
<1>3. /\ req'[r] \in Handlers /\ Proper(req'[r].todo) /\ Whole(req'[r].rescue)
      /\ req'[r].ses \in {s, None} /\ req'[r].phase = "ready" /\ req'[r].held = None
      /\ IF req'[r].todo = <<>> THEN req'[r] = Idle ELSE req'[r].ses = s
      /\ NextStep(r)' \notin {"use", "trace", "remove"}
  <2>1. CASE program = <<>>
    <3>1. req'[r] = Idle
      BY <1>1, <1>2, <2>1
    <3>2. QED
      BY <1>2, <3>1, LiteralsWhole DEF NextStep, Whole
  <2>2. CASE program # <<>>
    <3>1. req'[r] = [Idle EXCEPT !.ses = s, !.todo = program, !.rescue = rescue]
      BY <1>1, <1>2, <2>2
    <3>2. req'[r] = [ses |-> s, todo |-> program, rescue |-> rescue, phase |-> "ready",
                     held |-> None, waits |-> {}]
      BY <3>1 DEF Idle
    <3>3. program \in Programs /\ rescue \in Programs /\ Proper(program)
      BY DEF Whole, Proper, Programs
    <3>4. req'[r] \in Handlers
      BY <3>2, <3>3 DEF Handlers
    <3>5. program[1] \notin {"use", "trace", "remove"} /\ Head(program) = program[1]
      BY <2>2, <3>3 DEF Whole, Programs
    <3>6. NextStep(r)' = program[1]
      BY <2>2, <3>2, <3>5 DEF NextStep
    <3>7. QED
      BY <2>2, <3>2, <3>3, <3>4, <3>5, <3>6
  <2>3. QED
    BY <2>1, <2>2
<1>4. Elsewhere(r) /\ req' = [req EXCEPT ![r] = req'[r]]
  BY <1>1, <1>2 DEF Elsewhere
<1>5. req' \in [Requests -> Handlers]
  BY <1>2, <1>3, <1>4
<1>6. shared \subseteq shared' /\ shared' \subseteq Sessions
      /\ (s \notin shared' => \A q \in Requests : req[q].ses # s)
  BY <1>1 DEF IInv, Shapes
<1>7. Shapes'
  BY <1>1, <1>5, <1>6 DEF IInv, Shapes
<1>8. ProgramsFit'
  BY <1>3, <1>4 DEF IInv, ProgramsFit, Elsewhere
<1>9. Alone'
  BY <1>3, <1>4, <1>6, SessionAssumption DEF IInv, Alone, Elsewhere
<1>10. ASSUME NEW q \in Requests PROVE Fits(q)' /\ HoldsOwn(q)'
  <2>1. CASE q = r
    BY <1>3, <2>1 DEF Fits, HoldsOwn
  <2>2. CASE q # r
    <3>1. req'[q] = req[q] /\ NextStep(q)' = NextStep(q) /\ Fits(q) /\ HoldsOwn(q)
      BY <1>4, <2>2 DEF Elsewhere, NextStep, IInv, HandlersFit, HeldIsOwn
    <3>2. UNCHANGED <<expired, active, tracing>>
      BY <1>1
    <3>3. Fits(q)'
      BY <1>6, <3>1, <3>2 DEF Fits
    <3>4. HoldsOwn(q)'
      BY <3>1, <3>2 DEF HoldsOwn
    <3>5. QED
      BY <3>3, <3>4
  <2>3. QED
    BY <2>1, <2>2
<1>11. HandlersFit' /\ HeldIsOwn'
  BY <1>10 DEF HandlersFit, HeldIsOwn
<1>12. EntriesDiffer' /\ BrowsersAreEntries'
  BY <1>1 DEF IInv, EntriesDiffer, BrowsersAreEntries, Lost
<1>13. OnlySharedAreOverwritten' /\ TracingIsReal'
  BY <1>1, <1>6 DEF IInv, OnlySharedAreOverwritten, TracingIsReal
<1>14. GoneIsQuiet'
  <2>1. ASSUME NEW t \in Sessions \ shared', row'[t] = "gone"
        PROVE  t # s /\ t \notin shared /\ row[t] = "gone"
    BY <1>6, <2>1
  <2>2. QED
    BY <1>1, <1>3, <1>4, <2>1, SessionAssumption DEF IInv, GoneIsQuiet, Elsewhere
<1>15. QED
  BY <1>7, <1>8, <1>9, <1>11, <1>12, <1>13, <1>14 DEF IInv

LEMMA CreateKeeps ==
    ASSUME IInv, NEW r \in Requests, NEW s \in Sessions, Create(r, s)
    PROVE  IInv'
<1>1. /\ row' \in [Sessions -> {"unused", "live", "gone"}] /\ row'[s] = "live"
      /\ \A t \in Sessions : t # s => row'[t] = row[t]
  BY DEF Create, IInv, Shapes
<1>2. PICK program, rescue :
         Begin(r, s, program, rescue) /\ Whole(program) /\ Whole(rescue)
  <2>1. Whole(CleanUp) /\ Whole(<<>>)
    BY LiteralsWhole DEF CleanUp
  <2>2. CASE \E recordTrace, startUrl \in BOOLEAN : Begin(r, s, Open(recordTrace, startUrl), CleanUp)
    BY <2>1, <2>2, OpenWhole
  <2>3. CASE Begin(r, s, AgentTool, <<>>)
    <3>1. Whole(AgentTool)
      BY MenuWhole DEF OnSession
    <3>2. QED
      BY <2>1, <2>3, <3>1
  <2>4. CASE \E first, second \in Fields : Begin(r, s, BqlAttempt(first, second), CleanUp)
    BY <2>1, <2>4, BqlWhole
  <2>5. QED
    BY <2>2, <2>3, <2>4 DEF Create
<1>3. QED
  BY <1>1, <1>2, BeginKeeps

LEMMA EnterKeeps ==
    ASSUME IInv, NEW r \in Requests, NEW s \in Sessions, Enter(r, s)
    PROVE  IInv'
<1>1. row' = row /\ row[s] = "live"
  BY DEF Enter, Exists
<1>2. PICK program \in Menu[s] : Begin(r, s, program, <<>>)
  BY DEF Enter
<1>3. Whole(program) /\ Whole(<<>>)
  <2>1. program \in OnSession
    BY MenuAssumption
  <2>2. QED
    BY <2>1, MenuWhole, LiteralsWhole
<1>4. row' \in [Sessions -> {"unused", "live", "gone"}]
  BY <1>1 DEF IInv, Shapes
<1>5. QED
  BY <1>1, <1>2, <1>3, <1>4, BeginKeeps

-----------------------------------------------------------------------------
\* Theorems

LEMMA InitIInv == Init => IInv
<1> SUFFICES ASSUME Init PROVE IInv
  OBVIOUS
<1>1. /\ Idle.todo = <<>> /\ Idle.rescue = <<>> /\ Idle.ses = None /\ Idle.phase = "ready"
      /\ Idle.held = None
  BY DEF Idle
<1>2. \A r \in Requests : req[r] = Idle
  BY DEF Init
<1>3. \A r \in Requests : NextStep(r) = "none"
  BY <1>1, <1>2 DEF NextStep
<1>4. Shapes
  BY IdleIsHandler DEF Init, Shapes
<1>5. ProgramsFit
  BY <1>1, <1>2, LiteralsWhole DEF ProgramsFit, Whole
<1>6. Alone /\ GoneIsQuiet
  BY <1>1, <1>2, SessionAssumption DEF Init, Alone, GoneIsQuiet
<1>7. HandlersFit /\ HeldIsOwn
  BY <1>1, <1>2, <1>3 DEF HandlersFit, Fits, HeldIsOwn, HoldsOwn
<1>8. EntriesDiffer /\ BrowsersAreEntries /\ OnlySharedAreOverwritten /\ TracingIsReal
  BY DEF Init, EntriesDiffer, BrowsersAreEntries, OnlySharedAreOverwritten, TracingIsReal
<1>9. QED
  BY <1>4, <1>5, <1>6, <1>7, <1>8 DEF IInv

LEMMA StepKeeps == ASSUME IInv, NEW r \in Requests, Step(r) PROVE IInv'
  BY GetKeeps, AdmittedKeeps, LaunchedKeeps, LaunchFailsKeeps, UseKeeps, SaveKeeps, TraceKeeps,
     TraceStartedKeeps, StopKeeps, StoppedKeeps, CloseBeginsKeeps, CloseEndsKeeps, RemoveKeeps
     DEF Step

LEMMA NextKeeps == IInv /\ [Next]_vars => IInv'
<1> SUFFICES ASSUME IInv, [Next]_vars PROVE IInv'
  OBVIOUS
<1>1. CASE \E r \in Requests : Step(r)
  BY <1>1, StepKeeps
<1>2. CASE \E r \in Requests, s \in Sessions : Create(r, s) \/ Enter(r, s)
  BY <1>2, CreateKeeps, EnterKeeps
<1>3. CASE \E g \in Grants, s \in Sessions : Offer(g, s)
  BY <1>3, SameKeeps DEF Offer, managerVars
<1>4. CASE \E g \in Grants : Redeem(g)
  BY <1>4, SameKeeps DEF Redeem, managerVars
<1>5. CASE \E s \in Sessions : Expire(s) \/ TimerFires(s)
  BY <1>5, ExpireKeeps, TimerFiresKeeps
<1>6. CASE \E b \in Browsers : BrowserEnds(b) \/ Crash(b)
  BY <1>6, GoneKeeps DEF BrowserEnds, Crash
<1>7. CASE CloseAll
  BY <1>7, CloseAllKeeps
<1>8. CASE UNCHANGED vars
  BY <1>8, SameKeeps DEF vars, tableVars, managerVars
<1>9. QED
  BY <1>1, <1>2, <1>3, <1>4, <1>5, <1>6, <1>7, <1>8 DEF Next

\* However get(), close(), timers, traces, crashes and deletions interleave in
\* sessions.ts, the manager forgets no running browser except in the two ways
\* named, replaces an entry only where two handlers used the session at a time,
\* keeps nothing of a deleted session and takes no session for traced that is
\* not.
THEOREM ManagerSound == Spec => []ManagerIsSound
<1>1. IInv => ManagerIsSound
  BY DEF IInv, ManagerIsSound, GoneIsQuiet, DeletedIsClosed
<1>2. QED
  BY <1>1, InitIInv, NextKeeps, PTL DEF Spec

\* The variables the invariant leaves out.
Rest ==
    /\ viewers \subseteq Sessions /\ timer \subseteq Sessions
    /\ stray \in [Sessions -> Nat] /\ stopped \in BOOLEAN /\ rivals \subseteq Sessions

GrantRecords ==
    [ses : Sessions \cup {None}, late : BOOLEAN,
     state : {"none", "open", "moved", "wasted", "revoked"}]

\* An open grant is one to a session that is still stored: deletion revokes it.
GrantsFit ==
    /\ grant \in [Grants -> GrantRecords]
    /\ \A g \in Grants : /\ grant[g].state = "open" =>
                                grant[g].ses \in Sessions /\ row[grant[g].ses] = "live"
                         /\ grant[g].state = "wasted" => grant[g].late

LEMMA InitRest == Init => Rest /\ GrantsFit
<1> SUFFICES ASSUME Init PROVE Rest /\ GrantsFit
  OBVIOUS
<1>1. Rest
  BY DEF Init, Rest
<1>2. [ses |-> None, state |-> "none", late |-> FALSE] \in GrantRecords
  BY DEF GrantRecords
<1>3. GrantsFit
  BY <1>2 DEF Init, GrantsFit
<1>4. QED
  BY <1>1, <1>3

LEMMA StepRest == ASSUME IInv, Rest, NEW r \in Requests, Step(r) PROVE Rest'
<1>1. CASE Get(r)
  <2>1. UNCHANGED <<viewers, stray, stopped, rivals>>
    BY <1>1 DEF Get, tableVars, history
  <2>2. timer' \subseteq timer
    BY <1>1 DEF Get, Close
  <2>3. QED
    BY <2>1, <2>2 DEF Rest
<1>2. CASE Launched(r)
  <2>1. UNCHANGED <<viewers, stopped, rivals>> /\ At(r, "get", "launching") /\ Arm(req[r].ses)
    BY <1>2 DEF Launched, tableVars
  <2>2. req[r].ses \in Sessions
    BY <2>1, AtHasProgram
  <2>3. QED
    BY <2>1, <2>2 DEF Rest, Arm
<1>3. CASE CloseBegins(r)
  <2>1. UNCHANGED <<viewers, stray, stopped, rivals>> /\ timer' \subseteq timer
    BY <1>3 DEF CloseBegins, tableVars, history, Close
  <2>2. QED
    BY <2>1 DEF Rest
<1>4. CASE \/ LaunchFails(r) \/ Use(r) \/ Save(r) \/ Trace(r) \/ TraceStarted(r)
           \/ Stop(r) \/ Stopped(r) \/ CloseEnds(r) \/ Remove(r)
  <2>1. UNCHANGED <<viewers, timer, stray, stopped, rivals>>
    BY <1>4 DEF LaunchFails, Use, Save, Trace, TraceStarted, Stop, Stopped, CloseEnds,
                Remove, tableVars, managerVars, history
  <2>2. QED
    BY <2>1 DEF Rest
<1>5. CASE Admitted(r)
  <2>1. UNCHANGED <<viewers, timer, stray, stopped>>
    BY <1>5 DEF Admitted, tableVars, managerVars
  <2>2. rivals' \subseteq rivals \cup viewers
    BY <1>5 DEF Admitted, Rivals, Launching
  <2>3. QED
    BY <2>1, <2>2 DEF Rest
<1>6. QED
  BY <1>1, <1>2, <1>3, <1>4, <1>5 DEF Step

LEMMA NextRest == IInv /\ Rest /\ [Next]_vars => Rest'
<1> SUFFICES ASSUME IInv, Rest, [Next]_vars PROVE Rest'
  OBVIOUS
<1>1. CASE \E r \in Requests : Step(r)
  BY <1>1, StepRest
<1>2. CASE \E r \in Requests, s \in Sessions : Create(r, s) \/ Enter(r, s)
  <2>1. PICK r \in Requests, s \in Sessions : Create(r, s) \/ Enter(r, s)
    BY <1>2
  <2>2. \E program, rescue : Begin(r, s, program, rescue)
    BY <2>1 DEF Create, Enter
  <2>3. UNCHANGED <<timer, stray, stopped, rivals>>
    BY <2>2 DEF Begin, managerVars
  <2>4. viewers' = viewers \/ \E viewer \in SUBSET {s} : viewers' = viewers \cup viewer
    BY <2>1 DEF Create, Enter
  <2>5. viewers' \subseteq Sessions
    BY <2>4 DEF Rest
  <2>6. QED
    BY <2>3, <2>5 DEF Rest
<1>3. CASE \E s \in Sessions : TimerFires(s)
  <2>1. PICK s \in Sessions : TimerFires(s)
    BY <1>3
  <2>2. UNCHANGED <<viewers, stopped, rivals>> /\ timer' \subseteq timer /\ Firing(s)
    BY <2>1 DEF TimerFires, tableVars, history, Close
  <2>3. stray' \in [Sessions -> Nat]
    BY <2>2 DEF Firing, Rest
  <2>4. QED
    BY <2>2, <2>3 DEF Rest
<1>4. CASE CloseAll
  <2>1. UNCHANGED <<viewers, stray, rivals>> /\ timer' \subseteq timer /\ stopped' = TRUE
    BY <1>4 DEF CloseAll, tableVars, history, Close
  <2>2. QED
    BY <2>1 DEF Rest
<1>5. CASE \/ \E g \in Grants, s \in Sessions : Offer(g, s)
           \/ \E g \in Grants : Redeem(g)
           \/ \E s \in Sessions : Expire(s)
           \/ \E b \in Browsers : BrowserEnds(b) \/ Crash(b)
           \/ UNCHANGED vars
  <2>1. UNCHANGED <<viewers, timer, stray, stopped, rivals>>
    BY <1>5 DEF Offer, Redeem, Expire, BrowserEnds, Crash, Gone, vars, tableVars, managerVars, history
  <2>2. QED
    BY <2>1 DEF Rest
<1>6. QED
  BY <1>1, <1>2, <1>3, <1>4, <1>5 DEF Next

LEMMA RemoveGrants == ASSUME IInv, GrantsFit, NEW r \in Requests, Remove(r) PROVE GrantsFit'
<1> DEFINE s == req[r].ses
<1>1. grant' = Revoked(s) /\ row' = [row EXCEPT ![s] = "gone"]
  BY DEF Remove
<1>2. row \in [Sessions -> {"unused", "live", "gone"}]
  BY DEF IInv, Shapes
<1> HIDE DEF s
<1>3. ASSUME NEW g \in Grants
      PROVE  /\ grant'[g] \in GrantRecords
             /\ grant'[g].state = "open" =>
                    grant'[g].ses \in Sessions /\ row'[grant'[g].ses] = "live"
             /\ grant'[g].state = "wasted" => grant'[g].late
  <2>1. /\ grant[g] \in GrantRecords
        /\ grant[g].state = "open" => grant[g].ses \in Sessions /\ row[grant[g].ses] = "live"
        /\ grant[g].state = "wasted" => grant[g].late
    BY DEF GrantsFit
  <2>2. CASE grant[g].ses = s /\ grant[g].state = "open"
    <3>1. grant'[g] = [grant[g] EXCEPT !.state = "revoked"]
      BY <1>1, <2>2 DEF Revoked
    <3>2. QED
      BY <2>1, <3>1 DEF GrantRecords
  <2>3. CASE ~(grant[g].ses = s /\ grant[g].state = "open")
    <3>1. grant'[g] = grant[g]
      BY <1>1, <2>3 DEF Revoked
    <3>2. grant[g].state = "open" => row'[grant[g].ses] = row[grant[g].ses]
      BY <1>1, <1>2, <2>1, <2>3
    <3>3. QED
      BY <2>1, <3>1, <3>2
  <2>4. QED
    BY <2>2, <2>3
<1>4. grant' \in [Grants -> GrantRecords]
  BY <1>1, <1>3 DEF Revoked
<1>5. QED
  BY <1>3, <1>4 DEF GrantsFit

LEMMA OfferGrants ==
    ASSUME GrantsFit, NEW g \in Grants, NEW s \in Sessions, Offer(g, s)
    PROVE  GrantsFit'
<1>1. PICK late \in BOOLEAN :
         grant' = [grant EXCEPT ![g] = [ses |-> s, state |-> "open", late |-> late]]
  BY DEF Offer
<1>2. row' = row /\ row[s] = "live"
  BY DEF Offer, Exists
<1>3. [ses |-> s, state |-> "open", late |-> late] \in GrantRecords
  BY DEF GrantRecords
<1>4. QED
  BY <1>1, <1>2, <1>3 DEF GrantsFit

LEMMA RedeemGrants == ASSUME GrantsFit, NEW g \in Grants, Redeem(g) PROVE GrantsFit'
<1> DEFINE end == IF Exists(grant[g].ses) THEN "moved" ELSE "wasted"
<1>1. /\ row' = row /\ Valid(g) /\ grant' = [grant EXCEPT ![g].state = end]
  BY DEF Redeem
<1>2. /\ grant[g] \in GrantRecords /\ grant[g].state = "open"
      /\ row[grant[g].ses] = "live"
  BY <1>1 DEF GrantsFit, Valid
<1>3. end = "wasted" => grant[g].late
  BY <1>1, <1>2 DEF Valid, Exists
<1>4. end \in {"moved", "wasted"}
  OBVIOUS
<1> HIDE DEF end
<1>5. /\ grant'[g] \in GrantRecords /\ grant'[g].state = end /\ grant'[g].late = grant[g].late
  BY <1>1, <1>2, <1>4 DEF GrantsFit, GrantRecords
<1>6. \A h \in Grants \ {g} : grant'[h] = grant[h]
  BY <1>1 DEF GrantsFit
<1>7. grant' \in [Grants -> GrantRecords]
  BY <1>1, <1>5, <1>6 DEF GrantsFit
<1>8. QED
  BY <1>1, <1>3, <1>4, <1>5, <1>6, <1>7 DEF GrantsFit

LEMMA NextGrants == IInv /\ GrantsFit /\ [Next]_vars => GrantsFit'
<1> SUFFICES ASSUME IInv, GrantsFit, [Next]_vars PROVE GrantsFit'
  OBVIOUS
<1>1. CASE \E r \in Requests : Remove(r)
  BY <1>1, RemoveGrants
<1>2. CASE \E g \in Grants, s \in Sessions : Offer(g, s)
  BY <1>2, OfferGrants
<1>3. CASE \E g \in Grants : Redeem(g)
  BY <1>3, RedeemGrants
<1>4. CASE \E r \in Requests, s \in Sessions : Create(r, s) \/ Enter(r, s)
  <2>1. grant' = grant /\ \A t \in Sessions : row[t] = "live" => row'[t] = "live"
    BY <1>4 DEF Create, Enter, Begin, IInv, Shapes
  <2>2. QED
    BY <2>1 DEF GrantsFit
<1>5. CASE \/ \E r \in Requests :
                 \/ Get(r) \/ Admitted(r) \/ Launched(r) \/ LaunchFails(r)
                 \/ Use(r) \/ Save(r) \/ Trace(r) \/ TraceStarted(r) \/ Stop(r) \/ Stopped(r)
                 \/ CloseBegins(r) \/ CloseEnds(r)
           \/ \E s \in Sessions : Expire(s) \/ TimerFires(s)
           \/ \E b \in Browsers : BrowserEnds(b) \/ Crash(b)
           \/ CloseAll \/ UNCHANGED vars
  <2>1. grant' = grant /\ row' = row
    BY <1>5 DEF Get, Admitted, Launched, LaunchFails, Use, Save, Trace, TraceStarted, Stop, Stopped,
                CloseBegins, CloseEnds, Expire, TimerFires, BrowserEnds, Crash, Gone, CloseAll,
                vars, tableVars
  <2>2. QED
    BY <2>1 DEF GrantsFit
<1>6. QED
  BY <1>1, <1>2, <1>3, <1>4, <1>5 DEF Next, Step

LEMMA SpecInvariants == Spec => [](IInv /\ Rest /\ GrantsFit)
  BY InitIInv, InitRest, NextKeeps, NextRest, NextGrants, PTL DEF Spec

\* The variables of the manager, its tables and its handlers keep their types.
THEOREM SessionTypeCorrect == Spec => []TypeOK
<1>1. IInv /\ Rest /\ GrantsFit => TypeOK
  BY DEF IInv, Shapes, Handlers, Rest, GrantsFit, GrantRecords, TypeOK
<1>2. QED
  BY <1>1, SpecInvariants, PTL

\* The grant of a handoff that redeem() marks in storage/handoffs.ts moves its
\* session, unless it was made in the session's last second: deleteSession()
\* revokes it first, and it expires no later than the session.
THEOREM GrantsMove == Spec => []SpentGrantsMove
<1>1. GrantsFit => SpentGrantsMove
  BY DEF GrantsFit, SpentGrantsMove
<1>2. QED
  BY <1>1, SpecInvariants, PTL

-----------------------------------------------------------------------------
\* The one-viewer rule

\* A handler is between that rule and the entry of its session.
Launches(r, s) == At(r, "get", "launching") /\ req[r].ses = s

\* What has passed the rule by now, and what an entry came of, is of one session
\* or of rivals.
ViewersFit ==
    /\ OneViewer
    /\ \A r \in Requests, s, t \in viewers :
           Launches(r, s) /\ active[t] # None => s = t \/ {s, t} \subseteq rivals
    /\ \A q, r \in Requests, s, t \in viewers :
           Launches(q, s) /\ Launches(r, t) => s = t \/ {s, t} \subseteq rivals

\* A session that has not been created has neither handler nor browser.
UnusedIsQuiet ==
    \A s \in Sessions : row[s] = "unused" =>
        active[s] = None /\ \A r \in Requests : req[r].ses # s

\* A handler goes on, or ends, without coming to a launch.
GoesOn(r) ==
    /\ Elsewhere(r) /\ req'[r].ses \in {req[r].ses, None}
    /\ req'[r].phase # "launching"

LEMMA MovedOn ==
    ASSUME IInv, NEW r \in Requests, (\E b : Return(r, b)) \/ Throw(r)
    PROVE  GoesOn(r)
<1>1. req \in [Requests -> Handlers] /\ req[r] \in Handlers
  BY DEF IInv, Shapes
<1>2. ASSUME NEW q \in Handlers, NEW program, NEW b
      PROVE  Then(q, program, b).ses \in {q.ses, None} /\ Then(q, program, b).phase = "ready"
  BY DEF Then, Idle, Handlers
<1>3. ASSUME NEW b, Return(r, b) PROVE GoesOn(r)
  BY <1>1, <1>2, <1>3 DEF Return, GoesOn, Elsewhere
<1>4. ASSUME Throw(r) PROVE GoesOn(r)
  <2> DEFINE q == [req[r] EXCEPT !.rescue = <<>>]
  <2>1. q \in Handlers /\ q.ses = req[r].ses
    <3>1. <<>> \in Programs
      BY DEF Programs
    <3>2. QED
      BY <1>1, <3>1 DEF Handlers
  <2>2. req' = [req EXCEPT ![r] = Then(q, req[r].rescue, None)]
    BY <1>1, <1>4 DEF Throw
  <2> HIDE DEF q
  <2>3. QED
    BY <1>1, <1>2, <2>1, <2>2 DEF GoesOn, Elsewhere
<1>5. QED
  BY <1>3, <1>4

LEMMA WaitedOn ==
    ASSUME IInv, NEW r \in Requests, NEW phase, NEW b, NEW waits, Await(r, phase, b, waits)
    PROVE  Elsewhere(r) /\ req'[r].ses = req[r].ses /\ req'[r].phase = phase
<1>1. req \in [Requests -> Handlers] /\ req[r] \in Handlers
  BY DEF IInv, Shapes
<1>2. QED
  BY <1>1 DEF Await, Elsewhere, Handlers

\* Who launches after a step of a handler that does not come to a launch, and
\* who does after it came to one.
LEMMA LaunchesStay ==
    ASSUME \A r \in Requests : req'[r] = req[r] \/ GoesOn(r)
    PROVE  \A r \in Requests : \A s : Launches(r, s)' => Launches(r, s) /\ ~GoesOn(r)
<1>1. ASSUME NEW r \in Requests, NEW s, Launches(r, s)' PROVE Launches(r, s) /\ ~GoesOn(r)
  <2>1. req'[r].phase = "launching"
    BY <1>1 DEF Launches, At
  <2>2. ~GoesOn(r)
    BY <2>1 DEF GoesOn
  <2>3. req'[r] = req[r]
    BY <2>2
  <2>4. QED
    BY <1>1, <2>2, <2>3 DEF Launches, At
<1>2. QED
  BY <1>1

\* The entries of the manager only go, and no handler comes to a launch.
LEMMA ViewersStay ==
    ASSUME ViewersFit, UNCHANGED <<viewers, rivals>>, viewers \subseteq Sessions,
           \A s \in Sessions : active'[s] \in {active[s], None},
           \A r \in Requests : req'[r] = req[r] \/ GoesOn(r)
    PROVE  ViewersFit'
<1>1. OneViewer'
  BY DEF ViewersFit, OneViewer
<1>2. \A r \in Requests : \A s : Launches(r, s)' => Launches(r, s)
  BY LaunchesStay
<1>3. \A s \in viewers : active'[s] # None => active[s] # None
  OBVIOUS
<1>4. ASSUME NEW r \in Requests, NEW s \in viewers', NEW t \in viewers',
             Launches(r, s)', active'[t] # None
      PROVE  s = t \/ {s, t} \subseteq rivals'
  BY <1>2, <1>3, <1>4 DEF ViewersFit
<1>5. ASSUME NEW q \in Requests, NEW r \in Requests, NEW s \in viewers', NEW t \in viewers',
             Launches(q, s)', Launches(r, t)'
      PROVE  s = t \/ {s, t} \subseteq rivals'
  BY <1>2, <1>5 DEF ViewersFit
<1>6. QED
  BY <1>1, <1>4, <1>5 DEF ViewersFit

LEMMA EntriesGo ==
    ASSUME NEW set \in SUBSET Sessions, Close(set)
    PROVE  \A s \in Sessions : active'[s] \in {active[s], None}
  BY DEF Close

\* A viewer that passes the rule finds no entry of a viewer, and whoever launches
\* by then becomes its rival.
LEMMA PassedViews ==
    ASSUME IInv, ViewersFit, viewers \subseteq Sessions, NEW r \in Requests,
           req[r].ses \in viewers, ~Busy(req[r].ses), Await(r, "launching", None, {}),
           rivals' = Rivals(req[r].ses), UNCHANGED <<viewers, active>>
    PROVE  ViewersFit'
<1> DEFINE u == req[r].ses
<1>1. \A t \in viewers : active'[t] = None
  BY DEF Busy
<1>2. Elsewhere(r) /\ req'[r].ses = u
  BY WaitedOn
<1>3. ASSUME NEW q \in Requests, NEW s \in viewers, Launches(q, s)' PROVE s \in Launching \cup {u}
  <2>1. CASE q = r
    BY <1>2, <1>3, <2>1 DEF Launches
  <2>2. CASE q # r
    BY <1>2, <1>3, <2>2 DEF Launches, Launching, At, Elsewhere
  <2>3. QED
    BY <2>1, <2>2
<1>4. Launching \subseteq {u} \/ rivals' = Launching \cup {u}
  BY DEF Rivals
<1> HIDE DEF u
<1>5. ASSUME NEW q \in Requests, NEW x \in Requests, NEW s \in viewers', NEW t \in viewers',
             Launches(q, s)', Launches(x, t)'
      PROVE  s = t \/ {s, t} \subseteq rivals'
  <2>1. s \in Launching \cup {u} /\ t \in Launching \cup {u}
    BY <1>3, <1>5
  <2>2. QED
    BY <1>4, <2>1
<1>6. OneViewer'
  BY <1>1 DEF OneViewer
<1>7. QED
  BY <1>1, <1>5, <1>6 DEF ViewersFit

LEMMA AdmittedViews ==
    ASSUME IInv, ViewersFit, viewers \subseteq Sessions, NEW r \in Requests, Admitted(r)
    PROVE  ViewersFit'
<1> DEFINE u == req[r].ses
<1>1. UNCHANGED <<viewers, active>>
  BY DEF Admitted, tableVars, managerVars
<1>2. CASE Throw(r) /\ rivals' = rivals
  <2>1. GoesOn(r) /\ \A q \in Requests : req'[q] = req[q] \/ GoesOn(q)
    BY <1>2, MovedOn DEF GoesOn, Elsewhere
  <2>2. QED
    BY <1>1, <1>2, <2>1, ViewersStay
<1>3. CASE ~Busy(u) /\ Await(r, "launching", None, {}) /\ rivals' = Rivals(u)
  <2>1. CASE u \in viewers
    BY <1>1, <1>3, <2>1, PassedViews
  <2>2. CASE u \notin viewers
    <3>1. Elsewhere(r) /\ req'[r].ses = u /\ rivals' = rivals
      BY <1>3, <2>2, WaitedOn DEF Rivals
    <3>2. \A q \in Requests, s \in viewers : Launches(q, s)' => Launches(q, s)
      BY <2>2, <3>1 DEF Launches, At, Elsewhere
    <3> HIDE DEF u
    <3>3. OneViewer'
      BY <1>1, <3>1 DEF ViewersFit, OneViewer
    <3>4. ASSUME NEW q \in Requests, NEW s \in viewers', NEW t \in viewers',
                 Launches(q, s)', active'[t] # None
          PROVE  s = t \/ {s, t} \subseteq rivals'
      BY <1>1, <3>1, <3>2, <3>4 DEF ViewersFit
    <3>5. ASSUME NEW q \in Requests, NEW x \in Requests, NEW s \in viewers', NEW t \in viewers',
                 Launches(q, s)', Launches(x, t)'
          PROVE  s = t \/ {s, t} \subseteq rivals'
      BY <1>1, <3>1, <3>2, <3>5 DEF ViewersFit
    <3>6. QED
      BY <3>3, <3>4, <3>5 DEF ViewersFit
  <2>3. QED
    BY <2>1, <2>2
<1>4. QED
  BY <1>2, <1>3 DEF Admitted

\* The entry is made of a launch: its rivals are those of the launch.
LEMMA LaunchedViews ==
    ASSUME IInv, ViewersFit, viewers \subseteq Sessions, NEW r \in Requests, Launched(r)
    PROVE  ViewersFit'
<1> DEFINE u == req[r].ses
<1>1. UNCHANGED <<viewers, rivals>> /\ Launches(r, u)
  BY DEF Launched, tableVars, Launches
<1>2. PICK b \in Browsers : active' = [active EXCEPT ![u] = b] /\ Return(r, b)
  BY DEF Launched
<1>3. \A t \in Sessions : t # u => active'[t] = active[t]
  BY <1>2 DEF IInv, Shapes
<1>4. GoesOn(r)
  BY <1>2, MovedOn
<1>5. \A q \in Requests : \A s : Launches(q, s)' => Launches(q, s)
  BY <1>4, LaunchesStay DEF GoesOn, Elsewhere
<1> HIDE DEF u
<1>6. ASSUME NEW s \in viewers, NEW t \in viewers, active'[s] # None, active'[t] # None
      PROVE  s = t \/ {s, t} \subseteq rivals
  <2>1. CASE s # u /\ t # u
    BY <1>3, <1>6, <2>1 DEF ViewersFit, OneViewer
  <2>2. CASE s = u /\ t # u
    BY <1>1, <1>3, <1>6, <2>2 DEF ViewersFit
  <2>3. CASE s # u /\ t = u
    BY <1>1, <1>3, <1>6, <2>3 DEF ViewersFit
  <2>4. QED
    BY <2>1, <2>2, <2>3
<1>7. OneViewer'
  BY <1>1, <1>6 DEF OneViewer
<1>8. ASSUME NEW q \in Requests, NEW s \in viewers', NEW t \in viewers',
             Launches(q, s)', active'[t] # None
      PROVE  s = t \/ {s, t} \subseteq rivals'
  <2>1. CASE t # u
    BY <1>1, <1>3, <1>5, <1>8, <2>1 DEF ViewersFit
  <2>2. CASE t = u
    BY <1>1, <1>5, <1>8, <2>2 DEF ViewersFit
  <2>3. QED
    BY <2>1, <2>2
<1>9. ASSUME NEW q \in Requests, NEW x \in Requests, NEW s \in viewers', NEW t \in viewers',
             Launches(q, s)', Launches(x, t)'
      PROVE  s = t \/ {s, t} \subseteq rivals'
  BY <1>1, <1>5, <1>9 DEF ViewersFit
<1>10. QED
  BY <1>7, <1>8, <1>9 DEF ViewersFit

LEMMA StepViews ==
    ASSUME IInv, ViewersFit, viewers \subseteq Sessions, NEW r \in Requests, Step(r)
    PROVE  ViewersFit'
<1>1. CASE \/ LaunchFails(r) \/ Use(r) \/ Save(r) \/ Trace(r) \/ TraceStarted(r)
           \/ Stop(r) \/ Stopped(r) \/ CloseEnds(r) \/ Remove(r)
  <2>1. UNCHANGED <<viewers, active, rivals>>
    BY <1>1 DEF LaunchFails, Use, Save, Trace, TraceStarted, Stop, Stopped, CloseEnds, Remove,
                tableVars, managerVars, history
  <2>2. \/ (\E b : Return(r, b)) \/ Throw(r)
        \/ \E phase \in {"starting", "stopping"} : \E b, waits : Await(r, phase, b, waits)
    BY <1>1 DEF LaunchFails, Use, Save, Trace, TraceStarted, Stop, Stopped, CloseEnds, Remove
  <2>3. GoesOn(r)
    BY <2>2, MovedOn, WaitedOn DEF GoesOn
  <2>4. QED
    BY <2>1, <2>3, ViewersStay DEF GoesOn, Elsewhere
<1>2. CASE Get(r)
  <2>1. UNCHANGED <<viewers, rivals>>
    BY <1>2 DEF Get, tableVars, history
  <2>2. GoesOn(r)
    BY <1>2, MovedOn, WaitedOn DEF Get, GoesOn
  <2>3. active' = active \/ \E set \in SUBSET Sessions : Close(set)
    BY <1>2 DEF Get, IInv, Shapes
  <2>4. \A s \in Sessions : active'[s] \in {active[s], None}
    BY <2>3, EntriesGo
  <2>5. QED
    BY <2>1, <2>2, <2>4, ViewersStay DEF GoesOn, Elsewhere
<1>3. CASE CloseBegins(r)
  <2>1. UNCHANGED <<viewers, rivals>> /\ req[r].ses \in Sessions
    BY <1>3, AtHasProgram DEF CloseBegins, tableVars, history
  <2>2. GoesOn(r)
    BY <1>3, WaitedOn DEF CloseBegins, GoesOn
  <2>3. \A s \in Sessions : active'[s] \in {active[s], None}
    BY <1>3, <2>1, EntriesGo DEF CloseBegins
  <2>4. QED
    BY <2>1, <2>2, <2>3, ViewersStay DEF GoesOn, Elsewhere
<1>4. QED
  BY <1>1, <1>2, <1>3, AdmittedViews, LaunchedViews DEF Step

\* storage.createSession() and the handlers that begin: a new viewer has nothing
\* yet.
LEMMA BeginViews ==
    ASSUME IInv, ViewersFit, UnusedIsQuiet, viewers \subseteq Sessions, NEW r \in Requests,
           NEW s \in Sessions, Create(r, s) \/ Enter(r, s)
    PROVE  ViewersFit'
<1>1. PICK program, rescue : Begin(r, s, program, rescue)
  BY DEF Create, Enter
<1>2. active' = active /\ rivals' = rivals /\ Elsewhere(r) /\ req'[r].phase = "ready"
  BY <1>1 DEF Begin, managerVars, Idle, IInv, Shapes, Elsewhere
<1>3. viewers' = viewers \/ (row[s] = "unused" /\ viewers' \subseteq viewers \cup {s})
  BY DEF Create, Enter
<1>4. ASSUME NEW t \in viewers', t \notin viewers
      PROVE  active[t] = None /\ \A q \in Requests : req[q].ses # t
  BY <1>3, <1>4 DEF UnusedIsQuiet
<1>5. ASSUME NEW q \in Requests, NEW t \in viewers', Launches(q, t)'
      PROVE  Launches(q, t) /\ t \in viewers
  <2>1. q # r
    BY <1>2, <1>5 DEF Launches, At
  <2>2. Launches(q, t)
    BY <1>2, <1>5, <2>1 DEF Launches, At, Elsewhere
  <2>3. QED
    BY <1>4, <2>2 DEF Launches
<1>6. \A t \in viewers' : active'[t] # None => active[t] # None /\ t \in viewers
  BY <1>2, <1>4
<1>7. OneViewer'
  BY <1>2, <1>6 DEF ViewersFit, OneViewer
<1>8. ASSUME NEW q \in Requests, NEW x \in viewers', NEW t \in viewers',
             Launches(q, x)', active'[t] # None
      PROVE  x = t \/ {x, t} \subseteq rivals'
  BY <1>2, <1>5, <1>6, <1>8 DEF ViewersFit
<1>9. ASSUME NEW p \in Requests, NEW q \in Requests, NEW x \in viewers', NEW t \in viewers',
             Launches(p, x)', Launches(q, t)'
      PROVE  x = t \/ {x, t} \subseteq rivals'
  BY <1>2, <1>5, <1>9 DEF ViewersFit
<1>10. QED
  BY <1>7, <1>8, <1>9 DEF ViewersFit

LEMMA NextViews ==
    ASSUME IInv, Rest, ViewersFit, UnusedIsQuiet, [Next]_vars
    PROVE  ViewersFit'
<1>1. viewers \subseteq Sessions
  BY DEF Rest
<1>2. CASE \E r \in Requests : Step(r)
  BY <1>1, <1>2, StepViews
<1>3. CASE \E r \in Requests, s \in Sessions : Create(r, s) \/ Enter(r, s)
  BY <1>1, <1>3, BeginViews
<1>4. CASE \/ \E s \in Sessions : TimerFires(s)
           \/ CloseAll
  <2>1. PICK set \in SUBSET Sessions : Close(set)
    BY <1>4 DEF TimerFires, CloseAll
  <2>2. UNCHANGED <<viewers, req, rivals>>
    BY <1>4 DEF TimerFires, CloseAll, tableVars, history
  <2>3. \A s \in Sessions : active'[s] \in {active[s], None}
    BY <2>1, EntriesGo
  <2>4. QED
    BY <1>1, <2>2, <2>3, ViewersStay
<1>5. CASE \/ \E g \in Grants, s \in Sessions : Offer(g, s)
           \/ \E g \in Grants : Redeem(g)
           \/ \E s \in Sessions : Expire(s)
           \/ \E b \in Browsers : BrowserEnds(b) \/ Crash(b)
           \/ UNCHANGED vars
  <2>1. UNCHANGED <<viewers, req, active, rivals>>
    BY <1>5 DEF Offer, Redeem, Expire, BrowserEnds, Crash, Gone, vars, tableVars, managerVars, history
  <2>2. QED
    BY <1>1, <2>1, ViewersStay
<1>6. QED
  BY <1>2, <1>3, <1>4, <1>5 DEF Next

LEMMA UnusedStays ==
    ASSUME UnusedIsQuiet,
           \A s \in Sessions : (row'[s] = "unused" => row[s] = "unused")
                               /\ active'[s] \in {active[s], None},
           \A r \in Requests : req'[r].ses \in {req[r].ses, None}
    PROVE  UnusedIsQuiet'
  BY SessionAssumption DEF UnusedIsQuiet

LEMMA NextUnused == ASSUME IInv, UnusedIsQuiet, [Next]_vars PROVE UnusedIsQuiet'
<1>1. row \in [Sessions -> {"unused", "live", "gone"}] /\ active \in [Sessions -> Browsers \cup {None}]
      /\ req \in [Requests -> Handlers]
  BY DEF IInv, Shapes
<1>2. ASSUME NEW r \in Requests, Launched(r) PROVE UnusedIsQuiet'
  <2> DEFINE u == req[r].ses
  <2>1. PICK b \in Browsers : active' = [active EXCEPT ![u] = b] /\ Return(r, b)
    BY <1>2 DEF Launched
  <2>2. GoesOn(r) /\ row' = row
    BY <1>2, <2>1, MovedOn DEF Launched, tableVars
  <2>3. \A s \in Sessions : row[s] = "unused" => u # s
    BY DEF UnusedIsQuiet
  <2> HIDE DEF u
  <2>4. \A s \in Sessions : row'[s] = "unused" => row[s] = "unused" /\ active'[s] = active[s]
    BY <1>1, <2>1, <2>2, <2>3
  <2>5. \A q \in Requests : req'[q].ses \in {req[q].ses, None}
    BY <2>2 DEF GoesOn, Elsewhere
  <2>6. QED
    BY <2>4, <2>5, SessionAssumption DEF UnusedIsQuiet
<1>3. ASSUME NEW r \in Requests, NEW s \in Sessions, Create(r, s) \/ Enter(r, s) PROVE UnusedIsQuiet'
  <2>1. PICK program, rescue : Begin(r, s, program, rescue)
    BY <1>3 DEF Create, Enter
  <2>2. active' = active /\ req'[r].ses \in {s, None} /\ Elsewhere(r)
    BY <1>1, <2>1 DEF Begin, managerVars, Idle, Elsewhere
  <2>3. \A t \in Sessions : row'[t] = "unused" => row[t] = "unused" /\ t # s
    BY <1>1, <1>3 DEF Create, Enter, Exists
  <2>4. QED
    BY <2>2, <2>3, SessionAssumption DEF UnusedIsQuiet, Elsewhere
<1>4. ASSUME NEW r \in Requests, Step(r), ~Launched(r) PROVE UnusedIsQuiet'
  <2>1. \A q \in Requests : req'[q].ses \in {req[q].ses, None}
    <3>1. (\E b : Return(r, b)) \/ Throw(r) \/ \E phase, b, waits : Await(r, phase, b, waits)
      BY <1>4 DEF Step, Get, Admitted, LaunchFails, Use, Save, Trace, TraceStarted, Stop, Stopped,
                  CloseBegins, CloseEnds, Remove
    <3>2. Elsewhere(r) /\ req'[r].ses \in {req[r].ses, None}
      BY <3>1, MovedOn, WaitedOn DEF GoesOn
    <3>3. QED
      BY <3>2 DEF Elsewhere
  <2>2. \A s \in Sessions : active'[s] \in {active[s], None}
    BY <1>4 DEF Step, Get, Admitted, LaunchFails, Use, Save, Trace, TraceStarted, Stop, Stopped,
                CloseBegins, CloseEnds, Remove, Close, managerVars
  <2>3. \A s \in Sessions : row'[s] = "unused" => row[s] = "unused"
    BY <1>1, <1>4 DEF Step, Get, Admitted, LaunchFails, Use, Save, Trace, TraceStarted, Stop, Stopped,
                CloseBegins, CloseEnds, Remove, tableVars
  <2>4. QED
    BY <2>1, <2>2, <2>3, UnusedStays
<1>5. CASE \/ \E g \in Grants, s \in Sessions : Offer(g, s)
           \/ \E g \in Grants : Redeem(g)
           \/ \E s \in Sessions : Expire(s) \/ TimerFires(s)
           \/ \E b \in Browsers : BrowserEnds(b) \/ Crash(b)
           \/ CloseAll \/ UNCHANGED vars
  <2>1. row' = row /\ req' = req /\ \A s \in Sessions : active'[s] \in {active[s], None}
    BY <1>5 DEF Offer, Redeem, Expire, TimerFires, BrowserEnds, Crash, Gone, CloseAll, Close, vars,
                tableVars, managerVars
  <2>2. QED
    BY <2>1, UnusedStays
<1>6. QED
  BY <1>2, <1>3, <1>4, <1>5 DEF Next

LEMMA InitViews == Init => ViewersFit /\ UnusedIsQuiet
  BY SessionAssumption DEF Init, ViewersFit, UnusedIsQuiet, OneViewer, Launches, At, Idle

\* VIEWER_BUSY in create(): whatever handlers, timers, crashes, deletions and
\* expiry interleave, two sessions with a live viewer have a browser only if
\* they launched at a time, when one of them had last passed the rule.
THEOREM OneViewerOrRivals == Spec => []OneViewer
<1>1. IInv /\ Rest /\ ViewersFit /\ UnusedIsQuiet /\ [Next]_vars => ViewersFit' /\ UnusedIsQuiet'
  BY NextViews, NextUnused
<1>2. ViewersFit => OneViewer
  BY DEF ViewersFit
<1>3. QED
  BY <1>1, <1>2, InitViews, SpecInvariants, PTL DEF Spec
=============================================================================
