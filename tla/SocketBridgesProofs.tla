-------------------------- MODULE SocketBridgesProofs --------------------------
(***************************************************************************)
(* Messages keep their order through a bridge and nothing a bridge or a    *)
(* target starts is left without an end, for any bridges, targets and      *)
(* numbers of messages.                                                    *)
(***************************************************************************)
EXTENDS SocketBridges, SequenceTheorems, TLAPS

-----------------------------------------------------------------------------
\* Types

LEMMA InitType == Init => TypeOK
<1> SUFFICES ASSUME Init PROVE TypeOK
  OBVIOUS
<1>1. <<>> \in Seq(1..MaxMessages) /\ 0 \in 0..MaxMessages
  BY BridgeAssumption
<1>2. QED
  BY <1>1 DEF Init, TypeOK

LEMMA MessageType == ASSUME TypeOK, NEW b \in Bridges, Message(b) PROVE TypeOK'
<1>1. sent[b] + 1 \in 1..MaxMessages /\ sent' = [sent EXCEPT ![b] = sent[b] + 1]
  BY BridgeAssumption DEF TypeOK, Message
<1>2. sent' \in [Bridges -> 0..MaxMessages] /\ sent'[b] \in 1..MaxMessages
  BY <1>1, BridgeAssumption DEF TypeOK
<1>3. /\ Append(through[b], sent'[b]) \in Seq(1..MaxMessages)
      /\ Append(pending[b], sent'[b]) \in Seq(1..MaxMessages)
  BY <1>2, AppendProperties DEF TypeOK
<1>4. /\ through' \in [Bridges -> Seq(1..MaxMessages)]
      /\ pending' \in [Bridges -> Seq(1..MaxMessages)]
  BY <1>3 DEF TypeOK, Message
<1>5. UNCHANGED <<kind, via, stage, client, upstream, deadline, procVars, target, sessionVars, closed,
                  down, left, lost>>
  BY DEF Message
<1>6. QED
  BY <1>2, <1>4, <1>5 DEF TypeOK, procVars, sessionVars

LEMMA UpstreamOpensType == ASSUME TypeOK, NEW b \in Bridges, UpstreamOpens(b) PROVE TypeOK'
<1>1. Flushed(b) \in Seq(1..MaxMessages) /\ <<>> \in Seq(1..MaxMessages)
  BY ConcatProperties DEF TypeOK, Flushed
<1>2. /\ through' \in [Bridges -> Seq(1..MaxMessages)] /\ pending' \in [Bridges -> Seq(1..MaxMessages)]
      /\ upstream' \in [Bridges -> {"none", "connecting", "open", "closing", "closed"}]
  BY <1>1 DEF TypeOK, UpstreamOpens
<1>3. UNCHANGED <<kind, via, stage, client, sent, deadline, procVars, target, sessionVars, closed, down,
                  left, lost>>
  BY DEF UpstreamOpens
<1>4. QED
  BY <1>2, <1>3 DEF TypeOK, procVars, sessionVars

LEMMA HangupType ==
    ASSUME TypeOK, NEW b \in Bridges, Hangup(b)
    PROVE  client' \in [Bridges -> {"none", "open", "closing", "closed"}]
  BY DEF TypeOK, Hangup

LEMMA SocketsType ==
    ASSUME TypeOK, NEW b \in Bridges, UpstreamCloses(b) \/ DeadlinePasses(b)
    PROVE  TypeOK'
<1>1. Hangup(b)
  BY DEF UpstreamCloses, DeadlinePasses
<1>2. client' \in [Bridges -> {"none", "open", "closing", "closed"}]
  BY <1>1, HangupType
<1>3. CASE UpstreamCloses(b)
  BY <1>2, <1>3 DEF TypeOK, UpstreamCloses, procVars, sessionVars
<1>4. CASE DeadlinePasses(b)
  BY <1>2, <1>4 DEF TypeOK, DeadlinePasses, procVars, sessionVars
<1>5. QED
  BY <1>3, <1>4

LEMMA OwnersType == ASSUME TypeOK, NEW o \in Owners, OwnerStep(o) \/ Crash(o) PROVE TypeOK'
<1>1. CASE Started(o) \/ SessionLaunched(o) \/ ProcEnds(o) \/ Crash(o)
  BY <1>1 DEF TypeOK, Started, SessionLaunched, ProcEnds, Crash, socketVars, sessionVars
<1>2. CASE NoEndpoint(o)
  BY <1>2 DEF TypeOK, NoEndpoint, socketVars, sessionVars
<1>6. CASE KillFires(o)
  BY <1>6 DEF TypeOK, KillFires, socketVars, sessionVars
<1>3. CASE StopEnds(o)
  BY <1>3 DEF TypeOK, StopEnds, Hangup, sessionVars
<1>4. CASE LaunchFails(o)
  BY <1>4 DEF TypeOK, LaunchFails, GiveUp, Hangup, socketVars, sessionVars
<1>5. QED
  BY <1>1, <1>2, <1>3, <1>4, <1>6 DEF OwnerStep

LEMMA ConnectType == ASSUME TypeOK, NEW b \in Bridges, NEW k \in Kinds, Connect(b, k) PROVE TypeOK'
<1>1. b \in Owners
  BY DEF Owners
<1>2. /\ kind' \in [Bridges -> Kinds \cup {None}]
      /\ UNCHANGED <<sent, pending, through, deadline, kill, stopping, target, entry, recording,
                     cleaning, closed, down, left, lost>>
  BY DEF TypeOK, Connect
<1>3. /\ via' \in [Bridges -> Targets \cup {None}]
      /\ client' \in [Bridges -> {"none", "open", "closing", "closed"}]
      /\ stage' \in [Bridges -> {"none", "launching", "tracing", "piping", "over"}]
      /\ upstream' \in [Bridges -> {"none", "connecting", "open", "closing", "closed"}]
      /\ proc' \in [Owners -> {"none", "starting", "waiting", "up", "closing", "gone"}]
      /\ profile' \subseteq Owners
      /\ row' \in [Bridges -> {"none", "live", "gone"}]
  <2>1. CASE Refuse(b)
    BY <2>1 DEF TypeOK, Refuse
  <2>2. CASE ConnectVnc(b) \/ ConnectTarget(b)
    <3>1. Join(b)
      BY <2>2 DEF ConnectVnc, ConnectTarget
    <3>2. via' = via \/ \E t \in Targets : via' = [via EXCEPT ![b] = t]
      BY <2>2 DEF ConnectVnc, ConnectTarget
    <3>3. via' \in [Bridges -> Targets \cup {None}]
      BY <3>2 DEF TypeOK
    <3>4. QED
      BY <3>1, <3>3 DEF TypeOK, Join
  <2>3. CASE ConnectCdp(b) \/ ConnectNative(b) \/ ConnectSession(b) \/ ConnectPlaywright(b)
    BY <1>1, <2>3
       DEF TypeOK, ConnectCdp, ConnectNative, ConnectSession, ConnectPlaywright, Await
  <2>4. QED
    BY <2>1, <2>2, <2>3 DEF Connect
<1>4. QED
  BY <1>2, <1>3 DEF TypeOK

LEMMA BridgesType ==
    ASSUME TypeOK, NEW b \in Bridges,
           \/ CdpBridgeUp(b) \/ NativeBridgeUp(b) \/ SessionBridgeUp(b) \/ SessionFails(b)
           \/ Traced(b) \/ Archived(b) \/ CleanedUp(b) \/ SessionExpires(b)
    PROVE  TypeOK'
<1> b \in Owners
  BY DEF Owners
<1>1. CASE CdpBridgeUp(b)
  BY <1>1 DEF TypeOK, CdpBridgeUp, Armed, Pipe, sessionVars
<1>2. CASE NativeBridgeUp(b)
  BY <1>2 DEF TypeOK, NativeBridgeUp, Pipe, sessionVars
<1>3. CASE SessionBridgeUp(b)
  BY <1>3 DEF TypeOK, SessionBridgeUp, Pipe, socketVars, procVars
<1>9. CASE SessionFails(b)
  BY <1>9 DEF TypeOK, SessionFails, GiveUp, Hangup, procVars, sessionVars
<1>4. CASE Traced(b)
  BY <1>4 DEF TypeOK, Traced, Pipe, GiveUp, Hangup, procVars
<1>5. CASE Archived(b)
  BY <1>5 DEF TypeOK, Archived, EndSession, CloseEntry, socketVars
<1>6. CASE CleanedUp(b)
  BY <1>6 DEF TypeOK, CleanedUp, Deleted, socketVars, procVars
<1>7. CASE SessionExpires(b)
  BY <1>7 DEF TypeOK, SessionExpires, CloseEntry, socketVars
<1>8. QED
  BY <1>1, <1>2, <1>3, <1>4, <1>5, <1>6, <1>7, <1>9

LEMMA ClientClosesType == ASSUME TypeOK, NEW b \in Bridges, ClientCloses(b) PROVE TypeOK'
<1> b \in Owners
  BY DEF Owners
<1>1. /\ client' \in [Bridges -> {"none", "open", "closing", "closed"}]
      /\ upstream' \in [Bridges -> {"none", "connecting", "open", "closing", "closed"}]
      /\ left' \subseteq Bridges
      /\ UNCHANGED <<kind, via, stage, sent, pending, through, deadline, target, closed, down, lost>>
  BY DEF TypeOK, ClientCloses
<1>2. CASE UNCHANGED <<procVars, sessionVars>>
  BY <1>1, <1>2 DEF TypeOK, procVars, sessionVars
<1>3. CASE Stop(b) /\ UNCHANGED <<profile, sessionVars>>
  BY <1>1, <1>3 DEF TypeOK, Stop, sessionVars
<1>4. CASE CloseServer(b) /\ UNCHANGED sessionVars
  BY <1>1, <1>4 DEF TypeOK, CloseServer, sessionVars
<1>5. CASE /\ recording' = recording \ {b}
           /\ cleaning' = [cleaning EXCEPT ![b] = "archiving"]
           /\ UNCHANGED <<procVars, entry, row>>
  BY <1>1, <1>5 DEF TypeOK, procVars
<1>6. CASE EndSession(b) /\ UNCHANGED <<profile, kill, stopping, row>>
  BY <1>1, <1>6 DEF TypeOK, EndSession, CloseEntry
<1>7. QED
  BY <1>2, <1>3, <1>4, <1>5, <1>6 DEF ClientCloses

LEMMA TargetsType ==
    ASSUME TypeOK, NEW t \in Targets, TargetStep(t) \/ Create(t)
    PROVE  TypeOK'
<1> t \in Owners
  BY DEF Owners
<1>1. CASE Created(t)
  BY <1>1 DEF TypeOK, Created, Armed, socketVars, sessionVars
<1>2. CASE CloseTarget(t)
  BY <1>2 DEF TypeOK, CloseTarget, Unlisted, Stop, socketVars, sessionVars
<1>3. CASE Create(t)
  BY <1>3 DEF TypeOK, Create, socketVars, sessionVars
<1>4. QED
  BY <1>1, <1>2, <1>3 DEF TargetStep

LEMMA CloseAllType == ASSUME TypeOK, CloseAll PROVE TypeOK'
<1> DEFINE listed == {t \in Targets : target[t] = "listed"}
<1>1. /\ target' = [t \in Targets |-> IF t \in listed THEN "gone" ELSE target[t]]
      /\ kill' = kill \ listed /\ stopping' = stopping \cup listed /\ closed' = TRUE
      /\ proc' = [o \in Owners |-> IF o \in listed /\ proc[o] # "gone" THEN "closing" ELSE proc[o]]
      /\ UNCHANGED <<kind, via, stage, socketVars, profile, sessionVars, down, left, lost>>
  BY DEF CloseAll
<1>2. listed \subseteq Owners
  BY DEF Owners
<1> HIDE DEF listed
<1>3. /\ target' \in [Targets -> {"none", "creating", "listed", "gone"}]
      /\ proc' \in [Owners -> {"none", "starting", "waiting", "up", "closing", "gone"}]
      /\ kill' \subseteq Owners /\ stopping' \subseteq Owners
  BY <1>1, <1>2 DEF TypeOK
<1>4. QED
  BY <1>1, <1>3 DEF TypeOK, socketVars, sessionVars

LEMMA NextType == TypeOK /\ [Next]_vars => TypeOK'
<1> SUFFICES ASSUME TypeOK, [Next]_vars PROVE TypeOK'
  OBVIOUS
<1>1. CASE \E b \in Bridges : BridgeStep(b)
  BY <1>1, UpstreamOpensType, SocketsType, BridgesType DEF BridgeStep
<1>2. CASE \E b \in Bridges : Message(b) \/ ClientCloses(b)
  BY <1>2, MessageType, ClientClosesType
<1>3. CASE \E b \in Bridges, k \in Kinds : Connect(b, k)
  BY <1>3, ConnectType
<1>4. CASE \E o \in Owners : OwnerStep(o) \/ Crash(o)
  BY <1>4, OwnersType
<1>5. CASE \E t \in Targets : TargetStep(t) \/ Create(t)
  BY <1>5, TargetsType
<1>6. CASE CloseAll
  BY <1>6, CloseAllType
<1>7. CASE UNCHANGED vars
  BY <1>7 DEF TypeOK, vars, socketVars, procVars, sessionVars
<1>8. QED
  BY <1>1, <1>2, <1>3, <1>4, <1>5, <1>6, <1>7 DEF Next

-----------------------------------------------------------------------------
\* Messages

\* A client that has not connected has sent nothing, and while upstream is open
\* nothing waits.
MessagesFit ==
    \A b \in Bridges :
        /\ client[b] = "none" => sent[b] = 0 /\ pending[b] = <<>> /\ through[b] = <<>>
        /\ kind[b] \in Buffered /\ upstream[b] = "open" => pending[b] = <<>>

\* The messages up to the n-th.
UpTo(n) == [i \in 1..n |-> i]

LEMMA UpToNext == ASSUME NEW n \in Nat PROVE Append(UpTo(n), n + 1) = UpTo(n + 1)
<1>1. /\ UpTo(n) \in Seq(Nat) /\ Len(UpTo(n)) = n /\ \A i \in 1..n : UpTo(n)[i] = i
      /\ UpTo(n + 1) \in Seq(Nat) /\ Len(UpTo(n + 1)) = n + 1
      /\ \A i \in 1..(n + 1) : UpTo(n + 1)[i] = i
  BY DEF UpTo
<1> DEFINE p == Append(UpTo(n), n + 1)
<1>2. /\ p \in Seq(Nat) /\ Len(p) = n + 1
      /\ \A i \in 1..n : p[i] = i
      /\ p[n + 1] = n + 1
  <2> DEFINE u == UpTo(n)
  <2>1. n + 1 \in Nat /\ u \in Seq(Nat) /\ Len(u) = n /\ \A i \in 1..n : u[i] = i
    BY <1>1
  <2> HIDE DEF u
  <2>2. /\ Append(u, n + 1) \in Seq(Nat) /\ Len(Append(u, n + 1)) = Len(u) + 1
        /\ \A i \in 1..Len(u) : Append(u, n + 1)[i] = u[i]
        /\ Append(u, n + 1)[Len(u) + 1] = n + 1
    BY <2>1, AppendProperties
  <2>3. QED
    BY <2>1, <2>2 DEF u
<1> HIDE DEF p
<1>3. \A i \in 1..(n + 1) : p[i] = i
  BY <1>2
<1>4. p = UpTo(n + 1)
  BY <1>1, <1>2, <1>3, SeqEqual
<1>5. QED
  BY <1>4 DEF p

LEMMA ConcatAppend ==
    ASSUME NEW S, NEW p \in Seq(S), NEW q \in Seq(S), NEW e \in S
    PROVE  p \o Append(q, e) = Append(p \o q, e)
<1>1. <<e>> \in Seq(S)
  OBVIOUS
<1>2. p \o q \in Seq(S)
  BY ConcatProperties
<1>3. Append(q, e) = q \o <<e>> /\ Append(p \o q, e) = (p \o q) \o <<e>>
  BY <1>2, AppendIsConcat
<1>4. (p \o q) \o <<e>> = p \o (q \o <<e>>)
  BY <1>1, ConcatAssociative
<1>5. QED
  BY <1>3, <1>4

LEMMA AppendNext ==
    ASSUME NEW n \in Nat, NEW p \in Seq(Nat), NEW q \in Seq(Nat), p \o q = UpTo(n)
    PROVE  p \o Append(q, n + 1) = UpTo(n + 1)
<1>1. n + 1 \in Nat
  OBVIOUS
<1>2. p \o Append(q, n + 1) = Append(p \o q, n + 1)
  BY <1>1, ConcatAppend
<1>3. QED
  BY <1>2, UpToNext

\* A step that neither says nor sends anything.
LEMMA QuietKeeps ==
    ASSUME MessagesFit, InOrder, UNCHANGED <<kind, sent, pending, through>>,
           \A b \in Bridges : /\ client'[b] = "none" => client[b] = "none"
                              /\ upstream'[b] = "open" => upstream[b] = "open"
    PROVE  MessagesFit' /\ InOrder'
  BY DEF MessagesFit, InOrder

LEMMA MessageKeeps ==
    ASSUME TypeOK, MessagesFit, InOrder, NEW b \in Bridges, Message(b)
    PROVE  MessagesFit' /\ InOrder'
<1>1. /\ client[b] # "none" /\ sent' = [sent EXCEPT ![b] = sent[b] + 1]
      /\ UNCHANGED <<kind, client, upstream>>
  BY DEF Message
<1>2. /\ sent[b] \in Nat /\ sent'[b] = sent[b] + 1
      /\ pending[b] \in Seq(Nat) /\ through[b] \in Seq(Nat)
  BY <1>1, BridgeAssumption DEF TypeOK
<1>3. \A q \in Bridges \ {b} : /\ sent'[q] = sent[q] /\ pending'[q] = pending[q]
                               /\ through'[q] = through[q]
  BY DEF TypeOK, Message
<1>4. CASE upstream[b] = "open"
  <2>1. through'[b] = Append(through[b], sent[b] + 1) /\ pending' = pending
    BY <1>2, <1>4 DEF TypeOK, Message
  <2>2. MessagesFit'
    BY <1>1, <1>3, <2>1 DEF MessagesFit
  <2>3. ASSUME kind[b] \in Buffered PROVE through'[b] \o pending'[b] = UpTo(sent'[b])
    <3>1. pending[b] = <<>> /\ through[b] \o pending[b] = UpTo(sent[b])
      BY <1>4, <2>3 DEF MessagesFit, InOrder, UpTo
    <3>2. /\ through[b] \o <<>> = through[b] /\ <<>> \in Seq(Nat)
          /\ <<>> \o through[b] = through[b]
          /\ Append(through[b], sent[b] + 1) \in Seq(Nat)
      BY <1>2, ConcatEmptySeq
    <3>3. <<>> \o through[b] = UpTo(sent[b])
      BY <3>1, <3>2
    <3>4. <<>> \o Append(through[b], sent[b] + 1) = UpTo(sent[b] + 1)
      BY <1>2, <3>2, <3>3, AppendNext
    <3>5. /\ Append(through[b], sent[b] + 1) \o <<>> = Append(through[b], sent[b] + 1)
          /\ <<>> \o Append(through[b], sent[b] + 1) = Append(through[b], sent[b] + 1)
      BY <3>2, ConcatEmptySeq
    <3>6. QED
      BY <1>2, <2>1, <3>1, <3>4, <3>5
  <2>4. InOrder'
    BY <1>1, <1>3, <2>3 DEF InOrder, UpTo
  <2>5. QED
    BY <2>2, <2>4
<1>5. CASE upstream[b] # "open"
  <2>1. /\ through' = through
        /\ kind[b] \in Buffered => pending'[b] = Append(pending[b], sent[b] + 1)
    BY <1>2, <1>5 DEF TypeOK, Message
  <2>2. MessagesFit'
    BY <1>1, <1>3, <1>5, <2>1 DEF MessagesFit
  <2>3. ASSUME kind[b] \in Buffered PROVE through'[b] \o pending'[b] = UpTo(sent'[b])
    <3>1. through[b] \o pending[b] = UpTo(sent[b])
      BY <2>3 DEF InOrder, UpTo
    <3>2. through[b] \o Append(pending[b], sent[b] + 1) = UpTo(sent[b] + 1)
      BY <1>2, <3>1, AppendNext
    <3>3. QED
      BY <1>2, <2>1, <2>3, <3>2
  <2>4. InOrder'
    BY <1>1, <1>3, <2>3 DEF InOrder, UpTo
  <2>5. QED
    BY <2>2, <2>4
<1>6. QED
  BY <1>4, <1>5

LEMMA FlushKeeps ==
    ASSUME TypeOK, MessagesFit, InOrder, NEW b \in Bridges, UpstreamOpens(b)
    PROVE  MessagesFit' /\ InOrder'
<1>1. /\ through' = [through EXCEPT ![b] = through[b] \o pending[b]]
      /\ pending' = [pending EXCEPT ![b] = <<>>]
      /\ upstream' = [upstream EXCEPT ![b] = "open"]
      /\ UNCHANGED <<kind, client, sent>>
  BY DEF UpstreamOpens, Flushed
<1>2. /\ through'[b] = through[b] \o pending[b] /\ pending'[b] = <<>>
      /\ \A q \in Bridges \ {b} : /\ pending'[q] = pending[q] /\ through'[q] = through[q]
                                  /\ upstream'[q] = upstream[q]
  BY <1>1 DEF TypeOK
<1>3. /\ through[b] \in Seq(1..MaxMessages) /\ pending[b] \in Seq(1..MaxMessages)
      /\ through[b] \o pending[b] \in Seq(1..MaxMessages)
  BY ConcatProperties DEF TypeOK
<1>4. (through[b] \o pending[b]) \o <<>> = through[b] \o pending[b]
  BY <1>3, ConcatEmptySeq
<1>5. pending[b] = <<>> /\ through[b] = <<>> => through[b] \o pending[b] = <<>>
  OBVIOUS
<1>6. MessagesFit'
  BY <1>1, <1>2, <1>5 DEF MessagesFit
<1>7. InOrder'
  BY <1>1, <1>2, <1>4 DEF InOrder
<1>8. QED
  BY <1>6, <1>7

LEMMA ConnectMessages ==
    ASSUME TypeOK, MessagesFit, InOrder, NEW b \in Bridges, NEW k \in Kinds, Connect(b, k)
    PROVE  MessagesFit' /\ InOrder'
<1>1. /\ client[b] = "none" /\ kind' = [kind EXCEPT ![b] = k]
      /\ UNCHANGED <<sent, pending, through>>
  BY DEF Connect
<1>2. \A q \in Bridges \ {b} : /\ client'[q] = client[q] /\ upstream'[q] = upstream[q]
                               /\ kind'[q] = kind[q]
  BY DEF TypeOK, Connect, Refuse, ConnectVnc, ConnectTarget, Join, ConnectCdp, ConnectNative,
         ConnectSession, ConnectPlaywright, Await
<1>3. sent[b] = 0 /\ pending[b] = <<>> /\ through[b] = <<>>
  BY <1>1 DEF MessagesFit
<1>4. through[b] \o pending[b] = [i \in 1..sent[b] |-> i]
  BY <1>3
<1>5. MessagesFit'
  BY <1>1, <1>2, <1>3 DEF MessagesFit
<1>6. InOrder'
  BY <1>1, <1>2, <1>4 DEF InOrder
<1>7. QED
  BY <1>5, <1>6

LEMMA HangupQuiet ==
    ASSUME TypeOK, NEW b \in Bridges, Hangup(b)
    PROVE  \A q \in Bridges : client'[q] = "none" => client[q] = "none"
  BY DEF TypeOK, Hangup

LEMMA PipeQuiet ==
    ASSUME TypeOK, NEW b \in Bridges, Pipe(b) \/ GiveUp(b)
    PROVE  /\ UNCHANGED <<sent, pending, through>>
           /\ \A q \in Bridges : /\ client'[q] = "none" => client[q] = "none"
                                 /\ upstream'[q] = "open" => upstream[q] = "open"
  BY HangupQuiet DEF TypeOK, Pipe, GiveUp

LEMMA StepQuiet ==
    ASSUME TypeOK, MessagesFit, InOrder, NEW b \in Bridges,
           \/ UpstreamCloses(b) \/ DeadlinePasses(b)
           \/ CdpBridgeUp(b) \/ NativeBridgeUp(b) \/ SessionBridgeUp(b) \/ SessionFails(b)
           \/ Traced(b) \/ Archived(b) \/ CleanedUp(b) \/ SessionExpires(b) \/ ClientCloses(b)
    PROVE  MessagesFit' /\ InOrder'
<1>1. CASE UpstreamCloses(b) \/ DeadlinePasses(b)
  <2>1. /\ Hangup(b) /\ UNCHANGED <<kind, sent, pending, through>>
        /\ upstream' = upstream \/ upstream' = [upstream EXCEPT ![b] = "closed"]
    BY <1>1 DEF UpstreamCloses, DeadlinePasses
  <2>2. \A q \in Bridges : upstream'[q] = "open" => upstream[q] = "open"
    BY <2>1 DEF TypeOK
  <2>3. QED
    BY <2>1, <2>2, HangupQuiet, QuietKeeps
<1>2. CASE \/ CdpBridgeUp(b) \/ NativeBridgeUp(b) \/ SessionBridgeUp(b) \/ SessionFails(b)
           \/ Traced(b)
  <2>1. kind' = kind /\ (Pipe(b) \/ GiveUp(b) \/ UNCHANGED socketVars)
    BY <1>2 DEF CdpBridgeUp, NativeBridgeUp, SessionBridgeUp, SessionFails, Traced
  <2>2. /\ UNCHANGED <<sent, pending, through>>
        /\ \A q \in Bridges : /\ client'[q] = "none" => client[q] = "none"
                              /\ upstream'[q] = "open" => upstream[q] = "open"
    BY <2>1, PipeQuiet DEF socketVars
  <2>3. QED
    BY <2>1, <2>2, QuietKeeps
<1>3. CASE Archived(b) \/ CleanedUp(b) \/ SessionExpires(b)
  <2>1. UNCHANGED <<kind, client, upstream, sent, pending, through>>
    BY <1>3 DEF Archived, CleanedUp, SessionExpires, socketVars
  <2>2. QED
    BY <2>1, QuietKeeps
<1>4. CASE ClientCloses(b)
  <2>1. /\ UNCHANGED <<kind, sent, pending, through>>
        /\ client' = [client EXCEPT ![b] = "closed"]
        /\ upstream' = [upstream EXCEPT ![b] = IF @ \in {"connecting", "open"} THEN "closing" ELSE @]
    BY <1>4 DEF ClientCloses
  <2>2. \A q \in Bridges : /\ client'[q] = "none" => client[q] = "none"
                           /\ upstream'[q] = "open" => upstream[q] = "open"
    BY <2>1 DEF TypeOK
  <2>3. QED
    BY <2>1, <2>2, QuietKeeps
<1>5. QED
  BY <1>1, <1>2, <1>3, <1>4

LEMMA OwnerQuiet ==
    ASSUME TypeOK, MessagesFit, InOrder, NEW o \in Owners, OwnerStep(o) \/ Crash(o)
    PROVE  MessagesFit' /\ InOrder'
<1>1. CASE \/ Started(o) \/ SessionLaunched(o) \/ NoEndpoint(o) \/ KillFires(o) \/ ProcEnds(o)
           \/ Crash(o)
  <2>1. UNCHANGED <<kind, client, upstream, sent, pending, through>>
    BY <1>1 DEF Started, SessionLaunched, NoEndpoint, KillFires, ProcEnds, Crash, socketVars
  <2>2. QED
    BY <2>1, QuietKeeps
<1>2. CASE StopEnds(o)
  <2>1. /\ UNCHANGED <<kind, upstream, sent, pending, through>>
        /\ (o \in Bridges /\ Hangup(o)) \/ client' = client
    BY <1>2 DEF StopEnds
  <2>2. \A q \in Bridges : client'[q] = "none" => client[q] = "none"
    BY <2>1, HangupQuiet
  <2>3. QED
    BY <2>1, <2>2, QuietKeeps
<1>3. CASE LaunchFails(o)
  <2>1. kind' = kind /\ ((o \in Bridges /\ GiveUp(o)) \/ UNCHANGED socketVars)
    BY <1>3 DEF LaunchFails
  <2>2. /\ UNCHANGED <<sent, pending, through>>
        /\ \A q \in Bridges : /\ client'[q] = "none" => client[q] = "none"
                              /\ upstream'[q] = "open" => upstream[q] = "open"
    BY <2>1, PipeQuiet DEF socketVars
  <2>3. QED
    BY <2>1, <2>2, QuietKeeps
<1>4. QED
  BY <1>1, <1>2, <1>3 DEF OwnerStep

LEMMA NextInOrder == TypeOK /\ MessagesFit /\ InOrder /\ [Next]_vars => MessagesFit' /\ InOrder'
<1> SUFFICES ASSUME TypeOK, MessagesFit, InOrder, [Next]_vars PROVE MessagesFit' /\ InOrder'
  OBVIOUS
<1>1. CASE \E b \in Bridges : BridgeStep(b)
  BY <1>1, FlushKeeps, StepQuiet DEF BridgeStep
<1>2. CASE \E b \in Bridges : Message(b) \/ ClientCloses(b)
  BY <1>2, MessageKeeps, StepQuiet
<1>3. CASE \E b \in Bridges, k \in Kinds : Connect(b, k)
  BY <1>3, ConnectMessages
<1>4. CASE \E o \in Owners : OwnerStep(o) \/ Crash(o)
  BY <1>4, OwnerQuiet
<1>5. CASE (\E t \in Targets : TargetStep(t) \/ Create(t)) \/ CloseAll \/ UNCHANGED vars
  <2>1. UNCHANGED <<kind, client, upstream, sent, pending, through>>
    BY <1>5 DEF TargetStep, Created, CloseTarget, Create, CloseAll, vars, socketVars
  <2>2. QED
    BY <2>1, QuietKeeps
<1>6. QED
  BY <1>1, <1>2, <1>3, <1>4, <1>5 DEF Next

\* Whatever closes, opens or is launched meanwhile, pendingMessages and the
\* upstream socket of a bridge together hold what its client sent, in order and
\* without a gap.
THEOREM MessagesInOrder == Spec => []InOrder
<1>1. Init => MessagesFit /\ InOrder
  BY DEF Init, MessagesFit, InOrder
<1>2. QED
  BY <1>1, InitType, NextType, NextInOrder, PTL DEF Spec

-----------------------------------------------------------------------------
\* What ends a browser

\* A bridge nobody has connected to has nothing.
NewFits(b) ==
    client[b] = "none" =>
        /\ stage[b] = "none" /\ proc[b] = "none" /\ cleaning[b] = "no" /\ row[b] = "none"
        /\ b \notin profile /\ b \notin stopping /\ b \notin entry

\* What its kind says of the browser of a bridge: only a cdp bridge waits for
\* an endpoint, a native one has its browser when it is piping, and the session
\* of a playwright bridge keeps it in the manager until it is told to close.
KindFits(b) ==
    /\ b \in profile \/ proc[b] = "waiting" => kind[b] = "cdp"
    /\ kind[b] = "native" /\ proc[b] = "up" => stage[b] = "piping"
    /\ b \in entry => proc[b] \in {"up", "closing", "gone"}
    /\ kind[b] = "playwright" /\ stage[b] \in {"tracing", "piping"} =>
           b \in entry \/ proc[b] \in {"closing", "gone"}
    /\ stage[b] \in {"launching", "tracing"} /\ client[b] = "closed" => b \in left

\* A playwright bridge that was piping is cleaned up after its client is gone, its
\* browser first.
CleaningFits(b) ==
    /\ cleaning[b] # "no" =>
           kind[b] = "playwright" /\ stage[b] = "piping" /\ client[b] = "closed"
    /\ cleaning[b] \in {"ending", "deleting", "done"} => proc[b] \in {"closing", "gone"}
    /\ row[b] = "gone" => cleaning[b] \in {"ending", "deleting", "done"}

BridgeFits(b) == NewFits(b) /\ KindFits(b) /\ CleaningFits(b)

TargetFits(t) ==
    /\ target[t] = "none" => proc[t] = "none" /\ t \notin stopping
    /\ target[t] = "listed" => proc[t] \in {"up", "closing", "gone"} /\ t \notin stopping

\* Nobody stops a browser before it has its endpoint.
OwnerFits(o) == proc[o] \in {"none", "starting", "waiting"} => o \notin stopping

\* BrowserHasAnEnd for one owner.
HasAnEnd(o) ==
    proc[o] = "up" =>
        \/ o \in kill \cup entry
        \/ o \in Targets /\ target[o] = "listed"
        \/ o \in Bridges /\ kind[o] = "native" /\ (client[o] # "closed" \/ o \in left)
        \/ o \in Bridges /\ kind[o] \in OfSession /\ (stage[o] = "launching" \/ o \in lost)

EndsFit ==
    /\ \A b \in Bridges : BridgeFits(b)
    /\ \A t \in Targets : TargetFits(t)
    /\ \A o \in Owners : OwnerFits(o) /\ HasAnEnd(o)

\* A step that changes at most what belongs to one owner.
Apart(o) ==
    /\ \A b \in Bridges \ {o} :
          /\ kind'[b] = kind[b] /\ client'[b] = client[b] /\ stage'[b] = stage[b]
          /\ cleaning'[b] = cleaning[b] /\ row'[b] = row[b]
          /\ b \in entry' <=> b \in entry
          /\ b \in left' <=> b \in left
          /\ b \in lost' <=> b \in lost
    /\ \A t \in Targets \ {o} : target'[t] = target[t]
    /\ \A x \in Owners \ {o} :
          /\ proc'[x] = proc[x]
          /\ x \in profile' <=> x \in profile
          /\ x \in kill' <=> x \in kill
          /\ x \in stopping' <=> x \in stopping

LEMMA ApartKeeps ==
    ASSUME EndsFit, NEW o, Apart(o),
           o \in Bridges => BridgeFits(o)', o \in Targets => TargetFits(o)',
           o \in Owners => OwnerFits(o)' /\ HasAnEnd(o)', TypeOK, TypeOK'
    PROVE  EndsFit'
<1>1. ASSUME NEW b \in Bridges, b # o PROVE BridgeFits(b)'
  <2>1. b \in Owners /\ BridgeFits(b)
    BY DEF Owners, EndsFit
  <2>2. /\ kind'[b] = kind[b] /\ client'[b] = client[b] /\ stage'[b] = stage[b]
        /\ cleaning'[b] = cleaning[b] /\ row'[b] = row[b] /\ proc'[b] = proc[b]
        /\ b \in entry' <=> b \in entry
        /\ b \in left' <=> b \in left
        /\ b \in profile' <=> b \in profile
        /\ b \in stopping' <=> b \in stopping
    BY <1>1, <2>1 DEF Apart
  <2>3. NewFits(b)'
    BY <2>1, <2>2 DEF BridgeFits, NewFits
  <2>4. KindFits(b)'
    BY <2>1, <2>2 DEF BridgeFits, KindFits
  <2>5. CleaningFits(b)'
    BY <2>1, <2>2 DEF BridgeFits, CleaningFits
  <2>6. QED
    BY <2>3, <2>4, <2>5 DEF BridgeFits
<1>2. ASSUME NEW t \in Targets, t # o PROVE TargetFits(t)'
  BY <1>2 DEF EndsFit, TargetFits, Apart, Owners
<1>3. ASSUME NEW x \in Owners, x # o PROVE OwnerFits(x)' /\ HasAnEnd(x)'
  <2>1. OwnerFits(x)'
    BY <1>3 DEF EndsFit, OwnerFits, Apart
  <2>2. CASE x \in Bridges
    <3>1. x \notin Targets
      BY <2>2, BridgeAssumption
    <3>2. /\ kind'[x] = kind[x] /\ client'[x] = client[x] /\ proc'[x] = proc[x]
          /\ stage'[x] = stage[x]
          /\ x \in entry' <=> x \in entry
          /\ x \in left' <=> x \in left
          /\ x \in lost' <=> x \in lost
          /\ x \in kill' <=> x \in kill
      BY <1>3, <2>2 DEF Apart
    <3>3. HasAnEnd(x)
      BY DEF EndsFit
    <3>4. QED
      BY <2>1, <2>2, <3>1, <3>2, <3>3 DEF HasAnEnd
  <2>3. CASE x \in Targets
    <3>1. x \notin Bridges
      BY <2>3, BridgeAssumption
    <3>2. /\ target'[x] = target[x] /\ proc'[x] = proc[x]
          /\ x \in kill' <=> x \in kill
      BY <1>3, <2>3 DEF Apart
    <3>3. HasAnEnd(x)
      BY DEF EndsFit
    <3>4. x \notin entry /\ x \notin entry'
      BY <3>1 DEF TypeOK
    <3>5. QED
      BY <2>1, <2>3, <3>1, <3>2, <3>3, <3>4 DEF HasAnEnd
  <2>4. QED
    BY <2>2, <2>3 DEF Owners
<1>4. QED
  BY <1>1, <1>2, <1>3 DEF EndsFit

LEMMA BridgeApart ==
    ASSUME EndsFit, TypeOK, TypeOK', NEW b \in Bridges, Apart(b),
           NewFits(b)', KindFits(b)', CleaningFits(b)', OwnerFits(b)', HasAnEnd(b)'
    PROVE  EndsFit'
<1>1. b \notin Targets
  BY BridgeAssumption
<1>2. QED
  BY <1>1, ApartKeeps DEF BridgeFits

\* What the invariant says of one bridge.
LEMMA AtBridge ==
    ASSUME EndsFit, NEW b \in Bridges
    PROVE  /\ NewFits(b) /\ KindFits(b) /\ CleaningFits(b) /\ OwnerFits(b) /\ HasAnEnd(b)
           /\ b \in Owners /\ b \notin Targets
  BY BridgeAssumption DEF EndsFit, BridgeFits, Owners

LEMMA NothingEnds ==
    ASSUME EndsFit, TypeOK, TypeOK',
           UNCHANGED <<kind, client, stage, procVars, target, sessionVars, left, lost>>
    PROVE  EndsFit'
<1>1. Apart(None)
  BY DEF Apart, procVars, sessionVars
<1>2. None \notin Bridges /\ None \notin Targets /\ None \notin Owners
  BY BridgeAssumption DEF Owners
<1>3. QED
  BY <1>1, <1>2, ApartKeeps

LEMMA HangupEnds ==
    ASSUME EndsFit, TypeOK, TypeOK', NEW b \in Bridges, Hangup(b),
           UNCHANGED <<kind, stage, procVars, target, sessionVars, left, lost>>
    PROVE  EndsFit'
<1>1. /\ NewFits(b) /\ KindFits(b) /\ CleaningFits(b) /\ OwnerFits(b) /\ HasAnEnd(b)
      /\ b \in Owners /\ b \notin Targets
  BY AtBridge
<1>2. /\ \A q \in Bridges \ {b} : client'[q] = client[q]
      /\ client'[b] = IF client[b] = "open" THEN "closing" ELSE client[b]
  BY DEF TypeOK, Hangup
<1>3. Apart(b)
  BY <1>2 DEF Apart, procVars, sessionVars
<1>4. NewFits(b)' /\ KindFits(b)' /\ CleaningFits(b)'
  BY <1>1, <1>2 DEF NewFits, KindFits, CleaningFits, procVars, sessionVars
<1>5. OwnerFits(b)' /\ HasAnEnd(b)'
  BY <1>1, <1>2 DEF OwnerFits, HasAnEnd, procVars, sessionVars
<1>6. QED
  BY <1>3, <1>4, <1>5, BridgeApart

\* A bridge that goes on or gives up.
LEMMA CdpBridgeUpEnds ==
    ASSUME EndsFit, TypeOK, TypeOK', NEW b \in Bridges, CdpBridgeUp(b)
    PROVE  EndsFit'
<1>1. /\ NewFits(b) /\ KindFits(b) /\ CleaningFits(b) /\ OwnerFits(b) /\ HasAnEnd(b)
      /\ b \in Owners /\ b \notin Targets
  BY AtBridge
<1>2. /\ stage[b] = "launching" /\ proc[b] = "waiting"
      /\ proc' = [proc EXCEPT ![b] = "up"] /\ kill' = kill \cup {b}
      /\ stage' = [stage EXCEPT ![b] = "piping"]
      /\ UNCHANGED <<kind, client, profile, stopping, target, entry, row, cleaning, left, lost>>
  BY DEF CdpBridgeUp, Armed, Pipe, sessionVars
<1>3. Apart(b) /\ proc'[b] = "up" /\ stage'[b] = "piping"
  BY <1>1, <1>2 DEF TypeOK, Apart
<1>4. kind[b] = "cdp" /\ client[b] # "none" /\ b \in kill'
  BY <1>1, <1>2 DEF NewFits, KindFits
<1>5. NewFits(b)' /\ KindFits(b)'
  BY <1>1, <1>2, <1>3, <1>4 DEF NewFits, KindFits
<1>6. CleaningFits(b)' /\ OwnerFits(b)' /\ HasAnEnd(b)'
  BY <1>1, <1>2, <1>3, <1>4 DEF CleaningFits, OwnerFits, HasAnEnd
<1>7. QED
  BY <1>3, <1>5, <1>6, BridgeApart

LEMMA NativeBridgeUpEnds ==
    ASSUME EndsFit, TypeOK, TypeOK', NEW b \in Bridges, NativeBridgeUp(b)
    PROVE  EndsFit'
<1>1. /\ NewFits(b) /\ KindFits(b) /\ CleaningFits(b) /\ OwnerFits(b) /\ HasAnEnd(b)
      /\ b \in Owners /\ b \notin Targets
  BY AtBridge
<1>2. /\ stage[b] = "launching" /\ kind[b] = "native"
      /\ proc' = [proc EXCEPT ![b] = "up"] /\ stage' = [stage EXCEPT ![b] = "piping"]
      /\ UNCHANGED <<kind, client, profile, kill, stopping, target, entry, row, cleaning, left, lost>>
  BY DEF NativeBridgeUp, Pipe, sessionVars
<1>3. Apart(b) /\ proc'[b] = "up" /\ stage'[b] = "piping"
  BY <1>1, <1>2 DEF TypeOK, Apart
<1>4. client[b] # "none" /\ (client[b] = "closed" => b \in left) /\ cleaning[b] = "no"
  BY <1>1, <1>2 DEF NewFits, KindFits, CleaningFits
<1>5. NewFits(b)' /\ KindFits(b)'
  BY <1>1, <1>2, <1>3, <1>4 DEF NewFits, KindFits
<1>6. CleaningFits(b)' /\ OwnerFits(b)' /\ HasAnEnd(b)'
  BY <1>1, <1>2, <1>3, <1>4 DEF CleaningFits, OwnerFits, HasAnEnd
<1>7. QED
  BY <1>3, <1>5, <1>6, BridgeApart

LEMMA SessionBridgeUpEnds ==
    ASSUME EndsFit, TypeOK, TypeOK', NEW b \in Bridges, SessionBridgeUp(b)
    PROVE  EndsFit'
<1>1. /\ NewFits(b) /\ KindFits(b) /\ CleaningFits(b) /\ OwnerFits(b) /\ HasAnEnd(b)
      /\ b \in Owners /\ b \notin Targets
  BY AtBridge
<1>2. /\ stage[b] = "launching" /\ kind[b] \in OfSession
      /\ proc[b] \in {"up", "gone"} /\ entry' = entry \cup {b}
      /\ \/ stage' = [stage EXCEPT ![b] = "piping"]
         \/ stage' = [stage EXCEPT ![b] = "tracing"]
      /\ UNCHANGED <<kind, client, proc, profile, kill, stopping, target, row, cleaning, left, lost>>
  BY DEF SessionBridgeUp, Pipe, socketVars, procVars
<1>3. Apart(b) /\ stage'[b] \in {"piping", "tracing"} /\ b \in entry'
  BY <1>1, <1>2 DEF TypeOK, Apart
<1>4. /\ client[b] # "none" /\ (client[b] = "closed" => b \in left) /\ cleaning[b] = "no"
      /\ kind[b] # "native"
  BY <1>1, <1>2 DEF NewFits, KindFits, CleaningFits, OfSession
<1>5. NewFits(b)' /\ KindFits(b)'
  BY <1>1, <1>2, <1>3, <1>4 DEF NewFits, KindFits
<1>6. CleaningFits(b)' /\ OwnerFits(b)' /\ HasAnEnd(b)'
  BY <1>1, <1>2, <1>3, <1>4 DEF CleaningFits, OwnerFits, HasAnEnd
<1>7. QED
  BY <1>3, <1>5, <1>6, BridgeApart

LEMMA SessionLaunchedEnds ==
    ASSUME EndsFit, TypeOK, TypeOK', NEW b \in Bridges, SessionLaunched(b)
    PROVE  EndsFit'
<1>1. /\ NewFits(b) /\ KindFits(b) /\ CleaningFits(b) /\ OwnerFits(b) /\ HasAnEnd(b)
      /\ b \in Owners /\ b \notin Targets
  BY AtBridge
<1>2. /\ stage[b] = "launching" /\ kind[b] \in OfSession /\ proc[b] = "starting"
      /\ proc' = [proc EXCEPT ![b] = "up"]
      /\ UNCHANGED <<kind, client, stage, profile, kill, stopping, target, entry, row, cleaning,
                     left, lost>>
  BY DEF SessionLaunched, socketVars, sessionVars
<1>3. Apart(b) /\ proc'[b] = "up"
  BY <1>1, <1>2 DEF TypeOK, Apart
<1>4. client[b] # "none" /\ cleaning[b] = "no" /\ kind[b] # "native" /\ b \notin stopping
  BY <1>1, <1>2 DEF NewFits, CleaningFits, OwnerFits, OfSession
<1>5. NewFits(b)' /\ KindFits(b)'
  BY <1>1, <1>2, <1>3, <1>4 DEF NewFits, KindFits
<1>6. CleaningFits(b)' /\ OwnerFits(b)' /\ HasAnEnd(b)'
  BY <1>1, <1>2, <1>3, <1>4 DEF CleaningFits, OwnerFits, HasAnEnd
<1>7. QED
  BY <1>3, <1>5, <1>6, BridgeApart

LEMMA SessionFailsEnds ==
    ASSUME EndsFit, TypeOK, TypeOK', NEW b \in Bridges, SessionFails(b)
    PROVE  EndsFit'
<1>1. /\ NewFits(b) /\ KindFits(b) /\ CleaningFits(b) /\ OwnerFits(b) /\ HasAnEnd(b)
      /\ b \in Owners /\ b \notin Targets
  BY AtBridge
<1>2. /\ stage[b] = "launching" /\ kind[b] \in OfSession /\ proc[b] \in {"up", "gone"}
      /\ lost' = lost \cup {b} /\ stage' = [stage EXCEPT ![b] = "over"] /\ Hangup(b)
      /\ UNCHANGED <<kind, procVars, target, entry, row, cleaning, left>>
  BY DEF SessionFails, GiveUp, sessionVars
<1>3. /\ \A q \in Bridges \ {b} : client'[q] = client[q] /\ stage'[q] = stage[q]
      /\ (client'[b] = "none" => client[b] = "none") /\ stage'[b] = "over" /\ b \in lost'
  BY <1>2 DEF TypeOK, Hangup
<1>4. Apart(b)
  BY <1>2, <1>3 DEF Apart, procVars
<1>5. /\ cleaning[b] = "no" /\ client[b] # "none" /\ kind[b] # "native"
  BY <1>1, <1>2 DEF NewFits, CleaningFits, OfSession
<1>6. NewFits(b)' /\ KindFits(b)'
  BY <1>1, <1>2, <1>3, <1>5 DEF NewFits, KindFits, procVars
<1>7. CleaningFits(b)' /\ OwnerFits(b)' /\ HasAnEnd(b)'
  BY <1>1, <1>2, <1>3, <1>5 DEF CleaningFits, OwnerFits, HasAnEnd, procVars
<1>8. QED
  BY <1>4, <1>6, <1>7, BridgeApart

LEMMA TracedEnds ==
    ASSUME EndsFit, TypeOK, TypeOK', NEW b \in Bridges, Traced(b)
    PROVE  EndsFit'
<1>1. /\ NewFits(b) /\ KindFits(b) /\ CleaningFits(b) /\ OwnerFits(b) /\ HasAnEnd(b)
      /\ b \in Owners /\ b \notin Targets
  BY AtBridge
<1>2. /\ stage[b] = "tracing"
      /\ \/ stage' = [stage EXCEPT ![b] = "piping"] /\ client' = client
         \/ stage' = [stage EXCEPT ![b] = "over"] /\ Hangup(b)
      /\ UNCHANGED <<kind, procVars, target, entry, row, cleaning, left, lost>>
  BY DEF Traced, Pipe, GiveUp
<1>3. /\ \A q \in Bridges \ {b} : client'[q] = client[q] /\ stage'[q] = stage[q]
      /\ client'[b] \in {client[b], "closing"} /\ (client'[b] = "none" => client[b] = "none")
      /\ stage'[b] \in {"piping", "over"} /\ (client'[b] = "closed" <=> client[b] = "closed")
  BY <1>2 DEF TypeOK, Hangup
<1>4. Apart(b)
  BY <1>2, <1>3 DEF Apart, procVars
<1>5. cleaning[b] = "no" /\ client[b] # "none" /\ (kind[b] = "native" => proc[b] # "up")
  BY <1>1, <1>2 DEF NewFits, KindFits, CleaningFits
<1>6. NewFits(b)' /\ KindFits(b)'
  BY <1>1, <1>2, <1>3, <1>5 DEF NewFits, KindFits, procVars
<1>7. CleaningFits(b)' /\ OwnerFits(b)' /\ HasAnEnd(b)'
  BY <1>1, <1>2, <1>3, <1>5 DEF CleaningFits, OwnerFits, HasAnEnd, procVars
<1>8. QED
  BY <1>4, <1>6, <1>7, BridgeApart

LEMMA ConnectEnds ==
    ASSUME EndsFit, TypeOK, TypeOK', NEW b \in Bridges, NEW k \in Kinds, Connect(b, k)
    PROVE  EndsFit'
<1>1. /\ NewFits(b) /\ KindFits(b) /\ CleaningFits(b) /\ OwnerFits(b) /\ HasAnEnd(b)
      /\ b \in Owners /\ b \notin Targets
  BY AtBridge
<1>2. /\ client[b] = "none" /\ kind' = [kind EXCEPT ![b] = k]
      /\ UNCHANGED <<kill, stopping, target, entry, cleaning, left, lost>>
  BY DEF Connect
<1>3. /\ stage[b] = "none" /\ proc[b] = "none" /\ cleaning[b] = "no" /\ row[b] = "none"
      /\ b \notin profile /\ b \notin stopping /\ b \notin entry
  BY <1>1, <1>2 DEF NewFits
<1>4. /\ client' \in {[client EXCEPT ![b] = "closing"], [client EXCEPT ![b] = "open"]}
      /\ \/ proc' = proc /\ profile' = profile /\ row' = row
            /\ \/ stage' = [stage EXCEPT ![b] = "over"]
               \/ k # "playwright" /\ stage' = [stage EXCEPT ![b] = "piping"]
         \/ /\ stage' = [stage EXCEPT ![b] = "launching"]
            /\ proc' = [proc EXCEPT ![b] = "starting"]
            /\ profile' = profile \/ (k = "cdp" /\ profile' = profile \cup {b})
            /\ row' = row \/ row' = [row EXCEPT ![b] = "live"]
  BY DEF Connect, Refuse, ConnectVnc, ConnectTarget, Join, ConnectCdp, ConnectNative,
         ConnectSession, ConnectPlaywright, Await
<1>5. /\ kind'[b] = k /\ client'[b] \in {"open", "closing"} /\ proc'[b] \in {"none", "starting"}
      /\ row'[b] \in {"none", "live"}
      /\ b \in profile' => k = "cdp"
      /\ k = "playwright" => stage'[b] \in {"over", "launching"}
  BY <1>1, <1>2, <1>3, <1>4 DEF TypeOK
<1>6. Apart(b)
  BY <1>1, <1>2, <1>4 DEF TypeOK, Apart
<1>7. NewFits(b)' /\ KindFits(b)'
  BY <1>2, <1>3, <1>5 DEF NewFits, KindFits
<1>8. CleaningFits(b)' /\ OwnerFits(b)' /\ HasAnEnd(b)'
  BY <1>2, <1>3, <1>5 DEF CleaningFits, OwnerFits, HasAnEnd
<1>9. QED
  BY <1>6, <1>7, <1>8, BridgeApart

LEMMA SessionEnded ==
    ASSUME TypeOK, NEW b \in Bridges, KindFits(b), EndSession(b),
           kind[b] = "playwright", stage[b] = "piping"
    PROVE  /\ proc'[b] \in {"closing", "gone"} /\ cleaning'[b] \in {"ending", "deleting"}
           /\ b \notin entry'
           /\ \A x \in Owners \ {b} : proc'[x] = proc[x]
           /\ \A q \in Bridges \ {b} : /\ cleaning'[q] = cleaning[q]
                                       /\ q \in entry' <=> q \in entry
<1>1. /\ proc' = [proc EXCEPT ![b] = IF b \in entry /\ @ = "up" THEN "closing" ELSE @]
      /\ cleaning' = [cleaning EXCEPT ![b] = IF b \in entry THEN "ending" ELSE "deleting"]
      /\ entry' = entry \ {b}
  BY DEF EndSession, CloseEntry
<1>2. proc[b] \in {"closing", "gone"} \/ (b \in entry /\ proc[b] \in {"up", "closing", "gone"})
  BY DEF KindFits
<1>3. b \in Owners
  BY DEF Owners
<1>4. QED
  BY <1>1, <1>2, <1>3 DEF TypeOK

LEMMA ArchivedEnds ==
    ASSUME EndsFit, TypeOK, TypeOK', NEW b \in Bridges, Archived(b)
    PROVE  EndsFit'
<1>1. /\ NewFits(b) /\ KindFits(b) /\ CleaningFits(b) /\ OwnerFits(b) /\ HasAnEnd(b)
      /\ b \in Owners /\ b \notin Targets
  BY AtBridge
<1>2. /\ cleaning[b] = "archiving"
      /\ EndSession(b) \/ UNCHANGED <<entry, proc, cleaning>>
      /\ UNCHANGED <<kind, client, stage, profile, kill, stopping, target, row, left, lost>>
  BY DEF Archived, socketVars
<1>3. kind[b] = "playwright" /\ stage[b] = "piping" /\ client[b] = "closed"
  BY <1>1, <1>2 DEF CleaningFits
<1>4. CASE UNCHANGED <<entry, proc, cleaning>>
  <2>1. Apart(b)
    BY <1>2, <1>4 DEF Apart
  <2>2. NewFits(b)' /\ KindFits(b)' /\ CleaningFits(b)'
    BY <1>1, <1>2, <1>4 DEF NewFits, KindFits, CleaningFits
  <2>3. OwnerFits(b)' /\ HasAnEnd(b)'
    BY <1>1, <1>2, <1>4 DEF OwnerFits, HasAnEnd
  <2>4. QED
    BY <2>1, <2>2, <2>3, BridgeApart
<1>5. CASE EndSession(b)
  <2>1. /\ proc'[b] \in {"closing", "gone"} /\ cleaning'[b] \in {"ending", "deleting"}
        /\ b \notin entry'
        /\ \A x \in Owners \ {b} : proc'[x] = proc[x]
        /\ \A q \in Bridges \ {b} : /\ cleaning'[q] = cleaning[q]
                                    /\ q \in entry' <=> q \in entry
    BY <1>1, <1>3, <1>5, SessionEnded
  <2>2. Apart(b)
    BY <1>2, <2>1 DEF Apart
  <2>3. row[b] # "gone"
    BY <1>1, <1>2 DEF CleaningFits
  <2>4. NewFits(b)' /\ KindFits(b)' /\ CleaningFits(b)'
    BY <1>1, <1>2, <1>3, <2>1, <2>3 DEF NewFits, KindFits, CleaningFits
  <2>5. OwnerFits(b)' /\ HasAnEnd(b)'
    BY <2>1 DEF OwnerFits, HasAnEnd
  <2>6. QED
    BY <2>2, <2>4, <2>5, BridgeApart
<1>6. QED
  BY <1>2, <1>4, <1>5

LEMMA CleanedUpEnds ==
    ASSUME EndsFit, TypeOK, TypeOK', NEW b \in Bridges, CleanedUp(b)
    PROVE  EndsFit'
<1>1. /\ NewFits(b) /\ KindFits(b) /\ CleaningFits(b) /\ OwnerFits(b) /\ HasAnEnd(b)
      /\ b \in Owners /\ b \notin Targets
  BY AtBridge
<1>2. /\ cleaning[b] \in {"deleting", "ending"}
      /\ cleaning' = [cleaning EXCEPT ![b] = "done"] \/ cleaning' = cleaning
      /\ row' = [row EXCEPT ![b] = "gone"] \/ row' = row
      /\ UNCHANGED <<kind, client, stage, procVars, target, entry, left, lost>>
  BY DEF CleanedUp, Deleted, socketVars
<1>3. /\ kind[b] = "playwright" /\ stage[b] = "piping" /\ client[b] = "closed"
      /\ proc[b] \in {"closing", "gone"}
  BY <1>1, <1>2 DEF CleaningFits
<1>4. Apart(b) /\ cleaning'[b] \in {"ending", "deleting", "done"}
  BY <1>2 DEF TypeOK, Apart, procVars
<1>5. NewFits(b)' /\ KindFits(b)' /\ CleaningFits(b)'
  BY <1>1, <1>2, <1>3, <1>4 DEF NewFits, KindFits, CleaningFits, procVars
<1>6. OwnerFits(b)' /\ HasAnEnd(b)'
  BY <1>1, <1>2 DEF OwnerFits, HasAnEnd, procVars
<1>7. QED
  BY <1>4, <1>5, <1>6, BridgeApart

LEMMA SessionExpiresEnds ==
    ASSUME EndsFit, TypeOK, TypeOK', NEW b \in Bridges, SessionExpires(b)
    PROVE  EndsFit'
<1>1. /\ NewFits(b) /\ KindFits(b) /\ CleaningFits(b) /\ OwnerFits(b) /\ HasAnEnd(b)
      /\ b \in Owners /\ b \notin Targets
  BY AtBridge
<1>2. /\ b \in entry /\ entry' = entry \ {b}
      /\ proc' = [proc EXCEPT ![b] = IF b \in entry /\ @ = "up" THEN "closing" ELSE @]
      /\ UNCHANGED <<kind, client, stage, profile, kill, stopping, target, row, cleaning, left, lost>>
  BY DEF SessionExpires, CloseEntry, socketVars
<1>3. Apart(b)
  BY <1>1, <1>2 DEF TypeOK, Apart
<1>4. proc[b] \in {"up", "closing", "gone"}
  BY <1>1, <1>2 DEF KindFits
<1>5. proc'[b] \in {"closing", "gone"} /\ b \notin entry' /\ client[b] # "none"
  BY <1>1, <1>2, <1>4 DEF TypeOK, NewFits
<1>6. NewFits(b)' /\ KindFits(b)' /\ CleaningFits(b)'
  BY <1>1, <1>2, <1>5 DEF NewFits, KindFits, CleaningFits
<1>7. OwnerFits(b)' /\ HasAnEnd(b)'
  BY <1>5 DEF OwnerFits, HasAnEnd
<1>8. QED
  BY <1>3, <1>6, <1>7, BridgeApart

LEMMA ClientClosesEnds ==
    ASSUME EndsFit, TypeOK, TypeOK', NEW b \in Bridges, ClientCloses(b)
    PROVE  EndsFit'
<1>1. /\ NewFits(b) /\ KindFits(b) /\ CleaningFits(b) /\ OwnerFits(b) /\ HasAnEnd(b)
      /\ b \in Owners /\ b \notin Targets
  BY AtBridge
<1>2. /\ client[b] \in {"open", "closing"} /\ client' = [client EXCEPT ![b] = "closed"]
      /\ left' = IF stage[b] \in {"launching", "tracing"} THEN left \cup {b} ELSE left
      /\ UNCHANGED <<kind, stage, target, lost>>
  BY DEF ClientCloses
<1>3. /\ client'[b] = "closed" /\ cleaning[b] = "no" /\ row[b] # "gone"
      /\ stage[b] \in {"launching", "tracing"} => b \in left'
      /\ \A q \in Bridges \ {b} : client'[q] = client[q] /\ (q \in left' <=> q \in left)
  BY <1>1, <1>2 DEF TypeOK, CleaningFits
<1>4. CASE UNCHANGED <<procVars, sessionVars>>
           /\ (stage[b] # "piping" \/ kind[b] \notin {"cdp", "native", "playwright"})
  <2>1. Apart(b)
    BY <1>2, <1>3, <1>4 DEF Apart, procVars, sessionVars
  <2>2. NewFits(b)' /\ KindFits(b)' /\ CleaningFits(b)'
    BY <1>1, <1>2, <1>3, <1>4 DEF NewFits, KindFits, CleaningFits, procVars, sessionVars
  <2>3. proc[b] = "up" =>
            \/ b \in kill \cup entry
            \/ kind[b] \in OfSession /\ (stage[b] = "launching" \/ b \in lost)
    BY <1>1, <1>4 DEF KindFits, HasAnEnd
  <2>4. OwnerFits(b)' /\ HasAnEnd(b)'
    BY <1>1, <1>2, <1>4, <2>3 DEF OwnerFits, HasAnEnd, procVars, sessionVars
  <2>5. QED
    BY <2>1, <2>2, <2>4, BridgeApart
<1>5. CASE kind[b] = "cdp" /\ stage[b] = "piping" /\ Stop(b) /\ UNCHANGED <<profile, sessionVars>>
  <2>1. /\ kill' = kill \ {b} /\ stopping' = stopping \cup {b}
        /\ proc' = [proc EXCEPT ![b] = IF @ = "gone" THEN @ ELSE "closing"]
        /\ UNCHANGED <<profile, entry, row, cleaning>>
    BY <1>5 DEF Stop, sessionVars
  <2>2. Apart(b) /\ proc'[b] \in {"closing", "gone"}
    BY <1>1, <1>2, <1>3, <2>1 DEF TypeOK, Apart
  <2>3. NewFits(b)' /\ KindFits(b)' /\ CleaningFits(b)'
    BY <1>1, <1>2, <1>3, <1>5, <2>1, <2>2 DEF NewFits, KindFits, CleaningFits
  <2>4. OwnerFits(b)' /\ HasAnEnd(b)'
    BY <2>2 DEF OwnerFits, HasAnEnd
  <2>5. QED
    BY <2>2, <2>3, <2>4, BridgeApart
<1>6. CASE kind[b] = "native" /\ stage[b] = "piping" /\ CloseServer(b) /\ UNCHANGED sessionVars
  <2>1. /\ proc' = [proc EXCEPT ![b] = IF @ = "up" THEN "closing" ELSE @]
        /\ UNCHANGED <<profile, kill, stopping, entry, row, cleaning>>
    BY <1>6 DEF CloseServer, sessionVars
  <2>2. Apart(b) /\ proc'[b] # "up" /\ (proc'[b] = proc[b] \/ proc'[b] = "closing")
    BY <1>1, <1>2, <1>3, <2>1 DEF TypeOK, Apart
  <2>3. b \in entry => proc[b] \in {"up", "closing", "gone"}
    BY <1>1 DEF KindFits
  <2>4. NewFits(b)' /\ KindFits(b)' /\ CleaningFits(b)'
    BY <1>1, <1>2, <1>3, <1>6, <2>1, <2>2, <2>3 DEF NewFits, KindFits, CleaningFits
  <2>5. OwnerFits(b)' /\ HasAnEnd(b)'
    BY <1>1, <2>1, <2>2 DEF OwnerFits, HasAnEnd
  <2>6. QED
    BY <2>2, <2>4, <2>5, BridgeApart
<1>7. CASE /\ kind[b] = "playwright" /\ stage[b] = "piping"
           /\ cleaning' = [cleaning EXCEPT ![b] = "archiving"]
           /\ UNCHANGED <<procVars, entry, row>>
  <2>1. Apart(b) /\ cleaning'[b] = "archiving"
    BY <1>2, <1>3, <1>7 DEF TypeOK, Apart, procVars
  <2>2. NewFits(b)' /\ KindFits(b)' /\ CleaningFits(b)'
    BY <1>1, <1>2, <1>3, <1>7, <2>1 DEF NewFits, KindFits, CleaningFits, procVars
  <2>3. OwnerFits(b)' /\ HasAnEnd(b)'
    BY <1>1, <1>2, <1>7 DEF OwnerFits, HasAnEnd, procVars
  <2>4. QED
    BY <2>1, <2>2, <2>3, BridgeApart
<1>8. CASE /\ kind[b] = "playwright" /\ stage[b] = "piping" /\ EndSession(b)
           /\ UNCHANGED <<profile, kill, stopping, row>>
  <2>1. /\ proc'[b] \in {"closing", "gone"} /\ cleaning'[b] \in {"ending", "deleting"}
        /\ b \notin entry'
        /\ \A x \in Owners \ {b} : proc'[x] = proc[x]
        /\ \A q \in Bridges \ {b} : /\ cleaning'[q] = cleaning[q]
                                    /\ q \in entry' <=> q \in entry
    BY <1>1, <1>8, SessionEnded
  <2>2. Apart(b)
    BY <1>2, <1>3, <1>8, <2>1 DEF Apart
  <2>3. NewFits(b)' /\ KindFits(b)' /\ CleaningFits(b)'
    BY <1>1, <1>2, <1>3, <1>8, <2>1 DEF NewFits, KindFits, CleaningFits
  <2>4. OwnerFits(b)' /\ HasAnEnd(b)'
    BY <2>1 DEF OwnerFits, HasAnEnd
  <2>5. QED
    BY <2>2, <2>3, <2>4, BridgeApart
<1>9. QED
  BY <1>4, <1>5, <1>6, <1>7, <1>8 DEF ClientCloses

\* Steps of one browser, of a bridge or a target.

LEMMA ProcMoves ==
    ASSUME EndsFit, TypeOK, TypeOK', NEW o \in Owners,
           UNCHANGED <<kind, client, stage, profile, target, entry, row, cleaning, left, lost>>,
           \A x \in Owners \ {o} : /\ proc'[x] = proc[x]
                                   /\ x \in kill' <=> x \in kill
                                   /\ x \in stopping' <=> x \in stopping,
           proc'[o] # "up", proc[o] # "none",
           \/ proc'[o] \in {"closing", "gone"} \/ proc'[o] = proc[o]
           \/ proc[o] = "starting" /\ proc'[o] = "waiting" /\ o \in profile,
           o \in stopping' <=> o \in stopping \/ (proc[o] = "waiting" /\ proc'[o] = "closing")
    PROVE  EndsFit'
<1>1. Apart(o)
  BY DEF Apart
<1>2. OwnerFits(o)' /\ HasAnEnd(o)'
  BY DEF EndsFit, OwnerFits, HasAnEnd
<1>3. ASSUME o \in Bridges PROVE BridgeFits(o)'
  <2>1. NewFits(o) /\ KindFits(o) /\ CleaningFits(o)
    BY <1>3, AtBridge
  <2>2. NewFits(o)'
    BY <2>1 DEF NewFits
  <2>3. KindFits(o)'
    BY <2>1 DEF KindFits
  <2>4. CleaningFits(o)'
    BY <2>1 DEF CleaningFits
  <2>5. QED
    BY <2>2, <2>3, <2>4 DEF BridgeFits
<1>4. ASSUME o \in Targets PROVE TargetFits(o)'
  BY <1>4 DEF EndsFit, TargetFits
<1>5. QED
  BY <1>1, <1>2, <1>3, <1>4, ApartKeeps

LEMMA ProcStepEnds ==
    ASSUME EndsFit, TypeOK, TypeOK', NEW o \in Owners,
           Started(o) \/ NoEndpoint(o) \/ KillFires(o) \/ ProcEnds(o) \/ Crash(o)
    PROVE  EndsFit'
<1>1. UNCHANGED <<kind, client, stage, profile, target, entry, row, cleaning, left, lost>>
  BY DEF Started, NoEndpoint, KillFires, ProcEnds, Crash, socketVars, sessionVars
<1>2. CASE Started(o)
  <2>1. /\ proc[o] = "starting" /\ o \in profile /\ proc' = [proc EXCEPT ![o] = "waiting"]
        /\ UNCHANGED <<kill, stopping>>
    BY <1>2 DEF Started
  <2>2. proc'[o] = "waiting" /\ \A x \in Owners \ {o} : proc'[x] = proc[x]
    BY <2>1 DEF TypeOK
  <2>3. QED
    BY <1>1, <2>1, <2>2, ProcMoves
<1>3. CASE NoEndpoint(o)
  <2>1. /\ proc[o] = "waiting" /\ proc' = [proc EXCEPT ![o] = "closing"]
        /\ stopping' = stopping \cup {o} /\ kill' = kill
    BY <1>3 DEF NoEndpoint
  <2>2. proc'[o] = "closing" /\ \A x \in Owners \ {o} : proc'[x] = proc[x]
    BY <2>1 DEF TypeOK
  <2>3. QED
    BY <1>1, <2>1, <2>2, ProcMoves
<1>4. CASE KillFires(o)
  <2>1. /\ kill' = kill \ {o} /\ stopping' = stopping
        /\ proc' = [proc EXCEPT ![o] = IF @ = "up" THEN "closing" ELSE @]
    BY <1>4 DEF KillFires
  <2>2. /\ proc'[o] = IF proc[o] = "up" THEN "closing" ELSE proc[o]
        /\ \A x \in Owners \ {o} : proc'[x] = proc[x]
    BY <2>1 DEF TypeOK
  <2>3. CASE proc[o] = "none"
    <3>1. proc' = proc
      BY <2>1, <2>3 DEF TypeOK
    <3>2. Apart(o)
      BY <1>1, <2>1, <3>1 DEF Apart
    <3>3. OwnerFits(o)' /\ HasAnEnd(o)'
      BY <2>1, <2>3, <3>1 DEF EndsFit, OwnerFits, HasAnEnd
    <3>4. o \in Bridges => BridgeFits(o)'
      BY <1>1, <2>1, <3>1 DEF EndsFit, BridgeFits, NewFits, KindFits, CleaningFits
    <3>5. o \in Targets => TargetFits(o)'
      BY <1>1, <2>1, <3>1 DEF EndsFit, TargetFits
    <3>6. QED
      BY <3>2, <3>3, <3>4, <3>5, ApartKeeps
  <2>4. CASE proc[o] # "none"
    BY <1>1, <2>1, <2>2, <2>4, ProcMoves
  <2>5. QED
    BY <2>3, <2>4
<1>5. CASE ProcEnds(o) \/ Crash(o)
  <2>1. /\ proc[o] \in {"closing", "up"} /\ proc' = [proc EXCEPT ![o] = "gone"]
        /\ UNCHANGED <<kill, stopping>>
    BY <1>5 DEF ProcEnds, Crash
  <2>2. proc'[o] = "gone" /\ \A x \in Owners \ {o} : proc'[x] = proc[x]
    BY <2>1 DEF TypeOK
  <2>3. QED
    BY <1>1, <2>1, <2>2, ProcMoves
<1>6. QED
  BY <1>2, <1>3, <1>4, <1>5

LEMMA GivingUpEnds ==
    ASSUME EndsFit, TypeOK, TypeOK', NEW o \in Owners, StopEnds(o) \/ LaunchFails(o)
    PROVE  EndsFit'
<1>1. /\ UNCHANGED <<kind, kill, entry, row, cleaning, left, lost>>
      /\ profile' = profile \ {o} /\ stopping' \in {stopping, stopping \ {o}}
      /\ \/ proc[o] = "gone" /\ proc' = proc
         \/ proc[o] = "starting" /\ proc' = [proc EXCEPT ![o] = "gone"]
  BY DEF StopEnds, LaunchFails, sessionVars
<1>2. proc'[o] = "gone" /\ \A x \in Owners \ {o} : proc'[x] = proc[x]
  BY <1>1 DEF TypeOK
<1>3. OwnerFits(o)' /\ HasAnEnd(o)'
  BY <1>2 DEF OwnerFits, HasAnEnd
<1>4. CASE o \in Bridges
  <2>1. /\ NewFits(o) /\ KindFits(o) /\ CleaningFits(o) /\ o \notin Targets
    BY <1>4, AtBridge
  <2>2. /\ target' = target
        /\ \/ /\ stage' = [stage EXCEPT ![o] = "over"] /\ Hangup(o)
              /\ stage[o] = "launching" \/ proc[o] = "starting"
           \/ UNCHANGED <<stage, client>>
    BY <1>4, <2>1 DEF StopEnds, LaunchFails, GiveUp
  <2>3. /\ \A q \in Bridges \ {o} : stage'[q] = stage[q] /\ client'[q] = client[q]
        /\ client'[o] = "none" => client[o] = "none"
        /\ client'[o] = "closed" <=> client[o] = "closed"
        /\ \/ stage'[o] = "over" /\ (stage[o] = "launching" \/ proc[o] = "starting")
           \/ stage'[o] = stage[o]
    BY <1>4, <2>2 DEF TypeOK, Hangup
  <2>4. Apart(o)
    BY <1>1, <1>2, <2>2, <2>3 DEF Apart
  <2>5. proc[o] = "starting" => cleaning[o] = "no"
    BY <2>1 DEF KindFits, CleaningFits
  <2>6. NewFits(o)'
    BY <1>1, <2>1, <2>3 DEF NewFits
  <2>7. KindFits(o)'
    BY <1>1, <1>2, <2>1, <2>3 DEF KindFits
  <2>8. CleaningFits(o)'
    BY <1>1, <1>2, <2>1, <2>3, <2>5 DEF CleaningFits
  <2>9. QED
    BY <1>3, <1>4, <2>4, <2>6, <2>7, <2>8, BridgeApart
<1>5. CASE o \in Targets
  <2>1. TargetFits(o) /\ o \notin Bridges
    BY <1>5, BridgeAssumption DEF EndsFit
  <2>2. /\ UNCHANGED <<stage, client>>
        /\ target' = [target EXCEPT ![o] = "gone"] \/ target' = target
    BY <1>5, <2>1 DEF StopEnds, LaunchFails, socketVars
  <2>3. Apart(o) /\ target'[o] \in {"gone", target[o]}
    BY <1>1, <1>2, <1>5, <2>2 DEF TypeOK, Apart
  <2>4. TargetFits(o)'
    BY <1>1, <1>2, <2>1, <2>3 DEF TargetFits
  <2>5. QED
    BY <1>3, <2>1, <2>3, <2>4, ApartKeeps
<1>6. QED
  BY <1>4, <1>5 DEF Owners

LEMMA TargetEnds ==
    ASSUME EndsFit, TypeOK, TypeOK', NEW t \in Targets, TargetStep(t) \/ Create(t)
    PROVE  EndsFit'
<1>1. /\ t \in Owners /\ t \notin Bridges
      /\ TargetFits(t) /\ OwnerFits(t) /\ HasAnEnd(t)
  BY BridgeAssumption DEF EndsFit, Owners
<1>2. UNCHANGED <<kind, client, stage, entry, row, cleaning, left, lost>>
  BY DEF TargetStep, Created, CloseTarget, Create, socketVars, sessionVars
<1>3. CASE Created(t)
  <2>1. /\ target[t] = "creating" /\ proc[t] = "waiting"
        /\ proc' = [proc EXCEPT ![t] = "up"] /\ kill' = kill \cup {t}
        /\ target' = [target EXCEPT ![t] = "listed"]
        /\ UNCHANGED <<profile, stopping>>
    BY <1>3 DEF Created, Armed
  <2>2. Apart(t) /\ proc'[t] = "up" /\ t \in kill'
    BY <1>1, <1>2, <2>1 DEF TypeOK, Apart
  <2>3. t \notin stopping'
    BY <1>1, <2>1 DEF OwnerFits
  <2>4. TargetFits(t)' /\ OwnerFits(t)' /\ HasAnEnd(t)'
    BY <2>1, <2>2, <2>3 DEF TypeOK, TargetFits, OwnerFits, HasAnEnd
  <2>5. QED
    BY <1>1, <2>2, <2>4, ApartKeeps
<1>4. CASE CloseTarget(t)
  <2>1. /\ target' = [target EXCEPT ![t] = "gone"]
        /\ kill' = kill \ {t} /\ stopping' = stopping \cup {t} /\ profile' = profile
        /\ proc' = [proc EXCEPT ![t] = IF @ = "gone" THEN @ ELSE "closing"]
    BY <1>4 DEF CloseTarget, Unlisted, Stop
  <2>2. Apart(t) /\ proc'[t] \in {"closing", "gone"} /\ target'[t] = "gone"
    BY <1>1, <1>2, <2>1 DEF TypeOK, Apart
  <2>3. TargetFits(t)' /\ OwnerFits(t)' /\ HasAnEnd(t)'
    BY <2>2 DEF TargetFits, OwnerFits, HasAnEnd
  <2>4. QED
    BY <1>1, <2>2, <2>3, ApartKeeps
<1>5. CASE Create(t)
  <2>1. /\ target[t] = "none" /\ target' = [target EXCEPT ![t] = "creating"]
        /\ proc' = [proc EXCEPT ![t] = "starting"] /\ profile' = profile \cup {t}
        /\ UNCHANGED <<kill, stopping>>
    BY <1>5 DEF Create
  <2>2. Apart(t) /\ proc'[t] = "starting" /\ target'[t] = "creating"
    BY <1>1, <1>2, <2>1 DEF TypeOK, Apart
  <2>3. t \notin stopping'
    BY <1>1, <2>1 DEF TargetFits
  <2>4. TargetFits(t)' /\ OwnerFits(t)' /\ HasAnEnd(t)'
    BY <2>2, <2>3 DEF TargetFits, OwnerFits, HasAnEnd
  <2>5. QED
    BY <1>1, <2>2, <2>4, ApartKeeps
<1>6. QED
  BY <1>3, <1>4, <1>5 DEF TargetStep

LEMMA CloseAllEnds == ASSUME EndsFit, TypeOK, TypeOK', CloseAll PROVE EndsFit'
<1> DEFINE listed == {t \in Targets : target[t] = "listed"}
<1>1. /\ target' = [t \in Targets |-> IF t \in listed THEN "gone" ELSE target[t]]
      /\ kill' = kill \ listed /\ stopping' = stopping \cup listed
      /\ proc' = [o \in Owners |-> IF o \in listed /\ proc[o] # "gone" THEN "closing" ELSE proc[o]]
      /\ UNCHANGED <<kind, client, stage, profile, entry, row, cleaning, left, lost>>
  BY DEF CloseAll, socketVars, sessionVars
<1>2. listed \subseteq Targets /\ \A b \in Bridges : b \notin listed
  BY BridgeAssumption
<1>3. \A x \in listed : proc'[x] \in {"closing", "gone"} /\ target'[x] = "gone"
  BY <1>1 DEF Owners
<1>4. /\ \A x \in Owners \ listed : proc'[x] = proc[x]
      /\ \A t \in Targets \ listed : target'[t] = target[t]
  BY <1>1
<1> HIDE DEF listed
<1>5. ASSUME NEW b \in Bridges PROVE BridgeFits(b)'
  <2>1. /\ NewFits(b) /\ KindFits(b) /\ CleaningFits(b) /\ b \in Owners
    BY AtBridge
  <2>2. proc'[b] = proc[b] /\ (b \in stopping' <=> b \in stopping)
    BY <1>1, <1>2, <1>4, <2>1
  <2>3. NewFits(b)' /\ KindFits(b)' /\ CleaningFits(b)'
    BY <1>1, <2>1, <2>2 DEF NewFits, KindFits, CleaningFits
  <2>4. QED
    BY <2>3 DEF BridgeFits
<1>6. ASSUME NEW t \in Targets PROVE TargetFits(t)'
  <2>1. CASE t \in listed
    BY <1>3, <2>1 DEF TargetFits
  <2>2. CASE t \notin listed
    <3>1. proc'[t] = proc[t] /\ target'[t] = target[t] /\ (t \in stopping' <=> t \in stopping)
      BY <1>1, <1>4, <2>2 DEF Owners
    <3>2. QED
      BY <3>1 DEF EndsFit, TargetFits
  <2>3. QED
    BY <2>1, <2>2
<1>7. ASSUME NEW o \in Owners PROVE OwnerFits(o)' /\ HasAnEnd(o)'
  <2>1. CASE o \in listed
    BY <1>3, <2>1 DEF OwnerFits, HasAnEnd
  <2>2. CASE o \notin listed
    <3>1. /\ proc'[o] = proc[o] /\ (o \in stopping' <=> o \in stopping) /\ (o \in kill' <=> o \in kill)
          /\ o \in Targets => target'[o] = target[o]
      BY <1>1, <1>4, <2>2
    <3>2. OwnerFits(o) /\ HasAnEnd(o)
      BY DEF EndsFit
    <3>3. QED
      BY <1>1, <3>1, <3>2 DEF OwnerFits, HasAnEnd
  <2>3. QED
    BY <2>1, <2>2
<1>8. QED
  BY <1>5, <1>6, <1>7 DEF EndsFit

LEMMA NextEnds == TypeOK /\ TypeOK' /\ EndsFit /\ [Next]_vars => EndsFit'
<1> SUFFICES ASSUME TypeOK, TypeOK', EndsFit, [Next]_vars PROVE EndsFit'
  OBVIOUS
<1>1. CASE \E b \in Bridges : Message(b) \/ UpstreamOpens(b)
  BY <1>1, NothingEnds DEF Message, UpstreamOpens
<1>2. CASE \E b \in Bridges : UpstreamCloses(b) \/ DeadlinePasses(b)
  BY <1>2, HangupEnds DEF UpstreamCloses, DeadlinePasses
<1>3. CASE \E b \in Bridges :
              \/ CdpBridgeUp(b) \/ NativeBridgeUp(b) \/ SessionBridgeUp(b) \/ SessionFails(b)
              \/ Traced(b) \/ Archived(b) \/ CleanedUp(b) \/ SessionExpires(b) \/ ClientCloses(b)
  BY <1>3, CdpBridgeUpEnds, NativeBridgeUpEnds, SessionBridgeUpEnds, SessionFailsEnds, TracedEnds, ArchivedEnds,
     CleanedUpEnds, SessionExpiresEnds, ClientClosesEnds
<1>4. CASE \E b \in Bridges, k \in Kinds : Connect(b, k)
  BY <1>4, ConnectEnds
<1>5. CASE \E o \in Owners : OwnerStep(o) \/ Crash(o)
  BY <1>5, ProcStepEnds, GivingUpEnds, SessionLaunchedEnds DEF OwnerStep
<1>6. CASE \E t \in Targets : TargetStep(t) \/ Create(t)
  BY <1>6, TargetEnds
<1>7. CASE CloseAll
  BY <1>7, CloseAllEnds
<1>8. CASE UNCHANGED vars
  BY <1>8, NothingEnds DEF vars, socketVars
<1>9. QED
  BY <1>1, <1>2, <1>3, <1>4, <1>5, <1>6, <1>7, <1>8 DEF Next, BridgeStep

LEMMA InitEnds == Init => EndsFit
  BY DEF Init, EndsFit, BridgeFits, NewFits, KindFits, CleaningFits, TargetFits, OwnerFits, HasAnEnd,
         Owners

\* However launches, closing sockets, timers and crashes interleave in
\* sockets.ts, cdp.ts and cdp-reconnect.ts: a running browser has what will end
\* it, but for the two kinds the code forgets, no target that was stopped is given
\* out, and the row of a bridge's session is deleted after its browser was told
\* to close.
THEOREM BridgesSound == Spec => []BridgesAreSound
<1>1. TypeOK /\ EndsFit => BridgesAreSound
  <2> SUFFICES ASSUME TypeOK, EndsFit PROVE BridgesAreSound
    OBVIOUS
  <2>1. BrowserHasAnEnd
    BY DEF EndsFit, HasAnEnd, BrowserHasAnEnd, Forgotten
  <2>2. ListedIsNotStopped
    BY DEF EndsFit, TargetFits, ListedIsNotStopped
  <2>3. RowOutlivesBrowser
    BY DEF EndsFit, BridgeFits, CleaningFits, RowOutlivesBrowser
  <2>4. QED
    BY <2>1, <2>2, <2>3 DEF BridgesAreSound
<1>2. QED
  BY <1>1, InitType, InitEnds, NextType, NextEnds, PTL DEF Spec
=============================================================================
