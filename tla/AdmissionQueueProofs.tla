------------------------ MODULE AdmissionQueueProofs ------------------------
(***************************************************************************)
(* Proofs about AdmissionQueue, for every set of calls, every bound and    *)
(* every memory level.                                                     *)
(***************************************************************************)
EXTENDS AdmissionQueue, SequenceTheorems, SumTheorems, TLAPS

Elems(s) == {s[i] : i \in 1..Len(s)}
Slice(s, a, b) == {s[i] : i \in a..b}
Front(s, k) == SubSeq(s, 1, k)
Back(s, k) == SubSeq(s, k + 1, Len(s))
NoDuplicates(s) == \A a, b \in 1..Len(s) : s[a] = s[b] => a = b

(***************************************************************************)
(* The inductive invariant.  TypeOK is not inductive: active \in Nat needs *)
(* that a call that gives a slot back had one, hence the count; the count  *)
(* needs that no call starts twice, hence the history sequences.           *)
(***************************************************************************)
QueueIsOrdered ==
    /\ accepted = started \o pending
    /\ NoDuplicates(accepted)
    /\ Len(pending) =< QueueMax

StatusMatches ==
    /\ \A j \in Jobs : status[j] = "pending" <=> j \in Elems(pending)
    /\ \A j \in Jobs : status[j] \in InFlight \cup Settled <=> j \in Elems(started)

SlotsMatch ==
    /\ active = Len(started) - Cardinality(SettledJobs)
    /\ active =< MaxConcurrency

IInv == TypeOK /\ QueueIsOrdered /\ StatusMatches /\ SlotsMatch

-----------------------------------------------------------------------------
\* Sequences

\* A sequence without repetitions has as many elements as it is long.
LEMMA ElemsCount ==
    ASSUME NEW S, NEW s \in Seq(S), NoDuplicates(s)
    PROVE  IsFiniteSet(Elems(s)) /\ Cardinality(Elems(s)) = Len(s)
<1>1. Len(s) \in Nat /\ s \in [1..Len(s) -> S]
  BY LenProperties
<1>2. s \in [1..Len(s) -> Elems(s)]
  BY <1>1 DEF Elems
<1>3. s \in Bijection(1..Len(s), Elems(s))
  BY <1>1, <1>2 DEF Elems, NoDuplicates, Bijection, Injection, Surjection, IsInjective
<1>4. ExistsBijection(1..Len(s), Elems(s))
  BY <1>3 DEF ExistsBijection
<1>5. IsFiniteSet(1..Len(s)) /\ Cardinality(1..Len(s)) = Len(s)
  BY <1>1, FS_Interval
<1>6. QED
  BY <1>4, <1>5, FS_Bijection

\* Cutting queue after its first k elements.
LEMMA CutQueue ==
    ASSUME NEW S, NEW queue \in Seq(S), NEW k \in 0..Len(queue)
    PROVE  /\ Front(queue, k) \in Seq(S) /\ Len(Front(queue, k)) = k
           /\ Back(queue, k) \in Seq(S) /\ Len(Back(queue, k)) = Len(queue) - k
           /\ Elems(Front(queue, k)) = Slice(queue, 1, k)
           /\ Elems(Back(queue, k)) = Slice(queue, k + 1, Len(queue))
           /\ Front(queue, k) \o Back(queue, k) = queue
<1> DEFINE front == SubSeq(queue, 1, k)
           back == SubSeq(queue, k + 1, Len(queue))
<1>1. Len(queue) \in Nat /\ \A i \in 1..Len(queue) : queue[i] \in S
  BY LenProperties, ElementOfSeq
<1>2. /\ front \in Seq(S) /\ Len(front) = k
      /\ \A i \in 1..k : front[i] = queue[i]
  <2>1. \A i \in 1..k : queue[i] \in S
    BY <1>1
  <2>2. QED
    BY <1>1, <2>1, SubSeqProperties
<1>3. /\ back \in Seq(S) /\ Len(back) = Len(queue) - k
      /\ \A i \in 1..(Len(queue) - k) : back[i] = queue[k + i]
  <2>1. \A i \in (k + 1)..Len(queue) : queue[i] \in S
    BY <1>1
  <2>2. /\ SubSeq(queue, k + 1, Len(queue)) \in Seq(S)
        /\ Len(SubSeq(queue, k + 1, Len(queue)))
              = IF k + 1 =< Len(queue) THEN Len(queue) - (k + 1) + 1 ELSE 0
        /\ \A i \in 1..(Len(queue) - (k + 1) + 1) :
              SubSeq(queue, k + 1, Len(queue))[i] = queue[(k + 1) + i - 1]
    BY <1>1, <2>1, SubSeqProperties
  <2>3. QED
    BY <1>1, <2>2
<1>4. front \o back = queue
  <2>1. 1 \in 1..Len(queue)+1 /\ k \in (1 - 1)..Len(queue) /\ Len(queue) \in k..Len(queue)
    BY <1>1
  <2>2. front \o back = SubSeq(queue, 1, Len(queue))
    BY <2>1, ConcatAdjacentSubSeq, Zenon
  <2>3. QED
    BY <2>2, SubSeqFull, Zenon
<1> HIDE  DEF front, back
<1>5. Elems(front) = {queue[i] : i \in 1..k}
  BY <1>2 DEF Elems
<1>6. Elems(back) = {queue[i] : i \in (k + 1)..Len(queue)}
  <2>1. ASSUME NEW x \in Elems(back)
        PROVE  x \in {queue[i] : i \in (k + 1)..Len(queue)}
    <3>1. PICK i \in 1..(Len(queue) - k) : x = back[i]
      BY <1>3, <2>1 DEF Elems
    <3>2. x = queue[k + i] /\ k + i \in (k + 1)..Len(queue)
      BY <1>1, <1>3, <3>1
    <3>3. QED
      BY <3>2
  <2>2. ASSUME NEW i \in (k + 1)..Len(queue)
        PROVE  queue[i] \in Elems(back)
    <3>1. i - k \in 1..(Len(queue) - k) /\ k + (i - k) = i
      BY <1>1
    <3>2. back[i - k] = queue[i]
      BY <1>3, <3>1
    <3>3. QED
      BY <1>3, <3>1, <3>2 DEF Elems
  <2>3. QED
    BY <2>1, <2>2
<1>7. QED
  BY <1>2, <1>3, <1>4, <1>5, <1>6 DEF front, back, Front, Back, Slice

\* The elements of a concatenation.
LEMMA ConcatElems ==
    ASSUME NEW S, NEW s \in Seq(S), NEW t \in Seq(S)
    PROVE  /\ s \o t \in Seq(S) /\ Len(s \o t) = Len(s) + Len(t)
           /\ \A i \in 1..Len(s) : (s \o t)[i] = s[i]
           /\ \A i \in 1..Len(t) : (s \o t)[Len(s) + i] = t[i]
           /\ Elems(s \o t) = Elems(s) \cup Elems(t)
<1>1. Len(s) \in Nat /\ Len(t) \in Nat
  BY LenProperties
<1>2. /\ s \o t \in Seq(S) /\ Len(s \o t) = Len(s) + Len(t)
      /\ \A i \in 1..Len(s) + Len(t) :
            (s \o t)[i] = IF i <= Len(s) THEN s[i] ELSE t[i - Len(s)]
  BY ConcatProperties
<1>3. /\ \A i \in 1..Len(s) : (s \o t)[i] = s[i]
      /\ \A i \in 1..Len(t) : (s \o t)[Len(s) + i] = t[i]
  BY <1>1, <1>2
<1>4. ASSUME NEW x \in Elems(s \o t) PROVE x \in Elems(s) \cup Elems(t)
  <2>1. PICK i \in 1..Len(s) + Len(t) : x = (s \o t)[i]
    BY <1>2 DEF Elems
  <2>2. CASE i =< Len(s)
    BY <2>1, <2>2, <1>1, <1>2 DEF Elems
  <2>3. CASE i > Len(s)
    <3>1. x = t[i - Len(s)] /\ i - Len(s) \in 1..Len(t)
      BY <2>1, <2>3, <1>1, <1>2
    <3>2. QED
      BY <3>1 DEF Elems
  <2>4. QED
    BY <2>2, <2>3, <1>1
<1>5. ASSUME NEW x \in Elems(s) \cup Elems(t) PROVE x \in Elems(s \o t)
  <2>1. CASE x \in Elems(s)
    <3>1. PICK i \in 1..Len(s) : x = s[i]
      BY <2>1 DEF Elems
    <3>2. x = (s \o t)[i] /\ i \in 1..Len(s \o t)
      BY <3>1, <1>1, <1>2, <1>3
    <3>3. QED
      BY <3>2 DEF Elems
  <2>2. CASE x \in Elems(t)
    <3>1. PICK i \in 1..Len(t) : x = t[i]
      BY <2>2 DEF Elems
    <3>2. x = (s \o t)[Len(s) + i] /\ Len(s) + i \in 1..Len(s \o t)
      BY <3>1, <1>1, <1>2, <1>3
    <3>3. QED
      BY <3>2 DEF Elems
  <2>3. QED
    BY <2>1, <2>2
<1>6. QED
  BY <1>2, <1>3, <1>4, <1>5
-----------------------------------------------------------------------------
\* drain()

(***************************************************************************)
(* What run(), Settle and Fail hand to drain(): a queue, a count and       *)
(* statuses that already satisfy the invariant.                            *)
(***************************************************************************)
ReadyToDrain(queue, inFlight, st) ==
    /\ NoDuplicates(started \o queue)
    /\ Len(queue) =< QueueMax
    /\ \A j \in Jobs : st[j] = "pending" <=> j \in Elems(queue)
    /\ \A j \in Jobs : st[j] \in InFlight \cup Settled <=> j \in Elems(started)
    /\ inFlight = Len(started) - Cardinality({j \in Jobs : st[j] \in Settled})
    /\ inFlight =< MaxConcurrency

\* drain() keeps the invariant.
LEMMA DrainKeepsInvariant ==
    ASSUME NEW queue \in Seq(Jobs), NEW inFlight \in Nat,
           NEW st \in [Jobs -> Statuses], NEW al \in BOOLEAN
    PROVE  /\ TypeOK
           /\ ReadyToDrain(queue, inFlight, st)
           /\ Drain(queue, inFlight, st, al)
           /\ samples' = samples /\ rss' = rss
           /\ accepted' = started \o queue
           => IInv'
<1>0. SUFFICES ASSUME TypeOK,
                      ReadyToDrain(queue, inFlight, st),
                      Drain(queue, inFlight, st, al),
                      samples' = samples, rss' = rss,
                      accepted' = started \o queue
               PROVE  IInv'
  OBVIOUS
<1>1. PICK k \in 0..Len(queue) :
         LET taken == {queue[i] : i \in 1..k} IN
         /\ \A i \in 1..k : MayStart(queue[i], inFlight + i - 1, rss)
         /\ alerted' = AlertAfter(queue, al)
         /\ pending' = SubSeq(queue, k + 1, Len(queue))
         /\ active' = inFlight + k
         /\ status' = [j \in Jobs |-> IF j \in taken THEN "running" ELSE st[j]]
         /\ before' = [j \in Jobs |-> IF j \in taken THEN rss
                                      ELSE IF st[j] = "running" THEN before[j] ELSE 0]
         /\ drainRss' = rss
         /\ started' = started \o SubSeq(queue, 1, k)
  BY <1>0 DEF Drain
<1> DEFINE taken == Slice(queue, 1, k)
           left == Slice(queue, k + 1, Len(queue))
<1>2. /\ started \in Seq(Jobs)
      /\ k \in Nat /\ Len(queue) \in Nat /\ Len(started) \in Nat
  <2>1. started \in Seq(Jobs)
    BY <1>0 DEF TypeOK
  <2>2. QED
    BY <2>1, LenProperties
<1>3. /\ alerted' = AlertAfter(queue, al)
      /\ pending' = Back(queue, k)
      /\ active' = inFlight + k
      /\ status' = [j \in Jobs |-> IF j \in taken THEN "running" ELSE st[j]]
      /\ before' = [j \in Jobs |-> IF j \in taken THEN rss
                                   ELSE IF st[j] = "running" THEN before[j] ELSE 0]
      /\ drainRss' = rss
      /\ started' = started \o Front(queue, k)
  BY <1>1 DEF Front, Back, Slice
<1>4. /\ Front(queue, k) \in Seq(Jobs) /\ Len(Front(queue, k)) = k
      /\ Back(queue, k) \in Seq(Jobs) /\ Len(Back(queue, k)) = Len(queue) - k
      /\ Elems(Front(queue, k)) = taken
      /\ Elems(Back(queue, k)) = left
      /\ (started \o Front(queue, k)) \o Back(queue, k) = started \o queue
  <2>1. Front(queue, k) \in Seq(Jobs) /\ Len(Front(queue, k)) = k
    BY CutQueue
  <2>2. Back(queue, k) \in Seq(Jobs) /\ Len(Back(queue, k)) = Len(queue) - k
    BY CutQueue
  <2>3. Elems(Front(queue, k)) = taken
    BY CutQueue
  <2>4. Elems(Back(queue, k)) = left
    BY CutQueue
  <2>5. Front(queue, k) \o Back(queue, k) = queue
    BY CutQueue
  <2>6. (started \o Front(queue, k)) \o Back(queue, k)
           = started \o (Front(queue, k) \o Back(queue, k))
    BY <1>2, <2>1, <2>2
  <2>7. QED
    BY <2>1, <2>2, <2>3, <2>4, <2>5, <2>6
\* No call is twice in the queue, so the calls taken are not left behind.
<1>5. taken \subseteq Elems(queue) /\ left = Elems(queue) \ taken
  <2>1. ASSUME NEW i \in 1..Len(queue), NEW n \in 1..Len(queue),
               queue[i] = queue[n]
        PROVE  i = n
    <3>1. /\ Len(started \o queue) = Len(started) + Len(queue)
          /\ (started \o queue)[Len(started) + i] = queue[i]
          /\ (started \o queue)[Len(started) + n] = queue[n]
      BY <1>2, ConcatElems
    <3>2. NoDuplicates(started \o queue)
      BY <1>0 DEF ReadyToDrain
    <3>3. /\ Len(started) + i \in 1..Len(started \o queue)
          /\ Len(started) + n \in 1..Len(started \o queue)
      BY <1>2, <3>1
    <3>4. Len(started) + i = Len(started) + n
      BY <2>1, <3>1, <3>2, <3>3 DEF NoDuplicates
    <3>5. QED
      BY <1>2, <3>4
  <2>2. QED
    BY <1>2, <2>1 DEF Elems, Slice
<1>6. Elems(queue) \subseteq Jobs
  BY ElementOfSeq DEF Elems
<1> HIDE DEF taken, left
<1>7. /\ started' \in Seq(Jobs) /\ Len(started') = Len(started) + k
      /\ Elems(started') = Elems(started) \cup taken
      /\ Elems(pending') = Elems(queue) \ taken
  <2>1. started' = started \o Front(queue, k) /\ pending' = Back(queue, k)
    BY <1>3
  <2>2. QED
    BY <1>2, <1>4, <1>5, <2>1, ConcatElems
\* The calls taken were pending, so they are neither settled nor started.
<1>8. ASSUME NEW j \in taken
      PROVE  j \in Jobs /\ st[j] = "pending" /\ status'[j] = "running"
  BY <1>0, <1>3, <1>5, <1>6 DEF ReadyToDrain
<1>9. ASSUME NEW j \in Jobs, j \notin taken PROVE status'[j] = st[j]
  BY <1>3, <1>9
<1>10. TypeOK'
  <2>1. status' \in [Jobs -> Statuses]
    BY <1>3 DEF Statuses, InFlight
  <2>2. before' \in [Jobs -> Nat]
    <3>1. rss \in Nat /\ before \in [Jobs -> Nat]
      BY <1>0, QueueAssumption DEF TypeOK
    <3>2. QED
      BY <1>3, <3>1
  <2>3. active' \in Nat
    BY <1>2, <1>3
  <2>4. alerted' \in BOOLEAN
    BY <1>3 DEF AlertAfter
  <2>5. accepted' \in Seq(Jobs)
    BY <1>0, <1>2, ConcatElems
  <2>6. pending' \in Seq(Jobs)
    BY <1>3, <1>4
  <2>7. rss' \in RssLevels /\ drainRss' \in RssLevels
        /\ samples' \in [Workloads -> Seq(Nat \ {0})]
    BY <1>0, <1>3 DEF TypeOK
  <2>8. QED
    BY <1>7, <2>1, <2>2, <2>3, <2>4, <2>5, <2>6, <2>7 DEF TypeOK
<1>11. QueueIsOrdered'
  <2>1. accepted' = started' \o pending'
    BY <1>0, <1>3, <1>4
  <2>2. NoDuplicates(accepted')
    BY <1>0 DEF ReadyToDrain
  <2>3. Len(pending') =< QueueMax
    <3>1. Len(queue) =< QueueMax
      BY <1>0 DEF ReadyToDrain
    <3>2. QED
      BY <1>2, <1>3, <1>4, <3>1, QueueAssumption
  <2>4. QED
    BY <2>1, <2>2, <2>3 DEF QueueIsOrdered, NoDuplicates
<1>12. StatusMatches'
  <2>1. ASSUME NEW j \in Jobs PROVE status'[j] = "pending" <=> j \in Elems(pending')
    <3>1. st[j] = "pending" <=> j \in Elems(queue)
      BY <1>0 DEF ReadyToDrain
    <3>2. QED
      BY <1>7, <1>8, <1>9, <3>1
  <2>2. ASSUME NEW j \in Jobs
        PROVE  status'[j] \in InFlight \cup Settled <=> j \in Elems(started')
    <3>1. st[j] \in InFlight \cup Settled <=> j \in Elems(started)
      BY <1>0 DEF ReadyToDrain
    <3>2. QED
      BY <1>7, <1>8, <1>9, <3>1 DEF InFlight
  <2>3. QED
    BY <2>1, <2>2 DEF StatusMatches, Elems
<1>13. SlotsMatch'
  <2>1. SettledJobs' = {j \in Jobs : st[j] \in Settled}
    <3>1. ASSUME NEW j \in Jobs
          PROVE  status'[j] \in Settled <=> st[j] \in Settled
      BY <1>8, <1>9 DEF Settled
    <3>2. QED
      BY <3>1 DEF SettledJobs
  <2>2. active' = Len(started') - Cardinality(SettledJobs')
    <3> DEFINE settled == Cardinality({j \in Jobs : st[j] \in Settled})
    <3>1. settled \in Nat
      BY QueueAssumption, FS_Subset, FS_CardinalityType
    <3>2. inFlight = Len(started) - settled
      BY <1>0 DEF ReadyToDrain
    <3> HIDE DEF settled
    <3>3. active' = Len(started') - settled
      BY <1>2, <1>3, <1>7, <3>1, <3>2
    <3>4. QED
      BY <2>1, <3>3 DEF settled
  <2>3. active' =< MaxConcurrency
    <3>1. CASE k = 0
      BY <1>0, <1>3, <3>1 DEF ReadyToDrain
    <3>2. CASE k > 0
      <4>1. MayStart(queue[k], inFlight + k - 1, rss)
        BY <1>1, <1>2, <3>2
      <4>2. inFlight + k - 1 < MaxConcurrency
        BY <4>1 DEF MayStart
      <4>3. QED
        BY <1>2, <1>3, <4>2, QueueAssumption
    <3>3. QED
      BY <1>2, <3>1, <3>2
  <2>4. QED
    BY <2>2, <2>3 DEF SlotsMatch
<1>14. QED
  BY <1>10, <1>11, <1>12, <1>13 DEF IInv

-----------------------------------------------------------------------------
\* The actions

LEMMA InitInvariant == Init => IInv
<1> SUFFICES ASSUME Init PROVE IInv
  OBVIOUS
<1>1. TypeOK
  <2>1. status \in [Jobs -> Statuses] /\ before \in [Jobs -> Nat]
    BY DEF Init, Statuses, Outside
  <2>2. \A S : <<>> \in Seq(S)
    BY EmptySeq
  <2>3. samples \in [Workloads -> Seq(Nat \ {0})]
    BY <2>2 DEF Init
  <2>4. QED
    BY <2>1, <2>2, <2>3 DEF Init, TypeOK
<1>2. QueueIsOrdered
  <2>1. accepted = started \o pending
    BY DEF Init
  <2>2. NoDuplicates(accepted) /\ Len(pending) =< QueueMax
    BY QueueAssumption DEF Init, NoDuplicates
  <2>3. QED
    BY <2>1, <2>2 DEF QueueIsOrdered
<1>3. StatusMatches
  BY DEF Init, StatusMatches, InFlight, Settled, Elems
<1>4. SlotsMatch
  <2>1. SettledJobs = {}
    BY DEF Init, SettledJobs, Settled
  <2>2. Cardinality(SettledJobs) = 0
    BY <2>1, FS_EmptySet
  <2>3. QED
    BY <2>2, QueueAssumption DEF Init, SlotsMatch
<1>5. QED
  BY <1>1, <1>2, <1>3, <1>4 DEF IInv

\* A call keeps its side of StatusMatches and SlotsMatch when it moves within
\* Outside or within InFlight.
LEMMA StatusMoveKeepsInvariant ==
    ASSUME NEW j \in Jobs, NEW s \in Statuses
    PROVE  /\ IInv
           /\ \/ status[j] \in Outside /\ s \in Outside
              \/ status[j] \in InFlight /\ s \in InFlight
           /\ status' = [status EXCEPT ![j] = s]
           /\ samples' \in [Workloads -> Seq(Nat \ {0})]
           /\ before' \in [Jobs -> Nat]
           /\ UNCHANGED <<pending, active, alerted, rss, historyVars>>
           => IInv'
<1>0. SUFFICES ASSUME IInv,
                      \/ status[j] \in Outside /\ s \in Outside
                      \/ status[j] \in InFlight /\ s \in InFlight,
                      status' = [status EXCEPT ![j] = s],
                      samples' \in [Workloads -> Seq(Nat \ {0})],
                      before' \in [Jobs -> Nat],
                      UNCHANGED <<pending, active, alerted, rss, historyVars>>
               PROVE  IInv'
  OBVIOUS
<1>1. TypeOK'
  BY <1>0 DEF IInv, TypeOK, historyVars
<1>2. QueueIsOrdered'
  BY <1>0 DEF IInv, QueueIsOrdered, NoDuplicates, historyVars
<1>3. ASSUME NEW i \in Jobs
      PROVE  /\ status'[i] = "pending" <=> status[i] = "pending"
             /\ status'[i] \in InFlight \cup Settled <=> status[i] \in InFlight \cup Settled
             /\ status'[i] \in Settled <=> status[i] \in Settled
  <2>1. status \in [Jobs -> Statuses]
    BY <1>0 DEF IInv, TypeOK
  <2>2. CASE i # j
    BY <1>0, <2>1, <2>2
  <2>3. CASE i = j
    BY <1>0, <2>1, <2>3 DEF Outside, InFlight, Settled
  <2>4. QED
    BY <2>2, <2>3
<1>4. StatusMatches'
  <2>1. pending' = pending /\ started' = started /\ StatusMatches
    BY <1>0 DEF IInv, historyVars
  <2>2. QED
    BY <1>3, <2>1 DEF StatusMatches, Elems
<1>5. SlotsMatch'
  <2>1. SettledJobs' = SettledJobs
    BY <1>3 DEF SettledJobs
  <2>2. active' = active /\ started' = started /\ SlotsMatch
    BY <1>0 DEF IInv, historyVars
  <2>3. QED
    BY <2>1, <2>2 DEF SlotsMatch
<1>6. QED
  BY <1>1, <1>2, <1>4, <1>5 DEF IInv

LEMMA AdmitInvariant == ASSUME NEW j \in Jobs PROVE IInv /\ Admit(j) => IInv'
<1>0. SUFFICES ASSUME IInv, Admit(j) PROVE IInv'
  OBVIOUS
<1> DEFINE queue == Append(pending, j)
           st == [status EXCEPT ![j] = "pending"]
           al == alerted \/ QueueingBegins
<1>1. /\ started \in Seq(Jobs) /\ pending \in Seq(Jobs)
      /\ Len(started) \in Nat /\ Len(pending) \in Nat
      /\ active \in Nat /\ alerted \in BOOLEAN
      /\ status \in [Jobs -> Statuses]
  <2>1. started \in Seq(Jobs) /\ pending \in Seq(Jobs)
    BY <1>0 DEF IInv, TypeOK
  <2>2. Len(started) \in Nat /\ Len(pending) \in Nat
    BY <2>1, LenProperties
  <2>3. QED
    BY <1>0, <2>1, <2>2 DEF IInv, TypeOK
<1>2. /\ queue \in Seq(Jobs) /\ Len(queue) = Len(pending) + 1
      /\ Elems(queue) = Elems(pending) \cup {j}
  <2>1. /\ queue \in Seq(Jobs) /\ Len(queue) = Len(pending) + 1
        /\ \A i \in 1..Len(pending) : queue[i] = pending[i]
        /\ queue[Len(pending) + 1] = j
    BY <1>1, AppendProperties
  <2> HIDE DEF queue
  <2>2. QED
    BY <1>1, <2>1 DEF Elems
<1>3. st \in [Jobs -> Statuses] /\ al \in BOOLEAN
  BY <1>1 DEF Statuses, QueueingBegins
<1>4. started \o queue = Append(accepted, j)
  <2>1. accepted = started \o pending
    BY <1>0 DEF IInv, QueueIsOrdered
  <2>2. queue = pending \o <<j>> /\ <<j>> \in Seq(Jobs)
    BY <1>1, AppendIsConcat
  <2>3. Append(accepted, j) = accepted \o <<j>> /\ accepted \in Seq(Jobs)
    BY <1>0, AppendIsConcat DEF IInv, TypeOK
  <2>4. (started \o pending) \o <<j>> = started \o (pending \o <<j>>)
    BY <1>1, <2>2
  <2> HIDE DEF queue
  <2>5. QED
    BY <2>1, <2>2, <2>3, <2>4
\* The call is not in the queue already: it is outside.
<1>5. j \notin Elems(accepted) /\ j \notin Elems(started)
  <2>1. status[j] \in Outside
    BY <1>0 DEF Admit
  <2>2. j \notin Elems(pending) /\ j \notin Elems(started)
    BY <1>0, <2>1 DEF IInv, StatusMatches, Outside, InFlight, Settled
  <2>3. QED
    BY <1>0, <1>1, <2>2, ConcatElems DEF IInv, QueueIsOrdered
<1>6. ReadyToDrain(queue, active, st)
  <2>1. NoDuplicates(started \o queue)
    <3>1. accepted \in Seq(Jobs) /\ NoDuplicates(accepted)
      BY <1>0 DEF IInv, TypeOK, QueueIsOrdered
    <3>2. /\ Len(Append(accepted, j)) = Len(accepted) + 1 /\ Len(accepted) \in Nat
          /\ \A i \in 1..Len(accepted) : Append(accepted, j)[i] = accepted[i]
          /\ Append(accepted, j)[Len(accepted) + 1] = j
      BY <3>1, AppendProperties, LenProperties
    <3>3. NoDuplicates(Append(accepted, j))
      BY <1>5, <3>1, <3>2 DEF NoDuplicates, Elems
    <3>4. QED
      BY <1>4, <3>3
  <2>2. Len(queue) =< QueueMax
    BY <1>0, <1>1, <1>2, QueueAssumption DEF Admit, QueueFull
  <2>3. \A i \in Jobs : st[i] = "pending" <=> i \in Elems(queue)
    BY <1>0, <1>1, <1>2 DEF IInv, StatusMatches
  <2>4. \A i \in Jobs : st[i] \in InFlight \cup Settled <=> i \in Elems(started)
    BY <1>0, <1>1, <1>5 DEF IInv, StatusMatches, InFlight, Settled
  <2>5. {i \in Jobs : st[i] \in Settled} = SettledJobs
    BY <1>0, <1>1, <1>5 DEF Admit, SettledJobs, Settled, Outside
  <2>6. /\ active = Len(started) - Cardinality({i \in Jobs : st[i] \in Settled})
        /\ active =< MaxConcurrency
    BY <1>0, <2>5 DEF IInv, SlotsMatch
  <2>7. QED
    BY <2>1, <2>2, <2>3, <2>4, <2>6 DEF ReadyToDrain
<1>7. /\ TypeOK /\ Drain(queue, active, st, al)
      /\ samples' = samples /\ rss' = rss /\ accepted' = started \o queue
  BY <1>0, <1>4 DEF IInv, Admit
<1> HIDE DEF queue, st, al
<1>8. QED
  BY <1>1, <1>2, <1>3, <1>6, <1>7, DrainKeepsInvariant

\* Settle and Fail give a slot back: the call that ends had one.
LEMMA EndInvariant ==
    ASSUME NEW j \in Jobs, NEW s \in Settled
    PROVE  /\ IInv /\ status[j] \in InFlight
           /\ Drain(pending, active - 1, [status EXCEPT ![j] = s], alerted)
           /\ UNCHANGED <<samples, rss, accepted>>
           => IInv'
<1>0. SUFFICES ASSUME IInv, status[j] \in InFlight,
                      Drain(pending, active - 1, [status EXCEPT ![j] = s], alerted),
                      UNCHANGED <<samples, rss, accepted>>
               PROVE  IInv'
  OBVIOUS
<1> DEFINE st == [status EXCEPT ![j] = s]
           stSettled == {i \in Jobs : st[i] \in Settled}
<1>1. /\ started \in Seq(Jobs) /\ pending \in Seq(Jobs)
      /\ active \in Nat /\ alerted \in BOOLEAN
      /\ status \in [Jobs -> Statuses]
  BY <1>0 DEF IInv, TypeOK
<1>2. Len(started) \in Nat
  BY <1>1, LenProperties
<1>3. st \in [Jobs -> Statuses]
  BY <1>1 DEF Statuses
<1>4. stSettled = SettledJobs \cup {j} /\ j \notin SettledJobs
  BY <1>0, <1>1 DEF SettledJobs, InFlight, Settled
<1>5. /\ Cardinality(SettledJobs) \in Nat
      /\ Cardinality(stSettled) = Cardinality(SettledJobs) + 1
  <2>1. IsFiniteSet(SettledJobs)
    BY QueueAssumption, FS_Subset DEF SettledJobs
  <2>2. QED
    BY <1>4, <2>1, FS_AddElement, FS_CardinalityType
<1>6. \A i \in Jobs : st[i] \in InFlight \cup Settled <=> i \in Elems(started)
  BY <1>0, <1>1 DEF IInv, StatusMatches
<1>7. Cardinality(stSettled) =< Len(started)
  <2>1. NoDuplicates(started)
    <3>1. NoDuplicates(started \o pending)
      BY <1>0 DEF IInv, QueueIsOrdered
    <3>2. /\ Len(started \o pending) = Len(started) + Len(pending)
          /\ \A i \in 1..Len(started) : (started \o pending)[i] = started[i]
      BY <1>1, ConcatElems
    <3>3. Len(pending) \in Nat
      BY <1>1, LenProperties
    <3>4. QED
      BY <1>2, <3>1, <3>2, <3>3 DEF NoDuplicates
  <2>2. IsFiniteSet(Elems(started)) /\ Cardinality(Elems(started)) = Len(started)
    BY <1>1, <2>1, ElemsCount
  <2>3. stSettled \subseteq Elems(started)
    BY <1>6
  <2> HIDE DEF stSettled
  <2>4. QED
    BY <2>2, <2>3, FS_Subset
<1>8. ReadyToDrain(pending, active - 1, st) /\ active - 1 \in Nat
  <2>1. accepted = started \o pending /\ NoDuplicates(accepted) /\ Len(pending) =< QueueMax
    BY <1>0 DEF IInv, QueueIsOrdered
  <2>2. \A i \in Jobs : st[i] = "pending" <=> i \in Elems(pending)
    BY <1>0, <1>1 DEF IInv, StatusMatches, InFlight, Settled
  <2>3. active = Len(started) - Cardinality(SettledJobs) /\ active =< MaxConcurrency
    BY <1>0 DEF IInv, SlotsMatch
  <2>4. active - 1 = Len(started) - Cardinality(stSettled)
    BY <1>2, <1>5, <2>3
  <2>5. active - 1 \in Nat /\ active - 1 =< MaxConcurrency
    BY <1>1, <1>2, <1>5, <1>7, <2>3, <2>4, QueueAssumption
  <2>6. QED
    BY <1>6, <2>1, <2>2, <2>4, <2>5 DEF ReadyToDrain
<1>9. /\ TypeOK /\ Drain(pending, active - 1, st, alerted)
      /\ samples' = samples /\ rss' = rss /\ accepted' = started \o pending
  BY <1>0 DEF IInv, QueueIsOrdered
<1> HIDE DEF st
<1>10. QED
  BY <1>1, <1>3, <1>8, <1>9, DrainKeepsInvariant

LEMMA FinishInvariant == ASSUME NEW j \in Jobs PROVE IInv /\ Finish(j) => IInv'
<1>0. SUFFICES ASSUME IInv, Finish(j) PROVE IInv'
  OBVIOUS
<1> DEFINE w == WorkloadOf[j]
           history == Append(samples[w], Growth(j))
<1>1. w \in Workloads /\ samples \in [Workloads -> Seq(Nat \ {0})] /\ rss \in Nat
      /\ before \in [Jobs -> Nat]
  BY <1>0, QueueAssumption DEF IInv, TypeOK
<1>2. Growth(j) \in Nat \ {0}
  BY <1>1 DEF Growth
<1>3. history \in Seq(Nat \ {0}) /\ Len(history) \in Nat
      /\ \A i \in 1..Len(history) : history[i] \in Nat \ {0}
  BY <1>1, <1>2, AppendProperties, LenProperties, ElementOfSeq
<1> HIDE DEF history
<1>4. CASE Len(history) > HistoryMax
  <2> DEFINE n == Len(history)
             m == n - HistoryMax + 1
  <2>1. m \in Int /\ n \in Int /\ \A i \in m..n : history[i] \in Nat \ {0}
    BY <1>3, <1>4, QueueAssumption
  <2>2. SubSeq(history, m, n) \in Seq(Nat \ {0})
    BY <2>1, SubSeqProperties
  <2>3. samples' = [samples EXCEPT ![w] = SubSeq(history, m, n)]
    BY <1>0, <1>4 DEF Finish, RecordSample, history
  <2> HIDE DEF m, n
  <2>4. samples' \in [Workloads -> Seq(Nat \ {0})]
    BY <1>1, <2>2, <2>3
  <2>5. QED
    BY <1>0, <1>1, <2>4, StatusMoveKeepsInvariant DEF Finish, InFlight, Statuses
<1>5. CASE ~(Len(history) > HistoryMax)
  <2>1. samples' = [samples EXCEPT ![w] = history]
    BY <1>0, <1>5 DEF Finish, RecordSample, history
  <2>2. samples' \in [Workloads -> Seq(Nat \ {0})]
    BY <1>1, <1>3, <2>1
  <2>3. QED
    BY <1>0, <1>1, <2>2, StatusMoveKeepsInvariant DEF Finish, InFlight, Statuses
<1>6. QED
  BY <1>4, <1>5

LEMMA NextInvariant == IInv /\ [Next]_vars => IInv'
<1> SUFFICES ASSUME IInv, [Next]_vars PROVE IInv'
  OBVIOUS
<1>1. ASSUME NEW j \in Jobs, RefuseForMemory(j) PROVE IInv'
  BY <1>1, StatusMoveKeepsInvariant DEF RefuseForMemory, Outside, Statuses, IInv, TypeOK
<1>2. ASSUME NEW j \in Jobs, RefuseForQueue(j) PROVE IInv'
  BY <1>2, StatusMoveKeepsInvariant DEF RefuseForQueue, Outside, Statuses, IInv, TypeOK
<1>3. ASSUME NEW j \in Jobs, Admit(j) PROVE IInv'
  BY <1>3, AdmitInvariant
<1>4. ASSUME NEW j \in Jobs, Finish(j) PROVE IInv'
  BY <1>4, FinishInvariant
<1>5. ASSUME NEW j \in Jobs, Settle(j) PROVE IInv'
  BY <1>5, EndInvariant DEF Settle, InFlight, Settled
<1>6. ASSUME NEW j \in Jobs, Fail(j) PROVE IInv'
  BY <1>6, EndInvariant DEF Fail, InFlight, Settled
<1>7. CASE MemoryMoves
  BY <1>7 DEF MemoryMoves, IInv, TypeOK, QueueIsOrdered, NoDuplicates, StatusMatches,
              SlotsMatch, SettledJobs, Elems, historyVars
<1>8. CASE UNCHANGED vars
  BY <1>8 DEF vars, IInv, TypeOK, QueueIsOrdered, NoDuplicates, StatusMatches,
              SlotsMatch, SettledJobs, Elems, historyVars
<1>9. QED
  BY <1>1, <1>2, <1>3, <1>4, <1>5, <1>6, <1>7, <1>8 DEF Next, Run

-----------------------------------------------------------------------------
\* The theorems

LEMMA Invariance == Spec => []IInv
BY InitInvariant, NextInvariant, PTL DEF Spec

\* Every reachable state of the queue has the shape of class AdmissionQueue.
THEOREM TypeCorrect == Spec => []TypeOK
<1>1. IInv => TypeOK
  BY DEF IInv
<1>2. QED
  BY <1>1, Invariance, PTL

\* The calls that hold a slot are those started and not settled.
LEMMA HoldingCount == IInv => SlotAccounting
<1>0. SUFFICES ASSUME IInv PROVE SlotAccounting
  OBVIOUS
<1>1. started \in Seq(Jobs) /\ pending \in Seq(Jobs)
  BY <1>0 DEF IInv, TypeOK
<1>2. NoDuplicates(started)
  <2>1. NoDuplicates(started \o pending)
    BY <1>0 DEF IInv, QueueIsOrdered
  <2>2. /\ Len(started \o pending) = Len(started) + Len(pending)
        /\ \A i \in 1..Len(started) : (started \o pending)[i] = started[i]
        /\ Len(started) \in Nat /\ Len(pending) \in Nat
    BY <1>1, ConcatElems, LenProperties
  <2>3. QED
    BY <2>1, <2>2 DEF NoDuplicates
<1>3. IsFiniteSet(Elems(started)) /\ Cardinality(Elems(started)) = Len(started)
  BY <1>1, <1>2, ElemsCount
<1>4. Elems(started) \subseteq Jobs
  BY <1>1, ElementOfSeq DEF Elems
<1>5. Holding = Elems(started) \ SettledJobs /\ SettledJobs = Elems(started) \cap SettledJobs
  BY <1>0, <1>4 DEF IInv, StatusMatches, Holding, SettledJobs, InFlight, Settled
<1>6. Cardinality(Elems(started) \ SettledJobs)
         = Cardinality(Elems(started)) - Cardinality(Elems(started) \cap SettledJobs)
  BY <1>3, FS_Difference
<1>7. Cardinality(Holding) = Len(started) - Cardinality(SettledJobs)
  BY <1>3, <1>5, <1>6
<1>8. QED
  BY <1>0, <1>7 DEF IInv, SlotsMatch, SlotAccounting

\* active is exactly the number of calls in flight, and never passes
\* maxConcurrency, whatever is refused, finishes, fails and drains.
THEOREM SlotsAccounted == Spec => []SlotAccounting
BY Invariance, HoldingCount, PTL

\* A call in flight holds a slot.
LEMMA SlotHeld ==
    ASSUME NEW j \in Jobs
    PROVE  IInv /\ status[j] \in InFlight => active - 1 \in Nat
<1>0. SUFFICES ASSUME IInv, status[j] \in InFlight PROVE active - 1 \in Nat
  OBVIOUS
<1>1. active = Cardinality(Holding) /\ j \in Holding
  BY <1>0, HoldingCount DEF SlotAccounting, Holding
<1>2. IsFiniteSet(Holding)
  BY QueueAssumption, FS_Subset DEF Holding
<1>3. active # 0
  BY <1>1, <1>2, FS_EmptySet
<1>4. QED
  BY <1>0, <1>3 DEF IInv, TypeOK

-----------------------------------------------------------------------------
\* drain() leaves no startable call waiting, and arms the alert again when it
\* leaves the queue idle.

LEMMA DrainConserves ==
    ASSUME NEW queue \in Seq(Jobs), NEW inFlight \in Nat,
           NEW st \in [Jobs -> Statuses], NEW al \in BOOLEAN
    PROVE  Drain(queue, inFlight, st, al) /\ samples' = samples => WorkConserving'
<1>0. SUFFICES ASSUME Drain(queue, inFlight, st, al), samples' = samples,
                      pending' # <<>>
               PROVE  ~MayStart(Head(pending), active, drainRss)'
  BY DEF WorkConserving
<1>1. PICK k \in 0..Len(queue) :
         /\ k < Len(queue) => ~MayStart(queue[k + 1], inFlight + k, rss)
         /\ pending' = SubSeq(queue, k + 1, Len(queue))
         /\ active' = inFlight + k
         /\ drainRss' = rss
  BY <1>0 DEF Drain
<1>2. Len(queue) \in Nat
  BY LenProperties
<1>3. k < Len(queue)
  <2>1. CASE k = Len(queue)
    <3>1. SubSeq(queue, k + 1, Len(queue)) = <<>>
      BY <1>2, <2>1, SubSeqEmpty
    <3>2. QED
      BY <1>0, <1>1, <3>1
  <2>2. QED
    BY <1>2, <2>1
<1>4. Head(pending') = queue[k + 1]
  <2>1. k + 1 \in 1..Len(queue) /\ Len(queue) \in (k + 1)..Len(queue)
    BY <1>2, <1>3
  <2>2. Head(SubSeq(queue, k + 1, Len(queue))) = queue[k + 1]
    BY <2>1, HeadTailOfSubSeq
  <2>3. QED
    BY <1>1, <2>2
<1>5. ~MayStart(queue[k + 1], inFlight + k, rss)
  BY <1>1, <1>3
<1>6. QED
  BY <1>0, <1>1, <1>4, <1>5 DEF MayStart, MemorySlots, Estimate

LEMMA ConservesNext == IInv /\ WorkConserving /\ [Next]_vars => WorkConserving'
<1>0. SUFFICES ASSUME IInv, WorkConserving, [Next]_vars PROVE WorkConserving'
  OBVIOUS
<1>1. /\ pending \in Seq(Jobs) /\ active \in Nat /\ alerted \in BOOLEAN
      /\ status \in [Jobs -> Statuses]
  BY <1>0 DEF IInv, TypeOK
<1>2. ASSUME NEW j \in Jobs, Settle(j) \/ Fail(j) PROVE active - 1 \in Nat
  BY <1>0, <1>2, SlotHeld DEF Settle, Fail, InFlight
<1>3. ASSUME NEW j \in Jobs, RefuseForMemory(j) \/ RefuseForQueue(j) PROVE WorkConserving'
  <2>1. /\ pending' = pending /\ active' = active /\ drainRss' = drainRss
        /\ samples' = samples
    BY <1>3 DEF RefuseForMemory, RefuseForQueue, historyVars
  <2>2. \A i \in Jobs : status[i] = "recorded" => status'[i] = "recorded"
    BY <1>1, <1>3 DEF RefuseForMemory, RefuseForQueue, Outside
  <2>3. QED
    BY <1>0, <2>1, <2>2 DEF WorkConserving, MayStart, MemorySlots, Estimate
<1>4. ASSUME NEW j \in Jobs, Admit(j) PROVE WorkConserving'
  <2>1. Append(pending, j) \in Seq(Jobs)
    BY <1>1, AppendProperties
  <2>2. [status EXCEPT ![j] = "pending"] \in [Jobs -> Statuses]
        /\ (alerted \/ QueueingBegins) \in BOOLEAN
    BY <1>1 DEF Statuses, QueueingBegins
  <2>3. QED
    BY <1>1, <1>4, <2>1, <2>2, DrainConserves DEF Admit
<1>5. ASSUME NEW j \in Jobs, Finish(j) PROVE WorkConserving'
  <2>1. status'[j] = "recorded"
    BY <1>1, <1>5 DEF Finish
  <2>2. QED
    BY <2>1 DEF WorkConserving
<1>6. ASSUME NEW j \in Jobs, Settle(j) PROVE WorkConserving'
  <2>1. [status EXCEPT ![j] = "resolved"] \in [Jobs -> Statuses]
    BY <1>1 DEF Statuses, Settled
  <2>2. QED
    BY <1>1, <1>2, <1>6, <2>1, DrainConserves DEF Settle
<1>7. ASSUME NEW j \in Jobs, Fail(j) PROVE WorkConserving'
  <2>1. [status EXCEPT ![j] = "rejected"] \in [Jobs -> Statuses]
    BY <1>1 DEF Statuses, Settled
  <2>2. QED
    BY <1>1, <1>2, <1>7, <2>1, DrainConserves DEF Fail
<1>8. CASE MemoryMoves
  BY <1>0, <1>8 DEF MemoryMoves, historyVars, WorkConserving, MayStart, MemorySlots, Estimate
<1>9. CASE UNCHANGED vars
  BY <1>0, <1>9 DEF vars, historyVars, WorkConserving, MayStart, MemorySlots, Estimate
<1>10. QED
  BY <1>0, <1>3, <1>4, <1>5, <1>6, <1>7, <1>8, <1>9 DEF Next, Run

\* Outside the gap between a task's end and its callback, the head of the
\* queue could not start with the memory figure the last drain() read.
THEOREM NoStartableCallWaits == Spec => []WorkConserving
<1>1. Init => WorkConserving
  BY DEF Init, WorkConserving
<1>2. QED
  BY <1>1, ConservesNext, Invariance, PTL DEF Spec

LEMMA DrainRearms ==
    ASSUME NEW queue \in Seq(Jobs), NEW inFlight \in Nat,
           NEW st \in [Jobs -> Statuses], NEW al \in BOOLEAN
    PROVE  Drain(queue, inFlight, st, al) => IdleRearmsAlert'
<1>0. SUFFICES ASSUME Drain(queue, inFlight, st, al), active' = 0, pending' = <<>>
               PROVE  ~alerted'
  BY DEF IdleRearmsAlert
<1>1. PICK k \in 0..Len(queue) :
         /\ alerted' = AlertAfter(queue, al)
         /\ pending' = SubSeq(queue, k + 1, Len(queue))
         /\ active' = inFlight + k
  BY <1>0 DEF Drain
<1>2. k = 0
  BY <1>0, <1>1, LenProperties
<1>3. queue = <<>>
  <2>1. SubSeq(queue, 1, Len(queue)) = queue
    BY SubSeqFull
  <2>2. QED
    BY <1>0, <1>1, <1>2, <2>1
<1>4. QED
  BY <1>1, <1>3 DEF AlertAfter

LEMMA RearmsNext == IInv /\ IdleRearmsAlert /\ [Next]_vars => IdleRearmsAlert'
<1>0. SUFFICES ASSUME IInv, IdleRearmsAlert, [Next]_vars PROVE IdleRearmsAlert'
  OBVIOUS
<1>1. /\ pending \in Seq(Jobs) /\ active \in Nat /\ alerted \in BOOLEAN
      /\ status \in [Jobs -> Statuses]
  BY <1>0 DEF IInv, TypeOK
<1>2. ASSUME NEW j \in Jobs, RefuseForMemory(j) \/ RefuseForQueue(j) \/ Finish(j)
      PROVE  IdleRearmsAlert'
  BY <1>0, <1>2 DEF RefuseForMemory, RefuseForQueue, Finish, IdleRearmsAlert
<1>3. ASSUME NEW j \in Jobs, Admit(j) PROVE IdleRearmsAlert'
  <2>1. Append(pending, j) \in Seq(Jobs)
    BY <1>1, AppendProperties
  <2>2. [status EXCEPT ![j] = "pending"] \in [Jobs -> Statuses]
        /\ (alerted \/ QueueingBegins) \in BOOLEAN
    BY <1>1 DEF Statuses, QueueingBegins
  <2>3. QED
    BY <1>1, <1>3, <2>1, <2>2, DrainRearms DEF Admit
<1>4. ASSUME NEW j \in Jobs, Settle(j) PROVE IdleRearmsAlert'
  <2>1. active - 1 \in Nat /\ [status EXCEPT ![j] = "resolved"] \in [Jobs -> Statuses]
    BY <1>0, <1>1, <1>4, SlotHeld DEF Settle, InFlight, Statuses, Settled
  <2>2. QED
    BY <1>1, <1>4, <2>1, DrainRearms DEF Settle
<1>5. ASSUME NEW j \in Jobs, Fail(j) PROVE IdleRearmsAlert'
  <2>1. active - 1 \in Nat /\ [status EXCEPT ![j] = "rejected"] \in [Jobs -> Statuses]
    BY <1>0, <1>1, <1>5, SlotHeld DEF Fail, InFlight, Statuses, Settled
  <2>2. QED
    BY <1>1, <1>5, <2>1, DrainRearms DEF Fail
<1>6. CASE MemoryMoves
  BY <1>0, <1>6 DEF MemoryMoves, IdleRearmsAlert
<1>7. CASE UNCHANGED vars
  BY <1>0, <1>7 DEF vars, IdleRearmsAlert
<1>8. QED
  BY <1>0, <1>2, <1>3, <1>4, <1>5, <1>6, <1>7 DEF Next, Run

\* An idle queue has its operator alert armed: the next call that has to wait
\* for a slot is reported.
THEOREM IdleQueueIsArmed == Spec => []IdleRearmsAlert
<1>1. Init => IdleRearmsAlert
  BY DEF Init, IdleRearmsAlert
<1>2. QED
  BY <1>1, RearmsNext, Invariance, PTL DEF Spec

-----------------------------------------------------------------------------
\* The queue implements its contract.

\* The contract's copy of Cardinality is Cardinality.
LEMMA SameCardinality == \A S : Contract!Cardinality(S) = Cardinality(S)
BY Zenon DEF Cardinality, Contract!Cardinality

\* drain() begins calls within both bounds and settles none.
LEMMA DrainBegins ==
    ASSUME NEW queue \in Seq(Jobs), NEW inFlight \in Nat,
           NEW st \in [Jobs -> Statuses], NEW al \in BOOLEAN
    PROVE  /\ TypeOK /\ IInv'
           /\ Drain(queue, inFlight, st, al)
           /\ \A j \in Jobs : j \in Elems(queue) => st[j] = "pending"
           => Contract!BeginSome /\ SettledJobs' = {j \in Jobs : st[j] \in Settled}
<1>0. SUFFICES ASSUME TypeOK, IInv',
                      Drain(queue, inFlight, st, al),
                      \A j \in Jobs : j \in Elems(queue) => st[j] = "pending"
               PROVE  Contract!BeginSome /\ SettledJobs' = {j \in Jobs : st[j] \in Settled}
  OBVIOUS
<1>1. PICK k \in 0..Len(queue) :
         /\ status' = [j \in Jobs |-> IF j \in {queue[i] : i \in 1..k} THEN "running"
                                      ELSE st[j]]
         /\ started' = started \o SubSeq(queue, 1, k)
  BY <1>0 DEF Drain
<1>2. /\ started \in Seq(Jobs) /\ Len(started) \in Nat /\ Len(queue) \in Nat
      /\ started' \in Seq(Jobs) /\ pending' \in Seq(Jobs)
      /\ Len(started') \in Nat /\ Len(pending') \in Nat
  <2>1. started \in Seq(Jobs) /\ started' \in Seq(Jobs) /\ pending' \in Seq(Jobs)
    BY <1>0 DEF IInv, TypeOK
  <2>2. QED
    BY <2>1, LenProperties
<1>3. SettledJobs' = {j \in Jobs : st[j] \in Settled}
  <2>1. ASSUME NEW j \in Jobs PROVE status'[j] \in Settled <=> st[j] \in Settled
    <3>1. CASE j \in {queue[i] : i \in 1..k}
      <4>1. j \in Elems(queue)
        BY <1>2, <3>1 DEF Elems
      <4>2. status'[j] = "running" /\ st[j] = "pending"
        BY <1>0, <1>1, <3>1, <4>1
      <4>3. QED
        BY <4>2 DEF Settled
    <3>2. CASE j \notin {queue[i] : i \in 1..k}
      BY <1>1, <3>2
    <3>3. QED
      BY <3>1, <3>2
  <2>2. QED
    BY <2>1 DEF SettledJobs
<1>4. Len(started') = Len(started) + k
  <2>1. Front(queue, k) \in Seq(Jobs) /\ Len(Front(queue, k)) = k
    BY CutQueue
  <2>2. started' = started \o Front(queue, k)
    BY <1>1 DEF Front
  <2>3. QED
    BY <1>2, <2>1, <2>2, ConcatElems
<1>5. Len(accepted') = Len(started') + Len(pending')
  <2>1. accepted' = started' \o pending'
    BY <1>0 DEF IInv, QueueIsOrdered
  <2>2. QED
    BY <1>2, <2>1, ConcatElems
<1>6. /\ Len(pending') =< QueueMax
      /\ active' = Len(started') - Cardinality(SettledJobs')
      /\ active' =< MaxConcurrency
  BY <1>0 DEF IInv, QueueIsOrdered, SlotsMatch
<1>7. Contract!BeginSome
  <2>1. Len(started') \in Len(started)..Len(accepted')
    BY <1>2, <1>4, <1>5
  <2>2. Len(accepted') - Len(started') =< QueueMax
    BY <1>2, <1>5, <1>6
  <2>3. Len(started)' - Cardinality(SettledJobs)' =< MaxConcurrency
    BY <1>6
  <2>4. Len(started)' \in Len(started)..Len(accepted') /\ Len(accepted') - Len(started)' =< QueueMax
    BY <2>1, <2>2
  <2>5. QED
    BY <2>3, <2>4, SameCardinality DEF Contract!BeginSome
<1>8. QED
  BY <1>3, <1>7

LEMMA AdmitAccepts ==
    ASSUME NEW j \in Jobs
    PROVE  IInv /\ IInv' /\ Admit(j) => Contract!Accept(j)
<1>0. SUFFICES ASSUME IInv, IInv', Admit(j) PROVE Contract!Accept(j)
  OBVIOUS
<1> DEFINE queue == Append(pending, j)
           st == [status EXCEPT ![j] = "pending"]
           al == alerted \/ QueueingBegins
<1>1. /\ started \in Seq(Jobs) /\ pending \in Seq(Jobs) /\ active \in Nat
      /\ alerted \in BOOLEAN /\ status \in [Jobs -> Statuses] /\ status[j] \in Outside
  BY <1>0 DEF IInv, TypeOK, Admit
<1>2. queue \in Seq(Jobs) /\ Elems(queue) = Elems(pending) \cup {j}
  <2>1. /\ queue \in Seq(Jobs) /\ Len(queue) = Len(pending) + 1
        /\ \A i \in 1..Len(pending) : queue[i] = pending[i]
        /\ queue[Len(pending) + 1] = j /\ Len(pending) \in Nat
    BY <1>1, AppendProperties, LenProperties
  <2> HIDE DEF queue
  <2>2. QED
    BY <2>1 DEF Elems
<1>3. st \in [Jobs -> Statuses] /\ al \in BOOLEAN
  BY <1>1 DEF Statuses, QueueingBegins
<1>4. \A i \in Jobs : i \in Elems(queue) => st[i] = "pending"
  BY <1>0, <1>1, <1>2 DEF IInv, StatusMatches
<1>5. {i \in Jobs : st[i] \in Settled} = SettledJobs
  BY <1>1 DEF SettledJobs, Settled, Outside
<1>6. Drain(queue, active, st, al) /\ TypeOK
  BY <1>0 DEF Admit, IInv
<1>7. j \notin Elems(accepted)
  <2>1. j \notin Elems(pending) /\ j \notin Elems(started)
    BY <1>0, <1>1 DEF IInv, StatusMatches, Outside, InFlight, Settled
  <2>2. QED
    BY <1>0, <1>1, <2>1, ConcatElems DEF IInv, QueueIsOrdered
<1>8. accepted' = Append(accepted, j)
  BY <1>0 DEF Admit
<1> HIDE DEF queue, st, al
<1>9. Contract!BeginSome /\ SettledJobs' = SettledJobs
  BY <1>0, <1>1, <1>2, <1>3, <1>4, <1>5, <1>6, DrainBegins
<1>10. QED
  BY <1>7, <1>8, <1>9 DEF Contract!Accept, Contract!Accepted, Elems

LEMMA EndSettles ==
    ASSUME NEW j \in Jobs, NEW s \in Settled
    PROVE  /\ IInv /\ IInv' /\ status[j] \in InFlight
           /\ Drain(pending, active - 1, [status EXCEPT ![j] = s], alerted)
           /\ accepted' = accepted
           => Contract!SettleOne(j)
<1>0. SUFFICES ASSUME IInv, IInv', status[j] \in InFlight,
                      Drain(pending, active - 1, [status EXCEPT ![j] = s], alerted),
                      accepted' = accepted
               PROVE  Contract!SettleOne(j)
  OBVIOUS
<1> DEFINE st == [status EXCEPT ![j] = s]
<1>1. /\ started \in Seq(Jobs) /\ pending \in Seq(Jobs) /\ active \in Nat
      /\ alerted \in BOOLEAN /\ status \in [Jobs -> Statuses]
  BY <1>0 DEF IInv, TypeOK
<1>2. active - 1 \in Nat
  BY <1>0, SlotHeld
<1>3. st \in [Jobs -> Statuses]
  BY <1>1 DEF Statuses
<1>4. \A i \in Jobs : i \in Elems(pending) => st[i] = "pending"
  BY <1>0, <1>1 DEF IInv, StatusMatches, InFlight
<1>5. {i \in Jobs : st[i] \in Settled} = SettledJobs \cup {j} /\ j \notin SettledJobs
  BY <1>0, <1>1 DEF SettledJobs, InFlight, Settled
<1>6. Drain(pending, active - 1, st, alerted) /\ TypeOK
  BY <1>0 DEF IInv
<1>7. j \in Contract!Begun
  <2>1. j \in Elems(started)
    BY <1>0 DEF IInv, StatusMatches
  <2>2. accepted = started \o pending
    BY <1>0 DEF IInv, QueueIsOrdered
  <2>3. \A i \in 1..Len(started) : accepted[i] = started[i]
    BY <1>1, <2>2, ConcatElems
  <2>4. QED
    BY <2>1, <2>3 DEF Elems, Contract!Begun
<1> HIDE DEF st
<1>8. Contract!BeginSome /\ SettledJobs' = SettledJobs \cup {j}
  BY <1>0, <1>1, <1>2, <1>3, <1>4, <1>5, <1>6, DrainBegins
<1>9. QED
  BY <1>0, <1>5, <1>7, <1>8 DEF Contract!SettleOne

LEMMA RefinesInit == Init => Contract!ContractInit
<1> SUFFICES ASSUME Init PROVE Contract!ContractInit
  OBVIOUS
<1>1. SettledJobs = {}
  BY DEF Init, SettledJobs, Settled
<1>2. Len(started) = 0
  BY DEF Init
<1>3. QED
  BY <1>1, <1>2 DEF Init, Contract!ContractInit

LEMMA RefinesNext ==
    IInv /\ IInv' /\ [Next]_vars => [Contract!ContractNext]_(Contract!contractVars)
<1>0. SUFFICES ASSUME IInv, IInv', [Next]_vars
               PROVE  [Contract!ContractNext]_(Contract!contractVars)
  OBVIOUS
<1>1. status \in [Jobs -> Statuses]
  BY <1>0 DEF IInv, TypeOK
<1>2. ASSUME NEW j \in Jobs, RefuseForMemory(j) \/ RefuseForQueue(j)
      PROVE  UNCHANGED Contract!contractVars
  BY <1>1, <1>2 DEF RefuseForMemory, RefuseForQueue, Contract!contractVars, historyVars,
                    SettledJobs, Settled, Outside
<1>3. ASSUME NEW j \in Jobs, Finish(j) PROVE UNCHANGED Contract!contractVars
  BY <1>1, <1>3 DEF Finish, Contract!contractVars, historyVars, SettledJobs, Settled
<1>4. ASSUME NEW j \in Jobs, Admit(j) PROVE Contract!ContractNext
  BY <1>0, <1>4, AdmitAccepts DEF Contract!ContractNext
<1>5. ASSUME NEW j \in Jobs, Settle(j) PROVE Contract!ContractNext
  <2>1. Contract!SettleOne(j)
    BY <1>0, <1>5, EndSettles DEF Settle, InFlight, Settled
  <2>2. QED
    BY <2>1 DEF Contract!ContractNext
<1>6. ASSUME NEW j \in Jobs, Fail(j) PROVE Contract!ContractNext
  <2>1. Contract!SettleOne(j)
    BY <1>0, <1>6, EndSettles DEF Fail, InFlight, Settled
  <2>2. QED
    BY <2>1 DEF Contract!ContractNext
<1>7. CASE MemoryMoves
  BY <1>7 DEF MemoryMoves, Contract!contractVars, historyVars, SettledJobs
<1>8. CASE UNCHANGED vars
  BY <1>8 DEF vars, Contract!contractVars, historyVars, SettledJobs
<1>9. QED
  BY <1>0, <1>2, <1>3, <1>4, <1>5, <1>6, <1>7, <1>8 DEF Next, Run

\* Every behaviour of the queue is one of the contract: calls begin in the
\* order they were accepted, at most maxConcurrency are in flight, and at most
\* queueMax accepted calls wait.
THEOREM ContractKept == Spec => KeepsContract
<1>1. Spec => Contract!ContractInit
  BY RefinesInit, PTL DEF Spec
<1>2. Spec => [][Contract!ContractNext]_(Contract!contractVars)
  BY RefinesNext, Invariance, PTL DEF Spec
<1>3. QED
  BY <1>1, <1>2, PTL DEF KeepsContract, Contract!ContractSpec
-----------------------------------------------------------------------------
\* Estimates

\* A finite set of numbers that is not empty has a largest one.
LEMMA GreatestNumber ==
    ASSUME NEW T \in SUBSET Nat, IsFiniteSet(T), T # {}
    PROVE  \E n \in T : \A m \in T : m <= n
<1> DEFINE Above(x) == {y \in T : y > x}
           counts == {Cardinality(Above(x)) : x \in T}
<1>1. \A x \in T : IsFiniteSet(Above(x)) /\ Cardinality(Above(x)) \in Nat
  BY FS_Subset, FS_CardinalityType
<1>2. PICK c \in counts : \A d \in counts : c <= d
  <2>1. counts \in SUBSET Nat /\ counts # {}
    BY <1>1
  <2> HIDE DEF counts
  <2>2. QED
    BY <2>1, LeastNumber
<1>3. PICK n \in T : c = Cardinality(Above(n))
  BY <1>2
<1>4. ASSUME NEW m \in T, ~(m <= n) PROVE FALSE
  <2>1. m \in Above(n) /\ m \notin Above(m)
    BY <1>4
  <2>2. Above(m) \subseteq Above(n)
    <3>1. m \in Nat /\ n \in Nat /\ n < m
      BY <1>4
    <3>2. \A y \in T : y \in Nat /\ (y > m => y > n)
      BY <3>1
    <3>3. QED
      BY <3>2
  <2>3. Cardinality(Above(m)) <= Cardinality(Above(n)) /\ Above(m) # Above(n)
    BY <1>1, <2>1, <2>2, FS_Subset
  <2>4. Cardinality(Above(m)) # Cardinality(Above(n))
    BY <1>1, <2>2, <2>3, FS_Subset
  <2>5. Cardinality(Above(n)) <= Cardinality(Above(m))
    BY <1>2, <1>3
  <2> HIDE DEF Above
  <2>6. QED
    BY <1>1, <2>3, <2>4, <2>5
<1>5. QED
  BY <1>3, <1>4

\* What P90 asks of the value it chooses.
AtMost(values, v) == {i \in 1..Len(values) : values[i] =< v}
Below(values, v) == {i \in 1..Len(values) : values[i] < v}
IsP90(values, v) ==
    /\ Cardinality(AtMost(values, v)) >= Rank(Len(values))
    /\ Cardinality(Below(values, v)) < Rank(Len(values))

(***************************************************************************)
(* Samples that are not empty have a 90th percentile among them: the least *)
(* of the values with enough samples at or below it.  The largest value is *)
(* such a one; the samples below the least are those at or below the next  *)
(* smaller value, too few.                                                 *)
(***************************************************************************)
LEMMA P90Exists ==
    ASSUME NEW values \in Seq(Nat \ {0}), values # <<>>
    PROVE  \E v \in Elems(values) : IsP90(values, v)
<1> DEFINE n == Len(values)
           good == {v \in Elems(values) : Cardinality(AtMost(values, v)) >= Rank(n)}
<1>1. n \in Nat /\ n # 0 /\ \A i \in 1..n : values[i] \in Nat
  BY LenProperties, ElementOfSeq, EmptySeq
<1>2. Elems(values) \in SUBSET Nat /\ Elems(values) # {}
  <2>1. 1 \in 1..n
    BY <1>1
  <2>2. QED
    BY <1>1, <2>1 DEF Elems
<1>3. IsFiniteSet(1..n) /\ Cardinality(1..n) = n
  BY <1>1, FS_Interval
<1>4. IsFiniteSet(Elems(values))
  <2> DEFINE f == [i \in 1..n |-> values[i]]
  <2>1. f \in Surjection(1..n, Elems(values))
    BY DEF Surjection, Elems
  <2>2. QED
    BY <1>3, <2>1, FS_Surjection
<1>5. Rank(n) \in Nat /\ 0 < Rank(n) /\ Rank(n) <= n
  BY <1>1 DEF Rank
<1>6. \A v : /\ AtMost(values, v) \subseteq 1..n /\ Below(values, v) \subseteq 1..n
             /\ Cardinality(AtMost(values, v)) \in Nat
             /\ Cardinality(Below(values, v)) \in Nat
  <2>1. \A v : AtMost(values, v) \subseteq 1..n /\ Below(values, v) \subseteq 1..n
    BY DEF AtMost, Below
  <2>2. QED
    BY <1>3, <2>1, FS_Subset, FS_CardinalityType
<1>7. good # {}
  <2>1. PICK m \in Elems(values) : \A v \in Elems(values) : v <= m
    BY <1>2, <1>4, GreatestNumber
  <2>2. AtMost(values, m) = 1..n
    BY <2>1 DEF AtMost, Elems
  <2>3. QED
    BY <1>3, <1>5, <2>1, <2>2
<1>8. PICK v \in good : \A u \in good : v <= u
  <2>1. good \in SUBSET Nat
    BY <1>2
  <2> HIDE DEF good
  <2>2. QED
    BY <1>7, <2>1, LeastNumber
<1>9. v \in Elems(values) /\ v \in Nat /\ Cardinality(AtMost(values, v)) >= Rank(n)
  BY <1>2, <1>8
<1>10. Cardinality(Below(values, v)) < Rank(n)
  <2> DEFINE smaller == {u \in Elems(values) : u < v}
  <2>1. CASE smaller = {}
    <3>1. Below(values, v) = {}
      BY <2>1 DEF Below, Elems
    <3>2. QED
      BY <1>5, <3>1, FS_EmptySet
  <2>2. CASE smaller # {}
    <3>1. smaller \in SUBSET Nat /\ IsFiniteSet(smaller)
      BY <1>2, <1>4, FS_Subset
    <3>2. PICK u \in smaller : \A x \in smaller : x <= u
      <4> HIDE DEF smaller
      <4>1. QED
        BY <2>2, <3>1, GreatestNumber
    <3>3. AtMost(values, u) = Below(values, v)
      <4>1. ASSUME NEW i \in 1..n, values[i] =< u PROVE values[i] < v
        BY <1>1, <1>9, <3>1, <3>2, <4>1
      <4>2. ASSUME NEW i \in 1..n, values[i] < v PROVE values[i] =< u
        BY <3>2, <4>2 DEF Elems
      <4>3. QED
        BY <4>1, <4>2 DEF AtMost, Below
    <3>4. u \notin good
      <4>1. u \in Nat /\ u < v
        BY <3>1, <3>2
      <4>2. QED
        BY <1>8, <1>9, <4>1
    <3>5. u \in Elems(values)
      BY <3>2
    <3>6. ~(Cardinality(AtMost(values, u)) >= Rank(n))
      BY <3>4, <3>5
    <3>7. QED
      BY <1>5, <1>6, <3>3, <3>6
  <2>3. QED
    BY <2>1, <2>2
<1>11. QED
  BY <1>9, <1>10 DEF IsP90

\* An estimate is a positive number, whatever was sampled.
LEMMA EstimateType ==
    ASSUME TypeOK, NEW w \in Workloads
    PROVE  Estimate(w) \in Nat \ {0}
<1>1. samples[w] \in Seq(Nat \ {0}) /\ DefaultEstimate[w] \in Nat \ {0}
  BY QueueAssumption DEF TypeOK
<1> DEFINE values == samples[w]
<1>2. CASE values = <<>>
  BY <1>1, <1>2 DEF Estimate, P90
<1>3. CASE values # <<>>
  <2> HIDE DEF values
  <2>1. \E v \in Elems(values) : IsP90(values, v)
    BY <1>1, <1>3, P90Exists DEF values
  <2>2. P90(values, DefaultEstimate[w]) \in Elems(values)
    BY <1>3, <2>1 DEF P90, IsP90, AtMost, Below, Elems
  <2>3. Elems(values) \subseteq Nat \ {0}
    BY <1>1, ElementOfSeq DEF Elems, values
  <2>4. QED
    BY <2>2, <2>3 DEF Estimate, values
<1>4. QED
  BY <1>2, <1>3

-----------------------------------------------------------------------------
\* A call accepted by an idle queue starts

\* What fits at least once in what is left has a slot.
LEMMA OneFits ==
    ASSUME NEW a \in Nat, NEW b \in Nat \ {0}, b <= a
    PROVE  a \div b > 0 /\ a \div b \in Nat
OBVIOUS

\* run() and drain() agree: what passed the memory test has a memory slot.
LEMMA AdmittedMayStart ==
    ASSUME TypeOK, NEW j \in Jobs, ~MemoryRefuses(j)
    PROVE  MayStart(j, 0, rss)
<1>1. WorkloadOf[j] \in Workloads
  BY QueueAssumption
<1>2. Estimate(WorkloadOf[j]) \in Nat \ {0}
  BY <1>1, EstimateType
<1>3. rss \in Nat /\ Budget \in Nat /\ MaxConcurrency > 0
  BY QueueAssumption DEF TypeOK, Budget
<1>4. Budget - rss \in Nat /\ Estimate(WorkloadOf[j]) <= Budget - rss
  BY <1>2, <1>3 DEF MemoryRefuses
<1>5. (Budget - rss) \div Estimate(WorkloadOf[j]) > 0
  BY <1>2, <1>4, OneFits
<1>6. QED
  BY <1>3, <1>5 DEF MayStart, MemorySlots

\* drain() empties a queue of one call that may start.
LEMMA DrainEmpties ==
    ASSUME NEW queue \in Seq(Jobs), NEW inFlight \in Nat,
           NEW st \in [Jobs -> Statuses], NEW al \in BOOLEAN,
           Len(queue) = 1, MayStart(queue[1], inFlight, rss)
    PROVE  Drain(queue, inFlight, st, al) => pending' = <<>>
<1>1. SUFFICES ASSUME Drain(queue, inFlight, st, al) PROVE pending' = <<>>
  OBVIOUS
<1>2. PICK k \in 0..1 :
         /\ k < 1 => ~MayStart(queue[k + 1], inFlight + k, rss)
         /\ pending' = SubSeq(queue, k + 1, 1)
  BY <1>1 DEF Drain
<1>3. ASSUME k = 0 PROVE FALSE
  <2>1. MayStart(queue[k + 1], inFlight + k, rss)
    BY <1>3
  <2>2. QED
    BY <1>2, <1>3, <2>1
<1>4. k = 1
  BY <1>2, <1>3
<1>5. SubSeq(queue, 1 + 1, 1) = <<>>
  BY SubSeqEmpty
<1>6. QED
  BY <1>2, <1>4, <1>5

LEMMA IdleStep ==
    IInv /\ [Next]_vars => ((active = 0 /\ pending = <<>>) => pending' = <<>>)
<1>0. SUFFICES ASSUME IInv, [Next]_vars, active = 0, pending = <<>>
               PROVE  pending' = <<>>
  OBVIOUS
<1>1. TypeOK
  BY <1>0 DEF IInv
<1>2. ASSUME NEW j \in Jobs, RefuseForMemory(j) \/ RefuseForQueue(j) \/ Finish(j)
      PROVE  pending' = <<>>
  BY <1>0, <1>2 DEF RefuseForMemory, RefuseForQueue, Finish
<1>3. ASSUME NEW j \in Jobs, Admit(j) PROVE pending' = <<>>
  <2> DEFINE queue == Append(pending, j)
             st == [status EXCEPT ![j] = "pending"]
             al == alerted \/ QueueingBegins
  <2>1. queue \in Seq(Jobs) /\ Len(queue) = 1 /\ queue[1] = j
    BY <1>0, <1>3
  <2>2. ~MemoryRefuses(j)
    BY <1>3 DEF Admit
  <2>3. MayStart(queue[1], active, rss)
    BY <1>0, <1>1, <2>1, <2>2, AdmittedMayStart
  <2>4. Drain(queue, active, st, al)
    BY <1>3 DEF Admit
  <2>5. active \in Nat /\ st \in [Jobs -> Statuses] /\ al \in BOOLEAN
    BY <1>1 DEF TypeOK, Statuses, QueueingBegins
  <2> HIDE DEF queue, st, al
  <2>6. QED
    BY <2>1, <2>3, <2>4, <2>5, DrainEmpties
<1>4. ASSUME NEW j \in Jobs, Settle(j) \/ Fail(j) PROVE pending' = <<>>
  <2>1. active - 1 \in Nat
    BY <1>0, <1>4, SlotHeld DEF Settle, Fail, InFlight
  <2>2. QED
    BY <1>0, <2>1
<1>5. CASE MemoryMoves
  BY <1>0, <1>5 DEF MemoryMoves
<1>6. CASE UNCHANGED vars
  BY <1>0, <1>6 DEF vars
<1>7. QED
  BY <1>0, <1>2, <1>3, <1>4, <1>5, <1>6 DEF Next, Run

(***************************************************************************)
(* The admission test of run() and the slot arithmetic of drain() agree,   *)
(* whatever was sampled: a call accepted while nothing runs and nothing    *)
(* waits starts in that call, so an idle queue never holds a call that     *)
(* nothing would ever start.                                               *)
(***************************************************************************)
THEOREM IdleCallsStart == Spec => IdleAdmissionStarts
<1>1. IInv /\ [Next]_vars => [(active = 0 /\ pending = <<>>) => pending' = <<>>]_vars
  BY IdleStep
<1>2. QED
  BY <1>1, Invariance, PTL DEF Spec, IdleAdmissionStarts

=============================================================================
