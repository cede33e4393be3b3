------------------------- MODULE ResponseCacheProofs -------------------------
(***************************************************************************)
(* For any requests, keys, bodies and limits, with crashes and failing     *)
(* writes or without: single flight, the shape of the state, the count and *)
(* the bound of the memory layer, and that what has been removed is not    *)
(* served again.  Without them: that no file is left behind, and the bound *)
(* of the disk layer.                                                      *)
(***************************************************************************)
EXTENDS ResponseCache, SequenceTheorems, SumTheorems, TLAPS

\* What the first two proofs need of TypeOK; the memory layer, whose byte
\* count is a sum, follows below.
Shapes ==
    /\ inflight \in [Keys -> Requests \cup {NoRequest}]
    /\ row \in [Keys -> Bodies \cup {NoBody}]
    /\ file \in [Keys -> Bodies \cup {NoBody}]
    /\ at \in [Requests -> Phases]
    /\ want \in [Requests -> Keys]
    /\ held \in [Requests -> Bodies \cup {NoBody}]
    /\ victim \in [Requests -> Keys \cup {NoKey}]
    /\ todo \in [Requests -> SUBSET Keys]

\* A file is being unlinked by evict() only while it runs.
VictimIsEvicted == \A r \in Requests : victim[r] # NoKey => at[r] = "evicting"

IInv == Shapes /\ SingleFlight /\ VictimIsEvicted

Flight == inflight \in [Keys -> Requests \cup {NoRequest}] /\ at \in [Requests -> Phases]
             /\ SingleFlight

-----------------------------------------------------------------------------
\* How requests come, move and go

\* A request that shares a task or starts one.
LEMMA JoinKeepsFlight ==
    ASSUME NEW r \in Requests, NEW k \in Keys, Shapes, SingleFlight,
           at[r] \notin Running \cup {"waiting"},
           Join(r, k), want' = [want EXCEPT ![r] = k]
    PROVE  Flight'
<1>1. CASE inflight[k] = NoRequest
  <2>1. at' = [at EXCEPT ![r] = "fetching"] /\ inflight' = [inflight EXCEPT ![k] = r]
    BY <1>1 DEF Join
  <2>2. r # NoRequest
    BY CacheAssumption
  <2>3. /\ inflight' \in [Keys -> Requests \cup {NoRequest}]
        /\ at' \in [Requests -> Phases]
    BY <2>1 DEF Shapes, Phases, Running
  <2>4. at[r] # "waiting" /\ at'[r] = "fetching" /\ want'[r] = k /\ inflight'[k] = r
    BY <2>1 DEF Shapes
  <2>5. \A q \in Requests : q # r => at'[q] = at[q] /\ want'[q] = want[q]
    BY <2>1 DEF Shapes
  <2>6. \A j \in Keys : j # k => inflight'[j] = inflight[j]
    BY <2>1 DEF Shapes
  <2>7. ASSUME NEW q \in Requests, at'[q] \in Running
        PROVE  inflight'[want'[q]] = q
    <3>1. CASE q = r
      BY <2>4, <3>1
    <3>2. CASE q # r
      <4>1. q # NoRequest
        BY CacheAssumption
      <4>2. inflight[want[q]] = q /\ want[q] \in Keys
        BY <2>5, <2>7, <3>2 DEF SingleFlight, Shapes
      <4> QED
        BY <1>1, <2>5, <2>6, <3>2, <4>1, <4>2
    <3> QED
      BY <3>1, <3>2
  <2>8. ASSUME NEW j \in Keys, inflight'[j] # NoRequest
        PROVE  at'[inflight'[j]] \in Running /\ want'[inflight'[j]] = j
    <3>1. CASE j = k
      BY <2>4, <3>1 DEF Running
    <3>2. CASE j # k
      <4>1. inflight[j] \in Requests /\ at[inflight[j]] \in Running
            /\ want[inflight[j]] = j
        BY <2>6, <2>8, <3>2 DEF SingleFlight, Shapes
      <4> QED
        BY <2>5, <2>6, <3>2, <4>1
    <3> QED
      BY <3>1, <3>2
  <2>9. ASSUME NEW q \in Requests, at'[q] = "waiting"
        PROVE  inflight'[want'[q]] # NoRequest
    BY <2>2, <2>4, <2>5, <2>6, <2>9 DEF SingleFlight, Shapes
  <2> QED
    BY <2>3, <2>7, <2>8, <2>9 DEF Flight, SingleFlight
<1>2. CASE inflight[k] # NoRequest
  <2>1. at' = [at EXCEPT ![r] = "waiting"] /\ inflight' = inflight
    BY <1>2 DEF Join
  <2> QED
    BY <1>2, <2>1 DEF Flight, Shapes, SingleFlight, Running, Phases
<1> QED
  BY <1>1, <1>2

\* A task that settles.
LEMMA EndKeepsFlight ==
    ASSUME NEW r \in Requests, Shapes, SingleFlight, at[r] \in Running,
           End(r), want' = want
    PROVE  Flight'
<1>1. inflight[want[r]] = r /\ want[r] \in Keys
  BY DEF SingleFlight, Shapes
<1>2. /\ inflight' = [inflight EXCEPT ![want[r]] = NoRequest]
      /\ at' = [q \in Requests |->
            IF q = r \/ (at[q] = "waiting" /\ want[q] = want[r]) THEN "idle" ELSE at[q]]
  BY DEF End
<1>3. /\ inflight' \in [Keys -> Requests \cup {NoRequest}]
      /\ at' \in [Requests -> Phases]
  BY <1>1, <1>2 DEF Shapes, Phases
<1>4. \A q \in Requests : at'[q] # "idle" => at'[q] = at[q] /\ q # r
  BY <1>2 DEF Running
<1>5. ASSUME NEW q \in Requests, at'[q] \in Running
      PROVE  inflight'[want'[q]] = q
  BY <1>1, <1>2, <1>4, <1>5 DEF SingleFlight, Shapes, Running
<1>6. ASSUME NEW k \in Keys, inflight'[k] # NoRequest
      PROVE  at'[inflight'[k]] \in Running /\ want'[inflight'[k]] = k
  BY <1>1, <1>2, <1>6 DEF SingleFlight, Shapes, Running
<1>7. ASSUME NEW q \in Requests, at'[q] = "waiting"
      PROVE  inflight'[want'[q]] # NoRequest
  BY <1>1, <1>2, <1>4, <1>7 DEF SingleFlight, Shapes
<1> QED
  BY <1>3, <1>5, <1>6, <1>7 DEF Flight, SingleFlight

\* A request that moves on within a task, or outside of one.
LEMMA MoveKeepsFlight ==
    ASSUME NEW r \in Requests, NEW p \in Phases, NEW k \in Keys, Shapes, SingleFlight,
           \/ at[r] \in Running /\ p \in Running /\ k = want[r]
           \/ at[r] \notin Running \cup {"waiting"} /\ p \notin Running \cup {"waiting"},
           at' = [at EXCEPT ![r] = p], inflight' = inflight,
           want' = [want EXCEPT ![r] = k]
    PROVE  Flight'
  BY DEF Flight, Shapes, SingleFlight, Running

-----------------------------------------------------------------------------
\* The invariant

LEMMA InitInvariant == Init => IInv
<1> SUFFICES ASSUME Init PROVE IInv
  OBVIOUS
<1>1. (CHOOSE k \in Keys : TRUE) \in Keys
  BY CacheAssumption
<1>2. Shapes /\ VictimIsEvicted
  BY <1>1 DEF Init, Shapes, VictimIsEvicted, Phases
<1>3. SingleFlight
  BY <1>2 DEF Init, Shapes, SingleFlight, Running
<1> QED
  BY <1>2, <1>3 DEF IInv

\* Looking up a key.
LEMMA LookInvariant ==
    ASSUME NEW r \in Requests, NEW k \in Keys, IInv, Look(r, k) \/ HitMemory(r, k)
    PROVE  IInv'
<1>1. at[r] = "idle" /\ Shapes /\ SingleFlight /\ VictimIsEvicted
  BY DEF Look, HitMemory, IInv
<1>2. /\ want' = [want EXCEPT ![r] = k]
      /\ UNCHANGED <<file, held, todo, victim>>
  BY DEF Look, HitMemory, disk, evictVars
<1>3. row' \in [Keys -> Bodies \cup {NoBody}]
  BY <1>1 DEF Look, HitMemory, disk, DeleteRow, Shapes
<1>4. \/ Join(r, k)
      \/ \E p \in {"idle", "hit", "dropping", "opening"} :
            at' = [at EXCEPT ![r] = p] /\ inflight' = inflight
  BY DEF Look, HitMemory, Found
<1>5. Flight' /\ (\A q \in Requests : q # r => at'[q] = at[q])
  <2>1. CASE Join(r, k)
    <3>1. Flight'
      BY <1>1, <1>2, <2>1, JoinKeepsFlight DEF Running
    <3> QED
      BY <1>1, <2>1, <3>1 DEF Join, Shapes
  <2>2. ASSUME NEW p \in {"idle", "hit", "dropping", "opening"},
               at' = [at EXCEPT ![r] = p], inflight' = inflight
        PROVE  Flight' /\ (\A q \in Requests : q # r => at'[q] = at[q])
    <3>1. p \in Phases /\ p \notin Running \cup {"waiting"}
      BY DEF Phases, Running
    <3>2. Flight'
      BY <1>1, <1>2, <2>2, <3>1, MoveKeepsFlight DEF Running
    <3> QED
      BY <1>1, <2>2, <3>2 DEF Shapes
  <2> QED
    BY <1>4, <2>1, <2>2
<1>6. VictimIsEvicted'
  BY <1>1, <1>2, <1>5 DEF VictimIsEvicted
<1> QED
  BY <1>1, <1>2, <1>3, <1>5, <1>6 DEF IInv, Shapes, Flight

\* Reading a file, deleting an entry.
LEMMA ReadInvariant ==
    ASSUME NEW r \in Requests, IInv,
           Open(r) \/ OpenFails(r) \/ Read(r) \/ Delete(r) \/ Dropped(r)
    PROVE  IInv'
<1>1. /\ at[r] \in {"opening", "reading", "hit", "dropping"}
      /\ Shapes /\ SingleFlight /\ VictimIsEvicted /\ want[r] \in Keys
  BY DEF Open, OpenFails, Read, Delete, Dropped, IInv, Shapes
<1>2. UNCHANGED <<want, todo, victim>> /\ want' = [want EXCEPT ![r] = want[r]]
  BY <1>1 DEF Open, OpenFails, Read, Delete, Dropped, evictVars, Shapes
<1>3. /\ row' \in [Keys -> Bodies \cup {NoBody}]
      /\ file' \in [Keys -> Bodies \cup {NoBody}]
      /\ held' \in [Requests -> Bodies \cup {NoBody}]
  BY <1>1 DEF Open, OpenFails, Read, Delete, Dropped, DeleteRow, disk, Shapes
<1>4. \/ Join(r, want[r])
      \/ \E p \in {"idle", "hit", "dropping", "reading"} :
            at' = [at EXCEPT ![r] = p] /\ inflight' = inflight
  BY DEF Open, OpenFails, Read, Delete, Dropped, Found
<1>5. Flight' /\ (\A q \in Requests : q # r => at'[q] = at[q])
  <2>1. CASE Join(r, want[r])
    <3>1. Flight'
      BY <1>1, <1>2, <2>1, JoinKeepsFlight DEF Running
    <3> QED
      BY <1>1, <2>1, <3>1 DEF Join, Shapes
  <2>2. ASSUME NEW p \in {"idle", "hit", "dropping", "reading"},
               at' = [at EXCEPT ![r] = p], inflight' = inflight
        PROVE  Flight' /\ (\A q \in Requests : q # r => at'[q] = at[q])
    <3>1. p \in Phases /\ p \notin Running \cup {"waiting"}
      BY DEF Phases, Running
    <3>2. Flight'
      BY <1>1, <1>2, <2>2, <3>1, MoveKeepsFlight DEF Running
    <3> QED
      BY <1>1, <2>2, <3>2 DEF Shapes
  <2> QED
    BY <1>4, <2>1, <2>2
<1>6. VictimIsEvicted'
  BY <1>1, <1>2, <1>5 DEF VictimIsEvicted
<1> QED
  BY <1>1, <1>2, <1>3, <1>5, <1>6 DEF IInv, Shapes, Flight

\* evict() goes on to another row.
LEMMA EvictOneInvariant ==
    ASSUME NEW r \in Requests, NEW rows \in [Keys -> Bodies \cup {NoBody}],
           NEW S \in SUBSET Keys, IInv, at[r] \in Running,
           EvictOne(r, rows, S), want' = want
    PROVE  /\ Flight' /\ VictimIsEvicted'
           /\ row' \in [Keys -> Bodies \cup {NoBody}]
           /\ victim' \in [Requests -> Keys \cup {NoKey}]
           /\ todo' \in [Requests -> SUBSET Keys]
           /\ held' = held
<1>1. PICK k \in S : /\ row' = [rows EXCEPT ![k] = NoBody]
                     /\ victim' = [victim EXCEPT ![r] = k]
                     /\ todo' = [todo EXCEPT ![r] = S \ {k}]
                     /\ at' = [at EXCEPT ![r] = "evicting"]
                     /\ inflight' = inflight /\ held' = held
  BY DEF EvictOne
<1>2. Shapes /\ SingleFlight /\ VictimIsEvicted /\ want[r] \in Keys
  BY DEF IInv, Shapes
<1>3. want' = [want EXCEPT ![r] = want[r]]
  BY <1>2 DEF Shapes
<1>4. Flight'
  <2>1. "evicting" \in Phases /\ "evicting" \in Running
    BY DEF Phases, Running
  <2> QED
    BY <1>1, <1>2, <1>3, <2>1, MoveKeepsFlight
<1>5. VictimIsEvicted'
  BY <1>1, <1>2 DEF VictimIsEvicted, Shapes
<1> QED
  BY <1>1, <1>2, <1>4, <1>5 DEF Shapes

\* A task settles with no file being unlinked.
LEMMA EndInvariant ==
    ASSUME NEW r \in Requests, IInv, at[r] \in Running, End(r), want' = want,
           victim' = [victim EXCEPT ![r] = NoKey]
    PROVE  /\ Flight' /\ VictimIsEvicted'
           /\ victim' \in [Requests -> Keys \cup {NoKey}]
           /\ held' \in [Requests -> Bodies \cup {NoBody}]
<1>1. Shapes /\ SingleFlight /\ VictimIsEvicted
  BY DEF IInv
<1>2. Flight'
  BY <1>1, EndKeepsFlight
<1>3. VictimIsEvicted'
  <2> SUFFICES ASSUME NEW q \in Requests, victim'[q] # NoKey PROVE at'[q] = "evicting"
    BY DEF VictimIsEvicted
  <2>1. q # r /\ victim[q] # NoKey
    BY <1>1 DEF Shapes
  <2> QED
    BY <1>1, <2>1 DEF VictimIsEvicted, End
<1> QED
  BY <1>1, <1>2, <1>3 DEF Shapes, End

\* The task.
LEMMA TaskInvariant ==
    ASSUME NEW r \in Requests, IInv,
           FetchEnds(r) \/ Fetch(r) \/ Write(r) \/ Evicted(r) \/ WriteFails(r)
    PROVE  IInv'
<1>1. /\ Shapes /\ SingleFlight /\ VictimIsEvicted
      /\ want[r] \in Keys /\ held[r] \in Bodies \cup {NoBody}
      /\ at[r] \in Running /\ want' = want
  BY DEF FetchEnds, Fetch, Write, Evicted, WriteFails, IInv, Shapes, Running
<1>2. CASE FetchEnds(r) \/ WriteFails(r)
  <2>1. /\ End(r) /\ row' = row /\ UNCHANGED <<todo, victim>>
        /\ file' \in [Keys -> Bodies \cup {NoBody}]
    BY <1>1, <1>2 DEF FetchEnds, WriteFails, disk, evictVars, Shapes
  <2>2. victim[r] = NoKey
    BY <1>1, <1>2 DEF FetchEnds, WriteFails, VictimIsEvicted
  <2>3. victim' = [victim EXCEPT ![r] = NoKey]
    BY <1>1, <2>1, <2>2 DEF Shapes
  <2> QED
    BY <1>1, <2>1, <2>3, EndInvariant DEF IInv, Shapes, Flight
<1>3. CASE Fetch(r)
  <2>1. /\ at' = [at EXCEPT ![r] = "writing"] /\ at[r] = "fetching" /\ inflight' = inflight
        /\ held' \in [Requests -> Bodies \cup {NoBody}]
        /\ UNCHANGED <<row, file, todo, victim>>
    BY <1>1, <1>3 DEF Fetch, disk, evictVars, Shapes
  <2>2. "writing" \in Phases /\ "writing" \in Running /\ want' = [want EXCEPT ![r] = want[r]]
    BY <1>1 DEF Phases, Running, Shapes
  <2>3. Flight'
    BY <1>1, <2>1, <2>2, MoveKeepsFlight
  <2>4. VictimIsEvicted'
    BY <1>1, <2>1 DEF VictimIsEvicted, Shapes
  <2> QED
    BY <1>1, <2>1, <2>3, <2>4 DEF IInv, Shapes, Flight
<1>4. CASE Write(r)
  <2> DEFINE rows == [row EXCEPT ![want[r]] = held[r]]
  <2>1. rows \in [Keys -> Bodies \cup {NoBody}]
    BY <1>1 DEF Shapes
  <2>2. /\ file' = [file EXCEPT ![want[r]] = held[r]] /\ at[r] = "writing"
        /\ \/ row' = rows /\ Store(r) /\ UNCHANGED <<todo, victim>>
           \/ EvictOne(r, rows, {q \in Keys : rows[q] # NoBody})
    BY <1>4 DEF Write, evictVars
  <2>3. file' \in [Keys -> Bodies \cup {NoBody}]
    BY <1>1, <2>2 DEF Shapes
  <2>4. CASE row' = rows /\ Store(r) /\ UNCHANGED <<todo, victim>>
    <3>1. End(r)
      BY <2>4 DEF Store
    <3>2. victim' = [victim EXCEPT ![r] = NoKey]
      BY <1>1, <2>2, <2>4 DEF VictimIsEvicted, Shapes
    <3> QED
      BY <1>1, <2>1, <2>3, <2>4, <3>1, <3>2, EndInvariant DEF IInv, Shapes, Flight
  <2>5. CASE EvictOne(r, rows, {q \in Keys : rows[q] # NoBody})
    <3>1. {q \in Keys : rows[q] # NoBody} \in SUBSET Keys
      OBVIOUS
    <3> QED
      BY <1>1, <2>1, <2>3, <2>5, <3>1, EvictOneInvariant DEF IInv, Shapes, Flight
  <2> QED
    BY <2>2, <2>4, <2>5
<1>5. CASE Evicted(r)
  <2>1. /\ victim[r] \in Keys \cup {NoKey}
        /\ file' = [file EXCEPT ![victim[r]] = NoBody]
        /\ \/ Store(r) /\ victim' = [victim EXCEPT ![r] = NoKey]
              /\ todo' = [todo EXCEPT ![r] = {}] /\ row' = row
           \/ EvictOne(r, row, todo[r])
    BY <1>1, <1>5 DEF Evicted, Shapes
  <2>2. file' \in [Keys -> Bodies \cup {NoBody}]
    BY <1>1, <2>1 DEF Shapes
  <2>3. CASE Store(r) /\ victim' = [victim EXCEPT ![r] = NoKey]
              /\ todo' = [todo EXCEPT ![r] = {}] /\ row' = row
    <3>1. End(r) /\ todo' \in [Requests -> SUBSET Keys]
      BY <1>1, <2>3 DEF Store, Shapes
    <3> QED
      BY <1>1, <2>2, <2>3, <3>1, EndInvariant DEF IInv, Shapes, Flight
  <2>4. CASE EvictOne(r, row, todo[r])
    <3>1. row \in [Keys -> Bodies \cup {NoBody}] /\ todo[r] \in SUBSET Keys
      BY <1>1 DEF Shapes
    <3> QED
      BY <1>1, <2>2, <2>4, <3>1, EvictOneInvariant DEF IInv, Shapes, Flight
  <2> QED
    BY <2>1, <2>3, <2>4
<1> QED
  BY <1>2, <1>3, <1>4, <1>5

\* Purge and expiry leave the requests alone.
LEMMA PurgeInvariant ==
    ASSUME IInv,
           \/ \E S \in SUBSET Keys : Purge(S)
           \/ \E k \in Keys : Purged(k) \/ RowExpires(k)
           \/ \E i \in 1..Len(memory) : EntryExpires(i)
    PROVE  IInv'
<1>1. /\ UNCHANGED <<inflight, at, want, held, todo, victim>>
      /\ row' \in [Keys -> Bodies \cup {NoBody}]
      /\ file' \in [Keys -> Bodies \cup {NoBody}]
  BY DEF IInv, Shapes, Purge, Purged, RowExpires, EntryExpires, disk, evictVars
<1> QED
  BY <1>1 DEF IInv, Shapes, SingleFlight, VictimIsEvicted

\* A restart forgets all requests.
LEMMA CrashInvariant == IInv /\ Crash => IInv'
<1> SUFFICES ASSUME IInv, Crash PROVE IInv'
  OBVIOUS
<1>1. /\ inflight' = [k \in Keys |-> NoRequest]
      /\ at' = [r \in Requests |-> "idle"]
      /\ held' = [r \in Requests |-> NoBody]
      /\ todo' = [r \in Requests |-> {}]
      /\ victim' = [r \in Requests |-> NoKey]
      /\ row' = row /\ want' = want
  BY DEF Crash
<1>2. PICK S \in SUBSET {r \in Requests : at[r] = "writing"} :
        file' = [k \in Keys |-> IF inflight[k] \in S THEN held[inflight[k]] ELSE file[k]]
  BY DEF Crash
<1>3. Shapes'
  BY <1>1, <1>2 DEF IInv, Shapes, Phases
<1>4. SingleFlight' /\ VictimIsEvicted'
  BY <1>1, <1>3 DEF SingleFlight, VictimIsEvicted, Shapes, Running
<1> QED
  BY <1>3, <1>4 DEF IInv

LEMMA NextInvariant == IInv /\ [Next]_vars => IInv'
<1> SUFFICES ASSUME IInv, [Next]_vars PROVE IInv'
  OBVIOUS
<1>1. ASSUME NEW r \in Requests, Proceed(r) PROVE IInv'
  BY <1>1, ReadInvariant, TaskInvariant DEF Proceed
<1>2. ASSUME NEW r \in Requests, NEW k \in Keys, HitMemory(r, k) \/ Look(r, k) PROVE IInv'
  BY <1>2, LookInvariant
<1>3. CASE UNCHANGED vars
  BY <1>3 DEF vars, disk, evictVars, IInv, Shapes, SingleFlight, VictimIsEvicted
<1> QED
  BY <1>1, <1>2, <1>3, PurgeInvariant, CrashInvariant DEF Next

LEMMA Invariance == Spec => []IInv
  BY InitInvariant, NextInvariant, PTL DEF Spec

\* Identical requests are coalesced (Cache.coalesce()): one task per key, on
\* record as long as it runs, and nobody waits for a task that is gone.
THEOREM RequestsCoalesced == Spec => []SingleFlight
<1>1. IInv => SingleFlight
  BY DEF IInv
<1> QED
  BY <1>1, Invariance, PTL

-----------------------------------------------------------------------------
\* No file without an owner, as long as nothing crashes or fails

Unlinking(k) ==
    \E r \in Requests : (at[r] = "dropping" /\ want[r] = k) \/ victim[r] = k

\* A request outside of a task: it may leave a row's file for itself to drop.
LEMMA LookOwned ==
    ASSUME NEW r \in Requests, NEW j \in Keys, IInv, FilesAreOwned,
           HitMemory(r, j) \/ Look(r, j)
    PROVE  FilesAreOwned'
<1>1. /\ Shapes /\ at[r] = "idle" /\ want' = [want EXCEPT ![r] = j]
      /\ UNCHANGED <<file, victim, purging>>
      /\ \A q \in Requests : q # r => at'[q] = at[q] /\ want'[q] = want[q]
  BY DEF HitMemory, Look, Join, IInv, Shapes, disk, evictVars
<1>2. \/ row' = row
      \/ row' = [row EXCEPT ![j] = NoBody] /\ at'[r] = "dropping" /\ want'[r] = j
  BY <1>1 DEF HitMemory, Look, DeleteRow, Shapes, disk
<1>3. \A k \in Keys : row[k] # NoBody => row'[k] # NoBody \/ Unlinking(k)'
  BY <1>1, <1>2 DEF Shapes, Unlinking
<1>4. \A k \in Keys : Unlinking(k) => Unlinking(k)'
  BY <1>1 DEF Unlinking
<1> QED
  BY <1>1, <1>3, <1>4 DEF FilesAreOwned, Unlinking

LEMMA ReadOwned ==
    ASSUME NEW r \in Requests, IInv, FilesAreOwned,
           Open(r) \/ OpenFails(r) \/ Read(r) \/ Delete(r)
    PROVE  FilesAreOwned'
<1>1. /\ Shapes /\ at[r] # "dropping" /\ want[r] \in Keys
      /\ UNCHANGED <<file, want, victim, purging>>
      /\ \A q \in Requests : q # r => at'[q] = at[q]
  BY DEF Open, OpenFails, Read, Delete, Join, IInv, Shapes, disk, evictVars
<1>2. \/ row' = row
      \/ row' = [row EXCEPT ![want[r]] = NoBody] /\ at'[r] = "dropping"
  BY <1>1 DEF Open, OpenFails, Read, Delete, DeleteRow, Shapes, disk
<1>3. \A k \in Keys : row[k] # NoBody => row'[k] # NoBody \/ Unlinking(k)'
  BY <1>1, <1>2 DEF Shapes, Unlinking
<1>4. \A k \in Keys : Unlinking(k) => Unlinking(k)'
  BY <1>1 DEF Unlinking
<1> QED
  BY <1>1, <1>3, <1>4 DEF FilesAreOwned, Unlinking

\* unlink() of delete(): the file goes with its owner.
LEMMA DroppedOwned ==
    ASSUME NEW r \in Requests, IInv, FilesAreOwned, Dropped(r)
    PROVE  FilesAreOwned'
<1>1. /\ Shapes /\ want[r] \in Keys /\ file' = [file EXCEPT ![want[r]] = NoBody]
      /\ UNCHANGED <<row, want, victim, purging>>
      /\ \A q \in Requests : q # r => at'[q] = at[q]
  BY DEF Dropped, Join, IInv, Shapes, evictVars
<1>2. \A k \in Keys : k # want[r] /\ Unlinking(k) => Unlinking(k)'
  BY <1>1 DEF Unlinking
<1> QED
  BY <1>1, <1>2 DEF FilesAreOwned, Unlinking, Shapes

\* A task: what it writes has a row, what it evicts is its victim.
LEMMA TaskOwned ==
    ASSUME NEW r \in Requests, Faults = FALSE, IInv, FilesAreOwned,
           FetchEnds(r) \/ Fetch(r) \/ Write(r) \/ Evicted(r) \/ WriteFails(r)
    PROVE  FilesAreOwned'
<1>1. /\ Shapes /\ VictimIsEvicted /\ want[r] \in Keys /\ want' = want /\ purging' = purging
      /\ at[r] \in Running
  BY DEF FetchEnds, Fetch, Write, Evicted, WriteFails, IInv, Shapes, Running
<1>2. \A q \in Requests : q # r /\ at[q] = "dropping" => at'[q] = "dropping"
  BY <1>1 DEF FetchEnds, Fetch, Write, Evicted, WriteFails, Store, End, EvictOne, Shapes
<1>3. \A q \in Requests : q # r => victim'[q] = victim[q]
  BY <1>1 DEF FetchEnds, Fetch, Write, Evicted, WriteFails, EvictOne, Shapes, evictVars
<1>4. \A k \in Keys : Unlinking(k) /\ victim[r] # k => Unlinking(k)'
  BY <1>1, <1>2, <1>3 DEF Unlinking, Running
<1>5. CASE FetchEnds(r) \/ Fetch(r)
  <2>1. UNCHANGED <<row, file, victim>>
    BY <1>5 DEF FetchEnds, Fetch, disk, evictVars
  <2>2. victim[r] = NoKey
    BY <1>1, <1>5 DEF FetchEnds, Fetch, VictimIsEvicted
  <2>3. \A k \in Keys : Unlinking(k) => Unlinking(k)'
    BY <1>4, <2>2, CacheAssumption
  <2> QED
    BY <1>1, <2>1, <2>3 DEF FilesAreOwned, Unlinking
<1>6. CASE Write(r)
  <2> DEFINE rows == [row EXCEPT ![want[r]] = held[r]]
  <2>1. /\ file' = [file EXCEPT ![want[r]] = held[r]] /\ at[r] = "writing"
        /\ \/ row' = rows
           \/ EvictOne(r, rows, {q \in Keys : rows[q] # NoBody})
    BY <1>6 DEF Write
  <2>2. \A k \in Keys : Unlinking(k) => Unlinking(k)'
    BY <1>1, <1>4, <2>1, CacheAssumption DEF VictimIsEvicted
  <2>3. \A k \in Keys : rows[k] # NoBody => row'[k] # NoBody \/ Unlinking(k)'
    BY <1>1, <2>1 DEF EvictOne, Unlinking, Shapes
  <2>4. \A k \in Keys : file'[k] # NoBody =>
            rows[k] # NoBody \/ k \in purging \/ Unlinking(k)
    BY <1>1, <2>1 DEF FilesAreOwned, Unlinking, Shapes
  <2> QED
    BY <1>1, <2>2, <2>3, <2>4 DEF FilesAreOwned, Unlinking
<1>7. CASE Evicted(r)
  <2>1. /\ file' = [file EXCEPT ![victim[r]] = NoBody]
        /\ row' = row \/ EvictOne(r, row, todo[r])
    BY <1>7 DEF Evicted
  <2>2. \A k \in Keys : row[k] # NoBody => row'[k] # NoBody \/ Unlinking(k)'
    BY <1>1, <2>1 DEF EvictOne, Unlinking, Shapes
  <2>3. \A k \in Keys : file'[k] # NoBody => k # victim[r] /\ file[k] # NoBody
    BY <1>1, <2>1 DEF Shapes
  <2> QED
    BY <1>1, <1>4, <2>2, <2>3 DEF FilesAreOwned, Unlinking
<1> QED
  BY <1>5, <1>6, <1>7 DEF FetchEnds, Fetch, Write, Evicted, WriteFails

\* purge() takes over the files of the rows it deletes.
LEMMA PurgeOwned ==
    ASSUME IInv, FilesAreOwned,
           \/ \E S \in SUBSET Keys : Purge(S)
           \/ \E k \in Keys : Purged(k) \/ RowExpires(k)
           \/ \E i \in 1..Len(memory) : EntryExpires(i)
    PROVE  FilesAreOwned'
<1>1. UNCHANGED <<at, want, victim>> /\ Shapes
  BY DEF IInv, Purge, Purged, RowExpires, EntryExpires, evictVars
<1>2. \A k \in Keys : file'[k] # NoBody => file[k] # NoBody
  BY <1>1 DEF Purge, Purged, RowExpires, EntryExpires, disk, Shapes
<1>3. \A k \in Keys : row[k] # NoBody => row'[k] # NoBody \/ k \in purging'
  BY <1>1 DEF Purge, Purged, RowExpires, EntryExpires, disk, Listed, Shapes
<1>4. \A k \in Keys : k \in purging => file'[k] = NoBody \/ k \in purging'
  BY <1>1 DEF Purge, Purged, RowExpires, EntryExpires, Shapes
<1> QED
  BY <1>1, <1>2, <1>3, <1>4 DEF FilesAreOwned

LEMMA NextOwned ==
    ASSUME Faults = FALSE, IInv, FilesAreOwned, [Next]_vars
    PROVE  FilesAreOwned'
<1>1. ASSUME NEW r \in Requests, Proceed(r) PROVE FilesAreOwned'
  BY <1>1, ReadOwned, DroppedOwned, TaskOwned DEF Proceed
<1>2. ASSUME NEW r \in Requests, NEW k \in Keys, HitMemory(r, k) \/ Look(r, k)
      PROVE  FilesAreOwned'
  BY <1>2, LookOwned
<1>3. CASE UNCHANGED vars
  BY <1>3 DEF vars, disk, evictVars, FilesAreOwned
<1> QED
  BY <1>1, <1>2, <1>3, PurgeOwned DEF Next, Crash

\* Where nothing crashes or fails, a file has a row or somebody who is about
\* to unlink it (CacheStore.delete(), purge() and evict() against put()).
THEOREM NoFileLeaks == ASSUME Faults = FALSE PROVE Spec => []FilesAreOwned
<1>1. Init => FilesAreOwned
  BY DEF Init, FilesAreOwned
<1>2. IInv /\ FilesAreOwned /\ [Next]_vars => FilesAreOwned'
  BY NextOwned
<1> QED
  BY <1>1, <1>2, Invariance, PTL DEF Spec

-----------------------------------------------------------------------------
\* The memory layer

Distinct(list) == \A i, j \in 1..Len(list) : list[i].key = list[j].key => i = j

KeysOf(list) == {list[i].key : i \in 1..Len(list)}

\* The list without its place p.
Cut(list, p) == SubSeq(list, 1, p - 1) \o SubSeq(list, p + 1, Len(list))

LEMMA EntryParts ==
    ASSUME NEW list \in Seq(Entry)
    PROVE  /\ Len(list) \in Nat
           /\ \A i \in 1..Len(list) :
                 /\ list[i] \in Entry /\ list[i].key \in Keys /\ list[i].body \in Bodies
                 /\ Bytes[list[i].body] \in Nat \ {0}
<1>1. Len(list) \in Nat
  BY LenProperties
<1>2. \A i \in 1..Len(list) : list[i] \in Entry
  BY ElementOfSeq
<1>3. \A e \in Entry : e.key \in Keys /\ e.body \in Bodies /\ Bytes[e.body] \in Nat \ {0}
  BY CacheAssumption DEF Entry
<1>4. QED
  BY <1>1, <1>2, <1>3

\* The weight of a list as a sum over any function that agrees with its entries.
LEMMA WeightIs ==
    ASSUME NEW list \in Seq(Entry), NEW n \in Nat, n <= Len(list), NEW f,
           \A i \in 1..n : f[i] = Bytes[list[i].body]
    PROVE  Weight(list, n) = SumFunctionOnSet(f, 1..n)
<1> DEFINE g == [i \in 1..n |-> Bytes[list[i].body]]
           I == 1..n
<1>1. n \in Int /\ IsFiniteSet(I)
  BY FS_Interval
<1>2. \A i \in I : g[i] = f[i]
  OBVIOUS
<1>3. Weight(list, n) = SumFunctionOnSet(g, I)
  BY DEF Weight
<1> HIDE DEF g, I
<1>4. SumFunctionOnSet(g, I) = SumFunctionOnSet(f, I)
  BY <1>1, <1>2, SumSame
<1>5. QED
  BY <1>3, <1>4 DEF I

LEMMA WeightType ==
    ASSUME NEW list \in Seq(Entry), NEW n \in Nat, n <= Len(list)
    PROVE  Weight(list, n) \in Nat /\ (n = 0 => Weight(list, n) = 0)
<1> DEFINE f == [i \in 1..n |-> Bytes[list[i].body]]
           I == 1..n
<1>1. n \in Int /\ IsFiniteSet(I) /\ (n = 0 => I = {})
  BY FS_Interval
<1>2. \A i \in I : f[i] \in Nat
  BY EntryParts
<1>3. Weight(list, n) = SumFunctionOnSet(f, I)
  BY DEF Weight
<1> HIDE DEF f, I
<1>4. SumFunctionOnSet(f, I) \in Nat /\ (I = {} => SumFunctionOnSet(f, I) = 0)
  BY <1>1, <1>2, SumNat, SumEmpty
<1>5. QED
  BY <1>1, <1>3, <1>4

LEMMA WeightAppend ==
    ASSUME NEW list \in Seq(Entry), NEW e \in Entry
    PROVE  /\ Append(list, e) \in Seq(Entry) /\ Len(Append(list, e)) = Len(list) + 1
           /\ Weight(Append(list, e), Len(list) + 1) = Weight(list, Len(list)) + Bytes[e.body]
<1> DEFINE n == Len(list)
           l == Append(list, e)
           f == [i \in 1..(n + 1) |-> Bytes[l[i].body]]
<1>1. /\ l \in Seq(Entry) /\ Len(l) = n + 1 /\ l[n + 1] = e
      /\ \A i \in 1..n : l[i] = list[i]
  BY AppendProperties
<1>2. n \in Nat
  BY EntryParts
<1>3. \A i \in 1..(n + 1) : f[i] = Bytes[l[i].body] /\ f[i] \in Int
  <2> HIDE DEF l, n
  <2>1. \A i \in 1..(n + 1) : Bytes[l[i].body] \in Nat \ {0}
    BY <1>1, EntryParts
  <2>2. QED
    BY <2>1
<1>4. \A i \in 1..n : f[i] = Bytes[list[i].body]
  BY <1>1, <1>2
<1>5. f[n + 1] = Bytes[e.body]
  BY <1>1, <1>2
<1> HIDE DEF f, l
<1>6. Weight(l, n + 1) = SumFunctionOnSet(f, 1..(n + 1))
  <2>1. n + 1 \in Nat /\ n + 1 <= Len(l)
    BY <1>1, <1>2
  <2>2. QED
    BY <1>1, <1>3, <2>1, WeightIs
<1>7. Weight(list, n) = SumFunctionOnSet(f, 1..n)
  BY <1>2, <1>4, WeightIs
<1>8. SumFunctionOnSet(f, 1..(n + 1)) = SumFunctionOnSet(f, 1..n) + f[n + 1]
  BY <1>2, <1>3, SumNext
<1>9. QED
  BY <1>1, <1>5, <1>6, <1>7, <1>8 DEF l

LEMMA SuffixElements ==
    ASSUME NEW list \in Seq(Entry), NEW n \in Nat, n <= Len(list)
    PROVE  LET l == SubSeq(list, n + 1, Len(list))
           IN  /\ l \in Seq(Entry) /\ Len(l) = Len(list) - n
               /\ \A i \in 1..(Len(list) - n) : l[i] = list[i + n]
<1> DEFINE m == Len(list)
<1>1. m \in Nat /\ n + 1 \in Int /\ m \in Int /\ \A i \in (n + 1)..m : list[i] \in Entry
  BY EntryParts
<1>2. /\ SubSeq(list, n + 1, m) \in Seq(Entry)
      /\ Len(SubSeq(list, n + 1, m)) = IF n + 1 <= m THEN m - (n + 1) + 1 ELSE 0
      /\ \A i \in 1..(m - (n + 1) + 1) : SubSeq(list, n + 1, m)[i] = list[(n + 1) + i - 1]
  <2> HIDE DEF m
  <2>1. QED
    BY <1>1, SubSeqProperties
<1>3. m - (n + 1) + 1 = m - n /\ \A i \in 1..(m - n) : (n + 1) + i - 1 = i + n
  BY <1>1
<1>4. (IF n + 1 <= m THEN m - (n + 1) + 1 ELSE 0) = m - n
  BY <1>1
<1>5. QED
  BY <1>2, <1>3, <1>4

LEMMA WeightSuffix ==
    ASSUME NEW list \in Seq(Entry), NEW n \in Nat, n <= Len(list)
    PROVE  LET l == SubSeq(list, n + 1, Len(list))
           IN  Weight(l, Len(l)) = Weight(list, Len(list)) - Weight(list, n)
<1> DEFINE m == Len(list)
           k == m - n
           l == SubSeq(list, n + 1, m)
           f == [i \in 1..m |-> Bytes[list[i].body]]
           g == [i \in 1..k |-> f[i + n]]
<1>1. /\ m \in Nat /\ l \in Seq(Entry) /\ Len(l) = k /\ k \in Nat /\ n + k = m
      /\ m <= Len(list) /\ n <= m /\ k <= k
      /\ \A i \in 1..k : l[i] = list[i + n]
  BY EntryParts, SuffixElements
<1>2. \A i \in 1..m : f[i] = Bytes[list[i].body] /\ f[i] \in Int
  BY EntryParts
<1>3. \A i \in 1..k : g[i] = f[i + n]
  OBVIOUS
<1> HIDE DEF f, g, l, m, k
<1>4. \A i \in 1..k : g[i] = Bytes[l[i].body]
  <2>1. \A i \in 1..k : i + n \in 1..m
    BY <1>1
  <2>2. QED
    BY <1>1, <1>2, <1>3, <2>1
<1>5. Weight(list, m) = SumFunctionOnSet(f, 1..m)
  BY <1>1, <1>2, WeightIs
<1>6. Weight(list, n) = SumFunctionOnSet(f, 1..n)
  <2>1. \A i \in 1..n : f[i] = Bytes[list[i].body]
    BY <1>1, <1>2
  <2>2. QED
    BY <2>1, WeightIs
<1>7. Weight(l, k) = SumFunctionOnSet(g, 1..k)
  BY <1>1, <1>4, WeightIs
<1>8. SumFunctionOnSet(f, 1..m) = SumFunctionOnSet(f, 1..n) + SumFunctionOnSet(f, (n + 1)..m)
  BY <1>1, <1>2, SumSplit
<1>9. SumFunctionOnSet(g, 1..k) = SumFunctionOnSet(f, (n + 1)..m)
  <2>1. n + k = m /\ \A i \in 1..(n + k) : f[i] \in Int
    BY <1>1, <1>2
  <2>2. SumFunctionOnSet([i \in 1..k |-> f[i + n]], 1..k) = SumFunctionOnSet(f, (n + 1)..(n + k))
    <3>1. k \in Nat
      BY <1>1
    <3>2. QED
      BY <2>1, <3>1, SumShift, Zenon
  <2>3. QED
    BY <2>1, <2>2 DEF g
<1>10. Weight(l, k) \in Nat /\ Weight(list, n) \in Nat
  BY <1>1, WeightType
<1>11. Weight(l, k) = Weight(list, m) - Weight(list, n)
  BY <1>5, <1>6, <1>7, <1>8, <1>9, <1>10
<1>12. QED
  BY <1>1, <1>11 DEF l, m

LEMMA CutElements ==
    ASSUME NEW list \in Seq(Entry), NEW p \in 1..Len(list)
    PROVE  /\ Cut(list, p) \in Seq(Entry) /\ Len(Cut(list, p)) = Len(list) - 1
           /\ \A i \in 1..(Len(list) - 1) :
                 Cut(list, p)[i] = list[IF i < p THEN i ELSE i + 1]
<1> DEFINE m == Len(list)
           a == SubSeq(list, 1, p - 1)
           b == SubSeq(list, p + 1, m)
<1>1. m \in Nat /\ p \in 1..m /\ \A i \in 1..m : list[i] \in Entry
  BY EntryParts
<1>2. a \in Seq(Entry) /\ Len(a) = p - 1 /\ \A i \in 1..(p - 1) : a[i] = list[i]
  <2> HIDE DEF m
  <2>1. p - 1 \in Int /\ 1 \in Int /\ \A i \in 1..(p - 1) : list[i] \in Entry
    BY <1>1
  <2>2. /\ a \in Seq(Entry) /\ Len(a) = (IF 1 <= p - 1 THEN (p - 1) - 1 + 1 ELSE 0)
        /\ \A i \in 1..((p - 1) - 1 + 1) : a[i] = list[1 + i - 1]
    BY <2>1, SubSeqProperties
  <2>3. /\ (IF 1 <= p - 1 THEN (p - 1) - 1 + 1 ELSE 0) = p - 1 /\ (p - 1) - 1 + 1 = p - 1
        /\ \A i \in 1..(p - 1) : 1 + i - 1 = i
    BY <1>1
  <2>4. QED
    BY <2>2, <2>3
<1>3. b \in Seq(Entry) /\ Len(b) = m - p /\ \A i \in 1..(m - p) : b[i] = list[i + p]
  BY <1>1, SuffixElements
<1> HIDE DEF m, a, b
<1>4. /\ a \o b \in Seq(Entry) /\ Len(a \o b) = Len(a) + Len(b)
      /\ \A i \in 1..(Len(a) + Len(b)) : (a \o b)[i] = IF i <= Len(a) THEN a[i] ELSE b[i - Len(a)]
  BY <1>2, <1>3, ConcatProperties
<1>5. Len(a) + Len(b) = m - 1
  BY <1>1, <1>2, <1>3
<1>6. ASSUME NEW i \in 1..(m - 1) PROVE (a \o b)[i] = list[IF i < p THEN i ELSE i + 1]
  <2>1. CASE i < p
    <3>1. i \in 1..(p - 1) /\ i <= Len(a)
      BY <1>1, <1>2, <2>1
    <3>2. QED
      BY <1>2, <1>4, <1>5, <2>1, <3>1
  <2>2. CASE ~(i < p)
    <3>1. i - (p - 1) \in 1..(m - p) /\ ~(i <= Len(a)) /\ (i - (p - 1)) + p = i + 1
      BY <1>1, <1>2, <2>2
    <3>2. (a \o b)[i] = b[i - (p - 1)]
      BY <1>2, <1>4, <1>5, <3>1
    <3>3. QED
      BY <1>3, <2>2, <3>1, <3>2
  <2>3. QED
    BY <2>1, <2>2
<1>7. QED
  BY <1>4, <1>5, <1>6 DEF Cut, a, b, m

LEMMA WeightCut ==
    ASSUME NEW list \in Seq(Entry), NEW p \in 1..Len(list)
    PROVE  Weight(list, Len(list)) = Weight(Cut(list, p), Len(list) - 1) + Bytes[list[p].body]
<1> DEFINE m == Len(list)
           l == Cut(list, p)
           f == [i \in 1..m |-> Bytes[list[i].body]]
           g == [i \in 1..(m - 1) |-> Bytes[l[i].body]]
<1>1. /\ m \in Nat /\ p \in 1..m /\ l \in Seq(Entry) /\ m - 1 \in Nat /\ m - 1 <= Len(l)
      /\ \A i \in 1..(m - 1) : l[i] = list[IF i < p THEN i ELSE i + 1]
  <2>1. m \in Nat /\ p \in 1..m
    BY EntryParts
  <2>2. m - 1 \in Nat /\ m - 1 <= m - 1
    BY <2>1
  <2>3. QED
    BY <2>1, <2>2, CutElements
<1>2. \A i \in 1..m : f[i] = Bytes[list[i].body] /\ f[i] \in Int
  BY EntryParts
<1>3. \A i \in 1..(m - 1) : g[i] = Bytes[l[i].body]
  OBVIOUS
<1> HIDE DEF f, g, l, m
<1>4. \A i \in 1..(m - 1) : (IF i < p THEN i ELSE i + 1) \in 1..m
  BY <1>1
<1>5. \A i \in 1..(m - 1) : g[i] = f[IF i < p THEN i ELSE i + 1]
  BY <1>1, <1>2, <1>3, <1>4
<1>6. Weight(list, m) = SumFunctionOnSet(f, 1..m)
  BY <1>1, <1>2, WeightIs DEF m
<1>7. Weight(l, m - 1) = SumFunctionOnSet(g, 1..(m - 1))
  BY <1>1, <1>3, WeightIs
<1>8. SumFunctionOnSet(f, 1..m) = SumFunctionOnSet(g, 1..(m - 1)) + f[p]
  BY <1>1, <1>2, <1>5, SumGap
<1>9. QED
  BY <1>1, <1>2, <1>6, <1>7, <1>8 DEF l, m

\* A memory layer as it should be: the count is the weight of the entries.
Sound(list, bytes) ==
    /\ list \in Seq(Entry)
    /\ bytes = Weight(list, Len(list)) /\ bytes =< MemoryMax
    /\ Distinct(list)

LEMMA EmptySound == Sound(<<>>, 0) /\ KeysOf(<<>>) = {}
<1>1. <<>> \in Seq(Entry) /\ Len(<<>>) = 0
  BY EmptySeq
<1>2. 0 \in Nat /\ 0 <= Len(<<>>)
  BY <1>1
<1>3. Weight(<<>>, 0) = 0
  BY <1>1, <1>2, WeightType
<1>4. 0 <= MemoryMax
  BY CacheAssumption
<1>5. QED
  BY <1>1, <1>3, <1>4 DEF Sound, Distinct, KeysOf

\* Without(k) is the list but for the entry of k.
LEMMA WithoutElements ==
    ASSUME NEW k \in Keys, Sound(memory, memoryBytes)
    PROVE  \/ /\ \A i \in 1..Len(memory) : memory[i].key # k
              /\ Without(k) = memory
           \/ /\ Place(k) \in 1..Len(memory) /\ memory[Place(k)].key = k
              /\ Without(k) = Cut(memory, Place(k))
  BY DEF Without, Place, Cut

LEMMA WithoutSound ==
    ASSUME NEW k \in Keys, Sound(memory, memoryBytes)
    PROVE  /\ Sound(Without(k), memoryBytes - Taken(k))
           /\ KeysOf(Without(k)) = KeysOf(memory) \ {k}
<1> DEFINE l == Without(k)
           m == Len(memory)
<1>1. /\ memory \in Seq(Entry) /\ m \in Nat /\ memoryBytes = Weight(memory, m)
      /\ memoryBytes \in Nat /\ memoryBytes =< MemoryMax /\ Distinct(memory)
  <2>1. memory \in Seq(Entry) /\ m \in Nat /\ m <= m
    BY EntryParts DEF Sound
  <2>2. QED
    BY <2>1, WeightType DEF Sound
<1>2. /\ l \in Seq(Entry) /\ Weight(l, Len(l)) <= Weight(memory, m) /\ Distinct(l)
      /\ KeysOf(l) = KeysOf(memory) \ {k}
  <2>1. CASE l = memory /\ \A i \in 1..m : memory[i].key # k
    BY <1>1, <2>1 DEF KeysOf
  <2>2. CASE Place(k) \in 1..m /\ memory[Place(k)].key = k /\ l = Cut(memory, Place(k))
    <3> DEFINE p == Place(k)
               s == [i \in 1..(m - 1) |-> IF i < p THEN i ELSE i + 1]
    <3>1. p \in 1..m /\ memory[p].key = k
      BY <2>2
    <3>2. /\ l \in Seq(Entry) /\ Len(l) = m - 1
          /\ \A i \in 1..(m - 1) : l[i] = memory[s[i]]
      BY <1>1, <2>2, CutElements
    <3>3. Weight(memory, m) = Weight(l, m - 1) + Bytes[memory[p].body]
      BY <1>1, <2>2, WeightCut
    <3>4. Bytes[memory[p].body] \in Nat \ {0}
      BY <1>1, <3>1, EntryParts
    <3>5. m - 1 \in Nat /\ m - 1 <= Len(l)
      BY <1>1, <3>1, <3>2
    <3>6. Weight(l, m - 1) \in Nat
      BY <3>2, <3>5, WeightType
    <3>7. \A i, j \in 1..(m - 1) : s[i] \in (1..m) \ {p} /\ (s[i] = s[j] => i = j)
      <4> HIDE DEF m, p, l
      <4>1. QED
        BY <1>1, <3>1
    <3>8. \A z \in (1..m) \ {p} : \E i \in 1..(m - 1) : s[i] = z
      <4> HIDE DEF m, p, l
      <4> TAKE z \in (1..m) \ {p}
      <4>1. CASE z < p
        <5>1. z \in 1..(m - 1) /\ s[z] = z
          BY <1>1, <3>1, <4>1
        <5>2. QED
          BY <5>1
      <4>2. CASE ~(z < p)
        <5>1. z - 1 \in 1..(m - 1) /\ s[z - 1] = z
          BY <1>1, <3>1, <4>2
        <5>2. QED
          BY <5>1
      <4>3. QED
        BY <4>1, <4>2
    <3> HIDE DEF m, p, l, s
    <3>9. Distinct(l)
      <4>1. \A i, j \in 1..m : memory[i].key = memory[j].key => i = j
        BY <1>1 DEF Distinct, m
      <4>2. ASSUME NEW i \in 1..(m - 1), NEW j \in 1..(m - 1), l[i].key = l[j].key PROVE i = j
        <5>1. s[i] \in 1..m /\ s[j] \in 1..m /\ memory[s[i]].key = memory[s[j]].key
          BY <3>2, <3>7, <4>2
        <5>2. QED
          BY <3>7, <4>1, <5>1
      <4>3. QED
        BY <3>2, <4>2 DEF Distinct
    <3>10. KeysOf(l) = KeysOf(memory) \ {k}
      <4>1. \A i \in 1..m : memory[i].key = k => i = p
        BY <1>1, <3>1 DEF Distinct, m
      <4>2. \A i \in 1..(m - 1) : l[i].key = memory[s[i]].key /\ s[i] \in 1..m /\ s[i] # p
        BY <3>2, <3>7
      <4>3. \A z \in 1..m : z # p => \E i \in 1..(m - 1) : l[i].key = memory[z].key
        BY <3>2, <3>8
      <4>4. KeysOf(l) = {l[i].key : i \in 1..(m - 1)} /\ KeysOf(memory) = {memory[i].key : i \in 1..m}
        BY <3>2 DEF KeysOf, m
      <4>5. QED
        BY <3>1, <4>1, <4>2, <4>3, <4>4
    <3>11. QED
      BY <3>2, <3>3, <3>4, <3>6, <3>9, <3>10
  <2>3. QED
    BY <2>1, <2>2, WithoutElements
<1>3. Weight(l, Len(l)) \in Nat
  <2> HIDE DEF l
  <2>1. Len(l) \in Nat /\ Len(l) <= Len(l)
    BY <1>2, EntryParts
  <2>2. QED
    BY <1>2, <2>1, WeightType
<1>4. memoryBytes - Taken(k) = Weight(l, Len(l)) /\ Weight(l, Len(l)) <= MemoryMax
  BY <1>1, <1>2, <1>3, CacheAssumption DEF Taken
<1>5. QED
  BY <1>2, <1>4 DEF Sound

\* A new last entry.
LEMMA AppendSound ==
    ASSUME NEW list \in Seq(Entry), Distinct(list), NEW e \in Entry, e.key \notin KeysOf(list)
    PROVE  /\ Append(list, e) \in Seq(Entry) /\ Distinct(Append(list, e))
           /\ KeysOf(Append(list, e)) = KeysOf(list) \cup {e.key}
           /\ Weight(Append(list, e), Len(Append(list, e))) = Weight(list, Len(list)) + Bytes[e.body]
<1> DEFINE l == Append(list, e)
           n == Len(list)
<1>1. /\ l \in Seq(Entry) /\ Len(l) = n + 1 /\ l[n + 1] = e
      /\ \A i \in 1..n : l[i] = list[i]
  BY AppendProperties
<1>2. n \in Nat
  BY EntryParts
<1>3. Weight(l, n + 1) = Weight(list, n) + Bytes[e.body]
  BY WeightAppend
<1>4. \A i \in 1..n : list[i].key # e.key
  BY DEF KeysOf
<1> HIDE DEF l
<1>5. \A i \in 1..(n + 1) : i = n + 1 \/ i \in 1..n
  BY <1>2
<1>6. Distinct(l)
  BY <1>1, <1>2, <1>4, <1>5 DEF Distinct
<1>7. KeysOf(l) = KeysOf(list) \cup {e.key}
  <2>1. KeysOf(l) = {l[i].key : i \in 1..(n + 1)} /\ KeysOf(list) = {list[i].key : i \in 1..n}
    BY <1>1 DEF KeysOf
  <2>2. n + 1 \in 1..(n + 1) /\ \A i \in 1..n : i \in 1..(n + 1)
    BY <1>2
  <2>3. QED
    BY <1>1, <1>5, <2>1, <2>2
<1>8. QED
  BY <1>1, <1>3, <1>6, <1>7 DEF l

\* The list without its n oldest entries.
LEMMA SuffixSound ==
    ASSUME NEW list \in Seq(Entry), Distinct(list), NEW n \in Nat, n <= Len(list)
    PROVE  LET l == SubSeq(list, n + 1, Len(list))
           IN  /\ l \in Seq(Entry) /\ Distinct(l) /\ KeysOf(l) \subseteq KeysOf(list)
               /\ Weight(l, Len(l)) = Weight(list, Len(list)) - Weight(list, n)
<1> DEFINE l == SubSeq(list, n + 1, Len(list))
           m == Len(list)
<1>1. /\ l \in Seq(Entry) /\ Len(l) = m - n /\ m \in Nat /\ n <= m
      /\ \A i \in 1..(m - n) : l[i] = list[i + n]
  BY EntryParts, SuffixElements
<1>2. Weight(l, Len(l)) = Weight(list, Len(list)) - Weight(list, n)
  BY WeightSuffix
<1> HIDE DEF l
<1>3. \A i \in 1..(m - n) : i + n \in 1..m
  BY <1>1
<1>4. \A i, j \in 1..(m - n) : i + n = j + n => i = j
  BY <1>1
<1>5. Distinct(l)
  <2>1. ASSUME NEW i \in 1..(m - n), NEW j \in 1..(m - n), l[i].key = l[j].key PROVE i = j
    <3>1. list[i + n].key = list[j + n].key /\ i + n \in 1..m /\ j + n \in 1..m
      BY <1>1, <1>3, <2>1
    <3>2. i + n = j + n
      BY <3>1 DEF Distinct
    <3>3. QED
      BY <1>4, <3>2
  <2>2. QED
    BY <1>1, <2>1 DEF Distinct
<1>6. KeysOf(l) \subseteq KeysOf(list)
  BY <1>1, <1>3 DEF KeysOf
<1>7. QED
  BY <1>1, <1>2, <1>5, <1>6 DEF l

LEMMA PutSound ==
    ASSUME NEW k \in Keys, NEW b \in Bodies, Sound(memory, memoryBytes), PutMemory(k, b)
    PROVE  /\ Sound(memory', memoryBytes')
           /\ KeysOf(memory') \subseteq KeysOf(memory) \cup {k}
<1> DEFINE e == [key |-> k, body |-> b, expired |-> FALSE]
           w == Without(k)
           list == Append(w, e)
           bytes == memoryBytes - Taken(k) + Bytes[b]
<1>1. PICK n \in 0..Len(list) :
        /\ n < Len(list) => bytes - Weight(list, n) =< MemoryMax
        /\ memory' = SubSeq(list, n + 1, Len(list))
        /\ memoryBytes' = bytes - Weight(list, n)
  BY DEF PutMemory
<1>2. w \in Seq(Entry) /\ Distinct(w) /\ memoryBytes - Taken(k) = Weight(w, Len(w))
      /\ KeysOf(w) = KeysOf(memory) \ {k}
  BY WithoutSound DEF Sound
<1>3. e \in Entry /\ e.key = k /\ e.body = b
  BY DEF Entry
<1> HIDE DEF e, w
<1>4. /\ list \in Seq(Entry) /\ Distinct(list) /\ KeysOf(list) = KeysOf(w) \cup {k}
      /\ Weight(list, Len(list)) = Weight(w, Len(w)) + Bytes[b]
  <2>1. e.key \notin KeysOf(w)
    BY <1>2, <1>3
  <2>2. QED
    BY <1>2, <1>3, <2>1, AppendSound
<1>5. bytes = Weight(list, Len(list))
  BY <1>2, <1>4
<1> HIDE DEF list, bytes
<1>6. Len(list) \in Nat /\ n \in Nat /\ n <= Len(list) /\ Len(list) <= Len(list)
  BY <1>1, <1>4, EntryParts
<1>7. /\ memory' \in Seq(Entry) /\ Distinct(memory') /\ KeysOf(memory') \subseteq KeysOf(list)
      /\ Weight(memory', Len(memory')) = Weight(list, Len(list)) - Weight(list, n)
  BY <1>1, <1>4, <1>6, SuffixSound
<1>8. memoryBytes' =< MemoryMax
  <2>1. CASE n < Len(list)
    BY <1>1, <2>1
  <2>2. CASE n = Len(list)
    <3>1. Weight(list, n) \in Nat
      BY <1>4, <1>6, WeightType
    <3>2. QED
      BY <1>1, <1>5, <2>2, <3>1, CacheAssumption
  <2>3. QED
    BY <1>6, <2>1, <2>2
<1>9. QED
  BY <1>1, <1>2, <1>4, <1>5, <1>7, <1>8 DEF Sound

LEMMA HitSound ==
    ASSUME NEW r \in Requests, NEW k \in Keys, Sound(memory, memoryBytes), HitMemory(r, k)
    PROVE  Sound(memory', memoryBytes') /\ KeysOf(memory') \subseteq KeysOf(memory)
<1>1. PICK i \in 1..Len(memory) :
        memory[i].key = k /\ memory' = Append(Without(k), memory[i])
  BY DEF HitMemory
<1> DEFINE w == Without(k)
           e == memory[i]
<1>2. /\ memory \in Seq(Entry) /\ memoryBytes = Weight(memory, Len(memory))
      /\ memoryBytes =< MemoryMax /\ Distinct(memory) /\ memoryBytes' = memoryBytes
  BY DEF Sound, HitMemory
<1>3. e \in Entry /\ e.key = k
  BY <1>1, <1>2, EntryParts
<1>4. w \in Seq(Entry) /\ Distinct(w) /\ KeysOf(w) = KeysOf(memory) \ {k}
  BY WithoutSound DEF Sound
<1>5. k \in KeysOf(memory)
  BY <1>1 DEF KeysOf
<1>6. Weight(memory, Len(memory)) = Weight(w, Len(w)) + Bytes[e.body]
  <2>1. Place(k) \in 1..Len(memory) /\ memory[Place(k)].key = k /\ w = Cut(memory, Place(k))
    BY <1>1, WithoutElements
  <2>2. Place(k) = i
    BY <1>1, <1>2, <2>1 DEF Distinct
  <2>3. w = Cut(memory, i)
    BY <2>1, <2>2
  <2>4. Len(Cut(memory, i)) = Len(memory) - 1
    BY <1>2, CutElements
  <2>5. Weight(memory, Len(memory)) = Weight(Cut(memory, i), Len(memory) - 1) + Bytes[memory[i].body]
    BY <1>2, WeightCut
  <2>6. QED
    BY <2>3, <2>4, <2>5
<1> HIDE DEF w, e
<1>7. /\ Append(w, e) \in Seq(Entry) /\ Distinct(Append(w, e))
      /\ KeysOf(Append(w, e)) = KeysOf(w) \cup {k}
      /\ Weight(Append(w, e), Len(Append(w, e))) = Weight(w, Len(w)) + Bytes[e.body]
  <2>1. e.key \notin KeysOf(w)
    BY <1>3, <1>4
  <2>2. QED
    BY <1>3, <1>4, <2>1, AppendSound
<1>8. memory' = Append(w, e)
  BY <1>1 DEF w, e
<1>9. QED
  BY <1>2, <1>4, <1>5, <1>6, <1>7, <1>8 DEF Sound

LEMMA ExpireSound ==
    ASSUME NEW i \in 1..Len(memory), Sound(memory, memoryBytes), EntryExpires(i)
    PROVE  Sound(memory', memoryBytes') /\ KeysOf(memory') \subseteq KeysOf(memory)
<1> DEFINE n == Len(memory)
<1>1. /\ memory \in Seq(Entry) /\ memoryBytes = Weight(memory, n)
      /\ memoryBytes =< MemoryMax /\ Distinct(memory) /\ memoryBytes' = memoryBytes
      /\ memory' = [memory EXCEPT ![i].expired = TRUE]
  BY DEF Sound, EntryExpires
<1>2. n \in Nat /\ memory \in [1..n -> Entry] /\ i \in 1..n
  BY <1>1, LenProperties
<1>3. memory' \in [1..n -> Entry]
  <2>1. [memory[i] EXCEPT !.expired = TRUE] \in Entry
    BY <1>2 DEF Entry
  <2>2. QED
    BY <1>1, <1>2, <2>1
<1>4. memory' \in Seq(Entry) /\ Len(memory') = n
  BY <1>2, <1>3
<1>5. \A j \in 1..n : memory'[j].key = memory[j].key /\ memory'[j].body = memory[j].body
  BY <1>1, <1>2 DEF Entry
<1> DEFINE f == [j \in 1..n |-> Bytes[memory[j].body]]
<1>6. \A j \in 1..n : f[j] = Bytes[memory[j].body] /\ f[j] = Bytes[memory'[j].body]
  BY <1>5
<1> HIDE DEF n, f
<1>7. Weight(memory, n) = SumFunctionOnSet(f, 1..n) /\ Weight(memory', n) = SumFunctionOnSet(f, 1..n)
  <2>1. n <= Len(memory) /\ n <= Len(memory')
    BY <1>2, <1>4 DEF n
  <2>2. \A j \in 1..n : f[j] = Bytes[memory[j].body]
    BY <1>6
  <2>3. \A j \in 1..n : f[j] = Bytes[memory'[j].body]
    BY <1>6
  <2>4. Weight(memory, n) = SumFunctionOnSet(f, 1..n)
    BY <1>1, <1>2, <2>1, <2>2, WeightIs
  <2>5. Weight(memory', n) = SumFunctionOnSet(f, 1..n)
    BY <1>2, <1>4, <2>1, <2>3, WeightIs
  <2>6. QED
    BY <2>4, <2>5
<1>8. Distinct(memory') /\ KeysOf(memory') = KeysOf(memory)
  BY <1>1, <1>4, <1>5 DEF Distinct, KeysOf, n
<1>9. QED
  BY <1>1, <1>4, <1>7, <1>8 DEF Sound

-----------------------------------------------------------------------------
\* The shape of the state, and the byte count of the memory layer

\* Who is about to put a body somewhere has one.
BodiesHeld ==
    \A r \in Requests : at[r] \in {"reading", "writing", "evicting"} => held[r] \in Bodies

RowsListed == expired \subseteq Listed /\ purging \subseteq Keys /\ removed \subseteq Keys

MInv == IInv /\ Sound(memory, memoryBytes) /\ BodiesHeld /\ RowsListed

\* What a step does to the memory layer.
LEMMA MemoryChanges ==
    ASSUME [Next]_vars, IInv
    PROVE  \/ UNCHANGED <<memory, memoryBytes>>
           \/ memory' = <<>> /\ memoryBytes' = 0
           \/ \E k \in Keys : Forget(k)
           \/ \E r \in Requests : at[r] \in {"reading", "writing", "evicting"} /\ PutMemory(want[r], held[r])
           \/ \E r \in Requests, k \in Keys : HitMemory(r, k)
           \/ \E i \in 1..Len(memory) : EntryExpires(i)
<1>1. ASSUME NEW r \in Requests, Proceed(r)
      PROVE  \/ UNCHANGED <<memory, memoryBytes>>
             \/ \E k \in Keys : Forget(k)
             \/ at[r] \in {"reading", "writing", "evicting"} /\ PutMemory(want[r], held[r])
  <2>1. want[r] \in Keys
    BY DEF IInv, Shapes
  <2>2. CASE Open(r) \/ OpenFails(r) \/ Dropped(r) \/ FetchEnds(r) \/ Fetch(r) \/ WriteFails(r)
    BY <2>2 DEF Open, OpenFails, Dropped, FetchEnds, Fetch, WriteFails
  <2>3. CASE Read(r) \/ Delete(r)
    BY <2>1, <2>3 DEF Read, Delete
  <2>4. CASE Write(r) \/ Evicted(r)
    BY <2>4 DEF Write, Evicted, Store, EvictOne
  <2>5. QED
    BY <1>1, <2>2, <2>3, <2>4 DEF Proceed
<1>2. ASSUME NEW r \in Requests, NEW k \in Keys, Look(r, k) PROVE Forget(k)
  BY <1>2 DEF Look
<1>3. CASE Crash \/ \E S \in SUBSET Keys : Purge(S)
  BY <1>3 DEF Crash, Purge
<1>4. CASE \E k \in Keys : Purged(k) \/ RowExpires(k)
  BY <1>4 DEF Purged, RowExpires
<1>5. CASE UNCHANGED vars
  BY <1>5 DEF vars
<1>6. QED
  BY <1>1, <1>2, <1>3, <1>4, <1>5 DEF Next

LEMMA ForgetSound ==
    ASSUME NEW k \in Keys, Sound(memory, memoryBytes), Forget(k)
    PROVE  Sound(memory', memoryBytes') /\ KeysOf(memory') = KeysOf(memory) \ {k}
<1>1. memory' = Without(k) /\ memoryBytes' = memoryBytes - Taken(k)
  BY DEF Forget
<1>2. QED
  BY <1>1, WithoutSound

LEMMA NextSound ==
    ASSUME MInv, [Next]_vars
    PROVE  Sound(memory', memoryBytes')
<1>1. Sound(memory, memoryBytes) /\ IInv
  BY DEF MInv
<1>2. CASE UNCHANGED <<memory, memoryBytes>>
  BY <1>1, <1>2
<1>3. CASE memory' = <<>> /\ memoryBytes' = 0
  BY <1>3, EmptySound
<1>4. ASSUME NEW r \in Requests, at[r] \in {"reading", "writing", "evicting"},
             PutMemory(want[r], held[r])
      PROVE  Sound(memory', memoryBytes')
  <2>1. want[r] \in Keys /\ held[r] \in Bodies
    BY <1>4 DEF MInv, IInv, Shapes, BodiesHeld
  <2>2. QED
    BY <1>1, <1>4, <2>1, PutSound
<1>5. QED
  BY <1>1, <1>2, <1>3, <1>4, MemoryChanges, ForgetSound, HitSound, ExpireSound

\* The bodies held and the rows, step by step.
LEMMA LookHolds ==
    ASSUME NEW r \in Requests, NEW k \in Keys, MInv, HitMemory(r, k) \/ Look(r, k)
    PROVE  BodiesHeld' /\ RowsListed'
<1>1. /\ Shapes /\ at[r] = "idle" /\ held' = held /\ purging' = purging /\ removed' = removed
      /\ \A q \in Requests : q # r => at'[q] = at[q]
      /\ at'[r] \in {"idle", "hit", "fetching", "waiting", "dropping", "opening"}
  BY DEF HitMemory, Look, Join, Found, MInv, IInv, Shapes
<1>2. \/ row' = row /\ expired' = expired
      \/ row' = [row EXCEPT ![k] = NoBody] /\ expired' = expired \ {k}
  BY DEF HitMemory, Look, DeleteRow, disk
<1>3. BodiesHeld'
  BY <1>1 DEF MInv, BodiesHeld
<1>4. QED
  BY <1>1, <1>2, <1>3 DEF MInv, RowsListed, Listed, Shapes

LEMMA ReadHolds ==
    ASSUME NEW r \in Requests, MInv,
           Open(r) \/ OpenFails(r) \/ Read(r) \/ Delete(r) \/ Dropped(r)
    PROVE  BodiesHeld' /\ RowsListed'
<1>1. /\ Shapes /\ purging' = purging /\ want[r] \in Keys
      /\ removed' = removed \/ removed' = removed \cup Removed({want[r]})
      /\ \A q \in Requests : q # r => at'[q] = at[q] /\ held'[q] = held[q]
  BY DEF Open, OpenFails, Read, Delete, Dropped, Join, MInv, IInv, Shapes
<1>2. \/ row' = row /\ expired' = expired
      \/ row' = [row EXCEPT ![want[r]] = NoBody] /\ expired' = expired \ {want[r]}
  BY DEF Open, OpenFails, Read, Delete, Dropped, DeleteRow, disk
<1>3. at'[r] \in {"reading", "writing", "evicting"} => held'[r] \in Bodies
  BY <1>1 DEF Open, OpenFails, Read, Delete, Dropped, Join, Found, Shapes
<1>4. BodiesHeld'
  BY <1>1, <1>3 DEF MInv, BodiesHeld
<1>5. QED
  BY <1>1, <1>2, <1>4 DEF MInv, RowsListed, Removed, Listed, Shapes

LEMMA TaskHolds ==
    ASSUME NEW r \in Requests, MInv,
           FetchEnds(r) \/ Fetch(r) \/ Write(r) \/ Evicted(r) \/ WriteFails(r)
    PROVE  BodiesHeld' /\ RowsListed'
<1>1. /\ Shapes /\ want[r] \in Keys /\ BodiesHeld /\ RowsListed
      /\ purging' = purging
      /\ removed' = removed \/ removed' = removed \ {want[r]}
  BY DEF FetchEnds, Fetch, Write, Evicted, WriteFails, MInv, IInv, Shapes
<1>2. \A q \in Requests : q # r => (at'[q] = at[q] \/ at'[q] = "idle") /\ held'[q] = held[q]
  BY <1>1 DEF FetchEnds, Fetch, Write, Evicted, WriteFails, Store, End, EvictOne, Shapes
<1>3. at'[r] \in {"reading", "writing", "evicting"} => held'[r] \in Bodies
  <2>1. CASE FetchEnds(r) \/ WriteFails(r)
    BY <1>1, <2>1 DEF FetchEnds, WriteFails, End, Shapes
  <2>2. CASE Fetch(r)
    BY <1>1, <2>2 DEF Fetch, Shapes
  <2>3. CASE Write(r) \/ Evicted(r)
    <3>1. held[r] \in Bodies
      BY <1>1, <2>3 DEF Write, Evicted, BodiesHeld
    <3>2. End(r) \/ held' = held
      BY <2>3 DEF Write, Evicted, Store, EvictOne
    <3>3. QED
      BY <3>1, <3>2, <1>1 DEF End, Shapes
  <2>4. QED
    BY <2>1, <2>2, <2>3
<1>4. BodiesHeld'
  BY <1>1, <1>2, <1>3 DEF BodiesHeld
<1>5. expired' \subseteq Listed'
  <2>1. CASE FetchEnds(r) \/ Fetch(r) \/ WriteFails(r)
    BY <1>1, <2>1 DEF FetchEnds, Fetch, WriteFails, disk, RowsListed, Listed
  <2>2. CASE Write(r)
    <3> DEFINE rows == [row EXCEPT ![want[r]] = held[r]]
    <3>1. at[r] = "writing" /\ held[r] \in Bodies /\ held[r] # NoBody
      BY <1>1, <2>2, CacheAssumption DEF Write, BodiesHeld
    <3>2. \/ row' = rows /\ expired' = expired \ {want[r]}
          \/ expired' = (expired \ {want[r]}) \cap {q \in Keys : row'[q] # NoBody}
      BY <2>2 DEF Write
    <3>3. QED
      BY <1>1, <3>1, <3>2 DEF RowsListed, Listed, Shapes
  <2>3. CASE Evicted(r)
    <3>1. CASE row' = row /\ expired' = expired
      BY <1>1, <3>1 DEF RowsListed, Listed
    <3>2. CASE EvictOne(r, row, todo[r]) /\ expired' = expired \ {victim'[r]}
      <4>1. PICK k \in todo[r] : row' = [row EXCEPT ![k] = NoBody] /\ victim' = [victim EXCEPT ![r] = k]
        BY <3>2 DEF EvictOne
      <4>2. k \in Keys /\ victim'[r] = k
        BY <1>1, <4>1 DEF Shapes
      <4>3. QED
        BY <1>1, <3>2, <4>1, <4>2 DEF RowsListed, Listed, Shapes
    <3>3. QED
      BY <2>3, <3>1, <3>2 DEF Evicted
  <2>4. QED
    BY <2>1, <2>2, <2>3
<1>6. QED
  BY <1>1, <1>4, <1>5 DEF RowsListed

LEMMA PurgeHolds ==
    ASSUME MInv,
           \/ \E S \in SUBSET Keys : Purge(S)
           \/ \E k \in Keys : Purged(k) \/ RowExpires(k)
           \/ \E i \in 1..Len(memory) : EntryExpires(i)
           \/ Crash
    PROVE  BodiesHeld' /\ RowsListed'
<1>1. /\ Shapes /\ BodiesHeld /\ RowsListed
  BY DEF MInv, IInv
<1>2. CASE \E S \in SUBSET Keys : Purge(S)
  <2>1. PICK S \in SUBSET Keys : Purge(S)
    BY <1>2
  <2>2. /\ at' = at /\ held' = held /\ row' = [k \in Keys |-> IF k \in S THEN NoBody ELSE row[k]]
        /\ expired' = expired \ S /\ purging' = purging \cup (S \cap Listed)
        /\ removed' = removed \cup Removed(S)
    BY <2>1 DEF Purge
  <2>3. QED
    BY <1>1, <2>2 DEF BodiesHeld, RowsListed, Listed, Removed
<1>3. CASE \/ \E k \in Keys : Purged(k) \/ RowExpires(k)
           \/ \E i \in 1..Len(memory) : EntryExpires(i)
  BY <1>1, <1>3 DEF Purged, RowExpires, EntryExpires, disk, BodiesHeld, RowsListed, Listed
<1>4. CASE Crash
  BY <1>1, <1>4 DEF Crash, BodiesHeld, RowsListed, Listed
<1>5. QED
  BY <1>2, <1>3, <1>4

LEMMA MemoryInvariance == Spec => []MInv
<1>1. Init => MInv
  <2> SUFFICES ASSUME Init PROVE MInv
    OBVIOUS
  <2>1. Sound(memory, memoryBytes)
    BY EmptySound DEF Init
  <2>2. BodiesHeld /\ RowsListed
    BY DEF Init, BodiesHeld, RowsListed
  <2>3. QED
    BY <2>1, <2>2, InitInvariant DEF MInv
<1>2. MInv /\ [Next]_vars => MInv'
  <2> SUFFICES ASSUME MInv, [Next]_vars PROVE MInv'
    OBVIOUS
  <2>1. IInv'
    BY NextInvariant DEF MInv
  <2>2. Sound(memory', memoryBytes')
    BY NextSound
  <2>3. BodiesHeld' /\ RowsListed'
    <3>1. CASE UNCHANGED vars
      BY <3>1 DEF vars, disk, evictVars, MInv, BodiesHeld, RowsListed, Listed
    <3>2. ASSUME NEW r \in Requests, Proceed(r) PROVE BodiesHeld' /\ RowsListed'
      BY <3>2, ReadHolds, TaskHolds DEF Proceed
    <3>3. ASSUME NEW r \in Requests, NEW k \in Keys, HitMemory(r, k) \/ Look(r, k)
          PROVE  BodiesHeld' /\ RowsListed'
      BY <3>3, LookHolds
    <3>4. QED
      BY <3>1, <3>2, <3>3, PurgeHolds DEF Next
  <2>4. QED
    BY <2>1, <2>2, <2>3 DEF MInv
<1>3. QED
  BY <1>1, <1>2, PTL DEF Spec

\* The state of the cache has its shape whatever its limits, bodies and
\* faults: in particular no entry or row is written without a body, and the
\* byte count of Cache never goes below zero.
THEOREM CacheTypeCorrect == Spec => []TypeOK
<1>1. ASSUME MInv PROVE TypeOK
  <2>1. memory \in Seq(Entry) /\ memoryBytes \in Nat
    <3>1. memory \in Seq(Entry) /\ memoryBytes = Weight(memory, Len(memory))
      BY <1>1 DEF MInv, Sound
    <3>2. Len(memory) \in Nat /\ Len(memory) <= Len(memory)
      BY <3>1, EntryParts
    <3>3. QED
      BY <3>1, <3>2, WeightType
  <2>2. QED
    BY <1>1, <2>1 DEF MInv, IInv, Shapes, RowsListed, TypeOK
<1>2. QED
  BY <1>1, MemoryInvariance, PTL

\* The count that putMemory(), removeMemory() and purge() keep is what the
\* entries weigh, one entry per key, and never above cacheMemoryBytes: also
\* for a body that is larger than that, which is put and dropped again.
THEOREM MemoryIsCounted == Spec => []MemoryAccounting
<1>1. MInv => MemoryAccounting
  BY DEF MInv, Sound, Distinct, MemoryAccounting
<1>2. QED
  BY <1>1, MemoryInvariance, PTL

-----------------------------------------------------------------------------
\* Removed entries stay away

\* Nobody is about to put a removed key into memory.
NobodyPuts ==
    \A r \in Requests : at[r] \in {"opening", "reading", "evicting"} => want[r] \notin removed

Gone ==
    /\ KeysOf(memory) \cap removed = {}
    /\ \A k \in removed : row[k] = NoBody
    /\ NobodyPuts

LEMMA GoneIs == ASSUME MInv PROVE Gone => RemovedStaysRemoved
  BY DEF Gone, KeysOf, RemovedStaysRemoved

LEMMA LookGone ==
    ASSUME NEW r \in Requests, NEW k \in Keys, MInv, Gone, HitMemory(r, k) \/ Look(r, k)
    PROVE  Gone'
<1>1. Shapes /\ Sound(memory, memoryBytes) /\ removed \subseteq Keys
  BY DEF MInv, IInv, RowsListed
<1>2. /\ want' = [want EXCEPT ![r] = k] /\ removed' = removed
      /\ \A q \in Requests : q # r => at'[q] = at[q] /\ want'[q] = want[q]
      /\ at'[r] \in {"opening", "reading", "evicting"} => row[k] # NoBody
  BY <1>1 DEF HitMemory, Look, Join, Found, Shapes
<1>3. KeysOf(memory') \subseteq KeysOf(memory)
  BY <1>1, HitSound, ForgetSound DEF Look
<1>4. \A j \in Keys : row[j] = NoBody => row'[j] = NoBody
  BY <1>1 DEF HitMemory, Look, DeleteRow, disk, Shapes
<1>5. NobodyPuts'
  BY <1>1, <1>2 DEF Gone, NobodyPuts, Shapes
<1>6. QED
  BY <1>1, <1>2, <1>3, <1>4, <1>5 DEF Gone

LEMMA ReadGone ==
    ASSUME NEW r \in Requests, MInv, Gone,
           Open(r) \/ OpenFails(r) \/ Read(r) \/ Delete(r) \/ Dropped(r)
    PROVE  Gone'
<1>1. /\ Shapes /\ Sound(memory, memoryBytes) /\ BodiesHeld /\ removed \subseteq Keys
      /\ want[r] \in Keys
  BY DEF MInv, IInv, RowsListed, Shapes
<1>2. /\ want' = want
      /\ \A q \in Requests : q # r => at'[q] = at[q]
      /\ at'[r] \in {"opening", "reading", "evicting"} => at[r] = "opening" /\ removed' = removed
  BY <1>1 DEF Open, OpenFails, Read, Delete, Dropped, Join, Found, Shapes
<1>3. \A j \in Keys : row[j] = NoBody => row'[j] = NoBody
  BY <1>1 DEF Open, OpenFails, Read, Delete, Dropped, DeleteRow, disk, Shapes
<1>4. CASE Delete(r)
  <2>1. /\ Forget(want[r]) /\ removed' = removed \cup Removed({want[r]}) /\ at[r] = "hit"
        /\ row'[want[r]] = NoBody
    BY <1>1, <1>4 DEF Delete, DeleteRow, Shapes
  <2>2. KeysOf(memory') = KeysOf(memory) \ {want[r]}
    BY <1>1, <2>1, ForgetSound
  <2>3. \A j \in removed' : j \in removed \/ j = want[r]
    BY <2>1 DEF Removed
  <2>4. NobodyPuts'
    <3> SUFFICES ASSUME NEW q \in Requests, at'[q] \in {"opening", "reading", "evicting"}
                 PROVE  want'[q] \notin removed'
      BY DEF NobodyPuts
    <3>1. at[q] \in {"opening", "reading", "evicting"} /\ want'[q] = want[q]
      BY <1>2, <2>1
    <3>2. want[q] \notin removed /\ want[q] \notin Removed({want[r]})
      BY <3>1 DEF Gone, NobodyPuts, Removed
    <3>3. QED
      BY <2>1, <3>1, <3>2
  <2>5. QED
    BY <1>1, <1>3, <2>1, <2>2, <2>3, <2>4 DEF Gone
<1>5. CASE Open(r) \/ OpenFails(r) \/ Read(r) \/ Dropped(r)
  <2>1. removed' = removed
    BY <1>5 DEF Open, OpenFails, Read, Dropped
  <2>2. KeysOf(memory') \cap removed = {}
    <3>1. CASE Read(r)
      <4>1. at[r] = "reading" /\ PutMemory(want[r], held[r]) /\ held[r] \in Bodies
        BY <1>1, <3>1 DEF Read, BodiesHeld
      <4>2. KeysOf(memory') \subseteq KeysOf(memory) \cup {want[r]}
        BY <1>1, <4>1, PutSound
      <4>3. QED
        BY <4>1, <4>2 DEF Gone, NobodyPuts
    <3>2. CASE Open(r) \/ OpenFails(r) \/ Dropped(r)
      BY <3>2 DEF Open, OpenFails, Dropped, Gone
    <3>3. QED
      BY <1>5, <3>1, <3>2
  <2>3. NobodyPuts'
    BY <1>1, <1>2, <2>1 DEF Gone, NobodyPuts
  <2>4. QED
    BY <1>1, <1>3, <2>1, <2>2, <2>3 DEF Gone
<1>6. QED
  BY <1>4, <1>5

LEMMA TaskGone ==
    ASSUME NEW r \in Requests, MInv, Gone,
           FetchEnds(r) \/ Fetch(r) \/ Write(r) \/ Evicted(r) \/ WriteFails(r)
    PROVE  Gone'
<1>1. /\ Shapes /\ Sound(memory, memoryBytes) /\ BodiesHeld /\ removed \subseteq Keys
      /\ want[r] \in Keys /\ want' = want
  BY DEF FetchEnds, Fetch, Write, Evicted, WriteFails, MInv, IInv, RowsListed, Shapes
<1>2. \A q \in Requests : q # r => (at'[q] = at[q] \/ at'[q] = "idle")
  BY <1>1 DEF FetchEnds, Fetch, Write, Evicted, WriteFails, Store, End, EvictOne, Shapes
<1>3. CASE FetchEnds(r) \/ Fetch(r) \/ WriteFails(r)
  <2>1. memory' = memory /\ row' = row /\ removed' = removed
        /\ at'[r] \notin {"opening", "reading", "evicting"}
    BY <1>1, <1>3 DEF FetchEnds, Fetch, WriteFails, End, disk, Shapes
  <2>2. NobodyPuts'
    BY <1>1, <1>2, <2>1 DEF Gone, NobodyPuts
  <2>3. QED
    BY <2>1, <2>2 DEF Gone
<1>4. CASE Write(r) \/ Evicted(r)
  <2>1. /\ held[r] \in Bodies /\ want[r] \notin removed' /\ removed' \subseteq removed
    BY <1>1, <1>4 DEF Write, Evicted, BodiesHeld, Gone, NobodyPuts
  <2>2. memory' = memory \/ PutMemory(want[r], held[r])
    BY <1>4 DEF Write, Evicted, Store, EvictOne
  <2>3. KeysOf(memory') \subseteq KeysOf(memory) \cup {want[r]}
    BY <1>1, <2>1, <2>2, PutSound
  <2>4. \A j \in Keys : j # want[r] /\ row[j] = NoBody => row'[j] = NoBody
    BY <1>1, <1>4 DEF Write, Evicted, EvictOne, Shapes
  <2>5. NobodyPuts'
    BY <1>1, <1>2, <2>1 DEF Gone, NobodyPuts
  <2>6. QED
    BY <1>1, <2>1, <2>3, <2>4, <2>5 DEF Gone
<1>5. QED
  BY <1>3, <1>4

LEMMA PurgeGone ==
    ASSUME MInv, Gone,
           \/ \E S \in SUBSET Keys : Purge(S)
           \/ \E k \in Keys : Purged(k) \/ RowExpires(k)
           \/ \E i \in 1..Len(memory) : EntryExpires(i)
           \/ Crash
    PROVE  Gone'
<1>1. Shapes /\ Sound(memory, memoryBytes) /\ removed \subseteq Keys
  BY DEF MInv, IInv, RowsListed
<1>2. CASE \E S \in SUBSET Keys : Purge(S)
  <2>1. PICK S \in SUBSET Keys : Purge(S)
    BY <1>2
  <2>2. /\ memory' = <<>> /\ at' = at /\ want' = want
        /\ row' = [k \in Keys |-> IF k \in S THEN NoBody ELSE row[k]]
        /\ removed' = removed \cup Removed(S)
    BY <2>1 DEF Purge
  <2>3. \A k \in removed' : row'[k] = NoBody
    BY <1>1, <2>2 DEF Removed, Gone
  <2>4. NobodyPuts'
    BY <2>2 DEF Gone, NobodyPuts, Removed
  <2>5. KeysOf(memory') = {}
    BY <2>2, EmptySound
  <2>6. QED
    BY <2>3, <2>4, <2>5 DEF Gone
<1>3. CASE \E k \in Keys : Purged(k) \/ RowExpires(k)
  BY <1>3 DEF Purged, RowExpires, Gone, NobodyPuts
<1>4. CASE \E i \in 1..Len(memory) : EntryExpires(i)
  <2>1. UNCHANGED <<row, at, want, removed>> /\ KeysOf(memory') \subseteq KeysOf(memory)
    BY <1>1, <1>4, ExpireSound DEF EntryExpires, disk
  <2>2. QED
    BY <2>1 DEF Gone, NobodyPuts
<1>5. CASE Crash
  <2>1. /\ memory' = <<>> /\ row' = row /\ removed' = removed
        /\ at' = [r \in Requests |-> "idle"]
    BY <1>5 DEF Crash
  <2>2. KeysOf(memory') = {} /\ NobodyPuts'
    BY <2>1, EmptySound DEF NobodyPuts
  <2>3. QED
    BY <2>1, <2>2 DEF Gone
<1>6. QED
  BY <1>2, <1>3, <1>4, <1>5

\* What delete() or purge() has removed is served again only after it has been
\* stored again, with crashes and failing writes or without, unless a request
\* was reading or evicting for that very key at the time.
THEOREM RemovedStays == Spec => []RemovedStaysRemoved
<1>1. Init => Gone
  BY EmptySound DEF Init, Gone, NobodyPuts
<1>2. MInv /\ Gone /\ [Next]_vars => Gone'
  <2> SUFFICES ASSUME MInv, Gone, [Next]_vars PROVE Gone'
    OBVIOUS
  <2>1. CASE UNCHANGED vars
    BY <2>1 DEF vars, disk, Gone, NobodyPuts
  <2>2. ASSUME NEW r \in Requests, Proceed(r) PROVE Gone'
    BY <2>2, ReadGone, TaskGone DEF Proceed
  <2>3. ASSUME NEW r \in Requests, NEW k \in Keys, HitMemory(r, k) \/ Look(r, k) PROVE Gone'
    BY <2>3, LookGone
  <2>4. QED
    BY <2>1, <2>2, <2>3, PurgeGone DEF Next
<1>3. MInv /\ Gone => RemovedStaysRemoved
  BY GoneIs
<1>4. QED
  BY <1>1, <1>2, <1>3, MemoryInvariance, PTL DEF Spec

-----------------------------------------------------------------------------
\* The disk layer

Rows == [Keys -> Bodies \cup {NoBody}]

\* Without some of its rows the table weighs no more.
LEMMA FewerRows ==
    ASSUME NEW a \in Rows, NEW b \in Rows, \A k \in Keys : b[k] = a[k] \/ b[k] = NoBody
    PROVE  DiskBytes(b) \in Nat /\ DiskBytes(a) \in Nat /\ DiskBytes(b) <= DiskBytes(a)
<1> DEFINE A == {k \in Keys : a[k] # NoBody}
           B == {k \in Keys : b[k] # NoBody}
           f == [k \in A |-> Bytes[a[k]]]
           g == [k \in B |-> Bytes[b[k]]]
<1>1. DiskBytes(a) = SumFunctionOnSet(f, A) /\ DiskBytes(b) = SumFunctionOnSet(g, B)
  BY DEF DiskBytes
<1>2. B \subseteq A /\ A \subseteq Keys
  OBVIOUS
<1>3. \A k \in B : g[k] = f[k]
  BY <1>2
<1>4. (\A k \in A : f[k] \in Nat) /\ (\A k \in B : g[k] \in Nat)
  BY CacheAssumption DEF Rows
<1>5. IsFiniteSet(A) /\ IsFiniteSet(B)
  BY <1>2, FS_Subset, CacheAssumption
<1> HIDE DEF A, B, f, g
<1>6. SumFunctionOnSet(g, B) = SumFunctionOnSet(f, B)
  BY <1>3, <1>5, SumSame
<1>7. SumFunctionOnSet(f, B) <= SumFunctionOnSet(f, A)
  BY <1>2, <1>4, <1>5, SumPart
<1>8. SumFunctionOnSet(f, A) \in Nat /\ SumFunctionOnSet(g, B) \in Nat
  BY <1>4, <1>5, SumNat
<1>9. QED
  BY <1>1, <1>6, <1>7, <1>8

LEMMA NoRows ==
    ASSUME NEW a \in Rows, \A k \in Keys : a[k] = NoBody
    PROVE  DiskBytes(a) = 0
<1>1. {k \in Keys : a[k] # NoBody} = {}
  OBVIOUS
<1>2. QED
  BY <1>1, SumEmpty DEF DiskBytes

\* Above the limit somebody is evicting who has every row on the list: those
\* written later are on the list of whoever wrote them.
SomebodyEvicts ==
    DiskBytes(row) > DiskMax =>
        \E r \in Requests : at[r] = "evicting" /\ Listed \subseteq todo[r]

\* A step that takes rows away, if any, and leaves those who evict alone.
LEMMA FewerKeeps ==
    ASSUME Shapes, Shapes', SomebodyEvicts,
           \A k \in Keys : row'[k] = row[k] \/ row'[k] = NoBody,
           \A r \in Requests : at[r] = "evicting" => at'[r] = "evicting" /\ todo'[r] = todo[r]
    PROVE  SomebodyEvicts'
<1>1. DiskBytes(row') \in Nat /\ DiskBytes(row) \in Nat /\ DiskBytes(row') <= DiskBytes(row)
  BY FewerRows DEF Shapes, Rows
<1>2. Listed' \subseteq Listed
  BY DEF Listed
<1>3. CASE DiskBytes(row') > DiskMax
  <2>1. DiskBytes(row) > DiskMax
    BY <1>1, <1>3, CacheAssumption
  <2>2. PICK r \in Requests : at[r] = "evicting" /\ Listed \subseteq todo[r]
    BY <2>1 DEF SomebodyEvicts
  <2>3. at'[r] = "evicting" /\ Listed' \subseteq todo'[r]
    BY <1>2, <2>2
  <2>4. QED
    BY <2>3 DEF SomebodyEvicts
<1>4. CASE ~(DiskBytes(row') > DiskMax)
  BY <1>4 DEF SomebodyEvicts
<1>5. QED
  BY <1>3, <1>4

LEMMA EvictOneKeeps ==
    ASSUME NEW r \in Requests, Shapes, NEW rows \in Rows, NEW S \in SUBSET Keys,
           EvictOne(r, rows, S)
    PROVE  /\ at'[r] = "evicting"
           /\ {k \in Keys : rows[k] # NoBody} \subseteq S => Listed' \subseteq todo'[r]
  BY DEF EvictOne, Shapes, Listed, Rows

LEMMA WriteKeeps ==
    ASSUME NEW r \in Requests, MInv, SomebodyEvicts, Write(r)
    PROVE  SomebodyEvicts'
<1> DEFINE rows == [row EXCEPT ![want[r]] = held[r]]
<1>1. Shapes
  BY DEF MInv, IInv
<1>2. rows \in Rows
  BY <1>1 DEF Shapes, Rows
<1>3. CASE ~OverLimit(rows) /\ row' = rows
  BY <1>3 DEF OverLimit, SomebodyEvicts
<1>4. CASE EvictOne(r, rows, {q \in Keys : rows[q] # NoBody})
  <2>1. {q \in Keys : rows[q] # NoBody} \in SUBSET Keys
    OBVIOUS
  <2>2. at'[r] = "evicting" /\ Listed' \subseteq todo'[r]
    BY <1>1, <1>2, <1>4, <2>1, EvictOneKeeps
  <2>3. QED
    BY <2>2 DEF SomebodyEvicts
<1>5. QED
  BY <1>3, <1>4 DEF Write

LEMMA EvictedKeeps ==
    ASSUME NEW r \in Requests, MInv, IInv', SomebodyEvicts, Evicted(r)
    PROVE  SomebodyEvicts'
<1>1. Shapes /\ Shapes' /\ todo[r] \in SUBSET Keys /\ row \in Rows
  BY DEF MInv, IInv, Shapes, Rows
<1>2. \A k \in Keys : row'[k] = row[k] \/ row'[k] = NoBody
  BY <1>1 DEF Evicted, EvictOne, Shapes
<1>3. \A q \in Requests : q # r => (at[q] = "evicting" => at'[q] = "evicting") /\ todo'[q] = todo[q]
  BY <1>1 DEF Evicted, EvictOne, Store, End, Shapes
<1>4. DiskBytes(row') \in Nat /\ DiskBytes(row) \in Nat /\ DiskBytes(row') <= DiskBytes(row)
  BY <1>1, <1>2, FewerRows DEF Shapes, Rows
<1>5. Listed' \subseteq Listed
  BY <1>2 DEF Listed
<1>6. SUFFICES ASSUME DiskBytes(row') > DiskMax
               PROVE  \E q \in Requests : at'[q] = "evicting" /\ Listed' \subseteq todo'[q]
  BY DEF SomebodyEvicts
<1>7. DiskBytes(row) > DiskMax
  BY <1>4, <1>6, CacheAssumption
<1>8. PICK q \in Requests : at[q] = "evicting" /\ Listed \subseteq todo[q]
  BY <1>7 DEF SomebodyEvicts
<1>9. CASE q # r
  BY <1>3, <1>5, <1>8, <1>9
<1>10. CASE q = r
  <2>1. CASE Enough \/ todo[r] = {}
    <3>1. ~Enough
      <4>1. (3 * DiskMax) \div 4 <= DiskMax
        BY CacheAssumption
      <4>2. QED
        BY <1>4, <1>7, <4>1, CacheAssumption DEF Enough
    <3>2. \A k \in Keys : row[k] = NoBody
      BY <1>8, <1>10, <2>1, <3>1 DEF Listed
    <3>3. DiskBytes(row) = 0
      BY <1>1, <3>2, NoRows
    <3>4. QED
      BY <1>7, <3>3, CacheAssumption
  <2>2. CASE EvictOne(r, row, todo[r])
    <3>1. {k \in Keys : row[k] # NoBody} \subseteq todo[r]
      BY <1>8, <1>10 DEF Listed
    <3>2. at'[r] = "evicting" /\ Listed' \subseteq todo'[r]
      BY <1>1, <2>2, <3>1, EvictOneKeeps
    <3>3. QED
      BY <3>2
  <2>3. QED
    BY <2>1, <2>2 DEF Evicted
<1>11. QED
  BY <1>9, <1>10

LEMMA NextEvicts ==
    ASSUME Faults = FALSE, MInv, MInv', SomebodyEvicts, [Next]_vars
    PROVE  SomebodyEvicts'
<1>1. Shapes /\ Shapes' /\ IInv'
  BY DEF MInv, IInv
<1>2. ASSUME NEW r \in Requests, Proceed(r) PROVE SomebodyEvicts'
  <2>1. CASE Open(r) \/ OpenFails(r) \/ Read(r) \/ Delete(r) \/ Dropped(r)
    <3>1. \A k \in Keys : row'[k] = row[k] \/ row'[k] = NoBody
      BY <1>1, <2>1 DEF Open, OpenFails, Read, Delete, Dropped, DeleteRow, disk, Shapes
    <3>2. \A q \in Requests : at[q] = "evicting" => at'[q] = "evicting" /\ todo'[q] = todo[q]
      BY <1>1, <2>1 DEF Open, OpenFails, Read, Delete, Dropped, Join, evictVars, Shapes
    <3>3. QED
      BY <1>1, <3>1, <3>2, FewerKeeps
  <2>2. CASE FetchEnds(r) \/ Fetch(r) \/ WriteFails(r)
    <3>1. row' = row /\ todo' = todo
      BY <2>2 DEF FetchEnds, Fetch, WriteFails, disk, evictVars
    <3>2. \A q \in Requests : at[q] = "evicting" => at'[q] = "evicting"
      BY <1>1, <2>2 DEF FetchEnds, Fetch, WriteFails, End, Shapes
    <3>3. QED
      BY <1>1, <3>1, <3>2, FewerKeeps
  <2>3. CASE Write(r)
    BY <2>3, WriteKeeps
  <2>4. CASE Evicted(r)
    BY <1>1, <2>4, EvictedKeeps
  <2>5. QED
    BY <1>2, <2>1, <2>2, <2>3, <2>4 DEF Proceed
<1>3. ASSUME NEW r \in Requests, NEW k \in Keys, HitMemory(r, k) \/ Look(r, k)
      PROVE  SomebodyEvicts'
  <2>1. \A j \in Keys : row'[j] = row[j] \/ row'[j] = NoBody
    BY <1>1, <1>3 DEF HitMemory, Look, DeleteRow, disk, Shapes
  <2>2. \A q \in Requests : at[q] = "evicting" => at'[q] = "evicting" /\ todo'[q] = todo[q]
    BY <1>1, <1>3 DEF HitMemory, Look, Join, evictVars, Shapes
  <2>3. QED
    BY <1>1, <2>1, <2>2, FewerKeeps
<1>4. CASE \/ \E S \in SUBSET Keys : Purge(S)
           \/ \E k \in Keys : Purged(k) \/ RowExpires(k)
           \/ \E i \in 1..Len(memory) : EntryExpires(i)
           \/ UNCHANGED vars
  <2>1. \A j \in Keys : row'[j] = row[j] \/ row'[j] = NoBody
    BY <1>1, <1>4 DEF Purge, Purged, RowExpires, EntryExpires, vars, disk
  <2>2. at' = at /\ todo' = todo
    BY <1>4 DEF Purge, Purged, RowExpires, EntryExpires, vars, disk, evictVars
  <2>3. QED
    BY <1>1, <2>1, <2>2, FewerKeeps
<1>5. QED
  BY <1>2, <1>3, <1>4 DEF Next, Crash

\* Both layers keep their limits as long as nothing crashes: above
\* cacheDiskBytes, at any moment of overlapping puts, evictions and purges,
\* some evict() still has every row on its list.  (A crash forgets evict();
\* the memory bound of MemoryIsCounted needs no such assumption.)
THEOREM LayersHold == ASSUME Faults = FALSE PROVE Spec => []LayersBounded
<1>1. Init => SomebodyEvicts
  <2> SUFFICES ASSUME Init PROVE SomebodyEvicts
    OBVIOUS
  <2>1. row \in Rows /\ DiskBytes(row) <= DiskMax
    BY DEF Init, Rows
  <2>2. DiskBytes(row) \in Nat
    BY <2>1, FewerRows
  <2>3. QED
    BY <2>1, <2>2, CacheAssumption DEF SomebodyEvicts
<1>2. MInv /\ MInv' /\ SomebodyEvicts /\ [Next]_vars => SomebodyEvicts'
  BY NextEvicts
<1>3. MInv /\ SomebodyEvicts => LayersBounded
  BY DEF MInv, Sound, Distinct, MemoryAccounting, SomebodyEvicts, DiskBounded, LayersBounded
<1>4. QED
  BY <1>1, <1>2, <1>3, MemoryInvariance, PTL DEF Spec

=============================================================================
