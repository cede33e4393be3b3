---------------------------- MODULE ResponseCache ----------------------------
(***************************************************************************)
(* The response cache: the memory layer and single flight (src/cache.ts),  *)
(* the rows and files below it (storage/cache-store.ts), and the cached    *)
(* path of runFetch() (server/core/fetch.ts).  SQLite calls are            *)
(* synchronous; fetching, writing, reading and unlinking a file are not:   *)
(* an action ends where one of those is awaited.                           *)
(*                                                                         *)
(* at[r] is where request r is:                                            *)
(*   idle      outside               hit       has an entry to look at     *)
(*   opening   awaits readFile()     reading   the file is open            *)
(*   dropping  awaits unlink()       waiting   shares another one's task   *)
(*   fetching  runs the task         writing   awaits writeFile()          *)
(*   evicting  awaits unlink() of victim[r] in evict()                     *)
(*                                                                         *)
(* Entries and rows expire at any moment.  A body stands for its size and  *)
(* whether it is a challenge page.  Row order only chooses the victim of   *)
(* evict(), which is left open, and writing a file is one step.            *)
(***************************************************************************)
EXTENDS Integers, Sequences, FiniteSets, Functions

CONSTANTS
    Requests, Keys, NoRequest, NoKey,
    Bodies, NoBody,
    Bytes,          \* [Bodies -> Nat]: the length of a body
    Challenges,     \* bodies only an earlier release would have stored
    MemoryMax,      \* cacheMemoryBytes
    DiskMax,        \* cacheDiskBytes
    Faults          \* may the process crash and writes fail?

ASSUME CacheAssumption ==
    /\ NoRequest \notin Requests /\ NoKey \notin Keys /\ NoBody \notin Bodies
    /\ IsFiniteSet(Keys) /\ Keys # {}
    /\ Challenges \subseteq Bodies
    /\ Bytes \in [Bodies -> Nat \ {0}]
    /\ MemoryMax \in Nat /\ DiskMax \in Nat
    /\ Faults \in BOOLEAN

VARIABLES
    memory,         \* the Map, oldest entry first
    memoryBytes,
    inflight,       \* per key, the request that runs the task
    row, expired,   \* cache_entries, and the keys of expired rows
    file,           \* per key, the body in its file
    at, want, held, \* per request: phase, key, body read or fetched
    todo, victim,   \* per request in evict(): rows left, file being unlinked
    purging,        \* keys whose files purge() is unlinking
    removed         \* history: keys deleted or purged when no request was about to
                    \*   put them into memory, and not stored since

disk == <<row, expired, file>>
evictVars == <<todo, victim>>
vars == <<memory, memoryBytes, inflight, disk, at, want, held, evictVars, purging, removed>>

Running == {"fetching", "writing", "evicting"}
Phases == Running \cup {"idle", "hit", "opening", "reading", "dropping", "waiting"}

Entry == [key : Keys, body : Bodies, expired : BOOLEAN]

Listed == {k \in Keys : row[k] # NoBody}

-----------------------------------------------------------------------------
\* Memory

\* Where the entry of k is; a Map has one at most.
Place(k) == CHOOSE i \in 1..Len(memory) : memory[i].key = k

Without(k) ==
    IF \A i \in 1..Len(memory) : memory[i].key # k THEN memory
    ELSE SubSeq(memory, 1, Place(k) - 1) \o SubSeq(memory, Place(k) + 1, Len(memory))

\* The bytes of the first n entries of list.
Weight(list, n) == SumFunctionOnSet([i \in 1..n |-> Bytes[list[i].body]], 1..n)

\* The bytes of the entry of k, of which there is at most one.
Taken(k) == Weight(memory, Len(memory)) - Weight(Without(k), Len(Without(k)))

Forget(k) ==
    /\ memory' = Without(k)
    /\ memoryBytes' = memoryBytes - Taken(k)

\* putMemory(): the loop drops the fewest oldest entries that make room.
PutMemory(k, b) ==
    LET list == Append(Without(k), [key |-> k, body |-> b, expired |-> FALSE])
        bytes == memoryBytes - Taken(k) + Bytes[b]
    IN  \E n \in 0..Len(list) :
            /\ n < Len(list) => bytes - Weight(list, n) =< MemoryMax
            /\ \A i \in 0..(n - 1) : bytes - Weight(list, i) > MemoryMax
            /\ memory' = SubSeq(list, n + 1, Len(list))
            /\ memoryBytes' = bytes - Weight(list, n)

-----------------------------------------------------------------------------
\* coalesce()

\* Mutation: a task is started even when one is in flight.
JoinAlways(r, k) ==
    /\ at' = [at EXCEPT ![r] = "fetching"]
    /\ inflight' = [inflight EXCEPT ![k] = r]

Join(r, k) ==
    IF inflight[k] = NoRequest
    THEN /\ at' = [at EXCEPT ![r] = "fetching"]
         /\ inflight' = [inflight EXCEPT ![k] = r]
    ELSE /\ at' = [at EXCEPT ![r] = "waiting"]
         /\ UNCHANGED inflight

\* Mutation: nobody answers those who share the task.
EndAlone(r) ==
    /\ inflight' = [inflight EXCEPT ![want[r]] = NoRequest]
    /\ at' = [at EXCEPT ![r] = "idle"]
    /\ held' = [held EXCEPT ![r] = NoBody]

\* The task of r settles: whoever shares it has its answer.
End(r) ==
    /\ inflight' = [inflight EXCEPT ![want[r]] = NoRequest]
    /\ at' = [q \in Requests |->
            IF q = r \/ (at[q] = "waiting" /\ want[q] = want[r]) THEN "idle" ELSE at[q]]
    /\ held' = [held EXCEPT ![r] = NoBody]

-----------------------------------------------------------------------------
\* Cache.get() and CacheStore.get()

Found(b) == IF b \in Challenges THEN "hit" ELSE "idle"

HitMemory(r, k) ==
    /\ at[r] = "idle"
    /\ \E i \in 1..Len(memory) :
        /\ memory[i].key = k
        /\ ~memory[i].expired
        /\ memory' = Append(Without(k), memory[i])
        /\ at' = [at EXCEPT ![r] = Found(memory[i].body)]
    /\ want' = [want EXCEPT ![r] = k]
    /\ UNCHANGED <<memoryBytes, inflight, disk, held, evictVars, purging, removed>>

MissesMemory(k) == \A i \in 1..Len(memory) : memory[i].key = k => memory[i].expired

\* The keys of S no request is about to put into memory, from what it reads or
\* has written.
Removed(S) == S \ {want[r] : r \in {q \in Requests : at[q] \in {"opening", "reading", "evicting"}}}

\* delete(): the row goes at once; the caller awaits unlink().
DeleteRow(k) ==
    /\ row' = [row EXCEPT ![k] = NoBody]
    /\ expired' = expired \ {k}

Look(r, k) ==
    /\ at[r] = "idle"
    /\ MissesMemory(k)
    /\ Forget(k)
    /\ want' = [want EXCEPT ![r] = k]
    /\ \/ /\ row[k] = NoBody
          /\ Join(r, k)
          /\ UNCHANGED <<row, expired>>
       \/ /\ row[k] # NoBody /\ k \in expired
          /\ DeleteRow(k)
          /\ at' = [at EXCEPT ![r] = "dropping"]
          /\ UNCHANGED inflight
       \/ /\ row[k] # NoBody /\ k \notin expired
          /\ at' = [at EXCEPT ![r] = "opening"]
          /\ UNCHANGED <<inflight, row, expired>>
    /\ UNCHANGED <<file, held, evictVars, purging, removed>>

Open(r) ==
    /\ at[r] = "opening"
    /\ file[want[r]] # NoBody
    /\ at' = [at EXCEPT ![r] = "reading"]
    /\ held' = [held EXCEPT ![r] = file[want[r]]]
    /\ UNCHANGED <<memory, memoryBytes, inflight, disk, want, evictVars, purging, removed>>

OpenFails(r) ==
    /\ at[r] = "opening"
    /\ file[want[r]] = NoBody
    /\ DeleteRow(want[r])
    /\ at' = [at EXCEPT ![r] = "dropping"]
    /\ UNCHANGED <<memory, memoryBytes, inflight, file, want, held, evictVars, purging, removed>>

Read(r) ==
    /\ at[r] = "reading"
    /\ PutMemory(want[r], held[r])
    /\ at' = [at EXCEPT ![r] = Found(held[r])]
    /\ held' = [held EXCEPT ![r] = NoBody]
    /\ UNCHANGED <<inflight, disk, want, evictVars, purging, removed>>

\* runFetch() finds a challenge page and deletes it: Cache.delete().
Delete(r) ==
    LET k == want[r] IN
    /\ at[r] = "hit"
    /\ Forget(k)
    /\ removed' = removed \cup Removed({k})
    /\ \/ /\ row[k] # NoBody
          /\ DeleteRow(k)
          /\ at' = [at EXCEPT ![r] = "dropping"]
          /\ UNCHANGED inflight
       \/ /\ row[k] = NoBody
          /\ Join(r, k)
          /\ UNCHANGED <<row, expired>>
    /\ UNCHANGED <<file, want, held, evictVars, purging>>

\* Mutation: a deleted row keeps its file.
DroppedRowOnly(r) ==
    /\ at[r] = "dropping"
    /\ Join(r, want[r])
    /\ UNCHANGED <<memory, memoryBytes, disk, want, held, evictVars, purging, removed>>

Dropped(r) ==
    /\ at[r] = "dropping"
    /\ file' = [file EXCEPT ![want[r]] = NoBody]
    /\ Join(r, want[r])
    /\ UNCHANGED <<memory, memoryBytes, row, expired, want, held, evictVars, purging, removed>>

-----------------------------------------------------------------------------
\* The task: compute() and CacheStore.put()

\* The fetch fails, or its result is a challenge and is not stored.
FetchEnds(r) ==
    /\ at[r] = "fetching"
    /\ End(r)
    /\ UNCHANGED <<memory, memoryBytes, disk, want, evictVars, purging, removed>>

Fetch(r) ==
    /\ at[r] = "fetching"
    /\ \E b \in Bodies \ Challenges : held' = [held EXCEPT ![r] = b]
    /\ at' = [at EXCEPT ![r] = "writing"]
    /\ UNCHANGED <<memory, memoryBytes, inflight, disk, want, evictVars, purging, removed>>

DiskBytes(rows) ==
    LET stored == {k \in Keys : rows[k] # NoBody}
    IN  SumFunctionOnSet([k \in stored |-> Bytes[rows[k]]], stored)

\* put() is over: the body goes to memory and the task settles.
Store(r) ==
    /\ PutMemory(want[r], held[r])
    /\ End(r)

\* evict() deletes the row of one key of S.
EvictOne(r, rows, S) ==
    \E k \in S :
        /\ row' = [rows EXCEPT ![k] = NoBody]
        /\ victim' = [victim EXCEPT ![r] = k]
        /\ todo' = [todo EXCEPT ![r] = S \ {k}]
        /\ at' = [at EXCEPT ![r] = "evicting"]
        /\ UNCHANGED <<memory, memoryBytes, inflight, held>>

\* Mutation: the limit is tested before the new row is counted.
OverLimitBefore(rows) == DiskBytes(row) > DiskMax

OverLimit(rows) == DiskBytes(rows) > DiskMax

Write(r) ==
    LET k == want[r]
        rows == [row EXCEPT ![k] = held[r]]
    IN  /\ at[r] = "writing"
        /\ file' = [file EXCEPT ![k] = held[r]]
        /\ removed' = removed \ {k}
        /\ \/ /\ ~OverLimit(rows)
              /\ row' = rows
              /\ expired' = expired \ {k}
              /\ Store(r)
              /\ UNCHANGED evictVars
           \/ /\ OverLimit(rows)
              /\ EvictOne(r, rows, {q \in Keys : rows[q] # NoBody})
              /\ expired' = (expired \ {k}) \cap {q \in Keys : row'[q] # NoBody}
        /\ UNCHANGED <<want, purging>>

Enough == DiskBytes(row) =< (3 * DiskMax) \div 4

Evicted(r) ==
    /\ at[r] = "evicting"
    /\ file' = [file EXCEPT ![victim[r]] = NoBody]
    /\ \/ /\ Enough \/ todo[r] = {}
          /\ Store(r)
          /\ victim' = [victim EXCEPT ![r] = NoKey]
          /\ todo' = [todo EXCEPT ![r] = {}]
          /\ UNCHANGED <<row, expired>>
       \/ /\ ~Enough
          /\ EvictOne(r, row, todo[r])
          /\ expired' = expired \ {victim'[r]}
    /\ UNCHANGED <<want, purging, removed>>

-----------------------------------------------------------------------------
\* Cache.purge(), time and faults

\* Mutation: the entries survive, the byte count does not.
PurgeKeepsEntries(S) ==
    /\ memoryBytes' = 0
    /\ row' = [k \in Keys |-> IF k \in S THEN NoBody ELSE row[k]]
    /\ expired' = expired \ S
    /\ purging' = purging \cup (S \cap Listed)
    /\ removed' = removed \cup Removed(S)
    /\ UNCHANGED <<memory, inflight, file, at, want, held, evictVars>>

\* S: every key, or those whose metadata match.
Purge(S) ==
    /\ memory' = <<>>
    /\ memoryBytes' = 0
    /\ row' = [k \in Keys |-> IF k \in S THEN NoBody ELSE row[k]]
    /\ expired' = expired \ S
    /\ purging' = purging \cup (S \cap Listed)
    /\ removed' = removed \cup Removed(S)
    /\ UNCHANGED <<inflight, file, at, want, held, evictVars>>

Purged(k) ==
    /\ k \in purging
    /\ file' = [file EXCEPT ![k] = NoBody]
    /\ purging' = purging \ {k}
    /\ UNCHANGED <<memory, memoryBytes, inflight, row, expired, at, want, held, evictVars,
                   removed>>

EntryExpires(i) ==
    /\ ~memory[i].expired
    /\ memory' = [memory EXCEPT ![i].expired = TRUE]
    /\ UNCHANGED <<memoryBytes, inflight, disk, at, want, held, evictVars, purging, removed>>

RowExpires(k) ==
    /\ k \in Listed \ expired
    /\ expired' = expired \cup {k}
    /\ UNCHANGED <<memory, memoryBytes, inflight, row, file, at, want, held, evictVars, purging,
                   removed>>

\* mkdir() or writeFile() fails, with or without a file to show for it.
WriteFails(r) ==
    /\ Faults
    /\ at[r] = "writing"
    /\ file' \in {file, [file EXCEPT ![want[r]] = held[r]]}
    /\ End(r)
    /\ UNCHANGED <<memory, memoryBytes, row, expired, want, evictVars, purging, removed>>

\* A restart: rows and files are left, a file being written perhaps.
Crash ==
    /\ Faults
    /\ memory' = <<>> /\ memoryBytes' = 0
    /\ inflight' = [k \in Keys |-> NoRequest]
    /\ \E S \in SUBSET {r \in Requests : at[r] = "writing"} :
        file' = [k \in Keys |-> IF inflight[k] \in S THEN held[inflight[k]] ELSE file[k]]
    /\ at' = [r \in Requests |-> "idle"]
    /\ held' = [r \in Requests |-> NoBody]
    /\ todo' = [r \in Requests |-> {}]
    /\ victim' = [r \in Requests |-> NoKey]
    /\ purging' = {}
    /\ UNCHANGED <<row, expired, want, removed>>

-----------------------------------------------------------------------------
\* The process starts over whatever rows and files the last one left.
Init ==
    /\ memory = <<>>
    /\ memoryBytes = 0
    /\ inflight = [k \in Keys |-> NoRequest]
    /\ row \in [Keys -> Bodies \cup {NoBody}]
    /\ DiskBytes(row) =< DiskMax
    /\ expired = {}
    /\ file = row
    /\ at = [r \in Requests |-> "idle"]
    /\ want = [r \in Requests |-> CHOOSE k \in Keys : TRUE]
    /\ held = [r \in Requests |-> NoBody]
    /\ todo = [r \in Requests |-> {}]
    /\ victim = [r \in Requests |-> NoKey]
    /\ purging = {}
    /\ removed = {}

Proceed(r) ==
    \/ Open(r) \/ OpenFails(r) \/ Read(r) \/ Delete(r) \/ Dropped(r)
    \/ FetchEnds(r) \/ Fetch(r) \/ Write(r) \/ Evicted(r) \/ WriteFails(r)

Next ==
    \/ \E r \in Requests : Proceed(r) \/ \E k \in Keys : HitMemory(r, k) \/ Look(r, k)
    \/ \E S \in SUBSET Keys : Purge(S)
    \/ \E k \in Keys : Purged(k) \/ RowExpires(k)
    \/ \E i \in 1..Len(memory) : EntryExpires(i)
    \/ Crash

Spec == Init /\ [][Next]_vars

\* Fetches end and file operations complete.  The job timeout bounds a fetch once
\* the queue has started it; that its wait in the queue ends is assumed here, and
\* AdmissionQueue says when it does (AcceptedCallsEnd).
FairSpec == Spec /\ \A r \in Requests : WF_vars(Proceed(r))

-----------------------------------------------------------------------------
\* Properties

\* The shape of the state of Cache and CacheStore.
TypeOK ==
    /\ memory \in Seq(Entry)
    /\ memoryBytes \in Nat
    /\ inflight \in [Keys -> Requests \cup {NoRequest}]
    /\ row \in [Keys -> Bodies \cup {NoBody}]
    /\ expired \subseteq Listed
    /\ file \in [Keys -> Bodies \cup {NoBody}]
    /\ at \in [Requests -> Phases]
    /\ want \in [Requests -> Keys]
    /\ held \in [Requests -> Bodies \cup {NoBody}]
    /\ todo \in [Requests -> SUBSET Keys]
    /\ victim \in [Requests -> Keys \cup {NoKey}]
    /\ purging \subseteq Keys
    /\ removed \subseteq Keys

\* The count that bounds the memory layer is the sum of its entries, one per
\* key, through overwriting, expiry, purging and eviction, and keeps the bound.
MemoryAccounting ==
    /\ memoryBytes = Weight(memory, Len(memory))
    /\ memoryBytes =< MemoryMax
    /\ \A i, j \in 1..Len(memory) : memory[i].key = memory[j].key => i = j

\* Identical requests are coalesced: at most one task per key runs, it is the
\* one on record, and whoever waits waits for a task that runs.
SingleFlight ==
    /\ \A r \in Requests : at[r] \in Running => inflight[want[r]] = r
    /\ \A k \in Keys : inflight[k] # NoRequest =>
            at[inflight[k]] \in Running /\ want[inflight[k]] = k
    /\ \A r \in Requests : at[r] = "waiting" => inflight[want[r]] # NoRequest

\* No file is left behind: it has a row, or somebody is about to unlink it.
FilesAreOwned ==
    \A k \in Keys : file[k] # NoBody =>
        \/ row[k] # NoBody
        \/ k \in purging
        \/ \E r \in Requests : \/ at[r] = "dropping" /\ want[r] = k
                               \/ victim[r] = k

\* Above the disk limit somebody is evicting, however puts, evictions,
\* purges and expiries overlap.
DiskBounded ==
    DiskBytes(row) > DiskMax => \E r \in Requests : at[r] = "evicting"

\* Every request ends, whatever is purged and evicted around it.
RequestsEnd == \A r \in Requests : at[r] # "idle" ~> at[r] = "idle"

\* A key that was deleted or purged is in neither layer until it is stored
\* again, whatever other requests do, unless one of them was reading or
\* evicting for that very key at the time: get() puts what it has read into
\* memory without looking again (cache.ts:35).
RemovedStaysRemoved ==
    /\ \A i \in 1..Len(memory) : memory[i].key \notin removed
    /\ \A k \in removed : row[k] = NoBody

\* Both layers keep their limits: memory always and to the byte, the disk as
\* soon as nobody is evicting.
LayersBounded == MemoryAccounting /\ DiskBounded
=============================================================================
