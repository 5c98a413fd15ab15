-------------------------- MODULE CompressionStore --------------------------
(***************************************************************************)
(* The retention store behind every <<ccr:HASH>> marker:                   *)
(* furl_ctx/cache/compression_store.py, class CompressionStore, over one   *)
(* primary backend and an optional spill tier.                             *)
(*                                                                         *)
(* The primary is either InMemoryBackend (DurableBackend = FALSE: `rows'   *)
(* is its dict and every operation succeeds) or SqliteBackend              *)
(* (DurableBackend = TRUE: `rows' is the file, `fallback' the in-process   *)
(* refuge for writes that lose the lock-contention retry).  Reads of a WAL *)
(* file do not contend with a writer, so only writes may fail open.        *)
(*                                                                         *)
(* Threads call store() concurrently.  `lock' is self._lock: a store()     *)
(* holds it from the expiry sweep to the bind and its steps in between are *)
(* the iterations of the eviction loop; every other method takes the lock  *)
(* for one atomic step.  The entry is timestamped before the lock is       *)
(* taken, and the durable retries re-take it one attempt at a time.        *)
(*                                                                         *)
(* An entry keeps its content, created_at and ttl.  Token counts, tool     *)
(* names, access bookkeeping and the event log are not modelled.           *)
(***************************************************************************)
EXTENDS Integers, FiniteSets

CONSTANTS
  Keys,            \* hash keys
  Contents,        \* originals; any original may be stored under any key
  TTLs,            \* ttl values callers pass
  Threads,         \* threads calling store()
  MaxEntries,      \* self._max_entries
  RetryAttempts,   \* self._durable_retry_attempts
  DurableBackend,  \* the primary exposes set_durable (SqliteBackend)
  LockContention,  \* other processes may hold the file's write lock
  Spill,           \* a spill tier is configured
  NIL,             \* no entry, no thread
  MaxTime,         \* bound on the clock
  MaxStale         \* bound on the stale counter where failing deletes inflate it

ASSUME StoreAssumption ==
  /\ IsFiniteSet(Keys)
  /\ TTLs \subseteq Nat \ {0}
  /\ MaxEntries \in Nat \ {0}
  /\ RetryAttempts \in Nat
  /\ DurableBackend \in BOOLEAN
  /\ LockContention \in BOOLEAN
  /\ LockContention => DurableBackend
  /\ Spill \in BOOLEAN
  /\ ~(Spill /\ DurableBackend)
  /\ MaxTime \in Nat
  /\ MaxStale \in Nat

VARIABLES
  now,            \* the clock self._now reads
  rows,           \* primary: Keys -> entry or NIL
  fallback,       \* SqliteBackend._memory
  spill,          \* the spill tier
  heap,           \* self._eviction_heap: a set of <<created_at, key, copy>>
  stale,          \* self._stale_heap_entries
  lock,           \* holder of self._lock
  pc,             \* where each thread's store() is
  call,           \* its arguments
  attempts,       \* its durable retries left
  rebuilt         \* rebuilt_since_progress, of the thread in the eviction loop

vars == <<now, rows, fallback, spill, heap, stale, lock, pc, call, attempts, rebuilt>>
tiers == <<rows, fallback, spill>>
threads == <<lock, pc, call, attempts, rebuilt>>

Entry == [content : Contents, created : 0..MaxTime, ttl : TTLs]
OptEntry == Entry \cup {NIL}

Call == [key : Keys, entry : Entry, require_durable : BOOLEAN]

ASSUME NILAssumption == NIL \notin Threads \cup Contents \cup Entry \cup Call

-----------------------------------------------------------------------------
(* Entries and the primary backend.                                        *)

IsExpired(e) == now - e.created > e.ttl

\* Backend get: a file row wins over the in-process fallback.
Get(k) == IF rows[k] # NIL THEN rows[k] ELSE fallback[k]

Live == {k \in Keys : Get(k) # NIL}
Count == Cardinality(Live)

\* May this backend write fail open?
WriteOutcomes == IF LockContention THEN BOOLEAN ELSE {TRUE}
SpillOutcomes == IF Spill THEN BOOLEAN ELSE {TRUE}

\* Backend set / set_durable: a lost write is kept in the fallback, a landed
\* one drops the fallback's shadow.
BackendSet(k, e, ok) ==
  /\ rows' = IF ok THEN [rows EXCEPT ![k] = e] ELSE rows
  /\ fallback' = [fallback EXCEPT ![k] = IF ok THEN NIL ELSE e]

Without(tier, K) == [k \in Keys |-> IF k \in K THEN NIL ELSE tier[k]]

\* Backend delete of every key of K; a lost file delete leaves the row.
BackendDelete(K, ok) ==
  /\ rows' = IF ok THEN Without(rows, K) ELSE rows
  /\ fallback' = Without(fallback, K)

BackendDeleted(k, ok) == (ok /\ rows[k] # NIL) \/ fallback[k] # NIL

-----------------------------------------------------------------------------
(* The eviction heap.  Equal (created_at, key) tuples may occur more than  *)
(* once; the third component tells the copies apart.                       *)

HeapEntry == (0..MaxTime) \X Keys \X Nat

FreshCopy(t, k) ==
  CHOOSE n \in 0..Cardinality(heap) : <<t, k, n>> \notin heap

Push_NewKeysOnly(t, k) ==
  IF \E h \in heap : h[2] = k THEN heap ELSE heap \cup {<<t, k, FreshCopy(t, k)>>}
Push(t, k) == heap \cup {<<t, k, FreshCopy(t, k)>>}

\* heappop takes a minimum by created_at; the order of equal timestamps is
\* the order of the hashes, left open here.
Oldest_Newest == {h \in heap : \A g \in heap : g[1] <= h[1]}
Oldest == {h \in heap : \A g \in heap : h[1] <= g[1]}

\* heappop removes what it returns.
Popped_Peek(h) == heap
Popped(h) == heap \ {h}

\* A stale tuple met by the loop is discounted.
Discounted == IF stale > 0 THEN stale - 1 ELSE 0

\* Half of the heap is stale (self._heap_rebuild_threshold = 0.5).
RebuildDue_Never(stale_now) == FALSE
RebuildDue(stale_now) == heap # {} /\ 2 * stale_now >= Cardinality(heap)

\* created_at_index: a tuple for every entry of the primary.
Index(entries) ==
  {<<entries[k].created, k, 0>> : k \in {j \in Keys : entries[j] # NIL}}
LiveIndex == Index([k \in Keys |-> Get(k)])

-----------------------------------------------------------------------------
(* What a caller can read back.                                            *)

RecoverFromSpill(k) ==
  IF Spill /\ spill[k] # NIL /\ ~IsExpired(spill[k]) THEN spill[k] ELSE NIL

\* The entry retrieve(k) returns now.
RetrieveResult(k) ==
  IF Get(k) = NIL THEN RecoverFromSpill(k)
  ELSE IF IsExpired(Get(k)) THEN NIL ELSE Get(k)

View(k) == IF RetrieveResult(k) = NIL THEN NIL ELSE RetrieveResult(k).content

-----------------------------------------------------------------------------
Init ==
  /\ now = 0
  /\ rows = [k \in Keys |-> NIL]
  /\ fallback = [k \in Keys |-> NIL]
  /\ spill = [k \in Keys |-> NIL]
  /\ heap = {}
  /\ stale = 0
  /\ lock = NIL
  /\ pc = [t \in Threads |-> "idle"]
  /\ call = [t \in Threads |-> NIL]
  /\ attempts = [t \in Threads |-> 0]
  /\ rebuilt = FALSE

\* store() up to the lock: the entry is stamped with the time of the call.
StoreCall(t) ==
  /\ pc[t] = "idle"
  /\ \E k \in Keys, c \in Contents, ttl \in TTLs, req \in BOOLEAN :
       call' = [call EXCEPT ![t] =
                  [key |-> k,
                   entry |-> [content |-> c, created |-> now, ttl |-> ttl],
                   require_durable |-> req]]
  /\ pc' = [pc EXCEPT ![t] = "call"]
  /\ UNCHANGED <<now, tiers, heap, stale, lock, attempts, rebuilt>>

\* _clean_expired: each tier drops its expired entries, if its delete lands.
ExpiredRows_AtTheDeadline(ok) ==
  {k \in Keys : ok /\ rows[k] # NIL /\ now - rows[k].created >= rows[k].ttl}
ExpiredRows(ok) == {k \in Keys : ok /\ rows[k] # NIL /\ IsExpired(rows[k])}
ExpiredFallback == {k \in Keys : fallback[k] # NIL /\ IsExpired(fallback[k])}
SweptStale(ok) == stale + Cardinality(ExpiredRows(ok)) + Cardinality(ExpiredFallback)

\* Take the lock; sweep expired entries; rebuild the heap when at least half
\* of it is stale.
StoreLock(t) ==
  /\ pc[t] = "call"
  /\ lock = NIL
  /\ \E ok \in WriteOutcomes :
       /\ rows' = Without(rows, ExpiredRows(ok))
       /\ fallback' = Without(fallback, ExpiredFallback)
       /\ heap' = IF RebuildDue(SweptStale(ok)) THEN LiveIndex' ELSE heap
       /\ stale' = IF RebuildDue(SweptStale(ok)) THEN 0 ELSE SweptStale(ok)
  /\ lock' = t
  /\ pc' = [pc EXCEPT ![t] = "evict"]
  /\ rebuilt' = FALSE
  /\ UNCHANGED <<now, spill, call, attempts>>

\* _spill_evicted: the spill keeps what capacity evicts.
Demote_KeepOlder(k) ==
  IF Spill /\ spill[k] = NIL THEN [spill EXCEPT ![k] = Get(k)] ELSE spill
Demote(k) == IF Spill THEN [spill EXCEPT ![k] = Get(k)] ELSE spill

Evicting(t) == pc[t] = "evict" /\ lock = t

\* One turn of the eviction loop on a non-empty heap: pop the oldest tuple;
\* demote and delete the entry it names, or discount a stale tuple.
EvictPop(t) ==
  /\ Evicting(t)
  /\ Count >= MaxEntries
  /\ \E h \in Oldest :
       /\ heap' = Popped(h)
       /\ IF Get(h[2]) # NIL /\ Get(h[2]).created = h[1]
            THEN /\ spill' = Demote(h[2])
                 /\ \E ok \in WriteOutcomes : BackendDelete({h[2]}, ok)
                 /\ rebuilt' = FALSE
                 /\ UNCHANGED stale
            ELSE /\ stale' = Discounted
                 /\ UNCHANGED <<tiers, rebuilt>>
  /\ UNCHANGED <<now, lock, pc, call, attempts>>

\* One turn on an empty heap: rebuild it from the live entries, once.
EvictRebuild(t) ==
  /\ Evicting(t)
  /\ Count >= MaxEntries
  /\ heap = {} /\ ~rebuilt
  /\ heap' = LiveIndex
  /\ stale' = 0
  /\ rebuilt' = TRUE
  /\ UNCHANGED <<now, tiers, lock, pc, call, attempts>>

\* The loop is over: below capacity, or rebuilt and still nothing to pop.
EvictionDone_OffByOne == Count <= MaxEntries \/ (heap = {} /\ rebuilt)
EvictionDone == Count < MaxEntries \/ (heap = {} /\ rebuilt)

\* Leave the locked region and return to the caller.
Release(t) ==
  /\ lock' = NIL
  /\ pc' = [pc EXCEPT ![t] = "idle"]
  /\ call' = [call EXCEPT ![t] = NIL]
  /\ rebuilt' = FALSE

Collides(t) ==
  LET existing == Get(call[t].key)
  IN existing # NIL /\ existing.content # call[t].entry.content

\* The key is bound to different content: drop the binding, refuse the new one.
CollisionDrop_LastWins(t) ==
  /\ Evicting(t) /\ EvictionDone
  /\ Collides(t)
  /\ BackendSet(call[t].key, call[t].entry, TRUE)
  /\ Release(t)
  /\ UNCHANGED <<now, spill, heap, stale, attempts>>
CollisionDrop(t) ==
  /\ Evicting(t) /\ EvictionDone
  /\ Collides(t)
  /\ \E ok \in WriteOutcomes : BackendDelete({call[t].key}, ok)
  /\ stale' = stale + 1
  /\ Release(t)
  /\ UNCHANGED <<now, spill, heap, attempts>>

\* Bind the key, anew or again to the same content, and push its tuple; a
\* replaced entry leaves a stale one behind.
BindKey(t, ok) ==
  /\ Evicting(t) /\ EvictionDone
  /\ ~Collides(t)
  /\ stale' = IF Get(call[t].key) # NIL THEN stale + 1 ELSE stale
  /\ heap' = Push(call[t].entry.created, call[t].key)
  /\ BackendSet(call[t].key, call[t].entry, ok)
  /\ UNCHANGED <<now, spill>>

MustRetry(t, ok) == call[t].require_durable /\ ~ok /\ RetryAttempts > 0

Bind(t) ==
  \E ok \in WriteOutcomes :
    /\ BindKey(t, ok)
    /\ ~MustRetry(t, ok)
    /\ Release(t)
    /\ UNCHANGED attempts

\* A required durable write was kept in memory only: leave the lock and retry.
BindVolatile(t) ==
  \E ok \in WriteOutcomes :
    /\ BindKey(t, ok)
    /\ MustRetry(t, ok)
    /\ lock' = NIL
    /\ pc' = [pc EXCEPT ![t] = "retry"]
    /\ attempts' = [attempts EXCEPT ![t] = RetryAttempts]
    /\ rebuilt' = FALSE
    /\ UNCHANGED call

\* One attempt of _retry_durable_persist, after its backoff sleep: the last
\* one, or the one that lands, returns to the caller (which may veto).
RetryPersist(t) ==
  /\ pc[t] = "retry"
  /\ lock = NIL
  /\ \E ok \in WriteOutcomes :
       /\ BackendSet(call[t].key, call[t].entry, ok)
       /\ attempts' = [attempts EXCEPT ![t] = IF ok THEN 0 ELSE @ - 1]
  /\ IF attempts'[t] = 0
       THEN /\ pc' = [pc EXCEPT ![t] = "idle"]
            /\ call' = [call EXCEPT ![t] = NIL]
       ELSE UNCHANGED <<pc, call>>
  /\ UNCHANGED <<now, spill, heap, stale, lock, rebuilt>>

-----------------------------------------------------------------------------
(* The other methods: one locked step each.                                *)

\* An expired entry met by a read is deleted and its heap tuple counted stale.
ReapExpired_AtTheDeadline(k) ==
  /\ Get(k) # NIL /\ now - Get(k).created >= Get(k).ttl
  /\ stale < MaxStale
  /\ \E ok \in WriteOutcomes : BackendDelete({k}, ok)
  /\ stale' = stale + 1
  /\ UNCHANGED <<now, spill, heap, threads>>
ReapExpired_Uncounted(k) ==
  /\ Get(k) # NIL /\ IsExpired(Get(k))
  /\ \E ok \in WriteOutcomes : BackendDelete({k}, ok)
  /\ UNCHANGED <<now, spill, heap, stale, threads>>
ReapExpired(k) ==
  /\ Get(k) # NIL /\ IsExpired(Get(k))
  /\ stale < MaxStale
  /\ \E ok \in WriteOutcomes : BackendDelete({k}, ok)
  /\ stale' = stale + 1
  /\ UNCHANGED <<now, spill, heap, threads>>

\* A live entry's access bookkeeping is written back as a whole entry.
WriteBack(k) ==
  /\ Get(k) # NIL /\ ~IsExpired(Get(k))
  /\ \E ok \in WriteOutcomes : BackendSet(k, Get(k), ok)
  /\ UNCHANGED <<now, spill, heap, stale, threads>>

\* A spilled entry found expired is deleted from the spill.
ReapSpill(k) ==
  /\ Get(k) = NIL
  /\ Spill /\ spill[k] # NIL /\ IsExpired(spill[k])
  /\ spill' = [spill EXCEPT ![k] = NIL]
  /\ UNCHANGED <<now, rows, fallback, heap, stale, threads>>

Retrieve(k) ==
  /\ lock = NIL
  /\ ReapExpired(k) \/ WriteBack(k) \/ ReapSpill(k)

\* get_metadata: like retrieve on an expired entry, otherwise a pure read.
GetMetadata(k) == lock = NIL /\ ReapExpired(k)

\* A search reads its entry under the lock, scores it without, and records
\* the access under the lock again if the entry is still there.
GetEntryForSearch(k) == lock = NIL /\ ReapExpired(k)
RecordSearchAccess(k) == lock = NIL /\ WriteBack(k)

Delete(k) ==
  /\ lock = NIL
  /\ \E ok \in WriteOutcomes, spill_ok \in SpillOutcomes :
       /\ BackendDelete({k}, ok)
       /\ stale' = IF BackendDeleted(k, ok) THEN stale + 1 ELSE stale
       /\ stale' <= MaxStale
       /\ spill' = IF spill_ok THEN [spill EXCEPT ![k] = NIL] ELSE spill
  /\ UNCHANGED <<now, heap, threads>>

Clear ==
  /\ lock = NIL
  /\ \E ok \in WriteOutcomes, spill_ok \in SpillOutcomes :
       /\ BackendDelete(Keys, ok)
       /\ spill' = IF spill_ok THEN [k \in Keys |-> NIL] ELSE spill
  /\ heap' = {}
  /\ stale' = 0
  /\ UNCHANGED <<now, threads>>

Tick ==
  /\ now < MaxTime
  /\ now' = now + 1
  /\ UNCHANGED <<tiers, heap, stale, threads>>

\* The rows SqliteBackend's start-up purge leaves in the file.
StartupRows_AtTheDeadline ==
  [k \in Keys |-> IF rows[k] # NIL /\ now - rows[k].created >= rows[k].ttl THEN NIL ELSE rows[k]]
StartupRows ==
  [k \in Keys |-> IF rows[k] # NIL /\ IsExpired(rows[k]) THEN NIL ELSE rows[k]]

\* The process restarts on the same file, and the store with an empty heap.
Restart ==
  /\ DurableBackend
  /\ rows' = StartupRows
  /\ fallback' = [k \in Keys |-> NIL]
  /\ heap' = {}
  /\ stale' = 0
  /\ lock' = NIL
  /\ pc' = [t \in Threads |-> "idle"]
  /\ call' = [t \in Threads |-> NIL]
  /\ attempts' = [t \in Threads |-> 0]
  /\ rebuilt' = FALSE
  /\ UNCHANGED <<now, spill>>

LockedStep(t) == EvictPop(t) \/ EvictRebuild(t) \/ CollisionDrop(t) \/ Bind(t) \/ BindVolatile(t)

StoreStep(t) == StoreCall(t) \/ StoreLock(t) \/ LockedStep(t) \/ RetryPersist(t)

KeyStep(k) ==
  \/ Retrieve(k)
  \/ GetMetadata(k)
  \/ GetEntryForSearch(k)
  \/ RecordSearchAccess(k)
  \/ Delete(k)

Next ==
  \/ \E t \in Threads : StoreStep(t)
  \/ \E k \in Keys : KeyStep(k)
  \/ Clear
  \/ Tick
  \/ Restart

Spec == Init /\ [][Next]_vars

\* A thread inside the locked region is scheduled until it leaves it.
FairSpec == Spec /\ \A t \in Threads : WF_vars(LockedStep(t))

-----------------------------------------------------------------------------
\* A thread's locals go with its place in store().
PhaseOK ==
  \A t \in Threads :
    /\ (call[t] = NIL) <=> (pc[t] = "idle")
    /\ (pc[t] = "evict") <=> (lock = t)
    /\ (pc[t] = "retry") <=> (attempts[t] > 0)

TypeOK ==
  /\ now \in 0..MaxTime
  /\ rows \in [Keys -> OptEntry]
  /\ fallback \in [Keys -> OptEntry]
  /\ spill \in [Keys -> OptEntry]
  /\ heap \subseteq HeapEntry
  /\ IsFiniteSet(heap)
  /\ stale \in Nat
  /\ lock \in Threads \cup {NIL}
  /\ pc \in [Threads -> {"idle", "call", "evict", "retry"}]
  /\ call \in [Threads -> Call \cup {NIL}]
  /\ attempts \in [Threads -> 0..RetryAttempts]
  /\ rebuilt \in BOOLEAN
  /\ PhaseOK

-----------------------------------------------------------------------------
(* Safety of the retention machinery.                                      *)

\* The store never holds more entries than its capacity, whatever mix of
\* expiries, purges, updates and evictions preceded (_evict_if_needed promises
\* count() below max_entries on exit of its loop).
CapacityBound == Count <= MaxEntries

\* Every live entry can be found by the eviction loop: its current timestamp is
\* in the heap.  An entry the heap has lost is never evicted, and newer ones go
\* in its place.
HeapCovers == \A k \in Live : \E h \in heap : h[1] = Get(k).created /\ h[2] = k

\* The stale counter is exact: the heap holds one tuple per live entry and
\* `stale' others.  Each of the methods that deletes or replaces an entry has
\* to keep this by hand, and the rebuild rule trusts it.
HeapExact == Cardinality(heap) = Count + stale

\* The heap cannot grow without bound under churn at a fixed capacity.
HeapBounded == Cardinality(heap) < 2 * MaxEntries

\* Those three together: what the eviction loop needs of its heap.
HeapSound == HeapCovers /\ HeapExact /\ HeapBounded

\* Eviction is oldest-first: no entry outlives, by eviction, an older one.
EvictsOldest ==
  [][\A t \in Threads : EvictPop(t) =>
        \A k \in Live \ Live', j \in Live' : Get(k).created <= Get(j).created]_vars

\* No silent loss: an original that resolved stops resolving only because its
\* time ran out, it was purged, its key collided, capacity evicted it (and only
\* without a spill tier), or the process died with the sole copy in memory.
LossIsAccounted ==
  [][\A k \in Keys : (View(k) # NIL /\ View(k)' = NIL) =>
        \/ Tick
        \/ Delete(k)
        \/ Clear
        \/ \E t \in Threads :
             \/ CollisionDrop(t) /\ call[t].key = k
             \/ EvictPop(t) /\ ~Spill
             \/ (Bind(t) \/ BindVolatile(t) \/ RetryPersist(t)) /\ call[t].key = k /\ IsExpired(call[t].entry)
        \/ Restart /\ rows[k] = NIL]_vars

\* Reading is safe: no read path makes a resolvable original, of its own key or
\* of another, unresolvable; in particular each of them agrees with the expiry
\* test to the last tick.
ReadsPreserve ==
  [][\A j \in Keys :
        Retrieve(j) \/ GetMetadata(j) \/ GetEntryForSearch(j) \/ RecordSearchAccess(j) =>
          \A k \in Keys : View(k) # NIL => View(k)' = View(k)]_vars

\* The eviction loop terminates: a store() that holds the lock lets it go.
LockReleased == \A t \in Threads : (lock = t) ~> (lock # t)

\* The store implements what a marker promises.
Contract == INSTANCE MarkerContract WITH view <- [k \in Keys |-> View(k)]
ImplementsMarkerContract == Contract!Spec
=============================================================================
