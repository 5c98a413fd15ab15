----------------------------- MODULE RouterCache -----------------------------
(***************************************************************************)
(* The content router's two-tier result cache:                             *)
(* furl_ctx/transforms/router_cache.py, class CompressionCache.             *)
(*                                                                         *)
(* `results' is tier 2, `skip' tier 1; each is a dict: its keys, with the     *)
(* time of each and its place in the order of insertion.  Writing a key that *)
(* is there keeps its place and takes a new time.                           *)
(* What a result holds is a function of its key, so only the key is kept.   *)
(* Each operation below is one region of the cache's lock; it says what     *)
(* becomes of the cache and is used as a conjunct by the request that       *)
(* performs it.                                                            *)
(***************************************************************************)
EXTENDS Integers, FiniteSets

CONSTANTS
  CacheTTL,    \* _ttl_seconds
  MaxEntries,  \* _max_entries, per tier
  SweepEvery   \* _SWEEP_EVERY_N_INSERTIONS

ASSUME RouterCacheAssumption ==
  /\ CacheTTL \in Nat \ {0}
  /\ MaxEntries \in Nat \ {0}
  /\ SweepEvery \in Nat \ {0}

VARIABLES
  now,         \* time.monotonic()
  results,     \* _results: key -> [at, place], the oldest at place 1
  skip,        \* _skip, likewise
  insertions   \* _insertions_since_sweep

cache == <<results, skip, insertions>>

Fresh(e) == now - e.at < CacheTTL
Live(tier, k) == k \in DOMAIN tier /\ Fresh(tier[k])

\* Those of the keys that stay, in the order they were in.
Kept(tier, keys) ==
  [k \in keys |->
     [at |-> tier[k].at,
      place |-> Cardinality({j \in keys : tier[j].place <= tier[k].place})]]

Pop(tier, k) == Kept(tier, DOMAIN tier \ {k})

\* A write keeps the place of a key that is there.
Write(tier, k) ==
  [j \in DOMAIN tier \cup {k} |->
     IF j # k THEN tier[j]
     ELSE [at |-> now,
           place |-> IF k \in DOMAIN tier THEN tier[k].place ELSE Cardinality(DOMAIN tier) + 1]]

\* _evict_over_cap_locked: FIFO by place.
Capped_OffByOne(tier) ==
  LET size == Cardinality(DOMAIN tier) IN
  IF size <= MaxEntries + 1 THEN tier
  ELSE Kept(tier, {k \in DOMAIN tier : tier[k].place >= size - MaxEntries})
Capped(tier) ==
  LET size == Cardinality(DOMAIN tier) IN
  IF size <= MaxEntries THEN tier
  ELSE Kept(tier, {k \in DOMAIN tier : tier[k].place > size - MaxEntries})

SweepDue == insertions + 1 >= SweepEvery
Swept(tier) == Kept(tier, {k \in DOMAIN tier : Fresh(tier[k])})

\* _count_insertion_and_maybe_sweep_locked, over the tiers just written.
CountInsertion_ResultsOnly(res, skp) ==
  /\ results' = IF SweepDue THEN Swept(res) ELSE res
  /\ skip' = skp
  /\ insertions' = IF SweepDue THEN 0 ELSE insertions + 1
CountInsertion(res, skp) ==
  /\ results' = IF SweepDue THEN Swept(res) ELSE res
  /\ skip' = IF SweepDue THEN Swept(skp) ELSE skp
  /\ insertions' = IF SweepDue THEN 0 ELSE insertions + 1

EmptyTier == [k \in {} |-> 0]

CacheInit ==
  /\ now = 0
  /\ results = EmptyTier
  /\ skip = EmptyTier
  /\ insertions = 0

-----------------------------------------------------------------------------
\* is_skipped and get: a live key answers, an expired one is popped.
IsSkipped(k) == Live(skip, k)
SkipLookup(k) ==
  /\ skip' = IF Live(skip, k) THEN skip ELSE Pop(skip, k)
  /\ UNCHANGED <<results, insertions>>

IsCached(k) == Live(results, k)
ResultLookup(k) ==
  /\ results' = IF Live(results, k) THEN results ELSE Pop(results, k)
  /\ UNCHANGED <<skip, insertions>>

PutResult(k) == CountInsertion(Capped(Write(results, k)), skip)
MarkSkip(k) == CountInsertion(results, Capped(Write(skip, k)))
MoveToSkip(k) == CountInsertion(Pop(results, k), Capped(Write(skip, k)))
Invalidate(k) ==
  /\ results' = Pop(results, k)
  /\ UNCHANGED <<skip, insertions>>
=============================================================================
