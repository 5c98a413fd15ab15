----------------------------- MODULE RequestPath -----------------------------
(***************************************************************************)
(* One process serving compress() calls on several threads, from the call   *)
(* to the messages it returns:                                             *)
(*   furl_ctx/compress.py            the fail-open boundary                 *)
(*   furl_ctx/transforms/pipeline.py the circuit breaker                    *)
(*   furl_ctx/transforms/router_engine.py, content_router.py,               *)
(*     router_blocks.py              the three passes and the cache gate    *)
(*   furl_ctx/transforms/router_ccr_mirror.py, smart_crusher.py,            *)
(*     _ccr_persist.py               the recovery copy behind each marker   *)
(*                                                                         *)
(* The threads share the result cache, the Rust store, the Python store and *)
(* the breaker.  A message is its content, and a content that is compressed *)
(* lossily has one marker: the content names the hash too.  An entry of     *)
(* either store can go at any moment, by its ttl, by eviction or by another *)
(* caller, and a durable write of the Python store can fail.                *)
(***************************************************************************)
EXTENDS RouterCache

CONSTANTS
  Threads,      \* threads that call compress()
  Contents,     \* message contents
  Lossy,        \* contents whose compressed form drops data behind a marker
  Crushed,      \* contents SmartCrusher takes; the shims take the others
  Blocks,       \* contents of Anthropic blocks, compressed inline in pass 1
  Ratio,        \* the compression ratio of each content
  MinRatios,    \* the min_ratio of a request, by its context pressure
  Threshold,    \* _breaker_threshold
  Cooldown,     \* _breaker_cooldown_s
  MaxMessages,  \* bound on the messages in progress, over all threads
  MaxRequests,  \* bound on the requests
  MaxEvents     \* bound on the clock's ticks and the entries the stores lose

ASSUME RequestAssumption ==
  /\ IsFiniteSet(Contents) /\ Contents # {}
  /\ Lossy \subseteq Contents /\ Crushed \subseteq Contents /\ Blocks \subseteq Contents
  /\ Ratio \in [Contents -> Nat]
  /\ MinRatios \subseteq Nat /\ MinRatios # {}
  /\ Threshold \in Nat \ {0} /\ Cooldown \in Nat \ {0}
  /\ {MaxMessages, MaxRequests, MaxEvents} \subseteq Nat

VARIABLES
  running,     \* the threads that are in the pipeline
  slot,        \* result_slots: what has become of each content of the request
  min_ratio,   \* of the request
  delivered,   \* the contents the last call returned in compressed form
  rust,        \* hashes the Rust store holds
  python,      \* hashes the Python store resolves
  failures,    \* _breaker_failures
  open_until,  \* _breaker_open_until
  requests,    \* how many requests have begun
  losses,      \* how many entries have gone
  seen,        \* history: hashes the request found resolvable as it settled them
  streak       \* history: failed requests since the last clean one

request == <<running, slot, min_ratio, delivered>>
stores == <<rust, python>>
breaker == <<failures, open_until, streak>>
vars == <<now, cache, request, stores, breaker, seen, requests, losses>>
bounds == <<requests, losses>>

\* The states of a content that pass 1 is looking up, that is being computed,
\* and that is settled.
LookingUp == {"unskipped", "tight", "hit", "mirrored", "unbacked"}
Computing == {"pending", "crushed", "backed", "vetoed"}
Settled == {"none", "original", "served"}
Status == {"todo", "failed"} \cup LookingUp \cup Computing \cup Settled

NoRequest == [c \in Contents |-> "none"]
In(t, statuses) == {c \in Contents : slot[t][c] \in statuses}
InProgress == {tc \in Threads \X Contents : slot[tc[1]][tc[2]] # "none"}

Init ==
  /\ CacheInit
  /\ running = {}
  /\ slot = [t \in Threads |-> NoRequest]
  /\ min_ratio = [t \in Threads |-> 0]
  /\ delivered = [t \in Threads |-> {}]
  /\ rust = {} /\ python = {}
  /\ failures = 0 /\ open_until = 0 /\ streak = 0
  /\ requests = 0 /\ losses = 0
  /\ seen = [t \in Threads |-> {}]

-----------------------------------------------------------------------------
(* The call.                                                               *)

Open == now < open_until

\* compress() enters the pipeline; an open breaker passes the messages through.
Begin(t) ==
  /\ t \notin running /\ requests < MaxRequests
  /\ requests' = requests + 1
  /\ delivered' = [delivered EXCEPT ![t] = {}]
  /\ \/ Open /\ UNCHANGED <<running, slot, min_ratio>>
     \/ /\ ~Open
        /\ running' = running \cup {t}
        /\ \E m \in MinRatios : min_ratio' = [min_ratio EXCEPT ![t] = m]
        /\ \E S \in SUBSET Contents :
             /\ S # {} /\ Cardinality(S) + Cardinality(InProgress) <= MaxMessages
             /\ slot' = [slot EXCEPT ![t] =
                           [c \in Contents |-> IF c \in S THEN "todo" ELSE "none"]]
  /\ UNCHANGED <<now, cache, stores, breaker, seen, losses>>

\* Pass 1 takes the messages one at a time and computes block contents inline;
\* an exception there ends the request.
Busy(t) == In(t, LookingUp) \cup (In(t, Computing) \cap Blocks)
Raised(t) == In(t, {"failed"}) \cap Blocks # {}
Pass1Done(t) == In(t, {"todo"}) \cup Busy(t) = {}
Pass2Done(t) == Pass1Done(t) /\ In(t, {"pending", "crushed", "failed"}) = {}

\* A step of t on content c, from status `from' to status `to'.
Moves(t, c, from, to) ==
  /\ t \in running
  /\ slot[t][c] = from
  /\ slot' = [slot EXCEPT ![t] = [slot[t] EXCEPT ![c] = to]]
  /\ UNCHANGED <<now, running, min_ratio, delivered, breaker, bounds>>

\* c is settled, or about to be: was its marker resolvable just then?
Sees(t, c) == seen' = [seen EXCEPT ![t] = seen[t] \cup ({c} \cap python')]

-----------------------------------------------------------------------------
(* Pass 1: _lookup_cached_disposition.                                      *)

LookupSkip(t, c) ==
  /\ Moves(t, c, "todo", IF IsSkipped(c) THEN "original" ELSE "unskipped")
  /\ Busy(t) = {} /\ ~Raised(t)
  /\ SkipLookup(c)
  /\ UNCHANGED <<stores, seen>>

Accepts(t, c) == Ratio[c] < min_ratio[t]

LookupResult_AnyRatio(t, c) ==
  /\ Moves(t, c, "unskipped", IF ~IsCached(c) THEN "pending" ELSE "hit")
  /\ ResultLookup(c)
  /\ UNCHANGED <<stores, seen>>
LookupResult(t, c) ==
  /\ Moves(t, c, "unskipped",
           IF ~IsCached(c) THEN "pending" ELSE IF Accepts(t, c) THEN "hit" ELSE "tight")
  /\ ResultLookup(c)
  /\ UNCHANGED <<stores, seen>>

\* The threshold has tightened: the result goes to the skip set.
Tightened(t, c) ==
  /\ Moves(t, c, "tight", "original")
  /\ MoveToSkip(c)
  /\ UNCHANGED <<stores, seen>>

\* ensure_ccr_backed, first half: re-mirror the marker from the Rust store, if
\* that still holds it; a failure is swallowed, and may leave a volatile copy.
ReMirror(t, c) ==
  /\ Moves(t, c, "hit", "mirrored")
  /\ \/ c \in Lossy \cap rust /\ python' = python \cup {c}
     \/ UNCHANGED python
  /\ UNCHANGED <<cache, rust, seen>>

Backed(c) == c \notin Lossy \/ c \in python

\* Second half: every marker must resolve.  A hit is served unless the mutation
\* gate of this position turns it down, which it does for no block.
VerifyBacked_Unchecked(t, c) ==
  /\ \/ Moves(t, c, "mirrored", "served")
     \/ c \notin Blocks /\ Moves(t, c, "mirrored", "original")
  /\ UNCHANGED <<cache, stores>>
  /\ Sees(t, c)
VerifyBacked(t, c) ==
  /\ \/ Backed(c) /\ Moves(t, c, "mirrored", "served")
     \/ Backed(c) /\ c \notin Blocks /\ Moves(t, c, "mirrored", "original")
     \/ ~Backed(c) /\ Moves(t, c, "mirrored", "unbacked")
  /\ UNCHANGED <<cache, stores>>
  /\ Sees(t, c)

DropUnbacked_Skips(t, c) ==
  /\ Moves(t, c, "unbacked", "pending")
  /\ MoveToSkip(c)
  /\ UNCHANGED <<stores, seen>>
DropUnbacked(t, c) ==
  /\ Moves(t, c, "unbacked", "pending")
  /\ Invalidate(c)
  /\ UNCHANGED <<stores, seen>>

-----------------------------------------------------------------------------
(* Pass 2: compress the misses; blocks were compressed in pass 1.           *)

MayCompute(t, c) == c \in Blocks \/ (Pass1Done(t) /\ ~Raised(t))

\* The compressor runs; SmartCrusher leaves what it drops in the Rust store.
Crush(t, c) ==
  /\ \/ /\ Moves(t, c, "pending", IF c \in Lossy THEN "crushed" ELSE "backed")
        /\ rust' = rust \cup (Lossy \cap Crushed \cap {c})
     \/ /\ Moves(t, c, "pending", "failed")
        /\ rust' \in {rust, rust \cup (Lossy \cap Crushed \cap {c})}
  /\ MayCompute(t, c)
  /\ UNCHANGED <<cache, python, seen>>

\* _mirror_single_hash_to_python_store of a typed ref: a miss in the Rust store
\* and a write that is not durable both raise.
MirrorTyped_MissSkipped(t, c) ==
  /\ c \in Crushed
  /\ \/ /\ Moves(t, c, "crushed", "backed")
        /\ python' = python \cup ({c} \cap rust)
     \/ /\ Moves(t, c, "crushed", "failed")
        /\ python' \in {python, python \cup {c}}
  /\ UNCHANGED <<cache, rust>>
  /\ Sees(t, c)
MirrorTyped(t, c) ==
  /\ c \in Crushed
  /\ \/ /\ c \in rust
        /\ Moves(t, c, "crushed", "backed")
        /\ python' = python \cup {c}
     \/ /\ Moves(t, c, "crushed", "failed")
        /\ python' \in {python, python \cup (rust \cap {c})}
  /\ UNCHANGED <<cache, rust>>
  /\ Sees(t, c)

\* persist_to_python_ccr of the shims: a failure vetoes, and the shim answers
\* with the original content.
PersistShim(t, c) ==
  /\ c \notin Crushed
  /\ \/ /\ Moves(t, c, "crushed", "backed")
        /\ python' = python \cup {c}
     \/ /\ Moves(t, c, "crushed", "vetoed")
        /\ python' \in {python, python \cup {c}}
  /\ UNCHANGED <<cache, rust>>
  /\ Sees(t, c)

-----------------------------------------------------------------------------
(* Pass 3: _store_disposition and the merge.                                *)

MayMerge(t, c) == IF c \in Blocks THEN ~Raised(t) ELSE Pass2Done(t)

\* The mutation gate: this position keeps its original, the cache learns nothing.
Gated(t, c) ==
  /\ Moves(t, c, "backed", "original")
  /\ c \notin Blocks /\ MayMerge(t, c)
  /\ UNCHANGED <<cache, stores, seen>>

Accepted(t, c) ==
  /\ Moves(t, c, "backed", "served")
  /\ MayMerge(t, c) /\ Accepts(t, c)
  /\ PutResult(c)
  /\ UNCHANGED <<stores, seen>>

Rejected(t, c) ==
  /\ \/ Moves(t, c, "vetoed", "original")
     \/ Moves(t, c, "backed", "original") /\ ~Accepts(t, c)
  /\ MayMerge(t, c)
  /\ MarkSkip(c)
  /\ UNCHANGED <<stores, seen>>

-----------------------------------------------------------------------------
(* The end of the call.                                                    *)

Returns(t, contents) ==
  /\ running' = running \ {t}
  /\ delivered' = [delivered EXCEPT ![t] = contents]
  /\ slot' = [slot EXCEPT ![t] = NoRequest]
  /\ min_ratio' = [min_ratio EXCEPT ![t] = 0]
  /\ seen' = [seen EXCEPT ![t] = {}]
  /\ UNCHANGED <<now, cache, stores, bounds>>

\* Every transform ran; the inflation guard may still return the originals.
Succeed_KeepsCount(t) ==
  /\ t \in running
  /\ \A c \in Contents : slot[t][c] \in Settled
  /\ streak' = 0
  /\ UNCHANGED <<failures, open_until>>
  /\ Returns(t, In(t, {"served"})) \/ Returns(t, {})
Succeed(t) ==
  /\ t \in running
  /\ \A c \in Contents : slot[t][c] \in Settled
  /\ failures' = 0 /\ streak' = 0
  /\ UNCHANGED open_until
  /\ Returns(t, In(t, {"served"})) \/ Returns(t, {})

RecordFailure ==
  /\ failures' = IF failures + 1 >= Threshold THEN 0 ELSE failures + 1
  /\ open_until' = IF failures + 1 >= Threshold THEN now + Cooldown ELSE open_until
  /\ streak' = streak + 1

\* An exception leaves the pipeline once no worker is in the middle of a content;
\* compress() answers with the original messages.
Fail_WhenAllDone(t) ==
  /\ t \in running
  /\ In(t, {"failed"}) # {}
  /\ \A c \in Contents : slot[t][c] \in Settled \cup {"failed"}
  /\ RecordFailure
  /\ Returns(t, {})
Fail_ReturnsServed(t) ==
  /\ t \in running
  /\ In(t, {"failed"}) # {} /\ In(t, {"crushed"}) = {}
  /\ RecordFailure
  /\ Returns(t, In(t, {"served"}))
Fail(t) ==
  /\ t \in running
  /\ In(t, {"failed"}) # {} /\ In(t, {"crushed"}) = {}
  /\ RecordFailure
  /\ Returns(t, {})

\* KeyboardInterrupt, SystemExit or a panic that is no Exception: nothing
\* compressed is returned and the breaker does not count it.  The pool's workers
\* end first; inline work does not.
Interrupt(t) ==
  /\ t \in running /\ In(t, {"crushed"}) \subseteq Blocks
  /\ UNCHANGED breaker
  /\ Returns(t, {})

-----------------------------------------------------------------------------
LosesRust(c) ==
  /\ now + losses < MaxEvents /\ losses' = losses + 1
  /\ c \in rust /\ rust' = rust \ {c}
  /\ UNCHANGED <<now, cache, request, python, breaker, seen, requests>>

LosesPython(c) ==
  /\ now + losses < MaxEvents /\ losses' = losses + 1
  /\ c \in python /\ python' = python \ {c}
  /\ UNCHANGED <<now, cache, request, rust, breaker, seen, requests>>

Tick ==
  /\ now + losses < MaxEvents /\ now' = now + 1
  /\ UNCHANGED <<cache, request, stores, breaker, seen, bounds>>

ContentStep(t, c) ==
  \/ LookupSkip(t, c) \/ LookupResult(t, c) \/ Tightened(t, c)
  \/ ReMirror(t, c) \/ VerifyBacked(t, c) \/ DropUnbacked(t, c)
  \/ Crush(t, c) \/ MirrorTyped(t, c) \/ PersistShim(t, c)
  \/ Gated(t, c) \/ Accepted(t, c) \/ Rejected(t, c)

Progress(t) ==
  \/ \E c \in Contents : ContentStep(t, c)
  \/ Succeed(t)
  \/ Fail(t)

Next ==
  \/ Tick
  \/ \E c \in Contents : LosesRust(c) \/ LosesPython(c)
  \/ \E t \in Threads : Begin(t) \/ Progress(t) \/ Interrupt(t)

Spec == Init /\ [][Next]_vars

-----------------------------------------------------------------------------
Tier ==
  UNION {{tier \in [K -> [at : 0..MaxEvents, place : 1..Cardinality(K)]] :
            \A j, k \in K : tier[j].place = tier[k].place => j = k} :
         K \in {S \in SUBSET Contents : Cardinality(S) <= MaxEntries}}

\* The types; a tier of the cache is within its cap, its keys in an order.
TypeOK ==
  /\ now \in 0..MaxEvents
  /\ results \in Tier /\ skip \in Tier
  /\ insertions \in 0..(SweepEvery - 1)
  /\ running \subseteq Threads
  /\ slot \in [Threads -> [Contents -> Status]]
  /\ min_ratio \in [Threads -> MinRatios \cup {0}]
  /\ delivered \in [Threads -> SUBSET Contents]
  /\ rust \subseteq Contents /\ python \subseteq Contents
  /\ failures \in 0..(Threshold - 1)
  /\ open_until \in 0..(MaxEvents + Cooldown)
  /\ requests \in 0..MaxRequests /\ streak \in 0..MaxRequests
  /\ seen \in [Threads -> SUBSET Contents] /\ losses \in 0..MaxEvents

\* A call that returns now, and what it returns compressed.
Returned(t) == t \in running \ running'

\* No marker is returned on trust: whatever the caches, the stores and the other
\* threads do, the request itself found the Python store to resolve every marker
\* it returns, whether the content was computed or came from the result cache.
MarkersBacked ==
  [][\A t \in Threads : Returned(t) => delivered'[t] \cap Lossy \subseteq seen[t]]_vars

\* One recovery copy that could not be made takes the whole request back to its
\* originals, contents that were served already included.
FailureRevertsAll ==
  [][\A t \in Threads : Returned(t) /\ In(t, {"failed"}) # {} => delivered'[t] = {}]_vars

\* A result computed under a looser threshold is not served under a tighter one.
ServedQualifies ==
  [][\A t \in Threads : Returned(t) => \A c \in delivered'[t] : Accepts(t, c)]_vars

\* What a call returns is sound: backed, all or nothing, and within its threshold.
ReturnsSound == MarkersBacked /\ FailureRevertsAll /\ ServedQualifies

\* The skip set holds no content of SmartCrusher's that every request accepts: a
\* recovery copy that cannot be made raises there and is never taken for
\* content that does not compress, nor is a result whose copy is gone.
SkipJustified ==
  \A c \in DOMAIN skip : c \notin Crushed \/ \E m \in MinRatios : Ratio[c] >= m

\* An expired entry outlives its ttl by less than SweepEvery insertions, whichever
\* tier it is in and whichever tier the insertions went to.
StragglersSwept ==
  [][insertions' < insertions =>
       \A tier \in {results', skip'} : \A k \in DOMAIN tier : Fresh(tier[k])]_vars

\* The breaker opens on every Threshold-th failure in a row, counted across the
\* threads in the order they end, and on no other.
TripsOnStreak ==
  [][IF streak' > streak /\ streak' % Threshold = 0 THEN open_until' = now + Cooldown
     ELSE UNCHANGED open_until]_vars

\* The phases of the code: a content whose turn it is, and a call that may end.
MayMove(t, c) ==
  \/ slot[t][c] \in LookingUp \cup {"crushed"}
  \/ slot[t][c] = "todo" /\ Busy(t) = {} /\ ~Raised(t)
  \/ slot[t][c] = "pending" /\ MayCompute(t, c)
  \/ slot[t][c] \in {"backed", "vetoed"} /\ MayMerge(t, c)
MayEnd(t) ==
  \/ \A c \in Contents : slot[t][c] \in Settled
  \/ In(t, {"failed"}) # {} /\ In(t, {"crushed"}) = {}

\* A call always has a next step of its own until it returns, whichever of its
\* contents failed, and where: no phase waits for one that waits for it, and what
\* a phase lets through has a step, so the fail-open answer waits for nothing.
NobodyWaits == \A t \in running : MayEnd(t) \/ \E c \in Contents : MayMove(t, c)
NeverStuck ==
  \A t \in running :
    /\ \A c \in Contents : MayMove(t, c) => ENABLED ContentStep(t, c)
    /\ MayEnd(t) => ENABLED (Succeed(t) \/ Fail(t))

\* The types, and that.
CallsSound == TypeOK /\ NobodyWaits /\ NeverStuck
=============================================================================
